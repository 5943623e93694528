CONSTANTS
    r1 = r1
    r2 = r2
    bach = bach
    bwv = bwv
    Requests <- MCRequests
    Names <- MCNames
    Numbers <- MCNumbers
    Posts <- MCPosts
    Catalog <- MCCatalog
    Budgets <- MCBudgets

SPECIFICATION Spec
SYMMETRY RequestsAreAlike

INVARIANTS
    DraftsAreKeptWhileNeeded
    AcceptsFindTheirPersons
    EndsOnce
    ClaimsAreGivenUp
    EveryWorkIsContained

PROPERTIES
    OnlyAcceptsOrphanPeople

CHECK_DEADLOCK FALSE
