SPECIFICATION Spec
CHECK_DEADLOCK FALSE
CONSTANTS
    bach = bach
    busch = busch
    suite = suite
    partita = partita
    bwv = bwv
    solo = solo
    isbn = isbn
    u1 = u1
    u2 = u2
    copy = copy
    scan = scan
    Titles = {suite, partita}
    Names = {bach, busch}
    Numbers = {bwv}
    Tags = {solo}
    Identifiers = {isbn}
    Urls = {u1, u2}
    Copies = {copy, scan}
    Address <- MCAddress
    HostsKnown <- MCHostsKnown
    LastVersion = 2
    PublicationPosts <- MCPublicationPosts
    WorkPosts <- MCWorkPosts
    Starts <- MCStarts
INVARIANT
    RecordsAreFoundAgain
PROPERTY
    EditsTellWhatTheyDid
    UpdatesTellUnlessStale
    OpeningRecognizes
