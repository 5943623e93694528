CONSTANTS
    u1 = u1
    u2 = u2
    pub = pub
    who = who
    jpg = jpg
    png = png
    Users <- MCUsers
    Publications = {pub}
    People = {who}
    Images = {jpg, png}
    Filenames = {jpg}
    NoFile = NoFile
    MaxUploads = 3
    MaxHoldings = 3
    MaxCount = 3

SPECIFICATION Spec
SYMMETRY UsersAreAlike

INVARIANTS
    HoldingsHaveTheirFiles
    NothingIsLeftBehind

PROPERTIES
    OnlyImagesDisturbImages

CHECK_DEADLOCK FALSE
