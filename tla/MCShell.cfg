CONSTANTS
    music = music
    Publications <- MCPublications
    Works <- MCWorks
    People <- MCPeople
    Kinds <- MCKinds
    Reviewers <- MCReviewers
    Valued <- MCValued
    Unclassified = Unclassified
    Value = Value
    Libraries <- MCLibraries
    Home = 1
    Texts <- MCTexts
    Names <- MCNames
    NoText = NoText
    Roles <- MCRoles
    Session = "shell"
    MaxLines = 1
    MaxActs = 1

SPECIFICATION ShellSpec

INVARIANT
    SelectionIsThere

PROPERTIES
    ListedProposalsStay
    NamesAreNotGuessed

CHECK_DEADLOCK FALSE
