------------------------------- MODULE MCShell -------------------------------
(* A session on two libraries, one with a publication, a work and a person,  *)
(* where names can be ids.                                                   *)
EXTENDS Shell, TLC

CONSTANTS music

MCLibraries == {1, 2}
MCPublications == {1}
MCWorks == {4}
MCPeople == {2, 3}
MCNames == {0, 2}
MCTexts == {0, 1, 2, 3, 4}
MCKinds == {music}
MCRoles == {"author", "editor"}
MCReviewers == {"shell"}
MCValued == {1}
=============================================================================
