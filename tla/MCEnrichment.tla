---------------------------- MODULE MCEnrichment ----------------------------
(* One publication whose edition has two authors of one name, enriched twice *)
(* by the same engine or by one that was restarted, and one reviewer.        *)
EXTENDS Enrichment, TLC

CONSTANTS p1, a1, a2, r1, music, n1

MCPublications == {p1}
MCNone == {}
MCPeople == 1..2
MCAuthors == {a1, a2}
MCNameOf == [a \in Authors |-> n1]
MCReviewers == {r1}
MCKinds == {music}
NamesakesAreAlike == Permutations(Authors)
=============================================================================
