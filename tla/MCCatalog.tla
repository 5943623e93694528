------------------------------ MODULE MCCatalog ------------------------------
(* Two publications that can share a work and its contributor, edited by     *)
(* everyone while one reviewer accepts and discards.                         *)
EXTENDS Catalog, TLC

CONSTANTS p1, p2, w1, x1, x2, r1, music

MCTwoPublications == {p1, p2}
MCOnePublication == {p1}
MCWorks == {w1}
MCOnePerson == {x1}
MCTwoPeople == {x1, x2}
MCKinds == {music}
MCUnclassified == {}
MCReviewers == {r1}
MCNothingValued == {}
MCWorkValued == {w1}
RowsAreAlike == Permutations(Publications) \union Permutations(People)
=============================================================================
