--------------------------- MODULE MCImportSeeding ---------------------------
(* A lookup that finds an author, and two requests. *)
EXTENDS ImportSeeding, TLC

CONSTANTS r1, r2, typed, listed, isbn, a1

MCRequests == {r1, r2}
MCFields == {"title"}
MCTyped == {typed}
MCListed == {listed}
MCItems == {isbn}
MCAuthors == {a1}
\* The page as shown with its title typed or its author removed, or with a work on it;
\* or a page of before the lookup.
MCPosted(draft, authors) ==
    {[draft EXCEPT !.fields.title = typed, !.credits = {}],
     [draft EXCEPT !.fields.title = typed, !.credits = authors],
     [draft EXCEPT !.work = IF @ = NoWork THEN Blank ELSE @],
     [BlankDraft EXCEPT !.fields.title = typed, !.items = MCItems]}
RequestsAreAlike == Permutations(Requests)
=============================================================================
