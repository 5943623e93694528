--------------------------- MODULE MCPendingImports ---------------------------
(* Two imports that can share a draft work and a draft person, submitted by  *)
(* two requests while works of the catalog are edited and merged.            *)
EXTENDS PendingImports

CONSTANTS r1, r2, bach, bwv

MCRequests == {r1, r2}
MCNames == {bach}
MCNumbers == {bwv}

Typed(person) == [name |-> bach, person |-> person]
Row(ref, credits, numbers) == [ref |-> ref, credits |-> credits, numbers |-> numbers]

Rows(tables, d) ==
    {Row(NewWork, <<Typed(Unresolved)>>, {bwv}), Row(NewWork, <<Typed(NewPerson)>>, {})}
    \union {Row(DraftWork(w), <<Typed(Unresolved)>>, {}) : w \in DOMAIN d.works}
    \union {Row(StoredWork(w), <<>>, {}) : w \in 1 .. tables.last.works}
\* A page that lists at most two works, one of them in the catalog or shared.
MCPosts(tables, d) ==
    LET rows == Rows(tables, d)
        picked == {row \in rows : row.ref # NewWork}
    IN [credits : {<<>>, <<Typed(Unresolved)>>},
        contents : {<<row>> : row \in rows}
                      \union {<<p[1], p[2]>> : p \in {p \in picked \X picked : p[1].ref # p[2].ref}}]

\* One publication with two works by one composer.
MCCatalog ==
    [library |-> TRUE,
     works |-> <<[composers |-> {1}, numbers |-> {bwv}], [composers |-> {1}, numbers |-> {}]>>,
     people |-> <<bach>>,
     pubs |-> <<[works |-> {1, 2}, credits |-> {}, held |-> {Copy}]>>,
     last |-> [works |-> 2, people |-> 1, pubs |-> 1]]

Budget(imports, saves, changes, edits) ==
    [imports |-> imports, saves |-> saves, changes |-> changes, edits |-> edits]
MCBudgets == {Budget(2, 2, 0, 0), Budget(1, 2, 1, 0), Budget(1, 1, 0, 1), Budget(0, 0, 1, 1)}
RequestsAreAlike == Permutations(Requests)
=============================================================================
