------------------------------ MODULE DraftStore ------------------------------
(***************************************************************************)
(* The archive's drafts (draft.rs), which live in memory behind one lock:  *)
(* the pending imports of a library, the draft works they contain and the  *)
(* draft people either credits.  Two imports may share both.  Every        *)
(* function of the store runs under the lock, so it is an operator here,   *)
(* on the store as it was to the store as it leaves it.                    *)
(*                                                                         *)
(* A credit is a name and whom it refers to; the one role is composer.     *)
(* Holdings and what lookups found about people take ids of the same       *)
(* counter, and are left out with them.                                    *)
(***************************************************************************)
EXTENDS ArchiveTables

EmptyStore == [imports |-> <<>>, works |-> <<>>, persons |-> <<>>, lastId |-> 0]

NewImport == [accepting |-> FALSE, saved |-> FALSE, credits |-> <<>>, contents |-> <<>>]

Has(d, i) == i \in DOMAIN d.imports
Editable(d, i) == Has(d, i) /\ ~d.imports[i].accepting

CreditedBy(d, i) == {c.person : c \in ToSet(d.imports[i].credits)}
CreditedByWork(d, w) == {c.person : c \in ToSet(d.works[w].credits)}

DraftsContained(d) == {w \in DOMAIN d.works :
                         \E i \in DOMAIN d.imports :
                            DraftWork(w) \in ToSet(d.imports[i].contents)}
OnlyImportsCount(d) == {x \in DOMAIN d.persons :
                          \E i \in DOMAIN d.imports : DraftPerson(x) \in CreditedBy(d, i)}
DraftsCredited(d) == {x \in DOMAIN d.persons :
                        \/ \E i \in DOMAIN d.imports : DraftPerson(x) \in CreditedBy(d, i)
                        \/ \E w \in DOMAIN d.works : DraftPerson(x) \in CreditedByWork(d, w)}

\* LibraryDrafts::collect
CollectDraftWorks(d) == [d EXCEPT !.works = Restrict(@, DraftsContained(d))]
CollectDraftPersons(d) == [d EXCEPT !.persons = Restrict(@, DraftsCredited(d))]
CollectsPersonsFirst(d) == CollectDraftWorks(CollectDraftPersons(d))
CollectDrafts(d) == CollectDraftPersons(CollectDraftWorks(d))

\* ImportEntry::dedupe
Dedupe(refs) == FoldLeft(LAMBDA seen, r : IF Contains(seen, r) THEN seen ELSE Append(seen, r),
                         <<>>, refs)

-----------------------------------------------------------------------------
StartImport(d) ==
    [d EXCEPT !.imports = With(@, d.lastId + 1, NewImport), !.lastId = @ + 1]

BeginAccept(d, i) == [d EXCEPT !.imports[i].accepting = TRUE]
EndAccept(d, i) ==
    IF Has(d, i) THEN [d EXCEPT !.imports[i].accepting = FALSE] ELSE d

Forget(d, i) == CollectDrafts([d EXCEPT !.imports = Restrict(@, DOMAIN @ \ {i})])
DropLibrary(d) == [EmptyStore EXCEPT !.lastId = d.lastId]

\* What an accept takes with it: the import's drafts, and the draft people there are.
Snapshot(d, i) ==
    [credits |-> d.imports[i].credits,
     contents |-> [k \in DOMAIN d.imports[i].contents |->
                     LET r == d.imports[i].contents[k] IN
                     [ref |-> r,
                      credits |-> IF r[1] = "draft" THEN d.works[r[2]].credits ELSE <<>>,
                      numbers |-> IF r[1] = "draft" THEN d.works[r[2]].numbers ELSE {}]],
     drafted |-> d.persons]

-----------------------------------------------------------------------------
(***************************************************************************)
(* save: whom each credit names, then which work each content is           *)
(***************************************************************************)

\* input::resolve_name, over the stored people and the drafts.
Namesakes(d, people, name) ==
    {Linked(x) : x \in {x \in DOMAIN people : people[x] = name}}
      \union {DraftPerson(x) : x \in {x \in DOMAIN d.persons : d.persons[x] = name}}
ResolveName(d, people, name) ==
    LET namesakes == Namesakes(d, people, name) IN
    CASE namesakes = {} -> NewPerson
      [] Cardinality(namesakes) = 1 -> CHOOSE x \in namesakes : TRUE
      [] OTHER -> Unresolved

IsThere(d, people, person) ==
    \/ person[1] = "linked" /\ person[2] \in DOMAIN people
    \/ person[1] = "draft" /\ person[2] \in DOMAIN d.persons

\* Whom a credit refers to; a person picked on a page can be gone by now.
Referent(d, people, c) ==
    IF c.person = NewPerson \/ IsThere(d, people, c.person) THEN c.person
    ELSE ResolveName(d, people, c.name)

\* resolve_credit.  a.created: the draft people this save created, by name.
ResolveCredit(a, people, c) ==
    LET who == Referent(a, people, c)
        id == a.lastId + 1
        credit(x) == [name |-> c.name, person |-> x]
    IN CASE who # NewPerson -> [a EXCEPT !.list = Append(@, credit(who))]
         [] who = NewPerson /\ c.name \in DOMAIN a.created ->
              [a EXCEPT !.list = Append(@, credit(DraftPerson(a.created[c.name])))]
         [] OTHER ->
              [a EXCEPT !.lastId = id,
                        !.persons = With(@, id, c.name),
                        !.created = With(@, c.name, id),
                        !.list = Append(@, credit(DraftPerson(id)))]

ResolveCredits(a, people, list) == FoldLeft(LAMBDA x, c : ResolveCredit(x, people, c), a, list)
ResolveList(a, people, list) ==
    LET b == ResolveCredits([a EXCEPT !.list = <<>>], people, list)
    IN [b EXCEPT !.lists = Append(@, b.list)]

\* Each list of credits in turn, over one `created`; a.lists: what they became.
ResolveLists(d, people, lists) ==
    FoldLeft(LAMBDA a, list : ResolveList(a, people, list),
             [persons |-> d.persons, lastId |-> d.lastId, created |-> <<>>,
              list |-> <<>>, lists |-> <<>>], lists)

\* DraftStore::save, with the people and the works that the caller read as stored.  A content
\* is a stored work, a draft that the store has, or else a new draft.
Save(d, i, post, people, there) ==
    LET rows == post.contents
        resolved == ResolveLists(d, people,
                                 <<post.credits>> \o [k \in DOMAIN rows |-> rows[k].credits])
        IsStored(k) == rows[k].ref[1] = "stored" /\ rows[k].ref[2] \in there
        IsKnown(k) == rows[k].ref[1] = "draft" /\ rows[k].ref[2] \in DOMAIN d.works
        new == {k \in DOMAIN rows : ~IsStored(k) /\ ~IsKnown(k)}
        id(k) == IF IsKnown(k) THEN rows[k].ref[2]
                 ELSE resolved.lastId + Cardinality(new \intersect 1 .. k)
        written == {k \in DOMAIN rows : ~IsStored(k)}
        work(k) == [credits |-> resolved.lists[k + 1], numbers |-> rows[k].numbers]
        entry == [accepting |-> FALSE, saved |-> TRUE,
                  credits |-> resolved.lists[1],
                  contents |-> Dedupe([k \in DOMAIN rows |->
                                 IF IsStored(k) THEN rows[k].ref ELSE DraftWork(id(k))])]
    IN CollectDrafts(
         [imports |-> [d.imports EXCEPT ![i] = entry],
          works |-> [w \in DOMAIN d.works \union {id(k) : k \in written} |->
                       IF \E k \in written : id(k) = w
                       THEN work(Max({k \in written : id(k) = w}))
                       ELSE d.works[w]],
          persons |-> resolved.persons,
          lastId |-> resolved.lastId + Cardinality(new)])

-----------------------------------------------------------------------------
(***************************************************************************)
(* What a commit does to the drafts                                        *)
(***************************************************************************)

Relink(refs, m) ==
    Dedupe([k \in DOMAIN refs |-> IF refs[k] = StoredWork(m.from) THEN StoredWork(m.into)
                                  ELSE refs[k]])
\* relink_works: from each absorbed work to its survivor, one merge after the other.
Relinked(refs, merges) == FoldLeft(Relink, refs, merges)
RelinkEntry(entry, merges) == [entry EXCEPT !.contents = Relinked(@, merges)]
RelinkWorks(d, merges) ==
    [d EXCEPT !.imports = [i \in DOMAIN @ |-> RelinkEntry(@[i], merges)]]

RelinkCredits(credits, persons) ==
    [k \in DOMAIN credits |->
       IF \E p \in persons : credits[k].person = DraftPerson(p[1])
       THEN LET p == CHOOSE p \in persons : credits[k].person = DraftPerson(p[1])
            IN [credits[k] EXCEPT !.person = Linked(p[2])]
       ELSE credits[k]]

RelinkContents(refs, works) ==
    Dedupe([k \in DOMAIN refs |->
              IF \E w \in works : refs[k] = DraftWork(w[1])
              THEN StoredWork((CHOOSE w \in works : refs[k] = DraftWork(w[1]))[2])
              ELSE refs[k]])

AcceptEntry(entry, works, persons) ==
    [entry EXCEPT !.contents = RelinkContents(@, works), !.credits = RelinkCredits(@, persons)]
AcceptWork(work, persons) == [work EXCEPT !.credits = RelinkCredits(@, persons)]

\* DraftStore::accept: the import is gone, and what shared its drafts has what they became.
Accept(d, i, works, persons) ==
    LET others == DOMAIN d.imports \ {i} IN
    CollectDrafts(
      [d EXCEPT
         !.imports = [j \in others |-> AcceptEntry(@[j], works, persons)],
         !.works = [w \in DOMAIN @ |-> AcceptWork(@[w], persons)]])

=============================================================================
