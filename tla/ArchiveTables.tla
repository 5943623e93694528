---------------------------- MODULE ArchiveTables ----------------------------
(***************************************************************************)
(* The tables of one library of the archive (crates/scorarium-archive), as *)
(* what each of its write operations makes of them.                        *)
(*                                                                         *)
(* A write is one SQLite transaction, so an operation is a function on the *)
(* transaction's state: the tables as it sees them, the merges it has to   *)
(* report (WorkMerges), the audit entries it recorded, whether every       *)
(* statement so far succeeded, and the id its last call returned.  A       *)
(* transaction with ok = FALSE returned an error and is rolled back by     *)
(* whoever began it.                                                       *)
(*                                                                         *)
(* A publication's row has its works, its credits and what is held of it,  *)
(* a work's its composers and catalog numbers; a module that needs more    *)
(* gives its rows more fields, which are written and merged by name.  The  *)
(* one role is composer, the role duplicates are recognised by.            *)
(***************************************************************************)
EXTENDS SequencesExt

\* WorkRef and PersonRef: a reference by a form, a draft, or the tables.
StoredWork(w) == <<"stored", w>>
DraftWork(w) == <<"draft", w>>
NewWork == <<"none", 0>>
Linked(x) == <<"linked", x>>
DraftPerson(x) == <<"draft", x>>
NewPerson == <<"new", 0>>
Unresolved == <<"unresolved", 0>>

\* A row, or a field, more.
With(f, k, v) == [x \in DOMAIN f \union {k} |-> IF x = k THEN v ELSE f[x]]

Transaction(t) == [t |-> t, merges |-> <<>>, events |-> {}, ok |-> TRUE, id |-> 0]
Fail(x) == [x EXCEPT !.ok = FALSE]
Returns(x, id) == [x EXCEPT !.id = id]

\* Audited::record.  An entity is named by its table and its id.
Event(source, action, on, field) ==
    [source |-> source, action |-> action, on |-> on, field |-> field]
Record(x, source, action, on, field) ==
    [x EXCEPT !.events = @ \union {Event(source, action, on, field)}]

Entities(t) == {<<"pubs", p>> : p \in DOMAIN t.pubs}
                  \union {<<"works", w>> : w \in DOMAIN t.works}
                  \union {<<"people", x>> : x \in DOMAIN t.people}

HasWork(t, w) == w \in DOMAIN t.works

\* Every reference in the tables is to a row of the library (the foreign keys).
IsConsistent(t) ==
    /\ \A w \in DOMAIN t.works : t.works[w].composers \subseteq DOMAIN t.people
    /\ \A p \in DOMAIN t.pubs : /\ t.pubs[p].works \subseteq DOMAIN t.works
                                /\ t.pubs[p].credits \subseteq DOMAIN t.people
    /\ ~t.library => /\ DOMAIN t.works = {}
                     /\ DOMAIN t.people = {}
                     /\ DOMAIN t.pubs = {}

-----------------------------------------------------------------------------
(***************************************************************************)
(* Orphans: "Order matters, because cleaning some orphans can result in    *)
(* new orphans" (library::collect_orphans).                                *)
(***************************************************************************)
HeldPubs(t) == {p \in DOMAIN t.pubs : t.pubs[p].held # {}}
ContainedWorks(t) == UNION {t.pubs[p].works : p \in DOMAIN t.pubs}
CreditedPeople(t) == (UNION {t.pubs[p].credits : p \in DOMAIN t.pubs})
                         \union (UNION {t.works[w].composers : w \in DOMAIN t.works})

CollectPubs(t) == [t EXCEPT !.pubs = Restrict(@, HeldPubs(t))]
CollectWorks(t) == [t EXCEPT !.works = Restrict(@, DOMAIN @ \intersect ContainedWorks(t))]
CollectPeople(t) == [t EXCEPT !.people = Restrict(@, DOMAIN @ \intersect CreditedPeople(t))]

CollectsPeopleFirst(t) == CollectWorks(CollectPeople(CollectPubs(t)))
CollectOrphans(t) == CollectPeople(CollectWorks(CollectPubs(t)))

\* Every row that goes is recorded, as deleted by the cleanup.
Collected(x) ==
    LET left == CollectOrphans(x.t)
        gone == Entities(x.t) \ Entities(left)
    IN [x EXCEPT !.t = left,
                 !.events = @ \union {Event("orphan_cleanup", "deleted", e, "none") : e \in gone}]

-----------------------------------------------------------------------------
(***************************************************************************)
(* Works: duplicates and merges                                            *)
(***************************************************************************)

\* The oldest other work sharing a composer and a catalog number, if any.
Duplicates(t, w) ==
    {v \in DOMAIN t.works \ {w} :
       /\ t.works[v].composers \intersect t.works[w].composers # {}
       /\ t.works[v].numbers \intersect t.works[w].numbers # {}}

\* A link is a URL and the record of an external site it names, if any.
Generic == [kind |-> "generic"]
IsSameLink(a, b) == a.url = b.url \/ (a.record # Generic /\ a.record = b.record)
\* INSERT OR IGNORE: an owner has a URL once, and a record once.
AddLink(links, link) ==
    IF \E l \in ToSet(links) : IsSameLink(l, link) THEN links ELSE Append(links, link)
RemoveLink(links, link) ==
    FoldLeft(LAMBDA left, l : IF IsSameLink(l, link) THEN left ELSE Append(left, l), <<>>, links)

AddLinks(links, more) == FoldLeft(AddLink, links, more)

\* What a survivor's field ends as, given what it has and what the other had.
Gained(field, kept, absorbed) ==
    CASE field = "title" -> kept
      [] field = "links" -> AddLinks(kept, absorbed)
      [] OTHER -> kept \union absorbed

MergeContents(pub, from, into) ==
    [pub EXCEPT !.works = IF from \in @ THEN (@ \ {from}) \union {into} ELSE @]

\* work::merge_works: the survivor gains what the other has, then that is deleted.
MergeWorks(x, from, into) ==
    [x EXCEPT
       !.t.works =
          LET gains == [f \in DOMAIN @[into] |-> Gained(f, @[into][f], @[from][f])]
          IN [w \in DOMAIN @ \ {from} |-> IF w = into THEN gains ELSE @[w]],
       !.t.pubs = [p \in DOMAIN @ |-> MergeContents(@[p], from, into)],
       !.merges = Append(@, [from |-> from, into |-> into])]

\* work::absorb_into_duplicate, returning the work that is left.
AbsorbIntoDuplicate(x, w) ==
    LET duplicates == Duplicates(x.t, w) IN
    IF duplicates = {} THEN Returns(x, w)
    ELSE LET into == Min(duplicates)
             merged == MergeWorks(x, w, into)
         IN Returns(Record(merged, "merge", "merged", <<"works", into>>, "none"), into)

-----------------------------------------------------------------------------
(***************************************************************************)
(* Writing rows.  A credit names a person of the tables by now; one that   *)
(* is gone is an error (person::credited_person).                          *)
(***************************************************************************)
CreatePerson(x, row) ==
    LET id == x.t.last.people + 1 IN
    Returns([x EXCEPT !.t.people = With(@, id, row), !.t.last.people = id], id)

CreateNewPerson(a, p) ==
    LET y == CreatePerson(a.x, p[2]) IN [x |-> y, id |-> With(a.id, p, y.id)]
CreateEach(a, persons) == FoldLeft(CreateNewPerson, a, persons)
\* person::create_new_persons: the id behind every reference, a new person created once.
CreateNewPersons(x, persons) ==
    LET new == {p \in persons : p[1] = "new"}
    IN CreateEach([x |-> x, id |-> [p \in persons \ new |-> p[2]]], SetToSeq(new))

\* What an input writes to the row: all but which row it is.
RowOf(input) == Restrict(input, DOMAIN input \ {"ref"})
HasChildren(row) ==
    \/ row.composers # {} \/ row.numbers # {}
    \/ "links" \in DOMAIN row /\ row.links # <<>>
    \/ "tags" \in DOMAIN row /\ row.tags # {}

\* The UPDATE, and the write_work functions, which rebuild what hangs off the row outright.
WriteWork(x, w, input) ==
    IF ~HasWork(x.t, w) /\ ~HasChildren(RowOf(input)) THEN x
    ELSE IF ~HasWork(x.t, w) \/ ~input.composers \subseteq DOMAIN x.t.people THEN Fail(x)
    ELSE [x EXCEPT !.t.works[w] = RowOf(input)]

\* work::write_linked_work
WriteLinkedWork(x, w, input) ==
    LET written == WriteWork(x, w, input) IN
    IF written.ok /\ HasWork(written.t, w) THEN AbsorbIntoDuplicate(written, w)
    ELSE Returns(written, w)

\* work::link_work_to_publication: the link is unique, and a second one an error.
LinkWork(x, p, w) ==
    IF w \in x.t.pubs[p].works THEN Fail(x)
    ELSE [x EXCEPT !.t.pubs[p] = With(@, "works", @.works \union {w})]

InsertWork(x, row) ==
    LET id == x.t.last.works + 1 IN
    Returns([x EXCEPT !.t.works = With(@, id, row), !.t.last.works = id], id)

\* work::create_work_in_publication
CreateWorkIn(x, p, input) ==
    LET created == InsertWork(x, RowOf(input)) IN
    WriteLinkedWork(LinkWork(created, p, created.id), created.id, input)

\* work::link_or_create_work
LinkOrCreateWork(x, p, input) ==
    IF ~x.ok THEN x
    ELSE IF input.ref[1] = "stored" /\ HasWork(x.t, input.ref[2])
    THEN LET linked == LinkWork(x, p, input.ref[2]) IN
         IF linked.ok THEN WriteLinkedWork(linked, input.ref[2], input) ELSE linked
    ELSE CreateWorkIn(x, p, input)

\* write_publication_children: everything about a publication but its contents.
WriteChildren(x, p, row) ==
    IF row.credits \subseteq DOMAIN x.t.people
    THEN [x EXCEPT !.t.pubs[p] = With(row, "works", @.works)]
    ELSE Fail(x)

InsertPublication(x, row) ==
    LET p == x.t.last.pubs + 1 IN
    Returns([x EXCEPT !.t.pubs = With(@, p, With(row, "works", {})), !.t.last.pubs = p], p)

AddContent(a, p, input) ==
    LET y == LinkOrCreateWork(a.x, p, input) IN [x |-> y, ids |-> Append(a.ids, y.id)]
AddContents(a, p, contents) == FoldLeft(LAMBDA b, input : AddContent(b, p, input), a, contents)
\* publication::create_publication.  ids: the works its contents ended as, in order.
CreatePublication(x, row, contents) ==
    LET inserted == InsertPublication(x, row)
        p == inserted.id
        written == AddContents([x |-> WriteChildren(inserted, p, row), ids |-> <<>>], p, contents)
    IN IF x.t.library THEN written ELSE [x |-> Fail(x), ids |-> <<>>]

WriteContent(x, p, before, input) ==
    IF x.ok /\ input.ref[1] = "stored" /\ input.ref[2] \in before
    THEN WriteLinkedWork(x, input.ref[2], input)
    ELSE LinkOrCreateWork(x, p, input)
WriteContents(x, p, before, contents) ==
    FoldLeft(LAMBDA y, input : WriteContent(y, p, before, input), x, contents)
\* Publication::update up to its collection: the row, and work::write_publication_works.
WritePublication(x, p, row, contents) ==
    LET before == x.t.pubs[p].works
        named == {c.ref[2] : c \in {c \in ToSet(contents) : c.ref[1] = "stored"}}
        written == WriteChildren(x, p, row)
        unlinked == [written EXCEPT !.t.pubs[p] = With(@, "works", before \intersect named)]
    IN WriteContents(unlinked, p, before, contents)

\* Work::update
UpdateWork(x, w, input) == Collected(WriteLinkedWork(x, w, input))

\* DELETE FROM library, which cascades over everything in it.
DeleteLibrary(x) ==
    [x EXCEPT !.t = [@ EXCEPT !.library = FALSE, !.works = <<>>, !.people = <<>>, !.pubs = <<>>]]
DeletePublication(x, p) == [x EXCEPT !.t.pubs = Restrict(@, DOMAIN @ \ {p})]

-----------------------------------------------------------------------------
(***************************************************************************)
(* The edits of one entity that an ArchiveEdit makes, one statement each.  *)
(* Nothing is collected or recognised as a duplicate until it commits.     *)
(***************************************************************************)
AddWork(x, p, w) == [x EXCEPT !.t.pubs[p].works = @ \union {w}]
RemoveWork(x, p, w) == [x EXCEPT !.t.pubs[p].works = @ \ {w}]
AddCredit(x, p, who) == [x EXCEPT !.t.pubs[p].credits = @ \union {who}]
RemoveCredit(x, p, who) == [x EXCEPT !.t.pubs[p].credits = @ \ {who}]
AddHolding(x, p, copy) == [x EXCEPT !.t.pubs[p].held = @ \union {copy}]
RemoveHolding(x, p, copy) == [x EXCEPT !.t.pubs[p].held = @ \ {copy}]
AddComposer(x, w, who) == [x EXCEPT !.t.works[w].composers = @ \union {who}]
RemoveComposer(x, w, who) == [x EXCEPT !.t.works[w].composers = @ \ {who}]
AddNumber(x, w, n) == [x EXCEPT !.t.works[w].numbers = @ \union {n}]
RemoveNumber(x, w, n) == [x EXCEPT !.t.works[w].numbers = @ \ {n}]

=============================================================================
