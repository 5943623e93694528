---------------------------- MODULE PendingImports ----------------------------
(***************************************************************************)
(* Pending imports of one library of the archive: the draft store in       *)
(* memory beside the tables in SQLite, and the requests that work on both. *)
(* There is no lock over the two.  A request reads the tables, then takes  *)
(* the store's lock; an accept takes the lock to claim the import, fills   *)
(* in the stored works, commits a publication, and takes the lock again to *)
(* drop the import and relink the drafts it shared; an edit of the tables  *)
(* commits first and relinks or drops drafts afterwards.  Other requests   *)
(* come in between any two of these steps, and a request's future can be   *)
(* dropped at its awaits (the client went away).                           *)
(***************************************************************************)
EXTENDS DraftStore

CONSTANTS
    Requests,       \* requests in flight, at most
    Names,          \* people's names
    Numbers,        \* catalog numbers
    Posts(_, _),    \* what a review page may post, given the tables and the drafts
    Catalog,        \* the tables at the start
    Budgets         \* bounds: how many imports, saves, changes and edits a run makes

VARIABLES
    t,          \* the tables
    drafts,     \* the draft store
    requests,   \* what each request is in the middle of
    budget,     \* what is left of the bounds
    history     \* how often each import was published; which were discarded or cut off

vars == <<t, drafts, requests, budget, history>>

\* Every publication has the one copy it was entered with, until an edit takes it away.
Copy == "copy"

WorkRows == [composers : SUBSET Nat, numbers : SUBSET Numbers]
PubRows == [works : SUBSET Nat, credits : SUBSET Nat, held : SUBSET {Copy}]

\* Tables: each has rows by id, and knows the last id it gave out.
IsTables(tables) ==
    /\ tables = [library |-> tables.library, works |-> tables.works, people |-> tables.people,
                 pubs |-> tables.pubs, last |-> tables.last]
    /\ tables.library \in BOOLEAN
    /\ tables.last \in [works : Nat, people : Nat, pubs : Nat]
    /\ tables.works \in [DOMAIN tables.works -> WorkRows]
    /\ DOMAIN tables.works \subseteq 1 .. tables.last.works
    /\ tables.people \in [DOMAIN tables.people -> Names]
    /\ DOMAIN tables.people \subseteq 1 .. tables.last.people
    /\ tables.pubs \in [DOMAIN tables.pubs -> PubRows]
    /\ DOMAIN tables.pubs \subseteq 1 .. tables.last.pubs

\* No publication without a holding, and no work without a publication.
IsCollected(tables) ==
    HeldPubs(tables) = DOMAIN tables.pubs /\ ContainedWorks(tables) = DOMAIN tables.works

ASSUME CatalogIsSound == IsTables(Catalog) /\ IsConsistent(Catalog) /\ IsCollected(Catalog)

\* What a form is parsed into: whom and what it names may be gone, or never was there.
Person == ({"linked", "draft"} \X Nat) \union {NewPerson, Unresolved}
Credit == [name : Names, person : Person]
Content == [ref : ({"stored", "draft"} \X Nat) \union {NewWork},
            credits : Seq(Credit), numbers : SUBSET Numbers]
Posted == Posts(t, drafts) \intersect [credits : Seq(Credit), contents : Seq(Content)]

Idle == [step |-> "idle"]
IsAt(r, step) == requests[r].step = step
Moves(r, to) == requests' = [requests EXCEPT ![r] = to]
Spends(what) ==
    /\ budget[what] > 0
    /\ budget' = [budget EXCEPT ![what] = @ - 1]

\* An ArchiveEdit holds SQLite's write lock until it commits or is dropped.
NoOneWrites == \A r \in Requests : ~IsAt(r, "editing")

\* Claims on an import end with its accept; after the commit nothing releases it.
Claims(r, i) == requests[r].step \in {"filling", "publishing", "committed"}
                   /\ requests[r].import = i

-----------------------------------------------------------------------------
(***************************************************************************)
(* Starting, saving and discarding an import                               *)
(***************************************************************************)

\* Library::start_import reads that the library is there, ...
ReadLibrary(r) ==
    /\ IsAt(r, "idle") /\ t.library
    /\ Spends("imports")
    /\ Moves(r, [step |-> "starting"])
    /\ UNCHANGED <<t, drafts, history>>

\* ... and then takes the lock.
Start(r) ==
    /\ IsAt(r, "starting")
    /\ drafts' = StartImport(drafts)
    /\ Moves(r, Idle)
    /\ UNCHANGED <<t, budget, history>>

\* Library::pending_import: an import of a library there is.
IsReachable(i) == t.library /\ Has(drafts, i)

\* PendingImport::save and accept: what is stored is read first, ...
ReadStored(r, i, post, submit) ==
    /\ IsAt(r, "idle") /\ IsReachable(i)
    /\ Spends("saves")
    /\ Moves(r, [step |-> "saving", import |-> i, post |-> post, submit |-> submit,
                 people |-> t.people, works |-> DOMAIN t.works])
    /\ UNCHANGED <<t, drafts, history>>

\* ... and the draft is stored under the lock, unless it is gone or claimed by now.
SaveDraft(r) ==
    /\ IsAt(r, "saving")
    /\ LET q == requests[r] IN
       IF Editable(drafts, q.import)
       THEN /\ drafts' = Save(drafts, q.import, q.post, q.people, q.works)
            /\ Moves(r, IF q.submit THEN [step |-> "claiming", import |-> q.import] ELSE Idle)
       ELSE Moves(r, Idle) /\ UNCHANGED drafts
    /\ UNCHANGED <<t, budget, history>>

DiscardsClaimed(i) ==
    /\ IsReachable(i)
    /\ drafts' = Forget(drafts, i)
    /\ history' = [history EXCEPT !.discarded = @ \union {i}]
    /\ UNCHANGED <<t, requests, budget>>
\* PendingImport::discard
DiscardImport(i) ==
    /\ IsReachable(i) /\ Editable(drafts, i)
    /\ drafts' = Forget(drafts, i)
    /\ history' = [history EXCEPT !.discarded = @ \union {i}]
    /\ UNCHANGED <<t, requests, budget>>

-----------------------------------------------------------------------------
(***************************************************************************)
(* Accepting                                                               *)
(***************************************************************************)

\* begin_accept: the claim, and under the same lock what is to be published.
Claim(r) ==
    /\ IsAt(r, "claiming")
    /\ LET i == requests[r].import IN
       IF Editable(drafts, i) /\ drafts.imports[i].saved
       THEN /\ drafts' = BeginAccept(drafts, i)
            /\ Moves(r, [step |-> "filling", import |-> i, draft |-> Snapshot(drafts, i)])
       ELSE Moves(r, Idle) /\ UNCHANGED drafts
    /\ UNCHANGED <<t, budget, history>>

Credited(credits) == {c.person : c \in ToSet(credits)}

\* A stored work is loaded as it is now; one that is gone is left out.
FillIn(filled, c) ==
    CASE c.ref[1] = "draft" ->
           Append(filled, [ref |-> c.ref, persons |-> Credited(c.credits), numbers |-> c.numbers])
      [] c.ref[1] = "stored" /\ HasWork(t, c.ref[2]) ->
           Append(filled, [ref |-> c.ref,
                           persons |-> {Linked(x) : x \in t.works[c.ref[2]].composers},
                           numbers |-> t.works[c.ref[2]].numbers])
      [] OTHER -> filled
Filled(contents) == FoldLeft(FillIn, <<>>, contents)

\* parse: no name left that several people share, and no one listed twice.
IsValid(draft) ==
    LET lists == {draft.credits} \union {c.credits : c \in ToSet(draft.contents)} IN
    \A credits \in lists : /\ Unresolved \notin Credited(credits)
                           /\ Cardinality(Credited(credits)) = Len(credits)

\* PendingImport::fill, of a draft that passes validation.
Fill(r) ==
    /\ IsAt(r, "filling")
    /\ IsValid(requests[r].draft)
    /\ LET q == requests[r] IN
       Moves(r, [step |-> "publishing", import |-> q.import, drafted |-> q.draft.drafted,
                 persons |-> Credited(q.draft.credits), contents |-> Filled(q.draft.contents)])
    /\ UNCHANGED <<t, drafts, budget, history>>

\* The draft people that the import credits.
DraftsToCreate(q) ==
    LET credited == q.persons \union UNION {c.persons : c \in ToSet(q.contents)}
    IN {x[2] : x \in {x \in credited : x[1] = "draft"}}

\* accept_into_publication's transaction: first a person for each draft person, oldest
\* first, ...
CreatePersons(q) ==
    LET created == DraftsToCreate(q)
        id(x) == t.last.people + Cardinality({y \in created : y <= x})
        ids == {id(x) : x \in created}
        people == [y \in DOMAIN t.people \union ids |->
                     IF y \in ids THEN q.drafted[CHOOSE x \in created : id(x) = y]
                     ELSE t.people[y]]
    IN [x |-> Transaction([t EXCEPT !.people = people, !.last.people = @ + Cardinality(created)]),
        persons |-> {<<x, id(x)>> : x \in created}]

\* ... then the publication, crediting those.
Publication(q) ==
    LET created == CreatePersons(q)
        IdOf(x) == IF x[1] = "draft" THEN (CHOOSE p \in created.persons : p[1] = x[2])[2]
                   ELSE x[2]
        input(c) == [ref |-> c.ref, numbers |-> c.numbers,
                     composers |-> {IdOf(x) : x \in c.persons}]
        row == [credits |-> {IdOf(x) : x \in q.persons}, held |-> {Copy}]
        made == CreatePublication(created.x, row, [k \in DOMAIN q.contents |-> input(q.contents[k])])
        drafted == {k \in DOMAIN q.contents : q.contents[k].ref[1] = "draft"}
    IN [x |-> made.x, persons |-> created.persons,
        works |-> IF made.x.ok THEN {<<q.contents[k].ref[2], made.ids[k]>> : k \in drafted}
                  ELSE {}]

\* Every draft person it credits was there when it was claimed.
FindsItsPersons(q) == DraftsToCreate(q) \subseteq DOMAIN q.drafted

Published(i) == [history EXCEPT !.published[i] = @ + 1]

\* The transaction commits.
Publish(r) ==
    /\ IsAt(r, "publishing") /\ NoOneWrites
    /\ LET q == requests[r]
           made == Publication(q)
       IN /\ FindsItsPersons(q) /\ made.x.ok
          /\ t' = made.x.t
          /\ history' = Published(q.import)
          /\ Moves(r, [step |-> "committed", import |-> q.import, works |-> made.works,
                       persons |-> made.persons, merges |-> made.x.merges])
    /\ UNCHANGED <<drafts, budget>>

KeepsTheClaim(r) ==
    /\ requests[r].step \in {"filling", "publishing"}
    /\ Moves(r, Idle)
    /\ UNCHANGED <<t, drafts, budget, history>>
\* The draft was refused, a statement or the commit failed, or the future was
\* dropped before the commit: Accepting gives up the claim.
Release(r) ==
    /\ requests[r].step \in {"filling", "publishing"}
    /\ drafts' = EndAccept(drafts, requests[r].import)
    /\ Moves(r, Idle)
    /\ UNCHANGED <<t, budget, history>>

\* The future was dropped at the commit, where the claim is not armed: whether or
\* not it took effect, the claim stays.
CutOff(r) ==
    /\ IsAt(r, "publishing") /\ NoOneWrites
    /\ LET q == requests[r]
           made == Publication(q)
           cut(h) == [h EXCEPT !.cut = @ \union {q.import}]
       IN /\ FindsItsPersons(q) /\ made.x.ok
          /\ \/ t' = made.x.t /\ history' = cut(Published(q.import))
             \/ UNCHANGED t /\ history' = cut(history)
    /\ Moves(r, Idle)
    /\ UNCHANGED <<drafts, budget>>

\* Only after the commit: the import goes, and the drafts it shared are relinked.
Finish(r) ==
    /\ IsAt(r, "committed")
    /\ LET q == requests[r] IN
       drafts' = RelinkWorks(Accept(drafts, q.import, q.works, q.persons), q.merges)
    /\ Moves(r, Idle)
    /\ UNCHANGED <<t, budget, history>>

-----------------------------------------------------------------------------
(***************************************************************************)
(* Everyone else: a change of the tables commits and then tells the drafts, *)
(* in a step of its own.  What a form posts is arbitrary, so the read it   *)
(* was rendered from is not kept: one that names a person who is gone by   *)
(* now fails, and a work that is gone is created anew.                     *)
(***************************************************************************)
Told(x, dropped) == [step |-> "telling", merges |-> x.merges, dropped |-> dropped]

\* The commit; its future may be dropped right there, and the drafts never told.
Commits(r, x, dropped) ==
    /\ x.ok
    /\ t' = x.t
    /\ \/ Moves(r, IF x.merges = <<>> /\ ~dropped THEN Idle ELSE Told(x, dropped))
       \/ (x.merges # <<>> \/ dropped) /\ Moves(r, Idle)

Changes(r, x, dropped) ==
    /\ IsAt(r, "idle") /\ NoOneWrites /\ t.library
    /\ Spends("changes")
    /\ Commits(r, x, dropped)
    /\ UNCHANGED <<drafts, history>>

\* relink_draft_works, and the end of ArchiveEdit::commit.
TellDrafts(r) ==
    /\ IsAt(r, "telling")
    /\ LET q == requests[r] IN
       drafts' = RelinkWorks(IF q.dropped THEN DropLibrary(drafts) ELSE drafts, q.merges)
    /\ Moves(r, Idle)
    /\ UNCHANGED <<t, budget, history>>

\* Whom a form credits: no one, a person of the library, or a new one by name.
Composers == {{Linked(x)} : x \in DOMAIN t.people} \union {{<<"new", n>>} : n \in Names}
                \union {{}}

EditWork(r, w) ==
    \E persons \in Composers, numbers \in SUBSET Numbers :
       LET resolved == CreateNewPersons(Transaction(t), persons) IN
       Changes(r, UpdateWork(resolved.x, w, [composers |-> Range(resolved.id),
                                             numbers |-> numbers]), FALSE)

\* Library::merge_works
MergeStored(r, from, into) ==
    /\ from # into
    /\ Changes(r, Collected(MergeWorks(Transaction(t), from, into)), FALSE)

\* What a publication's form lists: works of the library, and new ones.
IsListing(rows) == \A k \in DOMAIN rows : rows[k].ref[1] # "draft"
Listed == {<<>>} \union {rows \in {post.contents : post \in Posted} : IsListing(rows)}

EditPublication(r, p) ==
    \E persons \in Composers, rows \in Listed :
       LET resolved == CreateNewPersons(Transaction(t), persons)
           input(row) ==
             [ref |-> row.ref,
              composers |-> IF row.ref = NewWork THEN Range(resolved.id)
                            ELSE IF HasWork(t, row.ref[2]) THEN t.works[row.ref[2]].composers
                            ELSE {},
              numbers |-> IF HasWork(t, row.ref[2]) THEN t.works[row.ref[2]].numbers
                          ELSE row.numbers]
           contents == [k \in DOMAIN rows |-> input(rows[k])]
           form == [credits |-> Range(resolved.id), held |-> {Copy}]
       IN Changes(r, Collected(WritePublication(resolved.x, p, form, contents)), FALSE)

RemovePublication(r, p) == Changes(r, Collected(DeletePublication(Transaction(t), p)), FALSE)

RemoveLibrary(r) == Changes(r, DeleteLibrary(Transaction(t)), TRUE)

-----------------------------------------------------------------------------
(***************************************************************************)
(* An ArchiveEdit: a transaction held open over several calls              *)
(***************************************************************************)
OpenEdit(r) ==
    /\ IsAt(r, "idle") /\ NoOneWrites /\ t.library
    /\ Spends("edits")
    /\ Moves(r, [step |-> "editing", x |-> Transaction(t), dropped |-> FALSE, calls |-> 0])
    /\ UNCHANGED <<t, drafts, history>>

MaxCalls == 2

\* One call on the handle, on what its transaction sees.
Edits(r, x, dropped) ==
    /\ requests[r].calls < MaxCalls /\ ~requests[r].dropped
    /\ Moves(r, [requests[r] EXCEPT !.x = x, !.dropped = dropped, !.calls = @ + 1])
    /\ UNCHANGED <<t, drafts, budget, history>>

EditsPublication(r) ==
    LET x == requests[r].x IN
    \E p \in DOMAIN x.t.pubs :
       \/ Edits(r, DeletePublication(x, p), FALSE)
       \/ \E w \in DOMAIN x.t.works : Edits(r, AddWork(x, p, w), FALSE)
       \/ \E w \in x.t.pubs[p].works : Edits(r, RemoveWork(x, p, w), FALSE)
       \/ \E who \in DOMAIN x.t.people : Edits(r, AddCredit(x, p, who), FALSE)
       \/ \E who \in x.t.pubs[p].credits : Edits(r, RemoveCredit(x, p, who), FALSE)
       \/ Edits(r, AddHolding(x, p, Copy), FALSE)
       \/ Edits(r, RemoveHolding(x, p, Copy), FALSE)

EditsWork(r) ==
    LET x == requests[r].x IN
    \E w \in DOMAIN x.t.works :
       \/ \E who \in DOMAIN x.t.people : Edits(r, AddComposer(x, w, who), FALSE)
       \/ \E who \in x.t.works[w].composers : Edits(r, RemoveComposer(x, w, who), FALSE)
       \/ \E n \in Numbers : Edits(r, AddNumber(x, w, n), FALSE)
       \/ \E n \in x.t.works[w].numbers : Edits(r, RemoveNumber(x, w, n), FALSE)
       \/ \E into \in DOMAIN x.t.works \ {w} : Edits(r, MergeWorks(x, w, into), FALSE)

EditsLibrary(r) ==
    LET x == requests[r].x IN
    \/ Edits(r, InsertPublication(x, [credits |-> {}, held |-> {Copy}]), FALSE)
    \/ Edits(r, InsertWork(x, [composers |-> {}, numbers |-> {}]), FALSE)
    \/ \E n \in Names : Edits(r, CreatePerson(x, n), FALSE)
    \/ Edits(r, DeleteLibrary(x), TRUE)

CallsEdit(r) ==
    /\ IsAt(r, "editing")
    /\ EditsPublication(r) \/ EditsWork(r) \/ EditsLibrary(r)

CommitsUncollected(r) ==
    /\ IsAt(r, "editing")
    /\ Commits(r, requests[r].x, requests[r].dropped)
    /\ UNCHANGED <<drafts, budget, history>>
\* ArchiveEdit::commit: "Before committing, any orphans ... will be deleted."
CommitEdit(r) ==
    /\ IsAt(r, "editing")
    /\ Commits(r, Collected(requests[r].x), requests[r].dropped)
    /\ UNCHANGED <<drafts, budget, history>>

\* Dropped without being committed: rolled back.
DropEdit(r) ==
    /\ IsAt(r, "editing")
    /\ Moves(r, Idle)
    /\ UNCHANGED <<t, drafts, budget, history>>

-----------------------------------------------------------------------------
Accepts(r) ==
    \/ Claim(r) \/ Fill(r) \/ Publish(r) \/ Release(r) \/ CutOff(r) \/ Finish(r)

Works(r) ==
    \/ ReadLibrary(r) \/ Start(r) \/ SaveDraft(r)
    \/ \E i \in DOMAIN drafts.imports, post \in Posted, submit \in BOOLEAN :
          ReadStored(r, i, post, submit)

ChangesTables(r) ==
    \/ \E w \in DOMAIN t.works : EditWork(r, w)
    \/ \E from, into \in DOMAIN t.works : MergeStored(r, from, into)
    \/ \E p \in DOMAIN t.pubs : EditPublication(r, p)
    \/ \E p \in DOMAIN t.pubs : RemovePublication(r, p)
    \/ RemoveLibrary(r)
    \/ TellDrafts(r)

EditsArchive(r) == OpenEdit(r) \/ CallsEdit(r) \/ CommitEdit(r) \/ DropEdit(r)

\* The ids the store can hand out, which bounds the imports.
ImportIds == 1 .. 12

Init ==
    /\ t = Catalog
    /\ drafts = EmptyStore
    /\ requests = [r \in Requests |-> Idle]
    /\ budget \in Budgets
    /\ history = [published |-> [i \in ImportIds |-> 0], discarded |-> {}, cut |-> {}]

Next ==
    \/ \E r \in Requests : Works(r) \/ Accepts(r) \/ ChangesTables(r) \/ EditsArchive(r)
    \/ \E i \in DOMAIN drafts.imports : DiscardImport(i)

Spec == Init /\ [][Next]_vars

-----------------------------------------------------------------------------
(***************************************************************************)
(* Properties                                                              *)
(***************************************************************************)

\* A draft work that a saved import contains is held, whatever other imports, accepts and
\* merges did meanwhile: draft.rs:152 expects it, and would panic under the lock.  So is a
\* draft person that any draft credits, and nothing is held for no one: what an accept
\* relinked or a discard left behind is collected, and only that (LibraryDrafts::collect); and
\* an import lists each work once, also after works it listed became one (dedupe).
DraftsAreKeptWhileNeeded ==
    /\ \A i \in DOMAIN drafts.imports : IsInjective(drafts.imports[i].contents)
    /\ \A i \in DOMAIN drafts.imports : \A r \in ToSet(drafts.imports[i].contents) :
          r[1] = "draft" => r[2] \in DOMAIN drafts.works
    /\ \A i \in DOMAIN drafts.imports : \A x \in CreditedBy(drafts, i) :
          x[1] = "draft" => x[2] \in DOMAIN drafts.persons
    /\ \A w \in DOMAIN drafts.works : \A x \in CreditedByWork(drafts, w) :
          x[1] = "draft" => x[2] \in DOMAIN drafts.persons
    /\ DOMAIN drafts.works = DraftsContained(drafts)
    /\ DOMAIN drafts.persons = DraftsCredited(drafts)

\* The error of import.rs:257, "draft person is gone", can't happen: the claim takes the
\* import's drafts and the draft people under one lock.
AcceptsFindTheirPersons ==
    \A r \in Requests : IsAt(r, "publishing") => FindsItsPersons(requests[r])

\* An import ends once: it is published at most once, and not at all when it was discarded,
\* however many submit or discard it at the same time.
EndsOnce ==
    \A i \in ImportIds : history.published[i] + (IF i \in history.discarded THEN 1 ELSE 0) <= 1

\* An import that no accept works on can be edited, discarded and submitted again, unless its
\* accept was cut off at the commit (Drop for Accepting).
ClaimsAreGivenUp ==
    \A i \in DOMAIN drafts.imports :
       drafts.imports[i].accepting =>
          i \in history.cut \/ \E r \in Requests : Claims(r, i)

\* Every publication has a holding and every work is contained in a publication
\* (docs/design/05-data-model.md), between any two transactions, and every reference of the
\* tables is to a row that is there, whoever wrote them and in whichever order.
EveryWorkIsContained == IsConsistent(t) /\ IsCollected(t)

OrphanPeople == DOMAIN t.people \ CreditedPeople(t)

\* A change of the tables leaves no person that nothing credits, whatever order its rows go in.
\* Only an accept may: it collects nothing, and it writes back each stored work's credits as it
\* loaded them, over what was committed since (import.rs:77, work.rs:1024).
OnlyAcceptsOrphanPeople ==
    [][\/ OrphanPeople' \subseteq OrphanPeople
       \/ \E r \in Requests : IsAt(r, "publishing") /\ requests'[r] # requests[r]]_vars

=============================================================================
