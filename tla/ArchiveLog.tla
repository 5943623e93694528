------------------------------ MODULE ArchiveLog ------------------------------
(***************************************************************************)
(* The edits of one library of the archive, and what its audit log tells   *)
(* of them.  Three kinds of transaction write: a save of the web pages,    *)
(* which writes a whole form over a row and compares the row it loaded     *)
(* some time before with the one it finds afterwards; an ArchiveEdit, held *)
(* open over several calls that each record what they changed; and the     *)
(* recognition of links when the archive is opened, maybe by a newer       *)
(* binary that knows more sites.  Rows have everything that is compared.   *)
(*                                                                         *)
(* An entity is <<table, id>>, the library <<"about", 1>>.  A field has    *)
(* the name of the column or child table: "works" is Field::Contents,      *)
(* "held" Field::Holdings, "composers" and "credits" Field::Contributors.  *)
(***************************************************************************)
EXTENDS ArchiveTables, ExternalLinks

CONSTANTS
    Titles, Names, Numbers, Tags, Identifiers, Urls,
    Copies,                 \* kinds of holding; a publication has each once at most
    Address(_),             \* what a URL spells (ExternalLinks)
    HostsKnown(_),          \* hosts a version of the binary knows
    LastVersion,
    PublicationPosts(_),    \* what the publication page may post, given the tables
    WorkPosts(_),
    Starts                  \* the tables at the start, and a budget that bounds how many loads,
                            \* saves, edits, calls and openings a run makes

VARIABLES
    t,          \* the tables
    told,       \* what the last transaction recorded
    edit,       \* the open ArchiveEdit, if any
    handle,     \* a loaded entity that a save will be compared with, if any
    binary,     \* the running one: its version, and the record it recognizes each URL as
    opened,     \* the archive could be opened
    budget      \* what is left of the bounds

vars == <<t, told, edit, handle, binary, opened, budget>>

Blank == "blank"
NoEdit == [open |-> FALSE]
NoHandle == [on |-> <<"none", 0>>]
Panicked == [on |-> <<"panicked", 0>>]

Spends(what) ==
    /\ budget[what] > 0
    /\ budget' = [budget EXCEPT ![what] = @ - 1]

IsThere(tables, e) == tables.library /\ e[2] \in DOMAIN tables[e[1]]

KindOf == [pubs |-> "publication", works |-> "work", people |-> "person"]
\* The record a URL names, to a version of the binary that may know fewer hosts than the last.
Recognized(v, table, url) ==
    IF Address(url).host \in HostsKnown(v) THEN Recognize(KindOf[table], Address(url))
    ELSE Generic

Binary(v) ==
    [version |-> v,
     record |-> [table \in DOMAIN KindOf |-> [url \in Urls |-> Recognized(v, table, url)]]]

\* The links an owner may have: of a URL once and of a record once, each with the record
\* that its own address names to the latest binary, or with none.
AreLinks(table, links) ==
    /\ links \in Seq(ToSet(links))
    /\ \A l \in ToSet(links) :
          /\ Address(l.url) \in WebAddresses
          /\ l = [url |-> l.url, record |-> l.record]
          /\ l.record \in {Generic, Recognize(KindOf[table], Address(l.url))}
    /\ \A j, k \in DOMAIN links : j # k => ~IsSameLink(links[j], links[k])

HaveLinks(table, rows) ==
    \A id \in DOMAIN rows : "links" \in DOMAIN rows[id] /\ AreLinks(table, rows[id].links)
LinksAreStored(tables) ==
    /\ DOMAIN KindOf \subseteq DOMAIN tables
    /\ \A table \in DOMAIN KindOf : HaveLinks(table, tables[table])

\* Ids are never reused (AUTOINCREMENT): every row's was given out.  The library has its own row.
IsNumbered(tables) ==
    /\ {"library", "about", "last"} \subseteq DOMAIN tables
    /\ 1 \in DOMAIN tables.about
    /\ tables.last \in [DOMAIN KindOf -> Nat]
    /\ \A table \in DOMAIN KindOf : DOMAIN tables[table] \subseteq 1 .. tables.last[table]

Bounds == {"loads", "saves", "edits", "calls", "opens"}

ASSUME UrlsAreAddresses == \A url \in Urls : Address(url) \in WebAddresses
ASSUME VersionsAreNumbered == LastVersion \in Nat \ {0}
ASSUME StartsAreStored ==
    \A start \in Starts : /\ LinksAreStored(start.tables) /\ IsNumbered(start.tables)
                          /\ start.budget \in [Bounds -> Nat]

\* What a form is parsed into (WorkInput, PublicationRawInput): whom and what it names may be
\* gone, or never was there.
NewPeople == {<<"new", [name |-> name, links |-> <<>>]>> : name \in Names}
Parties == {people \in SUBSET (NewPeople \union {"linked"} \X Nat) : IsFiniteSet(people)}
WorkForms ==
    [ref : {"stored", "draft"} \X Nat \union {NewWork}, title : Titles \union {Blank},
     tags : SUBSET Tags, numbers : SUBSET Numbers, links : Seq(Urls), composers : Parties]
PublicationForms ==
    [title : Titles \union {Blank}, tags : SUBSET Tags, identifiers : SUBSET Identifiers,
     links : Seq(Urls), credits : Parties, held : SUBSET Copies, contents : Seq(WorkForms)]

\* Link::new, as this binary recognizes it.
Link(table, url) == [url |-> url, record |-> binary.record[table][url]]
Links(table, urls) == [k \in DOMAIN urls |-> Link(table, urls[k])]

-----------------------------------------------------------------------------
(***************************************************************************)
(* Loading, and saving what was loaded (the deprecated update of each)     *)
(***************************************************************************)

\* An entity as it is compared: of its links the URLs, of a credit the name as well, and
\* not a publication's contents, which are no part of it.
Compared == [pubs |-> {"title", "tags", "identifiers", "links", "credits", "held"},
             works |-> {"title", "tags", "numbers", "links", "composers"},
             people |-> {"name", "links"}, about |-> {"name", "private"}]
Loaded(tables, e) ==
    LET row == tables[e[1]][e[2]]
        Shown(f) ==
          CASE f = "links" -> [k \in DOMAIN row.links |-> row.links[k].url]
            [] f \in {"credits", "composers"} -> {<<who, tables.people[who].name>> : who \in row[f]}
            [] OTHER -> row[f]
    IN [f \in Compared[e[1]] |-> Shown(f)]

Loads(e) ==
    /\ opened /\ IsThere(t, e)
    /\ Spends("loads")
    /\ handle' = [on |-> e, was |-> Loaded(t, e)]
    /\ told' = {}
    /\ UNCHANGED <<t, edit, binary, opened>>

LoadPublication(p) == Loads(<<"pubs", p>>)
LoadWork(w) == Loads(<<"works", w>>)
LoadPerson(who) == Loads(<<"people", who>>)
LoadLibrary == Loads(<<"about", 1>>)

\* changed_fields: the handle against what was written, whoever changed it.
ChangedFields(tables) ==
    LET now == Loaded(tables, handle.on) IN {f \in DOMAIN now : now[f] # handle.was[f]}

Updated(fields) == {Event("user", "updated", handle.on, f) : f \in fields}

\* A transaction of its own: it can't begin while an edit holds the write lock.
Writes ==
    /\ opened /\ ~edit.open
    /\ Spends("saves")
    /\ UNCHANGED <<edit, binary, opened>>

\* Refused by the form, not found, or failed and rolled back.
Refuses == handle' = NoHandle /\ told' = {} /\ UNCHANGED t

\* Committed; the handle is reloaded as the entity that is left.
Commits(x, events, now) ==
    /\ t' = x.t
    /\ told' = x.events \union events
    /\ handle' = [on |-> now, was |-> Loaded(x.t, now)]

ParsesLinks(table, urls) ==
    \A j, k \in DOMAIN urls : j < k => ~IsSameLink(Link(table, urls[j]), Link(table, urls[k]))
ParsesWork(post) == post.title # Blank /\ ParsesLinks("works", post.links)
ParsesNoCopies(post) ==
    post.title # Blank /\ ParsesLinks("pubs", post.links) /\ \A c \in ToSet(post.contents) : ParsesWork(c)
ParsesHoldings(held) == held # {}
\* PublicationRawInput::parse.
ParsesPublication(post) ==
    /\ post.title # Blank
    /\ ParsesHoldings(post.held)
    /\ ParsesLinks("pubs", post.links)
    /\ \A c \in ToSet(post.contents) : ParsesWork(c)

\* A row of a form, with its new people created and its links recognized.
Resolved(made, table, row) ==
    LET credits == IF table = "pubs" THEN "credits" ELSE "composers" IN
    [row EXCEPT ![credits] = {made.id[who] : who \in row[credits]}, !.links = Links(table, @)]

\* Publication::update
SavePublication(post) ==
    LET p == handle.on[2]
        people == post.credits \union UNION {c.composers : c \in ToSet(post.contents)}
        made == CreateNewPersons(Transaction(t), people)
        row == Resolved(made, "pubs", Restrict(post, DOMAIN post \ {"contents"}))
        contents == [k \in DOMAIN post.contents |-> Resolved(made, "works", post.contents[k])]
        written == WritePublication(made.x, p, row, contents)
        x == Collected(written)
        works == IF x.t.pubs[p].works = t.pubs[p].works THEN {} ELSE {"works"}
    IN /\ handle.on[1] = "pubs"
       /\ Writes
       /\ IF ~IsThere(t, handle.on) \/ ~ParsesPublication(post) \/ ~written.ok THEN Refuses
          ELSE IF p \notin DOMAIN x.t.pubs
          THEN handle' = Panicked /\ told' = {} /\ UNCHANGED t
          ELSE Commits(x, Updated(ChangedFields(x.t) \union works), handle.on)

\* Work::update: compared "before the merge, or the comparison is against whichever work
\* absorbed this one".
SaveWork(post) ==
    LET w == handle.on[2]
        made == CreateNewPersons(Transaction(t), post.composers)
        written == WriteWork(made.x, w, Resolved(made, "works", post))
        absorbed == AbsorbIntoDuplicate(written, w)
    IN /\ handle.on[1] = "works"
       /\ Writes
       /\ IF ~IsThere(t, handle.on) \/ ~ParsesWork(post) \/ ~written.ok THEN Refuses
          ELSE Commits(Collected(absorbed), Updated(ChangedFields(written.t)),
                       <<"works", absorbed.id>>)

\* Person::update
SavePerson(name, urls) ==
    LET x == [Transaction(t) EXCEPT
                !.t.people[handle.on[2]] = [name |-> name, links |-> Links("people", urls)]]
    IN /\ handle.on[1] = "people"
       /\ Writes
       /\ IF ~IsThere(t, handle.on) \/ name = Blank \/ ~ParsesLinks("people", urls) THEN Refuses
          ELSE Commits(x, Updated(ChangedFields(x.t)), handle.on)

\* Library::update
SaveLibrary(name, private) ==
    LET x == [Transaction(t) EXCEPT !.t.about[1] = [name |-> name, private |-> private]] IN
    /\ handle.on[1] = "about"
    /\ Writes
    /\ IF ~IsThere(t, handle.on) \/ name = Blank THEN Refuses
       ELSE Commits(x, Updated(ChangedFields(x.t)), handle.on)

Deletes(x) ==
    /\ Writes
    /\ IF ~IsThere(t, handle.on) THEN Refuses
       ELSE /\ t' = x.t
            /\ told' = Record(x, "user", "deleted", handle.on, "none").events
            /\ handle' = NoHandle

\* Publication::delete
RemovePublication ==
    /\ handle.on[1] = "pubs"
    /\ Deletes(Collected(DeletePublication(Transaction(t), handle.on[2])))

\* Library::delete: the cascade is told by the library's own entry.
RemoveLibrary == handle.on[1] = "about" /\ Deletes(DeleteLibrary(Transaction(t)))

\* Library::merge_works
MergeStored(from, into) ==
    LET x == Collected(MergeWorks(Transaction(t), from, into)) IN
    /\ from # into
    /\ Writes
    /\ t' = x.t
    /\ told' = Record(x, "user", "merged", <<"works", into>>, "none").events
    /\ UNCHANGED handle

\* Library::create_publication, which collects nothing.
NewPublication(post) ==
    LET people == post.credits \union UNION {c.composers : c \in ToSet(post.contents)}
        made == CreateNewPersons(Transaction(t), people)
        row == Resolved(made, "pubs", Restrict(post, DOMAIN post \ {"contents"}))
        contents == [k \in DOMAIN post.contents |-> Resolved(made, "works", post.contents[k])]
        x == CreatePublication(made.x, row, contents).x
    IN /\ Writes
       /\ IF ~t.library \/ ~ParsesPublication(post) \/ ~x.ok THEN Refuses
          ELSE /\ t' = x.t
               /\ told' = Record(x, "user", "created", <<"pubs", x.t.last.pubs>>, "none").events
               /\ UNCHANGED handle

-----------------------------------------------------------------------------
(***************************************************************************)
(* An ArchiveEdit: calls on one transaction, which hold the write lock     *)
(* until they are committed or dropped together                            *)
(***************************************************************************)
OpenEdit ==
    /\ opened /\ ~edit.open
    /\ Spends("edits")
    /\ edit' = [open |-> TRUE, x |-> Transaction(t)]
    /\ told' = {}
    /\ UNCHANGED <<t, handle, binary, opened>>

\* A call that makes x of the transaction; on is what its handle was opened on.
Calls(on, x) ==
    /\ edit.open /\ IsThere(edit.x.t, on)
    /\ Spends("calls")
    /\ edit' = [edit EXCEPT !.x = x]
    /\ told' = {}
    /\ UNCHANGED <<t, handle, binary, opened>>

\* record_if_changed: a statement that changed no row is not told.
Sets(e, field, x) ==
    Calls(e, IF x.t = edit.x.t THEN x ELSE Record(x, "user", "updated", e, field))

SetField(tables, e, f, value) == [tables EXCEPT ![e[1]][e[2]][f] = value]
SetRow(e, f, value) == Sets(e, f, [edit.x EXCEPT !.t = SetField(@, e, f, value)])
AddsOrRemoves(e, f, member) ==
    LET members == edit.x.t[e[1]][e[2]][f] IN
    \E left \in {members \union {member}, members \ {member}} : SetRow(e, f, left)
AddsOrRemovesLink(e, url) ==
    LET links == edit.x.t[e[1]][e[2]].links IN
    \E left \in {AddLink(links, Link(e[1], url)), RemoveLink(links, Link(e[1], url))} : SetRow(e, "links", left)

EditsPublicationRow(p) ==
    LET e == <<"pubs", p>> IN
    \/ \E title \in Titles : SetRow(e, "title", title)
    \/ \E tag \in Tags : AddsOrRemoves(e, "tags", tag)
    \/ \E url \in Urls : AddsOrRemovesLink(e, url)

EditsPublicationLists(p) ==
    LET e == <<"pubs", p>>  x == edit.x IN
    \/ \E id \in Identifiers : AddsOrRemoves(e, "identifiers", id)
    \/ \E who \in DOMAIN x.t.people : Sets(e, "credits", AddCredit(x, p, who))
    \/ \E who \in DOMAIN x.t.people : Sets(e, "credits", RemoveCredit(x, p, who))
    \/ \E w \in DOMAIN x.t.works : Sets(e, "works", AddWork(x, p, w))
    \/ \E w \in DOMAIN x.t.works : Sets(e, "works", RemoveWork(x, p, w))

EditsCopies(p) ==
    LET e == <<"pubs", p>>  held == edit.x.t.pubs[p].held IN
    \/ \E copy \in Copies \ held : Sets(e, "held", AddHolding(edit.x, p, copy))
    \/ \E copy \in Copies : Sets(e, "held", RemoveHolding(edit.x, p, copy))
    \/ \E copy \in held, kind \in Copies \ held :
          Sets(e, "held", AddHolding(RemoveHolding(edit.x, p, copy), p, kind))

DeletesPublication(p) ==
    Calls(<<"pubs", p>>,
          Record(DeletePublication(edit.x, p), "user", "deleted", <<"pubs", p>>, "none"))

EditsWorkRow(w) == \E title \in Titles : SetRow(<<"works", w>>, "title", title)

EditsWorkLists(w) ==
    LET e == <<"works", w>>  x == edit.x IN
    \/ \E tag \in Tags : AddsOrRemoves(e, "tags", tag)
    \/ \E url \in Urls : AddsOrRemovesLink(e, url)
    \/ \E who \in DOMAIN x.t.people : Sets(e, "composers", AddComposer(x, w, who))
    \/ \E who \in DOMAIN x.t.people : Sets(e, "composers", RemoveComposer(x, w, who))
    \/ \E n \in Numbers : Sets(e, "numbers", AddNumber(x, w, n))
    \/ \E n \in Numbers : Sets(e, "numbers", RemoveNumber(x, w, n))

EditsPerson(who) ==
    \/ \E name \in Names : SetRow(<<"people", who>>, "name", name)
    \/ \E url \in Urls : AddsOrRemovesLink(<<"people", who>>, url)

EditsLibrary ==
    LET e == <<"about", 1>> IN
    \/ \E name \in Names : SetRow(e, "name", name)
    \/ \E private \in BOOLEAN : SetRow(e, "private", private)
    \/ Calls(e, Record(DeleteLibrary(edit.x), "user", "deleted", e, "none"))

MergesWorks(from, into) ==
    /\ from # into
    /\ edit.open /\ IsThere(edit.x.t, <<"works", from>>)
    /\ LET x == MergeWorks(edit.x, from, into) IN
       Calls(<<"works", into>>, Record(x, "user", "merged", <<"works", into>>, "none"))

\* LibraryEdit::create_publication, create_person and create_work
Creates ==
    LET Made(table, x) ==
          Calls(<<"about", 1>>, Record(x, "user", "created", <<table, x.id>>, "none"))
    IN \/ \E title \in Titles, copy \in Copies :
             Made("pubs", InsertPublication(edit.x,
               [title |-> title, tags |-> {}, identifiers |-> {}, links |-> <<>>,
                credits |-> {}, held |-> {copy}]))
       \/ \E name \in Names : Made("people", CreatePerson(edit.x, [name |-> name, links |-> <<>>]))
       \/ \E title \in Titles :
             Made("works", InsertWork(edit.x,
               [title |-> title, tags |-> {}, numbers |-> {}, links |-> <<>>, composers |-> {}]))

CommitsQuietly(x) == [t |-> Collected(x).t, told |-> x.events]
\* ArchiveEdit::commit collects first, and what it collects is told with the rest.
Committed(x) == [t |-> Collected(x).t, told |-> Collected(x).events]

CommitEdit ==
    /\ edit.open
    /\ t' = Committed(edit.x).t
    /\ told' = Committed(edit.x).told
    /\ edit' = NoEdit
    /\ UNCHANGED <<handle, binary, opened, budget>>

\* Drop: rolled back, what was recorded included.
DropEdit ==
    /\ edit.open
    /\ edit' = NoEdit
    /\ told' = {}
    /\ UNCHANGED <<t, handle, binary, opened, budget>>

-----------------------------------------------------------------------------
(***************************************************************************)
(* Opening the archive recognizes every stored link anew                   *)
(***************************************************************************)
WithLinks(tables) == {e \in Entities(tables) : tables[e[1]][e[2]].links # <<>>}

RecordsOf(v, tables, e) ==
    LET links == tables[e[1]][e[2]].links
    IN [k \in DOMAIN links |-> Recognized(v, e[1], links[k].url)]

\* What every link of an owner should name: a record is named by the first link to it.
Computed(links, names) ==
    LET First(k) == \A j \in 1 .. k - 1 : names[j] # names[k]
    IN [k \in DOMAIN links |->
          [links[k] EXCEPT !.record = IF First(k) THEN names[k] ELSE Generic]]

\* set_columns, under the unique index of an owner's records.
SetColumns(a, k, record) ==
    IF record # Generic /\ \E j \in DOMAIN a.links \ {k} : a.links[j].record = record
    THEN [a EXCEPT !.ok = FALSE]
    ELSE [a EXCEPT !.links[k].record = record]

KeepsRecords(links, changed) == links
\* "Cleared first so a record moving between two links never collides".
Cleared(links, changed) ==
    [k \in DOMAIN links |-> IF k \in changed THEN [links[k] EXCEPT !.record = Generic] ELSE links[k]]

SetNext(a, change) ==
    IF a.ok /\ change.was # change.record THEN SetColumns(a, change.link, change.record) ELSE a
SetEach(a, changes) == FoldLeft(SetNext, a, changes)

\* recognize_all, of one owner.
Recognizes(links, names) ==
    LET computed == Computed(links, names)
        changes == [k \in DOMAIN links |->
                      [link |-> k, was |-> links[k].record, record |-> computed[k].record]]
        changed == {k \in DOMAIN links : changes[k].was # changes[k].record}
    IN SetEach([ok |-> TRUE, links |-> Cleared(links, changed)], changes)

\* What was recognized, written to the rows.
Relinked(tables, result) ==
    LET Rows(table) ==
          [id \in DOMAIN tables[table] |->
             IF <<table, id>> \in DOMAIN result
             THEN [tables[table][id] EXCEPT !.links = result[<<table, id>>].links]
             ELSE tables[table][id]]
    IN [tables EXCEPT !.pubs = Rows("pubs"), !.works = Rows("works"), !.people = Rows("people")]

\* Archive::open, by this binary or a newer one, after the last process ended anywhere.
Reopen ==
    /\ Spends("opens")
    /\ \E v \in binary.version .. LastVersion : binary' = Binary(v)
    /\ edit' = NoEdit /\ handle' = NoHandle
    /\ \E names \in {[e \in WithLinks(t) |-> RecordsOf(binary'.version, t, e)]} :
         LET result == [e \in DOMAIN names |-> Recognizes(t[e[1]][e[2]].links, names[e])]
             relinked == {e \in DOMAIN names : result[e].links # t[e[1]][e[2]].links}
         IN /\ opened' = (\A e \in DOMAIN names : result[e].ok)
            /\ t' = IF opened' THEN Relinked(t, result) ELSE t
            /\ told' = IF opened'
                       THEN {Event("link_recognition", "updated", e, "links") : e \in relinked}
                       ELSE {}

-----------------------------------------------------------------------------
Init ==
    /\ \E start \in Starts : t = start.tables /\ budget = start.budget
    /\ told = {}
    /\ edit = NoEdit
    /\ handle = NoHandle
    /\ binary = Binary(1)
    /\ opened = TRUE

EditsPublication ==
    \E p \in DOMAIN edit.x.t.pubs :
        EditsPublicationRow(p) \/ EditsPublicationLists(p) \/ EditsCopies(p) \/ DeletesPublication(p)
EditsWork ==
    \E w \in DOMAIN edit.x.t.works :
        \/ EditsWorkRow(w) \/ EditsWorkLists(w)
        \/ \E into \in DOMAIN edit.x.t.works : MergesWorks(w, into)
Edits ==
    /\ edit.open
    /\ \/ EditsPublication
       \/ EditsWork
       \/ \E who \in DOMAIN edit.x.t.people : EditsPerson(who)
       \/ EditsLibrary
       \/ Creates

Load ==
    \/ \E p \in DOMAIN t.pubs : LoadPublication(p)
    \/ \E w \in DOMAIN t.works : LoadWork(w)
    \/ \E who \in DOMAIN t.people : LoadPerson(who)
    \/ LoadLibrary
Save ==
    \/ \E post \in PublicationPosts(t) \intersect PublicationForms : SavePublication(post) \/ NewPublication(post)
    \/ \E post \in WorkPosts(t) \intersect WorkForms : SaveWork(post)
    \/ \E name \in Names \union {Blank}, url \in Urls : SavePerson(name, <<url>>)
    \/ \E name \in Names, private \in BOOLEAN : SaveLibrary(name, private)
    \/ RemovePublication
    \/ RemoveLibrary
    \/ \E from, into \in DOMAIN t.works : MergeStored(from, into)

Next == Load \/ Save \/ OpenEdit \/ Edits \/ CommitEdit \/ DropEdit \/ Reopen
Spec == Init /\ [][Next]_vars

-----------------------------------------------------------------------------
(***************************************************************************)
(* What the log promises                                                   *)
(***************************************************************************)
Tells(log, action, e) == \E ev \in log : ev.action = action /\ ev.on = e
TellsField(log, e, f) == \E ev \in log : ev.action = "updated" /\ ev.on = e /\ ev.field = f

Library == <<"about", 1>>
Lasting(before, after) == (Entities(before) \intersect Entities(after)) \union {Library}
ChangesOf(before, after, e) ==
    LET was == before[e[1]][e[2]]  now == after[e[1]][e[2]] IN {f \in DOMAIN was : was[f] # now[f]}

\* A merge is told of the work that is left; what it changed is not told field by field.
IsMerged(log, merges, before, e, f) ==
    \/ Tells(log, "merged", e)
    \/ /\ f = "works"
       /\ \E m \in ToSet(merges) : m.from \in before[e[1]][e[2]].works

\* However many calls an edit made, and whatever its commit cleaned up after them, its entries
\* account for the difference: each row that came was created, each that went was deleted or
\* merged away, nothing deleted is left, and each field that differs was updated.  Deleting
\* the library stands for everything in it.
EditsTellWhatTheyDid ==
    [][edit.open /\ ~edit'.open /\ budget'.opens = budget.opens =>
         IF t.library /\ ~t'.library
         THEN Tells(told', "deleted", Library) /\ Entities(t') = {}
         ELSE LET merges == edit.x.merges
                  absorbed == {<<"works", m.from>> : m \in ToSet(merges)}
              IN /\ \A e \in Entities(t') : e \in Entities(t) \/ Tells(told', "created", e)
                 /\ \A e \in Entities(t) \ Entities(t') :
                       e \in absorbed \/ Tells(told', "deleted", e)
                 /\ \A e \in Entities(t') : ~Tells(told', "deleted", e)
                 /\ \A e \in Lasting(t, t') : \A f \in ChangesOf(t, t', e) :
                       TellsField(told', e, f) \/ IsMerged(told', merges, t, e, f)]_vars

\* A save of a whole form finds out what it changed by comparing with what was loaded, outside
\* its transaction.  A save never loses its own entity, it tells of every row it removed, and of its
\* own entity it tells a field exactly when it changed it, unless someone else changed that
\* field since it was loaded.
UpdatesTellUnlessStale ==
    [][budget'.saves < budget.saves =>
         LET e == handle.on
             merged == \E ev \in told' : ev.action = "merged"
             other == \E ev \in told' : ev.source = "user" /\ ev.action \in {"created", "merged"}
             fresh == {f \in DOMAIN handle.was : handle.was[f] = Loaded(t, e)[f]}
             changed == {f \in DOMAIN handle.was : Loaded(t', e)[f] # Loaded(t, e)[f]}
         IN /\ handle' # Panicked
            /\ \A d \in Entities(t) \ Entities(t') :
                  \/ Tells(told', "deleted", d) \/ Tells(told', "deleted", Library)
                  \/ d[1] = "works" /\ merged
            /\ handle'.on = e /\ e # NoHandle.on /\ IsThere(t', e) /\ ~other =>
                  /\ \A f \in fresh : TellsField(told', e, f) <=> f \in changed
                  /\ e[1] = "pubs" /\ t'.pubs[e[2]].works # t.pubs[e[2]].works =>
                        merged \/ TellsField(told', e, "works")]_vars

\* Whatever a newer binary recognizes, and whatever was removed in between, the archive opens,
\* each record an owner's links name is named by one of them, the first, and an owner whose
\* links were rewritten is told once.
OpeningRecognizes ==
    [][budget'.opens < budget.opens =>
         /\ opened'
         /\ \A e \in WithLinks(t') : \A names \in {RecordsOf(binary'.version, t', e)} :
               LET now == t'[e[1]][e[2]].links  was == t[e[1]][e[2]].links
               IN /\ \A k \in DOMAIN now :
                        /\ now[k].url = was[k].url
                        /\ now[k].record \in {names[k], Generic}
                        /\ now[k].record = Generic /\ names[k] # Generic =>
                              \E j \in 1 .. k - 1 : now[j].record = names[k]
                  /\ \A j, k \in DOMAIN now : j # k => now[j].url # now[k].url
                                                     /\ (now[j].record # Generic => now[j].record # now[k].record)
                  /\ TellsField(told', e, "links") <=> now # was]_vars

\* A record that a link names has an address of its own at its site, and that address names
\* the same record: what Url builds is never a link that matching would miss, or one to
\* something else.  A page whose title is a dot segment is the one exception: it has none.
RecordsAreFoundAgain ==
    opened =>
        \A e \in Entities(t) : \A l \in ToSet(t[e[1]][e[2]].links) :
            l.record # Generic => IsFoundAgain(KindOf[e[1]], l.record)

=============================================================================
