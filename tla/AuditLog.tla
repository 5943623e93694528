------------------------------ MODULE AuditLog ------------------------------
(***************************************************************************)
(* The audit log (audit.rs) beside the tables it tells of (Catalog).       *)
(*                                                                         *)
(* Every operation of the engine opens a write transaction that can only   *)
(* be committed by recording events, or expressly without any.  What each  *)
(* records is written out at the operation, by hand: the operations below  *)
(* are those of Catalog with their events, those on fields, and those on   *)
(* the library itself.  A commit that records something trims the table to *)
(* its newest events.                                                      *)
(*                                                                         *)
(* An entity has one field that is set, `value` (a title, a year, a name), *)
(* and one that is added to and removed from, `items` (tags, identifiers,  *)
(* links, holdings); of the events the label is left out.                  *)
(***************************************************************************)
EXTENDS Catalog, Naturals, Sequences

Lists == INSTANCE SequencesExt

CONSTANTS
    Library,    \* the library that holds the tables' rows
    Values,     \* what a field can be set to
    Default,    \* what it is to begin with
    Items,      \* what can be added to and removed from a field
    MaxEvents,  \* how many events are kept
    MaxWrites   \* bounds how many transactions there are

ASSUME LogIsBounded ==
    /\ MaxEvents \in Nat \ {0}
    /\ Default \in Values
    /\ Library \notin Entities
    /\ IsFiniteSet(Entities)

VARIABLES
    library,    \* whether the library is there
    value, items,
    log,        \* the events, oldest first
    news,       \* how many of them the last transaction recorded
    writes      \* how many transactions there were

auditVars == <<db, review, library, value, items, log, news, writes>>

Subjects == Valued \union {Library}
Fields == {"classification", "contents", "contributors", "value", "items"}
NoField == "none"

Event(source, action, subject, field) ==
    [source |-> source, action |-> action, subject |-> subject, field |-> field]
Created(e) == <<Event("user", "created", e, NoField)>>
Updated(e, field) == <<Event("user", "updated", e, field)>>
Committed(e) == <<Event("user", "committed", e, NoField)>>
Deleted(e) == <<Event("user", "deleted", e, NoField)>>

\* record_each: an event per subject, in some order
Each(source, action, subjects, field) ==
    LET order == Lists!SetToSeq(subjects)
    IN [i \in 1..Len(order) |-> Event(source, action, order[i], field)]

KeepsOldest(events) == SubSeq(events, 1, MaxEvents)
\* Recorded::commit
Trimmed(events) == SubSeq(events, Len(events) - MaxEvents + 1, Len(events))

Record(events) ==
    /\ log' = IF Len(log \o events) <= MaxEvents THEN log \o events
              ELSE Trimmed(log \o events)
    /\ news' = Len(events)

-----------------------------------------------------------------------------
(***************************************************************************)
(* What a transaction deletes, commits and classifies besides what it is   *)
(* about, as it records it                                                 *)
(***************************************************************************)
CleanedUp(orphans) == Each("orphan_cleanup", "deleted", orphans, NoField)

WorksOnly(d) == CleanedUp(OrphanWorks(d))
\* collect_orphan_works, then collect_orphan_people
Orphaned(d) == CleanedUp(OrphanWorks(d)) \o CleanedUp(OrphanPeople(Remove(d, OrphanWorks(d))))
OrphanedPeople(d) == CleanedUp(OrphanPeople(d))

Drafts(d, these) == {e \in these : IsDraft(d, e)}
EachCommitted(these) == Each("user", "committed", these, NoField)
EachClassified(d, p, source) ==
    Each(source, "updated", {w \in ContentsOf(d, p) : d.kind[w] = Unclassified}, "classification")

EventsOfAddWork(d, p, w) ==
    LET linked == Link(d, p, w)
        commits == IF IsDraft(d, p) THEN {}
                   ELSE Drafts(d, ContentsOf(linked, p) \union ContributorsOf(d, w))
        committed == CommitRows(linked, commits)
    IN IF <<p, w>> \in d.links THEN <<>>
       ELSE Updated(p, "contents")
            \o EachCommitted(commits)
            \o (IF commits = {} THEN <<>> ELSE OrphanedPeople(committed))
            \o (IF d.kind[p] = Unclassified THEN <<>> ELSE EachClassified(linked, p, "user"))

EventsOfAddContributor(d, a, x) ==
    IF <<a, x>> \in d.links THEN <<>>
    ELSE Updated(a, "contributors")
         \o EachCommitted(IF IsDraft(d, a) THEN {} ELSE Drafts(d, ContributorsOf(d, a) \union {x}))

EventsOfRemoveWork(d, p, w) ==
    IF <<p, w>> \notin d.links THEN <<>>
    ELSE Updated(p, "contents") \o Orphaned(Unlink(d, p, w))

EventsOfRemoveContributor(d, a, x) ==
    IF <<a, x>> \notin d.links THEN <<>>
    ELSE Updated(a, "contributors") \o OrphanedPeople(Unlink(d, a, x))

EventsOfCommit(d, e) ==
    LET with == Drafts(d, CommitClosure(d, e) \ {e})
        committed == CommitRows(d, CommitClosure(d, e))
    IN IF ~IsDraft(d, e) THEN <<>>
       ELSE Committed(e) \o EachCommitted(with)
            \o (IF e \in Publications THEN Orphaned(committed)
                ELSE IF e \in Works THEN OrphanedPeople(committed)
                ELSE <<>>)

EventsOfDelete(d, e) ==
    Deleted(e) \o (IF e \in Publications THEN Orphaned(Remove(d, {e}))
                   ELSE IF e \in Works THEN OrphanedPeople(Remove(d, {e}))
                   ELSE <<>>)

\* commit_rejection: a rejection by itself is not audited.
EventsOfReject(d, e, rejected) ==
    LET rest == [d EXCEPT !.proposals = @ \ rejected] IN
    IF e \in Publications THEN Orphaned(rest)
    ELSE IF e \in Works THEN OrphanedPeople(rest)
    ELSE <<>>

-----------------------------------------------------------------------------
(***************************************************************************)
(* Transactions                                                            *)
(***************************************************************************)
\* Ids are AUTOINCREMENT: a row that the log still tells of is not made again.
IsNew(e) == \A i \in 1..Len(log) : log[i].subject # e

\* The fields of a row go with it.
FieldsOf(d) ==
    /\ value' = [e \in Subjects |-> IF e = Library \/ IsLive(d, e) THEN value[e] ELSE Default]
    /\ items' = [e \in Valued |-> IF IsLive(d, e) THEN items[e] ELSE {}]

Transacts(d, events) ==
    /\ Write(d, review)
    /\ FieldsOf(d)
    /\ Record(events)
    /\ UNCHANGED library

\* A transaction that only looks, or only writes what is not audited
Unaudited == news' = 0 /\ UNCHANGED <<library, value, items, log>>

-----------------------------------------------------------------------------
(***************************************************************************)
(* Operations on the tables                                                *)
(***************************************************************************)
AuditedImport ==
    /\ library
    /\ \E p \in Fresh(Publications) :
        /\ IsNew(p)
        /\ Transacts(Insert(db, p, "draft"), Created(p))

\* write_classification, for a user or for an enrichment's guess
WriteClassification(p, kind, source) ==
    Transacts(Inherit([db EXCEPT !.kind[p] = kind], p, kind),
              <<Event(source, "updated", p, "classification")>> \o EachClassified(db, p, source))

AuditedClassify ==
    \E p \in Live(Publications), k \in Kinds :
        /\ db.kind[p] # k
        /\ WriteClassification(p, k, "user")

AuditedClassifyIfUnset ==
    \E p \in Live(Publications), k \in Kinds :
        /\ db.kind[p] = Unclassified
        /\ WriteClassification(p, k, "enrichment")

AuditedClassifyWork ==
    \E w \in Live(Works), k \in Kinds :
        /\ db.kind[w] # k
        /\ Transacts([db EXCEPT !.kind[w] = k], Updated(w, "classification"))

AuditedCreateWork ==
    \E p \in Live(Publications), w \in Fresh(Works) :
        /\ IsNew(w)
        /\ Transacts([Link(Insert(db, w, db.mark[p]), p, w) EXCEPT !.kind[w] = db.kind[p]],
                     Created(w) \o Updated(p, "contents"))

AuditedCreateContributor ==
    \E a \in Live(Parents), x \in Fresh(People) :
        /\ IsNew(x)
        /\ Transacts(Link(Insert(db, x, db.mark[a]), a, x),
                     Created(x) \o Updated(a, "contributors"))

AuditedAddWork ==
    \E p \in Live(Publications), w \in Live(Works) :
        Transacts(AddWork(db, p, w), EventsOfAddWork(db, p, w))

AuditedRemoveWork ==
    \E p \in Live(Publications), w \in Works :
        Transacts(RemoveWork(db, p, w), EventsOfRemoveWork(db, p, w))

AuditedAddContributor ==
    \E a \in Live(Parents), x \in Live(People) :
        Transacts(AddContributor(db, a, x), EventsOfAddContributor(db, a, x))

AuditedRemoveContributor ==
    \E a \in Live(Parents), x \in People :
        Transacts(RemoveContributor(db, a, x), EventsOfRemoveContributor(db, a, x))

\* propose_new_work, propose_new_contributor
AuditedProposeNew ==
    \E a \in Live(Parents), e \in Fresh(Works \union People) :
        /\ IsNew(e)
        /\ e \in Works => a \in Publications
        /\ Transacts(Propose(Insert(db, e, "draft"), a, e),
                     <<Event("enrichment", "created", e, NoField)>>)

Rejected(e, rejected) ==
    Transacts(Reject(db, e, rejected), EventsOfReject(db, e, rejected))

AuditedReject == \E p \in db.proposals : Rejected(p[1], {p})
AuditedRejectAll == \E e \in Live(Entities) : Rejected(e, ProposalsOf(db, e))

AuditedCommit ==
    \E e \in Live(Entities) : Transacts(Commit(db, e), EventsOfCommit(db, e))

AuditedDelete ==
    \E e \in Live(Entities) : Transacts(Delete(db, e), EventsOfDelete(db, e))

-----------------------------------------------------------------------------
(***************************************************************************)
(* Operations on fields: one that changes nothing writes nothing.          *)
(***************************************************************************)
ToValue(e, v) ==
    /\ value' = [value EXCEPT ![e] = v]
    /\ Record(IF value[e] = v THEN <<>> ELSE Updated(e, "value"))
    /\ UNCHANGED <<library, items>>

ToItems(e, changed) ==
    /\ items' = [items EXCEPT ![e] = changed]
    /\ Record(IF items[e] = changed THEN <<>> ELSE Updated(e, "items"))
    /\ UNCHANGED <<library, value>>

SetValue(e, v) == ToValue(e, v) /\ UNCHANGED <<db, review>>
SetItems(e, changed) == ToItems(e, changed) /\ UNCHANGED <<db, review>>

SetsPublicationField == \E p \in Live(Valued \intersect Publications), v \in Values : SetValue(p, v)
SetsWorkField == \E w \in Live(Valued \intersect Works), v \in Values : SetValue(w, v)
RenamesPerson == \E x \in Live(Valued \intersect People), v \in Values : SetValue(x, v)
SetsLibraryField == library /\ \E v \in Values : SetValue(Library, v)

AddsOrRemoves(e) == \E i \in Items : SetItems(e, items[e] \union {i}) \/ SetItems(e, items[e] \ {i})

EditsPublicationItems == \E p \in Live(Valued \intersect Publications) : AddsOrRemoves(p)
EditsWorkItems == \E w \in Live(Valued \intersect Works) : AddsOrRemoves(w)
EditsPersonItems == \E x \in Live(Valued \intersect People) : AddsOrRemoves(x)

-----------------------------------------------------------------------------
(***************************************************************************)
(* The library                                                             *)
(***************************************************************************)
AuditedCreateLibrary ==
    /\ ~library /\ IsNew(Library)
    /\ library' = TRUE
    /\ Record(Created(Library))
    /\ UNCHANGED <<db, review, value, items>>

\* One event for all that goes with it.
AuditedDeleteLibrary ==
    /\ library
    /\ library' = FALSE
    /\ Write(Remove(db, Entities), review)
    /\ value' = [e \in Subjects |-> Default]
    /\ items' = [e \in Valued |-> {}]
    /\ Record(Deleted(Library))

-----------------------------------------------------------------------------
(***************************************************************************)
(* Reviewers                                                               *)
(***************************************************************************)
Accepted(r) == [review EXCEPT ![r].step = "applied"]

\* Entity::accept: what it applies is audited as the edit it is.  Finding that what it
\* is about is gone ends it, as Interrupted does.  Of a person only links are proposed.
AuditedApply(r) ==
    LET a == review[r].of
        about == review[r].about
        events == IF about \in Works THEN EventsOfAddWork(db, a, about)
                  ELSE EventsOfAddContributor(db, a, about)
    IN
    /\ review[r].step = "read" /\ IsLive(db, a)
    /\ \/ /\ about # Value /\ IsLive(db, about)
          /\ Write(Apply(db, a, about), Accepted(r))
          /\ FieldsOf(Apply(db, a, about))
          /\ Record(events)
          /\ UNCHANGED library
       \/ /\ about = Value
          /\ Write(db, Accepted(r))
          /\ \/ a \in Parents /\ \E v \in Values : ToValue(a, v)
             \/ \E i \in Items : ToItems(a, items[a] \union {i})

AuditedDeleteReloaded(r) ==
    LET e == review[r].of IN
    /\ DeleteReloaded(r)
    /\ FieldsOf(db')
    /\ Record(IF IsLive(db, e) THEN EventsOfDelete(db, e) ELSE <<>>)
    /\ UNCHANGED library

\* A proposal, and its end by being accepted, is no change of the catalog.
UnauditedDiscard(r) == DiscardProposal(r) /\ Unaudited
ReviewReads(r) == (ReadProposal(r) \/ ReloadDraft(r) \/ Interrupted(r)) /\ Unaudited

-----------------------------------------------------------------------------
AuditInit ==
    /\ Init
    /\ library = TRUE
    /\ value = [e \in Subjects |-> Default]
    /\ items = [e \in Valued |-> {}]
    /\ log = Created(Library)
    /\ news = 1
    /\ writes = 0

AuditStep ==
    \/ AuditedImport \/ AuditedClassify \/ AuditedClassifyIfUnset \/ AuditedClassifyWork
    \/ AuditedCreateWork \/ AuditedCreateContributor
    \/ AuditedAddWork \/ AuditedRemoveWork
    \/ AuditedAddContributor \/ AuditedRemoveContributor
    \/ AuditedProposeNew \/ AuditedReject \/ AuditedRejectAll
    \/ AuditedCommit \/ AuditedDelete
    \/ SetsPublicationField \/ SetsWorkField \/ RenamesPerson \/ SetsLibraryField
    \/ EditsPublicationItems \/ EditsWorkItems \/ EditsPersonItems
    \/ AuditedCreateLibrary \/ AuditedDeleteLibrary
    \/ (ProposesLink \/ ProposesValue) /\ Unaudited
    \/ \E r \in Reviewers : AuditedApply(r) \/ AuditedDeleteReloaded(r) \/ UnauditedDiscard(r)

AuditNext ==
    \/ writes < MaxWrites /\ writes' = writes + 1 /\ AuditStep
    \/ (\E r \in Reviewers : ReviewReads(r)) /\ UNCHANGED writes

AuditSpec == AuditInit /\ [][AuditNext]_auditVars

-----------------------------------------------------------------------------
TellsOfLife(i, e) ==
    \/ log[i].subject = e /\ log[i].action \in {"created", "committed", "deleted"}
    \/ log[i].subject = Library /\ log[i].action = "deleted"

IsLastWord(i, e) ==
    /\ TellsOfLife(i, e)
    /\ \A j \in (i + 1)..Len(log) : ~TellsOfLife(j, e)

(* "Every mutation runs in a transaction that records its audit entries before it
   commits, so the log and the catalog never disagree": the last thing that the log
   still tells of an entity, or of its library, holds of its row, whatever cascade
   or collection it was in and however much of the log has been trimmed. *)
LogTellsWhoIsThere ==
    \A e \in Entities, i \in 1..Len(log) : IsLastWord(i, e) =>
        CASE log[i].action = "created" -> IsLive(db, e)
          [] log[i].action = "committed" -> IsCommitted(db, e)
          [] log[i].action = "deleted" -> ~IsLive(db, e)

\* The events of the step, if the log can hold them all.
Told(action, e) ==
    \E i \in (Len(log') - news' + 1)..Len(log') :
        log'[i].action = action /\ log'[i].subject = e
ToldField(e, field) ==
    \E i \in (Len(log') - news' + 1)..Len(log') :
        log'[i].action = "updated" /\ log'[i].subject = e /\ log'[i].field = field

Survives(e) == IsLive(db, e) /\ IsLive(db', e)
LinksIn(d, e, S) == {t \in S : <<e, t>> \in d.links}
\* A link that went with the other end is told of by its deletion.
LinksChange(e, S) ==
    \E t \in S : /\ (<<e, t>> \in db.links) # (<<e, t>> \in db'.links)
                 /\ IsLive(db', t)

(* What a transaction records is what it changes, of everything its cascades reach
   and of nothing else: who is created, committed and deleted, and which fields of
   those that stay; all but proposals, which are not of the catalog, and the links
   of a deleted entity. *)
LogIsWhatChanged ==
    [][news' <= MaxEvents =>
        \A e \in Entities :
          /\ Told("created", e) <=> ~IsLive(db, e) /\ IsLive(db', e)
          /\ Told("committed", e) <=> IsDraft(db, e) /\ IsCommitted(db', e)
          /\ Told("deleted", e) \/ (IsLive(db, e) /\ Told("deleted", Library))
               <=> IsLive(db, e) /\ ~IsLive(db', e)
          /\ ToldField(e, "contents") =>
               Survives(e) /\ LinksIn(db, e, Works) # LinksIn(db', e, Works)
          /\ Survives(e) /\ LinksChange(e, Works) => ToldField(e, "contents")
          /\ ToldField(e, "contributors") =>
               Survives(e) /\ LinksIn(db, e, People) # LinksIn(db', e, People)
          /\ Survives(e) /\ LinksChange(e, People) => ToldField(e, "contributors")
          /\ e \in Parents =>
               (ToldField(e, "classification") <=> Survives(e) /\ db.kind[e] # db'.kind[e])
          /\ e \in Valued =>
               /\ ToldField(e, "value") <=> Survives(e) /\ value[e] # value'[e]
               /\ ToldField(e, "items") <=> Survives(e) /\ items[e] # items'[e]]_auditVars
=============================================================================
