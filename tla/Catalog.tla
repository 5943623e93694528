------------------------------- MODULE Catalog -------------------------------
(***************************************************************************)
(* One library of the catalog (crates/scorarium-engine): publications, the *)
(* works they contain, the people who contributed to either, which of them *)
(* are drafts, and the proposals that enrichment makes about them.         *)
(*                                                                         *)
(* The engine's writers are serialised (begin_write is BEGIN IMMEDIATE) and *)
(* re-read their entity inside the transaction, so an operation is one     *)
(* action here, orphan collection and cascades included, unless it spans   *)
(* transactions.  Two do: accepting a proposal reads it, applies it and    *)
(* discards it, and discarding a review item reloads the entity before it  *)
(* deletes it.  Any number of users act; each reviewer is one session in   *)
(* the middle of one of those two.                                         *)
(*                                                                         *)
(* Of a row's columns only the draft mark and the classification are kept: *)
(* a publication without a title can't be committed, which here is just    *)
(* one that no one commits.                                                *)
(***************************************************************************)
EXTENDS FiniteSets

CONSTANTS
    Publications, Works, People,    \* row ids
    Kinds,                          \* Classification
    Reviewers,                      \* sessions that accept and discard
    Unclassified,                   \* no classification
    Value,                          \* what a proposal of a plain field is about
    Valued                          \* entities whose plain fields get proposals

Entities == Publications \union Works \union People
Parents == Publications \union Works

ASSUME IdsAreDistinct ==
    /\ Publications \intersect Works = {}
    /\ Publications \intersect People = {}
    /\ Works \intersect People = {}
    /\ Value \notin Entities
    /\ Unclassified \notin Kinds
    /\ Valued \subseteq Entities

VARIABLES
    db,     \* the tables
    review  \* what each reviewer is in the middle of, and has read for it

vars == <<db, review>>

Marks == {"absent", "draft", "committed"}
Steps == {"idle", "read", "applied", "deleting"}
NotReviewing == [step |-> "idle", of |-> Value, about |-> Value, there |-> FALSE]

-----------------------------------------------------------------------------
(***************************************************************************)
(* Rows.  A link <<a, e>> is a containment or a contributor row (of one    *)
(* role), a proposal <<a, e>> a row that proposes one for `a`, or, with    *)
(* Value, a new value for a plain field of `a`.                            *)
(***************************************************************************)
IsLive(d, e) == d.mark[e] # "absent"
IsDraft(d, e) == d.mark[e] = "draft"
IsCommitted(d, e) == d.mark[e] = "committed"

ContentsOf(d, a) == {w \in Works : <<a, w>> \in d.links}
ContributorsOf(d, a) == {x \in People : <<a, x>> \in d.links}

LeavesProposals(d, gone) ==
    [d EXCEPT
       !.mark = [e \in Entities |-> IF e \in gone THEN "absent" ELSE d.mark[e]],
       !.links = {l \in d.links : l[1] \notin gone /\ l[2] \notin gone}]
\* DELETE of the rows `gone`, with the foreign keys' ON DELETE CASCADE.
Remove(d, gone) ==
    [mark |-> [e \in Entities |-> IF e \in gone THEN "absent" ELSE d.mark[e]],
     kind |-> [a \in Parents |-> IF a \in gone THEN Unclassified ELSE d.kind[a]],
     links |-> {l \in d.links : l[1] \notin gone /\ l[2] \notin gone},
     proposals |-> {p \in d.proposals : p[1] \notin gone /\ p[2] \notin gone}]

\* INSERT of a row and of a link or proposal to it.
Insert(d, e, mark) == [d EXCEPT !.mark[e] = mark]
Link(d, a, e) == [d EXCEPT !.links = @ \union {<<a, e>>}]
Unlink(d, a, e) == [d EXCEPT !.links = @ \ {<<a, e>>}]
Propose(d, a, e) == [d EXCEPT !.proposals = @ \union {<<a, e>>}]
Discard(d, a, e) == [d EXCEPT !.proposals = @ \ {<<a, e>>}]

\* The *_committed triggers: a committed draft's proposals are dropped.
ProposalsAfter(d, committed) == {p \in d.proposals : p[1] \notin committed}

\* Clears the draft marks among `these`.
CommitRows(d, these) ==
    LET committed == {e \in these : IsDraft(d, e)} IN
    [d EXCEPT
       !.mark = [e \in Entities |-> IF e \in committed THEN "committed" ELSE d.mark[e]],
       !.proposals = ProposalsAfter(d, committed)]

InheritsNothing(d, a, kind) == d
\* work::inherit_classification
Inherit(d, a, kind) ==
    IF kind = Unclassified THEN d
    ELSE [d EXCEPT !.kind = [e \in Parents |->
                               IF e \in ContentsOf(d, a) /\ d.kind[e] = Unclassified THEN kind
                               ELSE d.kind[e]]]

-----------------------------------------------------------------------------
(***************************************************************************)
(* Orphans                                                                 *)
(***************************************************************************)
IsLinked(d, e) == \E a \in Parents : <<a, e>> \in d.links
IsNeeded(d, e) == \E a \in Parents : <<a, e>> \in d.links \union d.proposals

IgnoresWorks(d) == {x \in People : IsLive(d, x) /\
                      ~\E p \in Publications : <<p, x>> \in d.links \union d.proposals}
OrphanWorks(d) == {w \in Works : IsLive(d, w) /\ ~IsNeeded(d, w)}
OrphanPeople(d) == {x \in People : IsLive(d, x) /\ ~IsNeeded(d, x)}

\* "deleting works can orphan people, so works first"
CollectPeople(d) == Remove(d, OrphanPeople(d))
PeopleFirst(d) == Remove(CollectPeople(d), OrphanWorks(CollectPeople(d)))
Collect(d) == CollectPeople(Remove(d, OrphanWorks(d)))

-----------------------------------------------------------------------------
(***************************************************************************)
(* The operations, as what each makes of the tables                        *)
(***************************************************************************)

\* What a commit of `e` commits with it.
CommitClosure(d, e) ==
    {e} \union ContentsOf(d, e) \union ContributorsOf(d, e)
        \union UNION {ContributorsOf(d, w) : w \in ContentsOf(d, e)}

AddWork(d, p, w) ==
    LET linked == Link(d, p, w)
        commits == IF IsCommitted(d, p)
                   THEN {e \in ContentsOf(linked, p) \union ContributorsOf(d, w) : IsDraft(d, e)}
                   ELSE {}
        committed == CommitRows(linked, commits)
        collected == IF commits = {} THEN committed ELSE CollectPeople(committed)
    IN IF <<p, w>> \in d.links THEN d ELSE Inherit(collected, p, d.kind[p])

LeavesTheDraft(d, a, x) == Link(d, a, x)
AddContributor(d, a, x) ==
    LET linked == Link(d, a, x) IN
    IF <<a, x>> \in d.links THEN d
    ELSE IF IsCommitted(d, a) THEN CommitRows(linked, ContributorsOf(linked, a))
    ELSE linked

RemoveWork(d, p, w) ==
    IF <<p, w>> \notin d.links THEN d ELSE Collect(Unlink(d, p, w))

RemoveContributor(d, a, x) ==
    IF <<a, x>> \notin d.links THEN d ELSE CollectPeople(Unlink(d, a, x))

\* Committing a person collects nothing: no one's last reference is a person's.
Commit(d, e) ==
    LET committed == CommitRows(d, CommitClosure(d, e)) IN
    IF ~IsDraft(d, e) THEN d
    ELSE IF e \in Publications THEN Collect(committed)
    ELSE IF e \in Works THEN CollectPeople(committed)
    ELSE committed

Delete(d, e) ==
    LET gone == Remove(d, {e}) IN
    IF e \in Publications THEN Collect(gone)
    ELSE IF e \in Works THEN CollectPeople(gone)
    ELSE gone

\* Rejecting a person's proposal collects nothing either.
Reject(d, e, rejected) ==
    LET rest == [d EXCEPT !.proposals = @ \ rejected] IN
    IF e \in Publications THEN Collect(rest)
    ELSE IF e \in Works THEN CollectPeople(rest)
    ELSE rest

ProposalsOf(d, e) == {p \in d.proposals : p[1] = e}

-----------------------------------------------------------------------------
(***************************************************************************)
(* Edits                                                                   *)
(***************************************************************************)
Live(S) == {e \in S : IsLive(db, e)}

\* Ids of new rows.  A deleted row's id is not used again, but one that no
\* session remembers is as good as new.
Fresh(S) == {e \in S : /\ ~IsLive(db, e)
                       /\ \A r \in Reviewers : e \notin {review[r].of, review[r].about}}

\* The tables become `d`.  A proposal that a reviewer has read may go with it:
\* one proposed again is another row.
Write(d, reviews) ==
    /\ db' = d
    /\ review' = [r \in Reviewers |->
                    [reviews[r] EXCEPT
                       !.there = @ /\ <<reviews[r].of, reviews[r].about>> \in d.proposals]]

Edits(d) == Write(d, review)

Import ==
    \E p \in Fresh(Publications) : Edits(Insert(db, p, "draft"))

\* set_classification of a publication reaches its unclassified works ...
Classify ==
    \E p \in Live(Publications), k \in Kinds :
        /\ db.kind[p] # k
        /\ Edits(Inherit([db EXCEPT !.kind[p] = k], p, k))

\* ... and so does an enrichment's guess, which never overrides.
ClassifyIfUnset ==
    \E p \in Live(Publications), k \in Kinds :
        /\ db.kind[p] = Unclassified
        /\ Edits(Inherit([db EXCEPT !.kind[p] = k], p, k))

ClassifyWork ==
    \E w \in Live(Works), k \in Kinds : Edits([db EXCEPT !.kind[w] = k])

CreateWork ==
    \E p \in Live(Publications), w \in Fresh(Works) :
        Edits([Link(Insert(db, w, db.mark[p]), p, w) EXCEPT !.kind[w] = db.kind[p]])

CreateContributor ==
    \E a \in Live(Parents), x \in Fresh(People) :
        Edits(Link(Insert(db, x, db.mark[a]), a, x))

AddsWork ==
    \E p \in Live(Publications), w \in Live(Works) : Edits(AddWork(db, p, w))

RemovesWork ==
    \E p \in Live(Publications), w \in Works : Edits(RemoveWork(db, p, w))

AddsContributor ==
    \E a \in Live(Parents), x \in Live(People) : Edits(AddContributor(db, a, x))

RemovesContributor ==
    \E a \in Live(Parents), x \in People : Edits(RemoveContributor(db, a, x))

\* Enrichment proposes what the entity does not have yet.
ProposesLink ==
    \E a \in Live(Parents), e \in Live(Works \union People) :
        /\ e \in Works => a \in Publications
        /\ <<a, e>> \notin db.links
        /\ Edits(Propose(db, a, e))

ProposesValue ==
    \E e \in Live(Valued) : Edits(Propose(db, e, Value))

\* propose_new_work and propose_new_contributor
ProposesNew ==
    \E a \in Live(Parents), e \in Fresh(Works \union People) :
        /\ e \in Works => a \in Publications
        /\ Edits(Propose(Insert(db, e, "draft"), a, e))

Rejects ==
    \E p \in db.proposals : Edits(Reject(db, p[1], {p}))

\* reject_all, or ReviewItem::discard of what it reloaded as committed
RejectsAll ==
    \E e \in Live(Entities) : Edits(Reject(db, e, ProposalsOf(db, e)))

Commits ==
    \E e \in Live(Entities) : Edits(Commit(db, e))

Deletes ==
    \E e \in Live(Entities) : Edits(Delete(db, e))

(***************************************************************************)
(* Entity::accept, over three transactions                                 *)
(***************************************************************************)
ReadProposal(r) ==
    /\ review[r] = NotReviewing
    /\ \E p \in db.proposals :
        review' = [review EXCEPT ![r] =
                     [step |-> "read", of |-> p[1], about |-> p[2], there |-> TRUE]]
    /\ UNCHANGED db

\* What accepting a proposal of `about` for `a` does to the tables.
Apply(d, a, about) ==
    IF about \in Works THEN AddWork(d, a, about)
    ELSE IF about \in People THEN AddContributor(d, a, about)
    ELSE d

ApplyProposal(r) ==
    /\ review[r].step = "read"
    /\ LET a == review[r].of
           about == review[r].about
       IN IF IsLive(db, a) /\ (about # Value => IsLive(db, about))
          THEN Write(Apply(db, a, about), [review EXCEPT ![r].step = "applied"])
          ELSE Write(db, [review EXCEPT ![r] = NotReviewing]) \* NotFound

\* discard_proposal deletes the row, and does not look for orphans.
DiscardProposal(r) ==
    /\ review[r].step = "applied"
    /\ Write(IF review[r].there THEN Discard(db, review[r].of, review[r].about) ELSE db,
             [review EXCEPT ![r] = NotReviewing])

(***************************************************************************)
(* ReviewItem::discard: reloads the entity, then acts on what it read      *)
(***************************************************************************)
ReloadDraft(r) ==
    /\ review[r] = NotReviewing
    /\ \E e \in Live(Entities) :
        /\ IsDraft(db, e)
        /\ review' = [review EXCEPT ![r] = [NotReviewing EXCEPT !.step = "deleting", !.of = e]]
    /\ UNCHANGED db

DeleteReloaded(r) ==
    /\ review[r].step = "deleting"
    /\ Write(IF IsLive(db, review[r].of) THEN Delete(db, review[r].of) ELSE db,
             [review EXCEPT ![r] = NotReviewing])

\* Between two of these transactions a reviewer's request may be dropped, a cover
\* may fail to download, or the process may end: nothing is resumed.
Interrupted(r) ==
    /\ review[r] # NotReviewing
    /\ review' = [review EXCEPT ![r] = NotReviewing]
    /\ UNCHANGED db

-----------------------------------------------------------------------------
Init ==
    /\ db = [mark |-> [e \in Entities |-> "absent"],
             kind |-> [a \in Parents |-> Unclassified],
             links |-> {},
             proposals |-> {}]
    /\ review = [r \in Reviewers |-> NotReviewing]

Edit ==
    \/ Import \/ Classify \/ ClassifyIfUnset \/ ClassifyWork
    \/ CreateWork \/ CreateContributor \/ AddsWork \/ RemovesWork
    \/ AddsContributor \/ RemovesContributor
    \/ ProposesLink \/ ProposesValue \/ ProposesNew
    \/ Rejects \/ RejectsAll \/ Commits \/ Deletes

Review(r) ==
    \/ ReadProposal(r) \/ ApplyProposal(r) \/ DiscardProposal(r)
    \/ ReloadDraft(r) \/ DeleteReloaded(r) \/ Interrupted(r)

Next == Edit \/ \E r \in Reviewers : Review(r)

Spec == Init /\ [][Next]_vars

-----------------------------------------------------------------------------
(* Every table holds what its columns, CHECKs and foreign keys allow: no link
   and no proposal names a row that is not there. *)
TypeOK ==
    /\ db \in [mark : [Entities -> Marks],
               kind : [Parents -> Kinds \union {Unclassified}],
               links : SUBSET (Parents \X (Works \union People)),
               proposals : SUBSET (Entities \X (Works \union People \union {Value}))]
    /\ \A l \in db.links : IsLive(db, l[1]) /\ IsLive(db, l[2])
    /\ \A p \in db.proposals : IsLive(db, p[1]) /\ (p[2] # Value => IsLive(db, p[2]))
    /\ review \in [Reviewers -> [step : Steps, of : Entities \union {Value},
                                 about : Works \union People \union {Value},
                                 there : BOOLEAN]]

(* "A committed entity never references a draft": no edit, commit cascade,
   accepted proposal or collection leaves a committed publication with a draft
   work or contributor, or a committed work with a draft contributor. *)
CommittedNeverReferencesDraft ==
    \A l \in db.links : IsCommitted(db, l[1]) => IsCommitted(db, l[2])

(* A classified publication's works are all classified, whether they were there
   when it was classified, were added or created since, or came by accepting a
   proposal. *)
ContentsAreClassified ==
    \A l \in db.links : l[2] \in Works /\ db.kind[l[1]] # Unclassified
        => db.kind[l[2]] # Unclassified

Orphans(d) == OrphanWorks(d) \union OrphanPeople(d)
IsAcceptEnding(r) == review[r].step = "applied" /\ review'[r].step = "idle"

(* No step leaves behind a work or a person that nothing contains, names or
   proposes any more, over all the cascades of deletes and commits, but the last
   transaction of an accept, which collects nothing. *)
OnlyAcceptOrphans ==
    [][Orphans(db') \subseteq Orphans(db) \/ \E r \in Reviewers : IsAcceptEnding(r)]_vars

(* "Committing a draft deletes its pending proposals, and those of every draft
   the commit cascades to." *)
CommittingDropsProposals ==
    [][\A e \in Entities : IsDraft(db, e) /\ IsCommitted(db', e)
          => ProposalsOf(db', e) = {}]_vars

(* A step deletes, besides the entity it is about, no publication, and only what
   that entity and what goes with it alone needed: "Works still contained in
   another publication survive, as do persons still contributing anywhere", and
   so does a draft that a proposal of another entity refers to. *)
OthersKeepWhatTheyNeed ==
    [][\E actor \in Entities : \A e \in Entities :
          IsLive(db, e) /\ ~IsLive(db', e) =>
            \/ e = actor
            \/ /\ e \notin Publications
               /\ \A a \in Parents : <<a, e>> \in db.links \union db.proposals =>
                    \/ a = actor
                    \/ ~IsLive(db', a)
                    \/ <<a, e>> \notin db.links /\ IsDraft(db, a) /\ IsCommitted(db', a)]_vars

(* "if the entry is a draft, delete the draft. Otherwise reject every pending
   proposal": discarding a review item never deletes a committed entity. *)
DiscardSparesCommitted ==
    [][\A r \in Reviewers :
          /\ review[r].step = "deleting"
          /\ review'[r].step = "idle"
          /\ IsCommitted(db, review[r].of)
          => IsCommitted(db', review[r].of)]_vars
=============================================================================
