----------------------------- MODULE Enrichment -----------------------------
(***************************************************************************)
(* Enriching publications from Open Library (enrich/open_library.rs) beside *)
(* the tables it proposes to (Catalog), the registry of its runs           *)
(* (enrich/task.rs) and the users who review what it proposes (review.rs). *)
(*                                                                         *)
(* A run of a publication starts with one subtask, which asks for the      *)
(* edition, proposes its fields, classifies, and enqueues a subtask per    *)
(* author; that one matches the author against the people of the library   *)
(* and proposes a contributor, an old one or a new draft, and then a link  *)
(* of that person to the author's record.  Every wait for the source or    *)
(* the database is a step of its own.  A subtask looks whether its run was *)
(* cancelled after a read and before it goes to write; between that look   *)
(* and the write anything can happen.                                      *)
(*                                                                         *)
(* Of what an edition proposes all plain fields are one, Value, and of     *)
(* what an author's record links to only the record itself.  The source    *)
(* gives the same answer whenever it answers.  Runs of works and of people *)
(* have no subtasks and are left out.                                      *)
(***************************************************************************)
EXTENDS Catalog, Naturals

CONSTANTS
    Authors,        \* Open Library's ids of the edition's authors
    NameOf,         \* their names
    Guess,          \* what classify makes of the edition
    Edition,        \* the subtask that is not an author's
    MaxRuns, MaxRestarts,
    MaxActs,        \* how often the users set about something
    NoName, NoRoot

ASSUME IdsAreOrdered ==
    /\ People \subseteq Nat \ {0}
    /\ Authors \intersect ({Edition, Value} \union Entities) = {}
    /\ Guess \in Kinds
    /\ \A a \in Authors : NameOf[a] # NoName
    /\ NoRoot \notin Publications
    /\ MaxRuns \in Nat

VARIABLES
    name,       \* the name of each person there has been
    held,       \* <<e, v>>: e has the edition's fields, or a link to an author's record
    run,        \* every Task so far
    registry,   \* which run, if any, each publication is registered with
    sub,        \* every subtask
    used        \* how much of the bounds

mine == <<name, held, run, registry, sub>>
allVars == <<db, review, mine, used>>

Runs == 1..MaxRuns
NoRun == 0
NoPerson == 0
Subtasks == Runs \X ({Edition} \union Authors)

Writing == {"valuing", "classifying", "naming", "linking"}
UnderWay == Writing \union {"asking", "loading", "byRecord", "byName"}

\* What a subtask is at, the person it has chosen, and, for the properties, whether
\* no user wrote since it began ("clean"), nor since its like finished before it
\* ("again"), and whether it was on its way to write when its run was cancelled.
NotStarted == [step |-> "none", person |-> NoPerson, hist |-> "dirty", spare |-> FALSE]
Ended == [NotStarted EXCEPT !.step = "ended"]
Finished(s) == IF sub[s].hist = "dirty" THEN Ended
               ELSE [NotStarted EXCEPT !.step = "finished", !.hist = "clean"]

-----------------------------------------------------------------------------
(***************************************************************************)
(* Runs                                                                    *)
(***************************************************************************)
IsUnderWay(s) == sub[s].step \in UnderWay
HasPending(n) == \E s \in Subtasks : s[1] = n /\ IsUnderWay(s)

\* EnrichmentStatus::state
InProgress(n) == ~run[n].cancelled /\ HasPending(n)
Completed(n) == ~run[n].cancelled /\ ~HasPending(n) /\ ~run[n].failed
NeedsReview(n) == ~run[n].cancelled /\ ~Completed(n)

NeverSees(n) == FALSE
\* SubTaskQueue::is_cancelled
SeesCancelled(n) == run[n].cancelled

RootOf(s) == run[s[1]].root

Started(s, root) ==
    LET again == \E m \in Runs : run[m].root = root /\ sub[<<m, s[2]>>].step = "finished"
    IN [NotStarted EXCEPT !.step = "asking", !.hist = IF again THEN "again" ELSE "clean"]

\* Task::cancel: what has seen no cancellation may still write once.
Cancelled(n, subs) ==
    [s \in Subtasks |-> IF s[1] = n /\ subs[s].step \in Writing
                        THEN [subs[s] EXCEPT !.spare = TRUE] ELSE subs[s]]

Cancels(n) ==
    /\ run' = [run EXCEPT ![n].cancelled = TRUE]
    /\ sub' = Cancelled(n, sub)

\* Engine::start_enrichment: a publication without a key has nothing to look up.
\* A stale handle starts a run for a publication that is gone.
Enrich(p) ==
    /\ registry[p] # NoRun => ~InProgress(registry[p])
    /\ \E n \in Runs, keyed \in BOOLEAN :
        /\ run[n].root = NoRoot
        /\ \A m \in Runs : m < n => run[m].root # NoRoot
        /\ run' = [run EXCEPT ![n].root = p]
        /\ registry' = [registry EXCEPT ![p] = n]
        /\ sub' = IF keyed
                  THEN [sub EXCEPT ![<<n, Edition>>] = Started(<<n, Edition>>, p)]
                  ELSE sub
    /\ UNCHANGED <<db, review, name, held>>

\* Enrichment::cancel by whoever has a handle.
Cancel(n) ==
    /\ run[n].root # NoRoot /\ ~run[n].cancelled
    /\ Cancels(n)
    /\ UNCHANGED <<db, review, name, held, registry>>

-----------------------------------------------------------------------------
(***************************************************************************)
(* Subtasks                                                                *)
(***************************************************************************)
To(s, step, x) == [sub[s] EXCEPT !.step = step, !.person = x, !.spare = FALSE]

\* The look before a write.
Checked(s, next) == IF SeesCancelled(s[1]) THEN Ended ELSE next

Becomes(s, next) ==
    /\ sub' = [sub EXCEPT ![s] = next]
    /\ UNCHANGED <<run, registry>>

Fails(s) ==
    /\ sub' = [sub EXCEPT ![s] = Ended]
    /\ run' = [run EXCEPT ![s[1]].failed = ~run[s[1]].cancelled]
    /\ UNCHANGED registry

Reads == UNCHANGED <<db, review, name, held>>
Puts(d) == Edits(d) /\ UNCHANGED <<name, held>>

\* The source has an answer, has none (404), or could not be asked.
Answered(s) ==
    /\ sub[s].step = "asking"
    /\ \/ Becomes(s, To(s, "loading", NoPerson))
       \/ Becomes(s, Ended)
       \/ Fails(s)
    /\ Reads

\* A publication that is gone ends the whole run.
Loads(s) ==
    /\ sub[s].step = "loading"
    /\ IF ~IsLive(db, RootOf(s))
       THEN /\ run' = [run EXCEPT ![s[1]].cancelled = TRUE]
            /\ sub' = Cancelled(s[1], [sub EXCEPT ![s] = Ended])
            /\ UNCHANGED registry
       ELSE Becomes(s, IF s[2] = Edition THEN Checked(s, To(s, "valuing", NoPerson))
                       ELSE To(s, "byRecord", NoPerson))
    /\ Reads

\* Publication::propose of what the edition says of plain fields.
ProposesFields(s) ==
    /\ sub[s].step = "valuing"
    /\ IF IsLive(db, RootOf(s))
       THEN /\ Puts(IF <<RootOf(s), Value>> \in held THEN db
                    ELSE Propose(db, RootOf(s), Value))
            /\ Becomes(s, Checked(s, To(s, "classifying", NoPerson)))
       ELSE Fails(s) /\ Reads

\* The edition is done and its authors are enqueued, unless the run is cancelled.
WithAuthors(s) ==
    [t \in Subtasks |->
       IF t = s THEN Finished(s)
       ELSE IF t[1] = s[1] /\ ~SeesCancelled(s[1]) THEN Started(t, RootOf(s))
       ELSE sub[t]]

\* classify_if_unset, the edition's last write
Classifies(s) ==
    LET p == RootOf(s) IN
    /\ sub[s].step = "classifying"
    /\ IF IsLive(db, p)
       THEN /\ Puts(IF db.kind[p] # Unclassified THEN db
                    ELSE Inherit([db EXCEPT !.kind[p] = Guess], p, Guess))
            /\ sub' = WithAuthors(s)
            /\ UNCHANGED <<run, registry>>
       ELSE Fails(s) /\ Reads

-----------------------------------------------------------------------------
(***************************************************************************)
(* Matching an author                                                      *)
(***************************************************************************)
FindByRecord(a) == {x \in Live(People) : <<x, a>> \in held}

IgnoresDrafts(a) == {x \in Live(People) : /\ ~IsDraft(db, x)
                                          /\ name[x] = NameOf[a]
                                          /\ \A b \in Authors \ {a} : <<x, b>> \notin held}
\* find_by_name, drafts included, less the namesakes linked to another record
FindByName(a) == {x \in Live(People) : /\ name[x] = NameOf[a]
                                       /\ \A b \in Authors \ {a} : <<x, b>> \notin held}

\* Committed before draft, then the lowest id.
BestMatch(matches) ==
    IF matches = {} THEN NoPerson
    ELSE CHOOSE x \in matches : \A y \in matches \ {x} :
           \/ IsCommitted(db, x) /\ IsDraft(db, y)
           \/ db.mark[x] = db.mark[y] /\ x < y

Matched(s, matches) == Checked(s, To(s, "naming", BestMatch(matches)))

MatchesRecord(s) ==
    /\ sub[s].step = "byRecord"
    /\ Becomes(s, IF FindByRecord(s[2]) = {} THEN To(s, "byName", NoPerson)
                  ELSE Matched(s, FindByRecord(s[2])))
    /\ Reads

MatchesName(s) ==
    /\ sub[s].step = "byName"
    /\ Becomes(s, Matched(s, FindByName(s[2])))
    /\ Reads

\* Publication::propose of a person that was found
ProposesPerson(s) ==
    LET p == RootOf(s)
        x == sub[s].person
    IN
    /\ sub[s].step = "naming" /\ x # NoPerson
    /\ IF IsLive(db, p) /\ IsLive(db, x)
       THEN /\ Puts(IF <<p, x>> \in db.links THEN db ELSE Propose(db, p, x))
            /\ Becomes(s, Checked(s, To(s, "linking", x)))
       ELSE Fails(s) /\ Reads

\* propose_new_contributor, with the next id
ProposesNewPerson(s) ==
    LET p == RootOf(s) IN
    /\ sub[s].step = "naming" /\ sub[s].person = NoPerson
    /\ IF IsLive(db, p)
       THEN \E x \in People :
              /\ \A y \in People : (name[y] = NoName) <=> (y >= x)
              /\ Edits(Propose(Insert(db, x, "draft"), p, x))
              /\ name' = [name EXCEPT ![x] = NameOf[s[2]]]
              /\ Becomes(s, Checked(s, To(s, "linking", x)))
              /\ UNCHANGED held
       ELSE Fails(s) /\ Reads

\* Person::propose of a link to the author's record
ProposesLinkTo(s) ==
    LET x == sub[s].person IN
    /\ sub[s].step = "linking"
    /\ IF IsLive(db, x)
       THEN /\ Puts(IF <<x, s[2]>> \in held THEN db ELSE Propose(db, x, s[2]))
            /\ Becomes(s, Finished(s))
       ELSE Fails(s) /\ Reads

\* An aborted subtask is dropped where it waits.
Dropped(s) ==
    /\ IsUnderWay(s) /\ run[s[1]].cancelled
    /\ Fails(s)
    /\ Reads

Subtask(s) ==
    \/ Answered(s) \/ Loads(s) \/ ProposesFields(s) \/ Classifies(s)
    \/ MatchesRecord(s) \/ MatchesName(s)
    \/ ProposesPerson(s) \/ ProposesNewPerson(s) \/ ProposesLinkTo(s)
    \/ Dropped(s)

-----------------------------------------------------------------------------
(***************************************************************************)
(* Users.  A session does one thing at a time; after it has written it     *)
(* looks after the registry, which locks no table.                         *)
(***************************************************************************)
At(r, step, e) == [review EXCEPT ![r] = [NotReviewing EXCEPT !.step = step, !.of = e]]
Idle(r) == [review EXCEPT ![r] = NotReviewing]

\* A user's write: the tables become `d` and the entities in them have `h`.
UserWrites(d, h, reviews) ==
    /\ Write(d, reviews)
    /\ held' = {v \in h : IsLive(d, v[1])}
    /\ sub' = [s \in Subtasks |-> IF sub[s].step = "finished" THEN Ended
                                  ELSE [sub[s] EXCEPT !.hist = "dirty"]]
    /\ UNCHANGED <<name, run, registry>>

\* Only a publication has a run to look after.
Then(r, step, e) == IF e \in Publications THEN At(r, step, e) ELSE Idle(r)

IsQueuedByDatabase(p) == IsDraft(db, p) \/ (IsLive(db, p) /\ ProposalsOf(db, p) # {})

Accepts(r) ==
    LET e == review[r].of
        about == review[r].about
        applied == [review EXCEPT ![r].step = "applied"]
    IN
    /\ review[r].step = "read"
    /\ \/ /\ IsLive(db, e) /\ about \in Live(People)
          /\ UserWrites(AddContributor(db, e, about), held, applied)
       \/ /\ IsLive(db, e) /\ about \notin People
          /\ UserWrites(db, held \union {<<e, about>>}, applied)
       \/ /\ ~IsLive(db, e) \/ about \in People \ Live(People)
          /\ review' = Idle(r)
          /\ UNCHANGED <<db, mine>>

\* discard_proposal
Discards(r) ==
    LET p == <<review[r].of, review[r].about>> IN
    /\ review[r].step = "applied"
    /\ UserWrites(IF review[r].there THEN Discard(db, p[1], p[2]) ELSE db, held,
                  Then(r, "checking", p[1]))

RejectsOne(r) ==
    /\ review[r] = NotReviewing
    /\ \E p \in db.proposals :
        UserWrites(Reject(db, p[1], {p}), held, Then(r, "checking", p[1]))

RejectsEvery(r, e) ==
    UserWrites(Reject(db, e, ProposalsOf(db, e)), held, Then(r, "checking", e))

CommitsOne(r) ==
    /\ review[r] = NotReviewing
    /\ \E e \in Live(Entities) :
        /\ IsDraft(db, e)
        /\ UserWrites(Commit(db, e), held, Then(r, "forgetting", e))

DeletesOne(r, e) ==
    UserWrites(Delete(db, e), held, Then(r, "cancelling", e))

\* reject_all and delete by themselves
RejectsOrDeletes(r) ==
    /\ review[r] = NotReviewing
    /\ \E e \in Live(Entities) : RejectsEvery(r, e) \/ DeletesOne(r, e)

\* ReviewItem::discard: cancels the run the item was listed with, if any ...
DiscardsItem(r) ==
    /\ review[r] = NotReviewing
    /\ \/ \E n \in Runs :
            /\ run[n].root # NoRoot
            /\ Cancels(n)
            /\ review' = At(r, "reloading", run[n].root)
       \/ \E p \in Publications :
            /\ IsQueuedByDatabase(p)
            /\ review' = At(r, "reloading", p)
            /\ UNCHANGED <<run, sub>>
    /\ UNCHANGED <<db, name, held, registry>>

\* ... reads its publication again ...
Reloads(r) ==
    LET p == review[r].of IN
    /\ review[r].step = "reloading"
    /\ review' = IF IsDraft(db, p) THEN At(r, "deleting", p)
                 ELSE IF IsLive(db, p) /\ ProposalsOf(db, p) # {} THEN At(r, "rejecting", p)
                 ELSE Idle(r)
    /\ UNCHANGED <<db, mine>>

\* ... and deletes it, or rejects all that is proposed for it.
ActsOnReloaded(r) ==
    LET p == review[r].of IN
    /\ review[r].step \in {"deleting", "rejecting"}
    /\ IF ~IsLive(db, p) THEN review' = Idle(r) /\ UNCHANGED <<db, mine>>
       ELSE IF review[r].step = "deleting" THEN DeletesOne(r, p)
       ELSE RejectsEvery(r, p)

\* Deleting the library deletes what is in it and cancels nothing.
DeletesLibrary(r) ==
    /\ review[r] = NotReviewing
    /\ UserWrites(Remove(db, Entities), held, review)

-----------------------------------------------------------------------------
(***************************************************************************)
(* Looking after the registry                                              *)
(***************************************************************************)
\* forget_enrichment_if_reviewed decides here and forgets later.
ChecksQueue(r) ==
    LET p == review[r].of IN
    /\ review[r].step = "checking"
    /\ review' = IF IsLive(db, p) /\ ~IsQueuedByDatabase(p) THEN At(r, "forgetting", p)
                 ELSE Idle(r)
    /\ UNCHANGED <<db, mine>>

ForgetsAny(n) == n # NoRun
\* forget_completed_enrichment
IsForgettable(n) == n # NoRun /\ Completed(n)

Forgets(r) ==
    LET p == review[r].of IN
    /\ review[r].step = "forgetting"
    /\ registry' = [registry EXCEPT ![p] = IF IsForgettable(@) THEN NoRun ELSE @]
    /\ review' = Idle(r)
    /\ UNCHANGED <<db, name, held, run, sub>>

\* What Entity::delete does last; enrichment_of drops a cancelled run.
CancelsPending(r) ==
    LET n == registry[review[r].of] IN
    /\ review[r].step = "cancelling"
    /\ IF n = NoRun THEN UNCHANGED <<run, sub, registry>>
       ELSE IF run[n].cancelled
            THEN registry' = [registry EXCEPT ![review[r].of] = NoRun] /\ UNCHANGED <<run, sub>>
       ELSE Cancels(n) /\ UNCHANGED registry
    /\ review' = Idle(r)
    /\ UNCHANGED <<db, name, held>>

\* review_queue, of each publication by itself: its rows are read first ...
ListsRows(r) ==
    /\ review[r] = NotReviewing
    /\ \E p \in Publications :
        /\ ~IsQueuedByDatabase(p)
        /\ review' = At(r, "listing", p)
    /\ UNCHANGED <<db, mine>>

\* ... then the runs that need review, and what is in neither is forgotten.
ListsRuns(r) ==
    LET p == review[r].of
        n == registry[p]
    IN
    /\ review[r].step = "listing"
    /\ review' = IF n # NoRun /\ NeedsReview(n) /\ IsLive(db, p) THEN Idle(r)
                 ELSE At(r, "forgetting", p)
    /\ UNCHANGED <<db, mine>>

\* What a session sets about ...
Begins(r) ==
    \/ ReadProposal(r) /\ UNCHANGED mine
    \/ RejectsOne(r) \/ RejectsOrDeletes(r) \/ CommitsOne(r)
    \/ DiscardsItem(r) \/ DeletesLibrary(r) \/ ListsRows(r)

\* ... and goes on with.
Continues(r) ==
    \/ Accepts(r) \/ Discards(r) \/ Reloads(r) \/ ActsOnReloaded(r)
    \/ ChecksQueue(r) \/ Forgets(r) \/ CancelsPending(r) \/ ListsRuns(r)

-----------------------------------------------------------------------------
\* The process ends and starts again: the tables are all that is left.
Restart ==
    /\ used.restarts < MaxRestarts
    /\ used' = [used EXCEPT !.restarts = @ + 1]
    /\ sub' = [s \in Subtasks |-> IF IsUnderWay(s) THEN Ended ELSE sub[s]]
    /\ registry' = [p \in Publications |-> NoRun]
    /\ review' = [r \in Reviewers |-> NotReviewing]
    /\ UNCHANGED <<db, name, held, run>>

EnrichmentInit ==
    /\ \E mark \in [Publications -> {"draft", "committed"}] :
        db = [mark |-> [e \in Entities |-> IF e \in Publications THEN mark[e] ELSE "absent"],
              kind |-> [a \in Parents |-> Unclassified],
              links |-> {},
              proposals |-> {}]
    /\ review = [r \in Reviewers |-> NotReviewing]
    /\ name = [x \in People |-> NoName]
    /\ held = {}
    /\ run = [n \in Runs |-> [root |-> NoRoot, failed |-> FALSE, cancelled |-> FALSE]]
    /\ registry = [p \in Publications |-> NoRun]
    /\ sub = [s \in Subtasks |-> NotStarted]
    /\ used = [acts |-> 0, restarts |-> 0]

Acts ==
    /\ used.acts < MaxActs
    /\ used' = [used EXCEPT !.acts = @ + 1]
    /\ (\E n \in Runs : Cancel(n)) \/ (\E r \in Reviewers : Begins(r))

GoesOn ==
    /\ \/ \E p \in Publications : Enrich(p)
       \/ \E s \in Subtasks : Subtask(s)
       \/ \E r \in Reviewers : Continues(r)
    /\ UNCHANGED used

EnrichmentNext == Acts \/ GoesOn \/ Restart

EnrichmentSpec == EnrichmentInit /\ [][EnrichmentNext]_allVars

-----------------------------------------------------------------------------
HasWritten(s) ==
    /\ sub[s].step \in Writing
    /\ sub'[s].step # sub[s].step
    /\ db' # db

Namesakes(a) == {x \in Live(People) : name[x] = NameOf[a]}

(* "Open Library's part of a re-run of enrichment adds nothing it already
   proposed": a subtask whose like has finished before, with no user's write since,
   writes nothing, whatever was cancelled, restarted or run beside it in between;
   unless two people go by the author's name, as when two authors of one name were
   matched at once and each became a draft. *)
RerunsAddNothing ==
    [][\A s \in Subtasks : HasWritten(s) /\ sub[s].hist = "again"
          => s[2] # Edition /\ \E x, y \in Namesakes(s[2]) : x # y]_allVars

IsNeededElsewhere(x, p) ==
    \E q \in Publications \ {p} : <<q, x>> \in db.links \union db.proposals

(* "Abort the task's pending and in-flight subtasks": a subtask of a cancelled run
   writes at most the one thing it was on its way to write when the run was
   cancelled, by a user, by the deletion of its publication, or by a subtask that
   found the publication gone.  And once the publication is gone, with a deletion
   that cancels its run later or with a library that never does, its subtasks write
   nothing but links of people whom another publication names. *)
StopsWhenOver ==
    [][\A s \in Subtasks : HasWritten(s) =>
          /\ ~run[s[1]].cancelled \/ sub[s].spare
          /\ \/ IsLive(db, RootOf(s))
             \/ sub[s].step = "linking" /\ IsNeededElsewhere(sub[s].person, RootOf(s))]_allVars

(* A run that is in progress or has failed stays registered, where the review queue
   lists it, until it is cancelled, its publication is enriched anew, or the process
   ends: no listing and no check that was made before the run began forgets it. *)
RunsToReviewAreKept ==
    [][\A p \in Publications :
          registry[p] # NoRun /\ NeedsReview(registry[p]) =>
            \/ registry'[p] = registry[p]
            \/ registry'[p] # NoRun /\ ~InProgress(registry[p])
            \/ used'.restarts # used.restarts]_allVars
=============================================================================
