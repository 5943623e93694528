---------------------------- MODULE ImportSeeding ----------------------------
(***************************************************************************)
(* One pending import while its ISBN is looked up (legacy/enrich).         *)
(*                                                                         *)
(* The request that starts an import seeds its draft before it answers: it *)
(* reads the draft, waits some seconds for Open Library, and stores what   *)
(* it read with what was found; then it does so again with the authors.    *)
(* The import is in the queue all the while, and other requests save its   *)
(* review page, edit a work of its draft, accept it or discard it.  Each   *)
(* reads the draft and stores it whole later, with awaits in between, and  *)
(* an accept stores under one lock and claims under the next.  Where       *)
(* drafts share works and people, and what an accept writes to the         *)
(* tables, is PendingImports.                                              *)
(***************************************************************************)
EXTENDS Naturals

CONSTANTS
    Requests,   \* the requests on the import beside the one that starts it
    Fields,     \* title, publisher, year
    Entered,    \* what people type into a field or a work
    Listed,     \* what the source has for a field
    Blank,
    NoWork,     \* a draft without a work; it has one at most
    Isbn,       \* the identifier that is looked up
    Items,      \* what else a lookup finds: identifiers and links
    Authors,    \* the authors of the edition, as people of the source
    Posted(_, _),   \* what a review page can post, given the draft and whom it may credit
    MaxStores   \* bounds how often the draft is stored

Texts == Entered \union Listed \union {Blank}
Drafts == [fields : [Fields -> Texts], items : SUBSET Items, credits : SUBSET Authors,
           work : Entered \union {Blank, NoWork}]

ASSUME SeedingIsTyped ==
    /\ Blank \notin Entered \union Listed
    /\ NoWork \notin Entered \union {Blank}
    /\ Isbn \in Items
    /\ MaxStores \in Nat
    /\ \A draft \in Drafts, authors \in SUBSET Authors : Posted(draft, authors) \subseteq Drafts

VARIABLES
    entry,      \* the import in the draft store
    seed,       \* what the lookup is in the middle of
    request,    \* and what each request is
    stored      \* how often the draft was stored

seedingVars == <<entry, seed, request, stored>>

BlankDraft == [fields |-> [f \in Fields |-> Blank], items |-> {}, credits |-> {},
               work |-> NoWork]

\* PublicationRawInput, as a source has it
Found == [fields : [Fields -> Listed \union {Blank}], items : SUBSET Items]
NothingFound == [fields |-> [f \in Fields |-> Blank], items |-> {}]

NoEntry == [there |-> FALSE, accepting |-> FALSE, saved |-> FALSE, initial |-> BlankDraft,
            draft |-> BlankDraft, external |-> {}, lookup |-> "none"]
Idle == [step |-> "idle", draft |-> BlankDraft, seen |-> BlankDraft, at |-> 0,
         submit |-> FALSE, ofWork |-> FALSE, overtaken |-> FALSE]
NoSeed == [step |-> "idle", seen |-> BlankDraft, found |-> NothingFound, at |-> 0,
           authors |-> {}, lookup |-> "none"]
SeedIsOver == [NoSeed EXCEPT !.step = "done"]

-----------------------------------------------------------------------------
(***************************************************************************)
(* The draft store (DraftStore has the whole of it)                        *)
(***************************************************************************)
\* PendingImport::draft: also of one that is gone, or not saved yet.
Draft == IF entry.there /\ entry.saved THEN entry.draft ELSE entry.initial

StoresClaimed == entry.there
Editable == entry.there /\ ~entry.accepting

\* DraftStore::save
Save(e, draft) == [e EXCEPT !.saved = TRUE, !.draft = draft]

\* The import goes: what is left of it is the query, in the requests that hold it.
Gone(e) == [NoEntry EXCEPT !.initial = e.initial]

Stores(e, draft) ==
    /\ stored < MaxStores
    /\ stored' = stored + 1
    /\ entry' = Save(e, draft)

-----------------------------------------------------------------------------
(***************************************************************************)
(* Starting an import and looking its ISBN up                              *)
(***************************************************************************)
\* initial_draft_contents: the query is an ISBN, or it is a text for a field.
Queries ==
    {[BlankDraft EXCEPT !.items = {Isbn}]}
        \union {[BlankDraft EXCEPT !.fields[f] = text] : f \in Fields, text \in Entered}

\* start_import
StartImport ==
    /\ seed.step = "idle"
    /\ \E initial \in Queries :
          entry' = [entry EXCEPT !.there = TRUE, !.initial = initial]
    /\ seed' = [seed EXCEPT !.step = "started"]
    /\ UNCHANGED <<request, stored>>

\* seed_from_isbn reads the draft; without an ISBN there is nothing to look up.
SeedReads ==
    /\ seed.step = "started"
    /\ seed' = IF Isbn \in Draft.items
               THEN [seed EXCEPT !.step = "looking", !.seen = Draft, !.at = stored]
               ELSE SeedIsOver
    /\ UNCHANGED <<entry, request, stored>>

FillsAnything(text, found) == found
\* merge: a field is filled in where it is blank, and what is not listed is added.
FillBlank(text, found) == IF text = Blank THEN found ELSE text
Merge(draft, found) ==
    [draft EXCEPT !.fields = [f \in Fields |-> FillBlank(@[f], found.fields[f])],
                  !.items = @ \union found.items]

\* lookup_isbn: an edition with some of its authors, or none: not found, failed or too late.
SeedFinds ==
    /\ seed.step = "looking"
    /\ \/ \E found \in Found, authors \in SUBSET Authors :
            seed' = [seed EXCEPT !.step = "found", !.found = found, !.authors = authors,
                                 !.lookup = IF authors = Authors THEN "found" ELSE "failed"]
       \/ seed' = [seed EXCEPT !.step = "found", !.lookup = "failed"]
    /\ UNCHANGED <<entry, request, stored>>

\* save_draft, of what was read before the lookup.  An error is the start's answer.
SeedStores ==
    /\ seed.step = "found"
    /\ IF Editable
       THEN /\ Stores(entry, Merge(seed.seen, seed.found))
            /\ seed' = [seed EXCEPT !.step = "seeded"]
       ELSE /\ seed' = SeedIsOver
            /\ UNCHANGED <<entry, stored>>
    /\ UNCHANGED request

\* add_external_contributors reads it again, ...
SeedReadsAgain ==
    /\ seed.step = "seeded"
    /\ seed' = [seed EXCEPT !.step = "adding", !.seen = Draft, !.at = stored]
    /\ UNCHANGED <<entry, request, stored>>

\* ... and under one lock keeps each author with the import, and a credit of each.
SeedAdds ==
    /\ seed.step = "adding"
    /\ IF Editable
       THEN /\ Stores([entry EXCEPT !.external = @ \union seed.authors],
                      [seed.seen EXCEPT !.credits = @ \union seed.authors])
            /\ seed' = [seed EXCEPT !.step = "added"]
       ELSE /\ seed' = SeedIsOver
            /\ UNCHANGED <<entry, stored>>
    /\ UNCHANGED request

\* record_lookup
SeedRecords ==
    /\ seed.step = "added"
    /\ entry' = IF Editable THEN [entry EXCEPT !.lookup = seed.lookup] ELSE entry
    /\ seed' = SeedIsOver
    /\ UNCHANGED <<request, stored>>

\* Its future is dropped where it awaits.
SeedIsCutOff ==
    /\ seed.step \notin {"idle", "done"}
    /\ seed' = SeedIsOver
    /\ UNCHANGED <<entry, request, stored>>

-----------------------------------------------------------------------------
(***************************************************************************)
(* Requests                                                                *)
(***************************************************************************)
IsAt(r, step) == request[r].step = step

\* save and accept: the post, with of its work what the draft has of it now.
Posts(r) ==
    /\ IsAt(r, "idle") /\ entry.there
    /\ \E post \in Posted(Draft, entry.external), submit \in BOOLEAN :
            request' = [request EXCEPT ![r] =
                [step |-> "storing", seen |-> Draft, at |-> stored, submit |-> submit,
                 ofWork |-> FALSE, overtaken |-> FALSE, draft |-> post]]
    /\ UNCHANGED <<entry, seed, stored>>

\* save_work: the draft as it is now, with the work replaced.
EditsWork(r) ==
    /\ IsAt(r, "idle") /\ entry.there
    /\ entry.saved /\ entry.draft.work # NoWork
    /\ \E text \in Entered :
            request' = [request EXCEPT ![r] =
                [step |-> "storing", seen |-> Draft, at |-> stored, submit |-> FALSE,
                 ofWork |-> TRUE, overtaken |-> FALSE,
                 draft |-> [Draft EXCEPT !.work = text]]]
    /\ UNCHANGED <<entry, seed, stored>>

\* save_draft, of the page or the work
StoresDraft(r) ==
    /\ IsAt(r, "storing")
    /\ IF Editable
       THEN /\ Stores(entry, request[r].draft)
            /\ request' = [request EXCEPT ![r] =
                              IF @.submit THEN [@ EXCEPT !.step = "claiming", !.at = stored + 1]
                              ELSE Idle]
       ELSE /\ request' = [request EXCEPT ![r] = Idle]
            /\ UNCHANGED <<entry, stored>>
    /\ UNCHANGED seed

\* begin_accept: the claim and, as a snapshot, what is published.
Claims(r) ==
    /\ IsAt(r, "claiming")
    /\ IF Editable
       THEN /\ entry' = [entry EXCEPT !.accepting = TRUE]
            /\ request' = [request EXCEPT ![r].step = "accepting", ![r].seen = entry.draft,
                                          ![r].overtaken = stored # request[r].at]
       ELSE /\ request' = [request EXCEPT ![r] = Idle]
            /\ UNCHANGED entry
    /\ UNCHANGED <<seed, stored>>

\* Accepting is dropped: it was refused, or failed, or was cut off before the commit.
GivesUp(r) ==
    /\ IsAt(r, "accepting")
    /\ entry' = [entry EXCEPT !.accepting = FALSE]
    /\ request' = [request EXCEPT ![r] = Idle]
    /\ UNCHANGED <<seed, stored>>

\* The commit, after which the import goes; cut off right there, it stays claimed.
Publishes(r) ==
    /\ IsAt(r, "accepting")
    /\ entry' \in {entry, Gone(entry)}
    /\ request' = [request EXCEPT ![r] = Idle]
    /\ UNCHANGED <<seed, stored>>

\* Its future is dropped where it awaits, with nothing claimed.
IsCutOff(r) ==
    /\ request[r].step \in {"storing", "claiming"}
    /\ request' = [request EXCEPT ![r] = Idle]
    /\ UNCHANGED <<entry, seed, stored>>

\* PendingImport::discard
Discard ==
    /\ Editable
    /\ entry' = Gone(entry)
    /\ UNCHANGED <<seed, request, stored>>

-----------------------------------------------------------------------------
SeedingInit ==
    /\ entry = NoEntry
    /\ seed = NoSeed
    /\ request = [r \in Requests |-> Idle]
    /\ stored = 0

Seeds ==
    \/ StartImport \/ SeedReads \/ SeedFinds \/ SeedStores
    \/ SeedReadsAgain \/ SeedAdds \/ SeedRecords \/ SeedIsCutOff

Handles(r) ==
    \/ Posts(r) \/ EditsWork(r) \/ StoresDraft(r) \/ Claims(r)
    \/ GivesUp(r) \/ Publishes(r) \/ IsCutOff(r)

SeedingNext == Seeds \/ (\E r \in Requests : Handles(r)) \/ Discard

SeedingSpec == SeedingInit /\ [][SeedingNext]_seedingVars

-----------------------------------------------------------------------------
SeedSteps == {"idle", "started", "looking", "found", "seeded", "adding", "added", "done"}
Lookups == {"none", "found", "failed"}

Entries == [there : BOOLEAN, accepting : BOOLEAN, saved : BOOLEAN, initial : Drafts,
            draft : Drafts, external : SUBSET Authors, lookup : Lookups]
Seedings == [step : SeedSteps, seen : Drafts, found : Found, at : Nat,
             authors : SUBSET Authors, lookup : Lookups]
Handlings == [step : {"idle", "storing", "claiming", "accepting"}, draft : Drafts,
              seen : Drafts, at : Nat, submit : BOOLEAN, ofWork : BOOLEAN,
              overtaken : BOOLEAN]

(* What is in memory is what the types say (ImportEntry, PublicationRawInput, Lookup). *)
SeedingTypeOK ==
    /\ entry \in Entries
    /\ seed \in Seedings
    /\ request \in [Requests -> Handlings]
    /\ stored \in Nat

IsKept(old, new) ==
    /\ \A f \in Fields : old.fields[f] # Blank => new.fields[f] = old.fields[f]
    /\ old.items \subseteq new.items
    /\ old.credits \subseteq new.credits
    /\ new.work = old.work

(* "Fill a draft with what a source found, without disturbing what is already there":
   of all that people have put into the draft a lookup loses only what was stored
   between its read of the draft and its write, and so does the edit of a work, which
   changes nothing else. *)
LosesOnlyToOverlap ==
    [][/\ seed' # seed /\ stored' # stored /\ seed.at = stored =>
            IsKept(Draft, entry'.draft)
       /\ \A r \in Requests :
            IsAt(r, "storing") /\ request[r].ofWork /\ stored' # stored
              /\ request'[r] # request[r] /\ request[r].at = stored =>
                entry'.draft = [Draft EXCEPT !.work = entry'.draft.work]]_seedingVars

(* "Merge the posted form into the draft and accept it into a publication": what is
   published is what is in the store by then, so that no save that was confirmed is
   lost to it, whenever a lookup or another request stores; and it is what was posted,
   but for another store between the accept's own and its claim. *)
PublishesWhatWasPosted ==
    [][\A r \in Requests :
          IsAt(r, "accepting") /\ entry.there /\ ~entry'.there =>
            /\ request[r].seen = entry.draft
            /\ ~request[r].overtaken => request[r].seen = request[r].draft]_seedingVars
=============================================================================
