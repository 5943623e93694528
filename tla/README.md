# A verification development of scorarium

scorarium catalogues a household's sheet music and books: libraries of publications, the works they
contain and the people who contributed to them, with metadata looked up from open APIs and ruled on
by the user. This directory models the parts of it where several actors meet, model-checks them with
TLC and proves their safety with TLAPS.

    tlc -workers 2 -config MCRateLimitedClient.cfg MCRateLimitedClient
    tlapm RateLimitedClientProofs.tla

`PROJECT.json` lists the runs, what every definition translates (file and lines), the hazards in the
code, a mutant of the code for each property, the findings and the theorems.

## 1. The system

| component | state | operations | what is hard | what makes it correct |
|---|---|---|---|---|
| **Rate limited client** (`scorarium-client/src/rate_limited_client.rs`, `cache.rs`) | a deque of jobs, a pause and a failure streak behind one mutex; a `Notify`; a response cache; the worker's `next_allowed` | `get`, `get_json`, `clear_cache`, drop; the worker's loop | callers, worker, timers and drops interleave between any two locks and awaits | no caller waits for ever; order and supersession; one request per answer; retries end; the source's limits are kept |
| **Enrichment tasks** (`scorarium-engine/src/enrich/task.rs`) | a registry of one `Task` per root behind a mutex; per task a watch channel of counts and a mutex of abort handles | start, enqueue, cancel, forget, wait | subtasks spawn subtasks while others cancel; aborts at any await | counts are exact; a cancelled task ends; one run per root; waiting covers what ran |
| **Open Library enrichment** (`enrich/open_library.rs`) | none of its own | look up an edition and its authors, propose what they say | network calls between the reads and the writes | proposes only for what is still there; lands on existing people |
| **Catalog** (`publication.rs`, `work.rs`, `person.rs`, `entity.rs`, `migrations/`) | SQLite rows: entities with a draft mark, links, proposals, fields | create, edit, link, unlink, propose, accept, reject, commit, delete, import | cascades over two levels of links; garbage collection; operations that span transactions | a committed entity never references a draft; nothing needed is collected, nothing unneeded stays |
| **Review queue** (`review.rs`) | derived from drafts, proposals and tasks | list, discard | read, decide, act in separate transactions | discarding touches only what was meant |
| **Assets and holdings** (`asset.rs`, `holding.rs`, parts of `publication.rs` and `person.rs`) | files beside rows | stage, persist, remove | a file and a row cannot commit together | a holding never names a missing file; nothing stays that nothing names, but what a call that was cut off leaves |
| **Audit log** (`audit.rs`) | a bounded table of events | record, page, trim | each operation writes out by hand what it records; trimming in every commit | says what was changed, of everything a cascade reaches, and what it still says is true |
| **Authentication** (engine `auth.rs`; web `session.rs`, `router/login.rs`) | a throttle, sessions in memory, a password hash in the database | log in, log out, change the password | an await between the check and the session | a changed password ends every other session; guesses are limited |
| **Libraries** (`library.rs`) | rows | create, rename, delete | deletion under running tasks | everything in the library goes |
| **Archive** (`scorarium-archive`: the store the web application still uses) | SQLite rows, and pending imports in memory (`draft.rs`, `import.rs`) | edit, import, accept, discard | concurrent accepts of one import; relinking drafts of others | an import is accepted at most once |
| **Seeding of imports** (`legacy/enrich`, the web's `router/import.rs`) | none of its own | look up an import's ISBN and store what was found in its draft | seconds between the read and the store, while others save and accept | loses nothing but what was stored meanwhile; an accept publishes what was posted |
| **Command line** (`scorarium-cli`) | the selected library | resolve references, one command of several transactions | what was looked up is written to later; names are not unique and can read like ids | acts on what the line names; does all of what it lists |
| **External links** (`link.rs`, the archive's `external_id.rs`) | none | recognize the record an address names; build a record's canonical address | some twenty sites with rules of their own; what is recognized is stored, and a newer binary recognizes more | a record's canonical address names that record; links are unique by record |
| **Web pages, search, suggestions, demo** | none, or views | render, parse, query | | |

How they interact: a user's import or request to enrich starts a task (*Enrichment tasks*), whose
subtasks ask a source through the *Rate limited client* and write proposals into the *Catalog*, where
the user finds them in the *Review queue* and accepts or rejects them. Operations of the catalog
forget or cancel the task of their entity. Every write to the catalog records in the *Audit log*, and
some place or remove *Assets*. The calls are direct; the shared state is the deque, the cache, the
registry, the asset directory and the database, whose writers exclude each other (`begin_write` is
`BEGIN IMMEDIATE`). The web application still works on the *Archive*, a store of its own with its own
tables, and with imports that wait in memory to be reviewed.

## 2. The modules

### `SourceLimits`, `PoliteSource`, `RateLimitedClient`

`SourceLimits` holds the constants of one source and the arithmetic of pauses: `Outcomes` is every way
a request can end, told apart exactly as far as the worker tells them apart, `StreakAfter` and
`PauseAfter` are `escalate`, `retry_after` and the `match` that decides on a pause.

`RateLimitedClient` has one action per stretch of code between two points where another thread can act:

| code | action |
|---|---|
| `get`, cache lookup | `Get` |
| `get`, push and `notify_one` | `Queue` |
| the future dropped | `Abandon` |
| `get_json`, body not parsed | `RejectBody` |
| `Client::clear_cache` | `ClearCache` |
| `Drop for RateLimitedClient`, and the abort taking effect at an await | `DropClient`, `Exit` |
| `work`: the deque is looked at; `notified().await` begins; it returns | `StartWaiting`, `Park`, `Wake` |
| `work`: `sleep_until` is over, `pop` | `Pop` |
| `work`: the second cache lookup | `AnswerFromCache`, `StartRequest` |
| `work`: the attempt ends, in any way or by timeout | `FinishRequest` |
| `work`: log and `cache.insert` | `RecordAnswer` |
| `work`: streak, pause, reply, retry | `SettleAnswer`, `SettlePause` |

Instants are modelled as the time that remains until them, and `TimePasses` lets all of them shrink at
any moment: a step may take any amount of time. The locks inside `SettlePause` are taken one after
another in the code; only callers can act in between, by pushing a job, which commutes with the streak
and the pause, so they are one action. `paused_by`, `in_flight` and the call log only feed a status
page and are left out.

`PoliteSource` is the specification of a polite client as the source sees it: at most one request at a
time, and none until the rest that the last answer called for is over, counted from that answer.
`RateLimitedClient!SourceIsLeftAlone` says that the client implements it under a refinement mapping;
`asked`, which the mapping uses, is a history variable that starts when the answer arrives, before the
worker has computed any pause.

### `EnrichmentTask`

`enqueue` and `cancel` hold a task's mutex over two steps each (`Spawn` then `PushHandle`, `Cancel`
then `Drain`), because the other threads see the flag, the count and the spawned subtask before the
lock is released. `start_enrichment` holds the registry's mutex from `Start` over each `Seed` to
`FinishSeeding`. A subtask may enqueue children, cancel its own task and return, return, fail, or be
aborted at any await; `End` is `Drop for Outcome` in all of these. Aborting is only a mark: the runtime
drops the future at its next await, so a subtask may do more before it ends.

### `Catalog`

The tables of one library as one value, `db`: draft marks, classification, links and proposals. Each
operation is an operator from tables to tables that includes its cascades, triggers and garbage
collection, and an action that applies it. That is faithful because an operation re-reads its entity
inside a transaction that excludes other writers. Accepting a proposal and discarding a review item are
not one transaction, and are several actions of a reviewer: `ReadProposal`, `ApplyProposal`,
`DiscardProposal`, and `ReloadDraft`, `DeleteReloaded`, any of which may be the last (`Interrupted`:
a dropped request, a cover that cannot be downloaded, a crash).

`Fresh` reuses an id when no row and no reviewer refers to it: ids are `AUTOINCREMENT`, and a
session that remembers a deleted one must not meet it again. A proposal's id is never used again
either, which `there` in a reviewer's state stands for.

Contributors have one role here. Of the fields of an entity only the classification is modelled, because
it is the only one an operation on another entity writes; `AuditLog` and `Assets` add the others. That
`commit` refuses a publication without a title is left out: a commit that is refused is one not tried.

### `AuditLog`

EXTENDS `Catalog`: each of its operations again, with the events the code records beside it, and three
variables more: `value` and `items` stand for all the fields that are set and all that are added to and
removed from, `library` for the library's own row. What an operation records is an operator of its own
(`EventsOfAddWork`, `EventsOfCommit`, ...), written from the `record` and `record_each` calls of the
code and not from what `Catalog` makes of the tables, so that the two can disagree. `Trimmed` is
`Recorded::commit`. Paging through the log only reads, labels are text, and the three events of the
password have no subject; they are left out. An id is not used again while the log tells of it
(`IsNew`), since ids are `AUTOINCREMENT`.

### `Assets`

Files beside the rows that name them. A call that sets a cover or a profile, adds a digital holding or
imports goes through `Stage`, a `Persist...` that moves the staged file to its place inside the write
transaction, and a `Commit...` or `RollBack`; what it replaced or removed is removed after the commit
(`RemoveFile`, and `RemoveDir` for the directories of what was deleted or collected). Between any two
of these steps the call may be dropped or the process crash (`GiveUp`, `Stop`, `RollBack`), and the
server and the command line run side by side: only transactions exclude each other. `OpenMigrating` is
a start that clears the staging directory. `unique_path` picks the first name that is free on disk;
here any free one, so no property rests on the order of counters. `left` records, for the
properties, what a call that was cut off is known to leave.

### `Enrichment`

EXTENDS `Catalog` with runs, subtasks and a registry, as `EnrichmentTask` promises they behave (a
subtask that is aborted stops at an await; counts are exact; runs of one root do not overlap). A
subtask is a sequence of reads, writes and questions to the source, and every wait is a step: `Answered`,
loading, matching by record and by name, and the writes of a value, a classification, a contributor
and a link. `Checked` is the look at `is_cancelled` that precedes a write. Users accept, reject,
commit, delete and discard as in `Catalog`, and afterwards forget or cancel the run
(`ChecksQueue`, `Forgets`, `CancelsPending`), which are steps of their own; `ListsRows` and `ListsRuns`
are the two halves of `review_queue`.

Left out: text (years, terms, ISBNs), so that all plain fields are one `Value`; links other than to
the author's own record; answers of the source that change over time; the failed mark of a run that
was cancelled as well. Runs of works and of people have no subtasks in the code.

### `Login`

The engine's `auth.rs`. `login`, `replace_password` and `change_password` are one sequence of steps, of
which each does its part: `Hashes` (a replacement hashes before it locks, a change inside), `Enters`
(the lock and the throttle), `Reads`, `Verifies`, `Writes`, `Revokes`. A future may be dropped at each
await (`Fails`); dropped while its commit is under way it has written the password and ended no session,
which `Writes` allows and `cut` remembers. `era` counts the writes of the password, so that a
session's era says which one it was given for, even when a password comes back.

### `ArchiveTables`, `DraftStore`, `PendingImports`

The legacy archive's tables and its drafts as operators, and the requests on both. `ArchiveTables` has
the write operations of one library (publications, works, people, merges of works that are duplicates,
orphans), `DraftStore` the functions of `draft.rs`, which run under one lock. `PendingImports` composes
them as requests do: `save` and `accept` read the tables, then take the lock (`ReadStored`, then
saving); an accept claims the import, fills in the stored works, commits a publication, and takes the
lock again to drop the import and relink what others share with it (`Fill`, `Publish`, `Finish`,
`Release`); an edit of the tables tells the drafts afterwards (`TellDrafts`); an edit handle may be held
open over many calls (`OpenEdit` to `CommitEdit` or `DropEdit`). Any request may be cut off at an await.
`ReadStored` is one read where `save` makes several, and takes every person of the library where
`summary::persons` lists those who are credited: no property depends on either.
Scalar fields, tags, links and the audit log are in `ArchiveLog`; the archive's password is left out.

### `ImportSeeding`

One import of `PendingImports` with what that leaves out: the content of its draft, and the lookup that
seeds it. `start` answers only when `seed_from_isbn` is over, but the import is in the queue from
`Start` on. The lookup reads (`SeedReads`), waits for the source (`SeedFinds`), stores (`SeedStores`),
reads again (`SeedReadsAgain`) and adds the authors (`SeedAdds`), each a step of its own; requests post
the review page (`Posts`), edit a work (`EditsWork`), store (`StoresDraft`), claim (`Claims`), and then
publish or give up. `at` is how often the draft had been stored when somebody read it, and `overtaken`
remembers for an accept that another store came in before its claim; both are history, for the
properties. What a review page can post is a constant, `Posted`: the page shows some of a draft and may
be older than it. A field, an identifier or link, an author and a work are one of each here.

### `Shell`

One session of the command line on the tables of `Catalog`, which it EXTENDS. A line is a sequence of
steps: `NamesLibrary` or `UsesSelection` (which puts the selected library's id before the line),
`ResolvesLibrary`, `ResolvesSubject`, then either one transaction (`Renames`, `Classifies`, `CommitsIt`,
...), or a second reference and one (`ChoosesTarget` to `LinksTarget` or `CreatesTarget`, `ChoosesLink`
to `RemovesTheWork`), or several: `RemovesARole` for each role, `AcceptsNext`, `AppliesNext` and
`DiscardsNext` for each proposal listed, which are the reviewer's steps of `Catalog` taken by the shell.
Accepting a cover or a profile downloads it, and when that fails, or what comes is no image, the command
fails with the proposal still pending and the rest of the line undone (`MissesImage`,
`publication.rs:1535`, `person.rs:495`). The other fields' values were validated when they were proposed.
Others edit, rename and delete between any two (`OthersEdit`, ...), and a ctrl-c drops what is under way
(`CtrlC`). Texts, names and ids are the same numbers here, so that a name can be another row's id.
`alone` says that nobody else has written since the subject was looked up, `deletedBy` who deleted a
library; both are for the properties. Fields that the tables do not hold are `Touches`.

### `ArchiveLog`

EXTENDS `ArchiveTables` with rows that have everything the archive compares, and with the audit log, and
`ExternalLinks` for what links name.
Three kinds of transaction write. A *save* of the web pages (`SavePublication`, `SaveWork`, `SavePerson`,
`SaveLibrary`) writes a whole form over a row and finds out what it changed by comparing what it loaded,
maybe long before (`Loads` and `handle`), with what it finds afterwards (`ChangedFields`). An *edit*
(`OpenEdit`, `Edits`, `CommitEdit`, `DropEdit`) is held open over many calls, each of which records what
it changed, and collects at its end. *Opening* the archive (`Reopen`) recognizes every stored link anew,
under the unique index of an owner's records; `binary` is the running version and the record it
recognizes each URL as, `opened` says that the opening did not fail. `told` is what the last transaction
recorded. Columns that are treated alike are one: a title stands for every text of a row, a kind of
holding for a holding and its fields. What the forms may post is a constant, within `PublicationForms`
and `WorkForms`: whom and what a form names may be gone, or never was there. `LinksAreStored` is what the
unique indexes and `Link::new` make of an owner's links, and `IsNumbered` what `AUTOINCREMENT` makes of
ids; the tables a run starts from have both. `Compared` are the fields that `changed_fields` compares.

### `ExternalLinks`

No state: `Recognize` is the record an address names and `Url` the canonical address of a record, with
one operator per site between them. A segment of a path is the parts that the sites tell apart (a
namespace, a word, a run of digits, spaces, a serial number, a closing letter, a tail), so `OL27448W.json`
is one record and not thirteen characters; a word is spelled out only where a site looks for it. The
engine's `link.rs` and the archive's `external_id.rs` have the same functions, and the addresses in
`link.rs`'s tests are recognized here as the tests say. Titles are of one segment: an IMSLP title with a
slash is left out. `WebAddresses` are all the addresses; which of them there are in an archive is
`ArchiveLog`'s constant `Address`.

## 3. What the runs check

| run | bounds | shows |
|---|---|---|
| `client` | 3 calls (2 interactive, 2 sharing a key), 2 keys, 2 attempts, pauses of 1 and 2, Retry-After 0 and 3 with a cap of 2 | `InteractiveAtFront`, `EveryWaiterHasOneJob`, `NewestNeverSuperseded`, `OneRequestPerAnswer`, `SourceIsLeftAlone`, `EveryCallIsAnswered` |
| `tasks` | 2 roots, 2 tasks, 3 subtasks, 2 users, 1 waiter, up to 2 seeds | `CancelledTaskWindsDown`, `OneRunPerRoot`, `WaitCoversWhatRan`, `CancelledTaskEnds`, `WaitReturns` |
| `catalog_shared` | 2 publications, 1 work, 1 person, 1 classification, 1 reviewer | `CommittedNeverReferencesDraft`, `ContentsAreClassified`, `OnlyAcceptOrphans`, `OthersKeepWhatTheyNeed` |
| `enrichment` | 1 publication, an edition with 2 authors of one name, 2 people, 1 reviewer, 2 runs, 1 restart, 2 acts of users | `RerunsAddNothing`, `StopsWhenOver`, `RunsToReviewAreKept` |
| `asset_files` | 1 publication, 1 person, 2 calls, images of 2 formats, uploads under the name of one of them; 3 uploads, 3 holdings, counters up to 3 | `HoldingsHaveTheirFiles`, `NothingIsLeftBehind`, `OnlyImagesDisturbImages` |
| `audit_log` | 1 publication, 1 work, 1 person, 1 reviewer, 2 values, 1 item, a log of 3 events, 6 transactions | `LogTellsWhoIsThere`, `LogIsWhatChanged` |
| `login` | 3 calls, 2 passwords, 2 sessions at once, 2 attempts, the password written 3 times | `SessionsAreCurrent`, `GuessesAreLimited` |
| `archive_imports` | 2 requests, 1 name, 1 catalog number, a catalog of 2 works; 2 imports and 2 saves, or fewer with a change or an edit handle (`MCBudgets`) | `DraftsAreKeptWhileNeeded`, `AcceptsFindTheirPersons`, `EndsOnce`, `ClaimsAreGivenUp`, `EveryWorkIsContained`, `OnlyAcceptsOrphanPeople` |
| `import_seeding` | 2 requests, a title, one typed and one listed text, one identifier, one author, 4 stores | `LosesOnlyToOverlap`, `PublishesWhatWasPosted` |
| `shell` | 2 libraries, 1 publication, 1 work, 2 people, 2 names (one of them an id), 2 roles, lines of up to 2 proposals; 1 command, 1 act of others | `SelectionIsThere`, `ListedProposalsStay`, `NamesAreNotGuessed` |
| `archive_log` | 1 publication, 2 works, 1 person, 2 addresses of one record, 2 versions of the binary; loads, saves, edits, calls and openings in 4 combinations (`MCBudgets`); and one opening for each of some 13,600 addresses | `EditsTellWhatTheyDid`, `UpdatesTellUnlessStale`, `OpeningRecognizes`, `RecordsAreFoundAgain` |
| `catalog_discard_race` | 1 publication, 1 work, 2 people, proposals of plain fields, 1 reviewer | `DiscardSparesCommitted` is violated |

Why these bounds are enough for the cases that matter. Client: two interactive calls are what it takes to
supersede, a third call that shares a key is what it takes to share an answer, two attempts give a retry and
a last failure, two pauses give escalation and saturation, and Retry-Afters below and above the cap give
both sides of it. Tasks: two tasks of one root are a replacement, three subtasks are two seeds and a child,
and two users are one that starts and one that cancels. Catalog: two publications are what it takes to share
something, and a publication, a work and two people are every shape of link twice over (the second person in
the run that expects a violation, which looks for a short behaviour). Enrichment: two authors of one name
are what it takes to match wrongly, two runs are a re-run or one beside another after a restart, and two
acts are a user who changes something and another who reviews. Assets: three uploads and counters up to 3
give a name that is taken twice, and an upload called `cover.jpg` is the reserved name. Audit log: three
events are fewer than a commit's cascade records, so that one trims another and itself; six transactions,
not counting what only reads, are what it takes to build a publication, a work and a person and to accept,
commit or delete them. Login: with two attempts, the third of three calls is the one that must be refused,
or the one that changes what the others checked. Imports: two of them share a draft work and a draft person,
which is what relinking is about, and the budgets keep apart what need not meet at once. Seeding: four
stores are the two of the lookup and two of requests, which is what it takes to come between each read and
its store. Shell: a session opens with whatever was selected, on tables in any of the states that matter, so
that one command with an act of another at any step of it is what it takes; every text is tried as every
reference. Archive log: an edit of three calls is a call, another that undoes or extends it, and a third on
what is left; two loads and two saves make a handle stale; two addresses of one record, one of them at a
host only the second binary knows, are what it takes for recognition to collide. The addresses are every
host the code names with the paths its sites use and some they do not, below each an id of every shape a
site tells apart. Anything beyond repeats these. Publications, people, calls and requests are
interchangeable where there are two, so TLC is told of the symmetry; the runs that use it check no liveness.
What is proved of the types of the client, the tasks, the catalog, the assets and the seeding, of retries
(`RetriesEnd`), of the counts and the end of a task (`PendingIsExact`, `OverForGood`) and of proposals that
a commit drops (`CommitsDrop`), no run repeats.

Deadlock is checked of `login`, where someone who cannot get on would be one who waits for the lock.
Elsewhere it is not, because each system may come to rest: an exited worker with every call answered,
all tasks and subtasks of the bound used up, no transactions left.

### Fairness

`RateLimitedClient!FairSpec`: the runtime polls the worker when it can run (`WF` of its steps together:
it is one sequential task), a caller inside `get` runs on (`Queue` follows `Get` with no await), and
time passes. A request ends because the worker wraps it in `tokio::time::timeout`. Nothing makes a
caller call, stay or go.

`EnrichmentTask!FairSpec`: a thread inside an engine call, which holds a lock for a few instructions,
runs on; every subtask ends, because each of its requests does (that is `EveryCallIsAnswered`) and
there are finitely many; and a waiter is polled. `WaitReturns` holds because the bound on `Tasks` ends
the starting of new ones: against an application that starts tasks for ever, waiting for all of them
may last for ever.

### Findings

* `catalog_discard_race`. Discarding a review item reloads the entity, finds a draft and deletes it in
  a later transaction that does not look at the mark again: an entity another user has committed in
  between is deleted, although `review.rs:27` says that only a draft is.

What else the models show:

* A reviewer accepts a proposed contributor; before the proposal's row is discarded another user removes
  that contributor. The removal collects nothing, since the proposal still names the person, and the
  discard then deletes the last reference without collecting: the person stays, unreferenced, until
  another edit of the library collects, although the data model says that persons "no longer referenced
  by any contributor or proposal" are garbage-collected (`docs/design/05-data-model.md:537`).
  `OnlyAcceptOrphans` shows that this is the only way.
* Clearing or replacing a cover (or a profile) removes the old file after the transaction, by name, and
  covers are always called `cover.<ext>`: another call that has set one of that name in between loses
  its file, and its row names one that is gone, although `publication.rs:2089` says that what is removed
  is "a cover image that a committed transaction no longer refers to". `OnlyImagesDisturbImages` shows
  that this, and a replacement that fails after it moved its file, are the only ways an image that a row
  names is disturbed.
* The shell puts the id of the selected library before a line as if it had been typed, and looks it up as
  an id or a name: a library that is called "2" takes lines that were meant for the selected library 2,
  or makes them fail as ambiguous (`command.rs:766`).
* A line that accepts several proposals stops at a cover or profile that cannot be downloaded: those
  before it are accepted, it and those after it stay pending. `ListedProposalsStay` says that, as long
  as nobody else writes, nothing else makes such a line fail, and that none of the rest is lost.
* Accepting an import never meets the error of `scorarium-archive/src/import.rs:257`, although the
  comment at line 255 says that "a concurrent accept can have relinked and collected" a draft person
  since the draft was saved: the claim takes the draft and the people it refers to under one lock
  (`AcceptsFindTheirPersons`).
* `review_queue` reads the rows before the tasks: a publication whose run writes its proposals and
  completes in between is missing from that one listing, and its completed task is forgotten.
* A run that failed, of a publication that went with its library, stays in the registry.
* A password change whose future is dropped during its commit ends no session (`cut`).
* An accept of an import that is dropped during its commit leaves the import claimed, published or not
  (`ClaimsAreGivenUp` says that nothing else does).
* A review page that is saved while the import's ISBN is looked up is overwritten when the lookup ends,
  although `legacy/enrich/mod.rs:31` fills a draft "without disturbing what is already there": it fills
  what it read before. `LosesOnlyToOverlap` says that nothing else is lost.
* An accept can publish a draft that another request or the lookup stored between its own store and its
  claim (`overtaken`); `PublishesWhatWasPosted` says that it is the only way.
* Two authors of one name that are matched at once become two people, and from then on a re-run may
  propose again (`RerunsAddNothing`).
* Saves of the archive's forms do not record everything they do: the people and works that they create
  on the way are told only as a changed field of what was saved, and a field that someone else changed
  since the form was loaded, and that the save sets back, is not told at all (`UpdatesTellUnlessStale`
  has exactly these exceptions). `create_publication` collects nothing.
* Once a newer binary recognizes two stored addresses of one work as one record, the work can be stored
  so, one of the two naming the record, but its form is refused until one of them is removed; when the
  one that names the record is removed, the other names none until the archive is opened again.
* An IMSLP page whose title is a dot segment is recognized (from `index.php?title=..`), but its
  canonical address leaves the title out. `RecordsAreFoundAgain` says that it is the only record that
  its own address does not find.

## 4. What is proved

Each theorem holds for every value of the constants that satisfies the named assumptions:
`LimitsAreDurations` and `CallsAreTyped` for the client, `ActorsAreDistinct` for the tasks (sets of
actors that do not overlap; finitely many subtasks), `IdsAreDistinct` for the catalog, `LogIsBounded` for
its log (some events are kept; there are finitely many ids, which are 64-bit integers), `ShellIsTyped` for
the shell (a library's id is a text that can be typed), `BoundsAreNat`,
`NamesAreDistinct` and `NoFileIsNone` for assets, `IdsAreOrdered` for enrichment (people's ids are positive
numbers, authors have names, and an author's id is no other id), `LoginIsTyped` for the login, `SeedingIsTyped` for an
import's lookup, `UrlsAreAddresses`, `VersionsAreNumbered` and `StartsAreStored` for the archive's log (URLs
are addresses, binaries are numbered from 1, and what a run starts from has links as the schema and
earlier saves let them be, ids that were given out, and a row of its own for the library), and `CatalogIsSound` for pending imports (the tables that a run starts from are
consistent and collected, which the foreign keys and every earlier transaction see to). `ExternalLinks`
has no constants.

| theorem | property | module |
|---|---|---|
| `Typed` | (`TypeOK`, which no run repeats) | `RateLimitedClientProofs` |
| `InteractiveIsAtFront` | `InteractiveAtFront` | |
| `WaitersHaveOneJob` | `EveryWaiterHasOneJob` | |
| `NewestIsKept` | `NewestNeverSuperseded` | |
| `AnswersAreShared` | `OneRequestPerAnswer` | |
| `RetriesEnd` | (`RetriesAreExhausted`, which no run repeats) | |
| `ClientIsPolite` | `SourceIsLeftAlone` | |
| `Typed` | (`TypeOK`, which no run repeats) | `LookupProofs` |
| `PendingIsExact` | (`PendingCountsLiveSubtasks`, which no run repeats) | |
| `CancelReachesAll` | `CancelledTaskWindsDown` | |
| `RunsAreSingle` | `OneRunPerRoot` | |
| `WaitsAreLongEnough` | `WaitCoversWhatRan` | |
| `OverForGood` | (`OverIsOver`, which no run repeats) | |
| `TypeCorrect` | (`SeedingTypeOK`, which no run repeats) | |
| `LookupsLoseOnlyToOverlap` | `LosesOnlyToOverlap` | |
| `AcceptsPublishWhatWasPosted` | `PublishesWhatWasPosted` | |
| `Typed` | (`TypeOK`, which no run repeats) | `CatalogProofs` |
| `CommittedIsClosed` | `CommittedNeverReferencesDraft` | |
| `ClassifiedIsClosed` | `ContentsAreClassified` | |
| `CommitsDrop` | (`CommittingDropsProposals`, which no run repeats) | |
| `CollectionsLeaveNoOrphans` | `OnlyAcceptOrphans` | |
| `OnlyTheNotNeededGoes` | `OthersKeepWhatTheyNeed` | |
| `SelectionStaysThere` | `SelectionIsThere`, of `Shell` | |
| `NamesAreUnique` | `NamesAreNotGuessed`, of `Shell` | |
| `ListsGoThrough` | `ListedProposalsStay`, of `Shell` | |
| `SessionsKeepCommittedClosed` | `CommittedNeverReferencesDraft`, of `Shell`'s specification | |
| `LogTellsTheTruth` | `LogTellsWhoIsThere`, of `AuditLog` | |
| `TransactionsTellWhatChanges` | `LogIsWhatChanged`, of `AuditLog` | |
| `Typed` | (`TypeOK`, which no run repeats) | `AssetsProofs` |
| `HoldingFilesAreThere` | `HoldingsHaveTheirFiles` | |
| `NothingIsLost` | `NothingIsLeftBehind` | |
| `ImagesAreLeftAlone` | `OnlyImagesDisturbImages` | |
| `SessionsStayCurrent` | `SessionsAreCurrent` | `LoginProofs` |
| `GuessesStayLimited` | `GuessesAreLimited` | |
| `RunsStay` | `RunsToReviewAreKept` | `EnrichmentProofs` |
| `RunsStop` | `StopsWhenOver` | |
| `RerunsRepeat` | `RerunsAddNothing` | |
| `DraftsAreKept` | `DraftsAreKeptWhileNeeded` | `PendingImportsProofs` |
| `PersonsAreFound` | `AcceptsFindTheirPersons` | |
| `ImportsEndOnce` | `EndsOnce` | |
| `ClaimsEnd` | `ClaimsAreGivenUp` | |
| `WorksAreContained` | `EveryWorkIsContained` | |
| `OnlyAcceptsLeaveOrphans` | `OnlyAcceptsOrphanPeople` | |
| `LinksStayStored` | (`LinksAreStored`, which the next two rest on) | `ArchiveLogProofs` |
| `RecordsFoundAgain` | `RecordsAreFoundAgain` | |
| `OpeningsRecognize` | `OpeningRecognizes` | |
| `EditsTellAll` | `EditsTellWhatTheyDid` | |
| `UpdatesTellAll` | `UpdatesTellUnlessStale` | |
| `RecordsHaveAddresses` | (what `RecordsAreFoundAgain` says of each record, for every address there can be) | |

For the client, the tasks, the catalog, assets and the login `InvHolds` says that an invariant `Inv`
holds, for an import's lookup `Knowledge`, for pending imports `InvariantHolds` says it of `IInv` and for
enrichment `Enriched` of `EnrichInv`, and the rest follows from it. For the archive's log the invariant is
an `IInv` again, of which `LinksStayStored` is the part that speaks of links, with a `TInv` for what is told. `RecordsHaveAddresses` is
about operators and needs no invariant. Proofs about two components that one theme connects share a
module: `LookupProofs` has the tasks and the seeding of an import, `CatalogProofs` also the shell and the
audit log.

### The client

None of the invariants is inductive alone. `Inv` adds to the types:

* `JobInHands`: in which phases the worker holds a job, that its call was sent as often as it counts
  attempts, and that it is not queued as well;
* `JobsQueued`: interactive jobs only at the front and never sent before, no call queued twice, and
  attempts below the limit for everything that may still be tried;
* `CallsKept`: who waits has a job, and what each reply says about how often the call was sent;
* `AnswersShared`: a key that was answered since its last eviction is cached, and the key in flight is
  not.

Why the strengthening is needed: that a superseded call is never the newest depends on an interactive
job never being queued again, where it would push a newer one out; that no one is lost depends on
`Pop` passing over jobs only when their call is not waiting, and on a job being in one place; that no
key is answered twice depends on nothing else filling the cache while a request is in flight. The
proof has one lemma per action (or per group of actions that disturb the same parts) and, under it,
one step per conjunct that the action can disturb. `AnsweringKeepsInv` is shared by the three ways in
which the worker hands out a reply.

The refinement needs one more fact, `RestGiven`: the worker pauses only when it settles an outcome,
later than the source's answer, so the wait that the source is owed is bounded by the pause the
outcome is about to cause until then, by `paused` afterwards, and is over whenever a job has been
popped. Each step is then a request, a response, an abandoned request or a tick of `PoliteSource`, or
leaves what the source sees unchanged.

### The tasks

`TypeOK`, the exact pending count and `CancelledTaskWindsDown` are parts of `Inv`, which adds:

* `SubtasksPlaced`: whatever was spawned belongs to a task;
* `HandlesKept`: the handle of each running subtask is stored, or about to be by the holder of the
  lock, or it was aborted already;
* `SeedingKept`: while seeds are being enqueued the registry is locked, and the task they go into is
  the registered one of its root;
* `RunsAreRegistered`: a task in progress is the registered one of its root;
* `WaitersKept`: what a wait owes can be found, and what of it still runs is among what it watches.

Why: a drain reaches all that runs only because a spawn and the push of its handle are under one lock;
the pending count of a task that is over can only rise again by an enqueue from outside, which
`SeedingKept` confines to the task behind the registry's lock; two tasks of one root cannot both be
the registered one; and a scan, which sees the registry only, sees all that runs. The exact count
rests on the finiteness of `Subtasks`: each step adds one to, or takes one from, both sides.

### The catalog

The operations are operators from tables to tables, and most of the proof is that each makes sound
tables of sound ones. `Sound` is the type of the tables and

* `Linked`, `Proposed`: links and proposals name rows that are there, and works are in publications
  only, without which a commit's closure of two levels would not be closed;
* `Marked`: the property that nothing committed references a draft;
* `ClassifiedBut`: the classification property, but for one publication that an operation has linked
  or classified and not yet inherited from: `AddWork` and `Classify` break it and mend it.

`CommitRowsSound` carries the argument: committing a set of rows is sound if what these rows refer to
is in the set or committed before. A commit's closure meets that, and so does what `AddWork` and
`AddContributor` commit beside a link. `IsReview` says of each reviewer only that what it has read
could be proposed: the proof holds however stale that is.

`CommitsDrop` needs the triggers (`CommitRowsDrops`) and, for the collections that follow a commit in
the same transaction, that taking rows away commits and proposes nothing (`LessDrops`).

The two theorems about collections are both relations of the tables before to those after.
`Spares(d, n, actor)` says of references what `OthersKeepWhatTheyNeed` says of rows: one between rows
that stay goes only when what refers releases it, being the actor, gone, or a draft whose proposal its
commit dropped. That is what makes it survive a collection (`RemovingOrphansSpares`), whose orphans
have no reference left and so only references that were released; each operation then has to show it
of the rows it writes before it collects. For orphans the order matters. `CollectOrphansNone` holds of
any sound tables, because works go first and only publications, which no collection removes, keep
works; `CollectPeopleOrphansNone` needs that no work was orphaned before it, and each operation that
collects only people owes that: a commit of a work drops no proposal of a work (`CommitRowsSpares`),
for only publications propose works, nor does deleting a work, rejecting what one
proposes or unlinking a person. The operations
that collect nothing (committing, deleting or rejecting for a person, linking a contributor) are right
because a person keeps nothing.

### The shell

`SelectionInv` says who deleted a library: one that this session deleted, by whatever id or name it was
typed, is gone and is not selected, between the deletion and the clearing of the selection too
(`step = "deleted"`). It needs that a line's library was not deleted by the session when the line has
resolved it (`step = "resolved"`), which holds because a line runs to its end, or is cut off, before the
next. The steps on rows are shown once to go on to nothing that names a library (`CommandGoesOn`).

`ReferencesInv` follows a reference from where it was looked up to where it is used. As long as no one
else has written (`alone`), the subject is the only row that its text names (`NamesTheSubject`), and a
target that is to be made without `--new` has a name of its own (`IsTheOnlyOne`); a target that is to be
linked was typed as its id, alone or not. It also says what may refer to what (`MayRefer`), which is what
makes a command's write one of the catalog's operations on rows of the right kinds: with it, `ShellKeepsInv`
shows that a session keeps the catalog's `Inv`, so that a committed entity never references a draft, for
everyone else's writes between its transactions too.

`ListInv` is about a line of several proposals. Those it has yet to come to are different and pending
(`ListIsPending`), and the one that the session's reviewer has read is pending still and none of them
(`AcceptsAnother`). Three lemmas carry it: what an entity that is not collected itself proposes is needed,
so no collection takes it (`CollectingKeepsPending`); rejecting one proposal of an entity leaves its
others (`RejectingKeepsPending`), which depends on what each kind's rejection collects: a publication is
never collected, and a work's rejection collects people only, so that it can't collect the work itself; and
applying one leaves the others (`ApplyingKeepsPending`), because it commits what the entity refers to, never the
entity itself, whose proposals would be dropped. An image that cannot be had changes no table, so that
its proposal is among those that stay (`MissingKeepsListInv`). The rest of the proof shows that nothing else touches the list while the
session is alone, and that outside of a list its reviewer has nothing under way.

### The audit log

Its invariant is the catalog's, as each audited operation is one of the catalog's or leaves the tables
alone (`AuditedEdits`), and that the log ends right. `EndsRight(events, d)` says of each row that the last
of these events that tells of its life is right of it in `d`. To add events to a log that ends right
they have to do so themselves, and to leave no row that they do not tell of worse than it was:
`Account(d, events, n)`. Accounts follow one another (`AccountsFollow`), as the parts of an operation do:
a row's creation or deletion, what a commit reaches, orphaned works and then the people they leave, works
that inherit a classification. So the account of an operation that commits, collects and classifies is
put together from those of its parts (`AddWorkAccounts`, `CommitAccounts`), in the order in which the
code records them; were a collection recorded before the commit that it follows, or a set of orphans
taken from the wrong tables, the parts would not fit. Forgetting the oldest events spoils nothing
(`TrimmedEndsRight`), and forgetting others would. `record_each` goes through a set in some order; that
it reaches each is `InSomeOrder`, which is where the ids have to be finitely many.

`LogIsWhatChanged` is about one transaction, and asks for exactly what it changes. `Says(events)` is what
events tell as a set of pairs, of a field or of what became of a row, and of whom: over sets, events appended
are a union (`BothSay`) and what `record_each` records is a product (`EachSays`), in whatever order it goes.
`Explains(d, said, n)` is that such a set is what changed from `d` to `n`. Unlike accounts, explanations
do not simply follow one another: what one part of an operation tells of a row, the next may undo. So for
each kind of part there is a lemma that appends it to what came before, with the reason why the two do not
meet: rows are committed after changes that touched no mark (`CommittingTallies`); rows that are collected
have no link to them that their owner's event would have to tell of, and nothing was told of them before
(`CollectingTallies`); a work inherits a classification only if it was there and had none
(`InheritingTallies`). From these each operation's lemma follows (`AddWorkTallies`, `CommitTallies`), and a
collection recorded of what was just created or linked would not fit. Plain fields and items are not the
catalog's tables: a step on rows resets those of the rows that go and leaves the others (`RowsTellWhatChanged`,
for which `FieldsInv` says that they are functions of what has them). The condition that the log keeps as
many events as the step records is the property's own, as `audit.rs` deletes the oldest events, which are a
transaction's own once it records more.

### Assets

That a holding's file is there with what was uploaded for it does not survive a step alone. `Inv` adds:

* `HoldingsAreApart`, `HandsAreApart`: no two holdings share a file, nor a holding and a call that is
  about to name or remove one, nor two calls; and none of these files has the name of an image, which
  `unique_path` reserves. That a file to be removed is still on disk is what keeps its name from being
  taken again before it is, unless its publication is gone and with it whoever could;
* `ImagesAreImages`: what a row names as its image, and what a call sets or removes as one, has the
  name of an image, so that images and holdings never meet;
* `WritersKept`: writers come one at a time, so what one found in its transaction stays so;
* `ClearersKept`: only directories of what is gone are removed, and a gone id is not used again.

`OnlyAnImageIsReplaced` and these give `ImagesAreLeftAlone`; that an image itself may be disturbed by
another is the finding.

### The login

`InsideIsLocked`: whoever is between its look at the throttle and its end holds the lock, so there is
at most one. Then what it has read of the password is still what is stored when it has verified it
(`ReadsAreCurrent`), and the room that it saw in the throttle is still there when it fails
(`FailuresAreCounted`). Both are false without the lock, as the two mutants of `TakesLock` show, one for
replacing the password and one for changing it.

### Seeding an import

A property that speaks of one store rests on what whoever stores still knows: `LookupKnows`, `EditKnows`
and `AcceptKnows` say that what was read, or stored, is still the draft as long as the count of stores
is what it was, and they survive because whatever stores adds one to the count. `ClaimHolds` adds that a
claim is one request's and that nothing is stored meanwhile, so that what is published is what was
frozen. `StartIsFirst` is there because an import that is gone has an empty draft again.

### Pending imports

Most of the proof is about operators. `DraftStore` and `ArchiveTables` go through lists with `FoldLeft`,
as the code does with loops, and a fold is a recursive definition that induction over data would be
needed for. It is avoided: `FoldLeft` is a choice of a function on sets of positions, and that function is
shown once to exist and to be, on the prefixes of a list, the trajectory of one step (`StepOf` names the
steps, since an operator cannot be passed on). What a step keeps, the fold then keeps, by induction over
positions. From there:

* of the store: `resolve_credit` and the lists over it add draft people and take none away; relinking,
  deduplicating and accepting leave only references that were there or what they became; `collect` leaves
  exactly what is referred to, which is what makes every operation that ends in it keep the property;
* of the tables: each operation keeps a table well typed and its references to rows that are there,
  `collect_orphans` leaves a consistent catalog of held publications, contained works and credited people,
  in the order that the code has and in no other, and merging works leaves no reference to the one that
  went.

`IInv` is `TypeInv`, `ClaimInv`, `ClaimsAreGivenUp` and `EndInv`. `TypeInv` says of every request in
flight what it carries (`IsRequest`): that what is to be published names only draft people that the
claim's snapshot has, that what an open edit has written is consistent, that merges to be told name two
works. `AcceptsFindTheirPersons` is not inductive without it, since the store may have dropped those
people by then. `ClaimInv`: no two accepts have a claim on one import, and an import that is there and
has a claim on it says so. `EndInv`: an import that was published was not discarded, and as long as it
is there it stays claimed, by nobody who could give that claim up; one that was discarded is gone, and
nobody claims it. None of these is inductive without the others: an import is published once only because
its claim keeps others out until it is dropped, and the claim is kept only because nobody else gives it
up. TLC checked the parts of `IInv` as invariants of `pending_imports` before they were proved.

What a page posts is arbitrary up to its type (`Posted`, `Credit`, `Content`): it may name works and people
that are gone or never were.

### Enrichment

A subtask writes in several transactions, and before each it looks at what a user, another run or its own
like in a run before it may have changed. `EnrichInv` says what it knows then. It has three parts:

* of the rows (`RowsInv`): every link and proposal is between rows that are there, everyone who is there
  is named by a publication and has a name, and whoever has a record is there. Users' writes only
  take away from these tables (`Shrinks`), subtasks' writes only add to them (`Grows`), and both keep
  this. A session that accepts a person needs `ReviewInv` for it: between its two transactions the
  person is linked to the publication, or one of the two is gone for good;
* of the subtasks (`Knows`), as long as no user has written since they began: which of its writes a
  subtask has made, that the person it is about to write about is whom matching finds, and that a
  finished subtask, and one that began after its like had finished, has nothing left to write
  (`IsDone`). A user's write makes all of them dirty; another subtask's write leaves what they know true
  (`SubtaskStays`), because it takes nothing away and gives no one a record: whom an author's record
  finds stays the same, and whom a name finds it still finds;
* of cancelled runs (`SpareInv`): whoever was on its way to write then may, and no one else can come to
  be, as every subtask looks before it goes on.

From these `RunsStop` follows write by write, with `WhoWrites`: a subtask's step on, with a write, is its
own, since its authors are enqueued only once and after the edition (`AuthorsInv`). For `RerunsRepeat`
there is to show that a write of a subtask that began again is no change. The fields, the classification
and the link are there by `IsDone`; of the person, `IsDone` says that someone whom matching finds is
proposed and linked, and matching finds one person by a record (`BestIsOne`: committed before draft, then
the lowest id) and anyone of the name without one. Two who answer to the name are then two namesakes,
which is the property's exception, and why it has it. `RunsStay` needs only the types, and that what was
read before a run began forgets nothing that is not completed by then: `Forgets` looks again. TLC checked
the parts of `EnrichInv` as invariants of `enrichment` before they were proved.

### External links and the archive's log

`RecordsHaveAddresses`: for every address, of any texts, any path and any numbers, the address that `url`
builds of the record it was recognized as names that record, but for ids that are dot segments. There is
a lemma per site that its rule, applied where the canonical address has the id, gives the id back
(`...Again`). That rests on normalizing being idempotent, which is true only because a segment that is
read as a number has nothing else in it, and on the arms of `Url`, of which no two are for one record.

It says nothing of what the archive stores. `IInv` does: `LinksAreStored` (an owner has a URL once and a
record once, and each record is the one its own address names to the latest binary, or none), of the
tables and (`EditSees`) of the transaction an open edit sees; `IsRunning`, that what the binary recognizes
is its version's; and `IsBounded`. The edit is in it because what it sees becomes the tables when it
commits, long after it was opened. TLC checked `IInv` as an invariant of `archive_log` before it was
proved. That a step keeps it is shown from the bottom up:

* a list of links: adding one under the unique indexes (`AddLinkSound`), what a merge's survivor gains
  (`AddLinksSound`), and what is left without one (`RemoveLinkSound`) are links an owner may have;
* the tables: `Sees` says of a transaction that its rows have such links, and each operation keeps it: a
  person created, contents added or written again, a work absorbed into its duplicate or merged, a
  publication or everything deleted, and the collection of orphans, which only takes rows away;
* the forms: what `ParsesLinks` lets through has no URL and no record twice, so its links are such a list, whatever
  was posted; then every save, every call of an edit and every commit, one lemma each.

The loops are folds again, and are shown to be trajectories of one step as for pending imports.

An opening is the hard step, since it clears and then sets columns one at a time under the index, each
of which fails if another link of the owner has the record by then. `RecognizesSound` shows that none
fails: with `SetTo(.., k, ..)`, the list after the first k changes, what has been set is final and pairwise
different, what is yet to be set names nothing, and what is not changed at all already has the record
that it is to have, so that none of the three meets the record set next. This is what clearing them first
is for: without it a record that moves from one link to another meets itself (`KeepsRecords`, the mutant
of `OpeningRecognizes`). The first link of a record keeps it and the later ones have none
(`RecordsOnce`), and a record is missing only where an earlier link has it. `OpeningsRecognize` then
needs only that a URL is there once, which the invariant says.

`RecordsFoundAgain` puts the two together: by `IInv` a stored record is what some address was recognized
as, and by `RecordsHaveAddresses` it is found again.

What the log tells needs a second invariant, `TInv`, which has three parts:

* `HasIds`: the tables' ids are among those that were given out. Without it a row that was created could
  come back under the id of one that was deleted before, and no entry would tell the two apart;
* `EditTells`: at every moment of an open edit, its entries account for all that it did to the tables
  that it began with (`Accounts`): what it created or deleted, what it merged away, each column that
  differs, and that nothing it told as deleted is there. Deleting the library stands for everything, and
  after it there is nothing left that a call could be made on;
* `HandleIs`: what was loaded has the fields that are compared.

`EditsTellWhatTheyDid` speaks only of the tables before and after an edit, and is not inductive: between
the two are any number of calls. `EditTells` is, because accounts add up: `Tracks` says of one call that
what it adds to the entries tells what it changes of the tables it finds, and `AccountsOn` that a call that
tracks leaves an account that still holds. The places where they could fail to add up are why `Accounts`
says more than the property does: a row that is created and deleted again has both entries and is not
there; a row that a merge took is told only in what the merge reports, and what it changed in the
publications that contained it is told only so; and an entry of a deletion must stay true, which takes
`HasIds`. There is a lemma per kind of call (`SetsTell`, `CreationTells`, `DeletionTells`, `MergeTells`,
`LibraryDeletionTells`), and `CollectionTracks` says the same of the collection of orphans, so that the
commit follows as one more step. `CommitsQuietly`, the mutant, is a commit for which it does not hold.

A save needs no such invariant, as it is one step; what it does in that step is long. `Later` says
of each operation that a form is written by that no publication and no person goes, that a work goes only
in a merge that is recorded, and that nothing else is; with `IsCollected` every row that a save lost is
told (`CollectedLoses`). `IsHeldAs` follows what is held of a publication through all its contents,
merges among them, to show that its own cleanup never takes it, which the `expect` at
`publication.rs:414` rests on. For fields, `ChangedFields` is by definition the difference between
what was loaded and what is there; what remains is that it is computed of the row as it is left. For a
work it is not: it is compared before the work may be absorbed and before the cleanup, and
`WorkIsCompared` shows that the cleanup never takes a composer that the comparison shows, so that it
would have been the same after.

### Only model-checked

Liveness (`EveryCallIsAnswered`, `CancelledTaskEnds`, `WaitReturns`), which TLAPS does not do; and the
violation, which TLC finds. Every other property that a run checks is stated by a theorem. No module uses
a recursive operator.

## 5. What is not modelled, and the plan

Not modelled at all: HTTP, JSON and HTML; text matching; formatting;
the status page and the call log; sample data; completion and printing in the CLI. They hold no shared state, and what
the rest of the system sees of them is an outcome.

The engine's parsing of values (`value.rs`, catalog numbers, ISBNs) and its matching of text
(`search.rs`, `suggest.rs`, the archive's `fuzzy.rs`) are functions of strings; what they decide is a
choice of an action's input here. The web application's own sessions and throttle are the engine's
without its lock, and go when it moves to the engine; `router/login.rs` awaits the password check
before it counts a failure or starts a session, which is the race that `Login`'s lock is there for. Of the
archive, its password and the paging through its log are left out.

What would come next: in `Enrichment`, two publications that share a person, and the two halves of a listing
as a property of their own.
