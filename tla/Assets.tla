-------------------------------- MODULE Assets --------------------------------
(***************************************************************************)
(* The files of the engine beside the rows that name them: cover and       *)
(* profile images, and the files of digital holdings.                      *)
(*                                                                         *)
(* A file and a row cannot commit together.  A new file is staged outside  *)
(* of any transaction, moved to its place inside the transaction that      *)
(* names it, and so is there before its row; a file that a transaction has *)
(* stopped naming is removed after it, and so is there after its row.      *)
(* Several processes share the directory (the server and the command       *)
(* line), each may crash between any two steps, and every call may fail or *)
(* be dropped at its awaits.  Only transactions exclude each other.        *)
(***************************************************************************)
EXTENDS Integers, Functions

CONSTANTS
    Users,          \* calls under way, at most
    Publications, People,
    Images,         \* names of image files: cover.jpg, cover.png, ...
    Filenames,      \* names that files are uploaded under, those of images among them
    NoFile,
    MaxUploads, MaxHoldings, MaxCount   \* bounds

ASSUME BoundsAreNat == {MaxUploads, MaxHoldings, MaxCount} \subseteq Nat
ASSUME NamesAreDistinct == Publications \intersect People = {}

Entities == Publications \union People
Uploads == 1 .. MaxUploads
HoldingIds == 1 .. MaxHoldings

\* A file is in its owner's directory; n is the counter put before its extension, if any.
Names == [base : Images \union Filenames, n : 0 .. MaxCount]
Files == [of : Entities, name : Names]
File(e, base, n) == [of |-> e, name |-> [base |-> base, n |-> n]]
ImageFile(e, image) == File(e, image, 0)
IsImageFile(f) == f.name.base \in Images /\ f.name.n = 0

ASSUME NoFileIsNone == NoFile \notin Files

VARIABLES
    state,      \* of each entity's row: "new", "there" or "gone"
    image,      \* the cover or profile that each row names
    holdings,   \* the rows of holdings, by id
    files,      \* the files under assets/, and which upload each is
    staging,    \* the uploads in the staging directory
    users,      \* what each call is in the middle of
    uploads,    \* how many files were uploaded
    left        \* what interrupted calls left behind: files and staged uploads

rows == <<state, image, holdings>>
vars == <<state, image, holdings, files, staging, users, uploads, left>>

Idle == [step |-> "idle"]
\* An import has no publication yet.
Staged == [step : {"staged"}, does : {"image"}, of : Entities, base : Images, data : Uploads]
     \union [step : {"staged"}, does : {"holding"}, of : Publications, base : Filenames,
             data : Uploads]
     \union [step : {"staged"}, does : {"import"}, of : {NoFile}, base : Filenames,
             data : Uploads]
Writing == [step : {"writing"}, does : {"image", "holding", "import"}, file : Files,
            data : Uploads]
Removing == [step : {"removing"}, was : {"image", "holding"}, file : Files]
Clearing == [step : {"clearing"}, dirs : SUBSET Entities]

With(f, x, value) == [y \in DOMAIN f \union {x} |-> IF y = x THEN value ELSE f[y]]
IsAt(u, step) == users[u].step = step
Moves(u, to) == users' = [users EXCEPT ![u] = to]

\* begin_write is BEGIN IMMEDIATE, of whichever process.
NoOneWrites == \A u \in Users : ~IsAt(u, "writing")
IsThere(e) == state[e] = "there"
HoldingsOf(p) == {h \in DOMAIN holdings : holdings[h].of = p}

-----------------------------------------------------------------------------
(***************************************************************************)
(* Adding files                                                            *)
(***************************************************************************)

\* asset::stage: the upload or download goes into the staging directory.
Stage(u, does, of, base) ==
    /\ IsAt(u, "idle")
    /\ uploads < MaxUploads
    /\ uploads' = uploads + 1
    /\ staging' = staging \union {uploads'}
    /\ Moves(u, [step |-> "staged", does |-> does, of |-> of, base |-> base, data |-> uploads'])
    /\ UNCHANGED <<rows, files, left>>

\* A handle on the entity is from before, so the entity may be gone by now.
StageImage(u, e, base) == state[e] # "new" /\ Stage(u, "image", e, base)
StageHolding(u, p, base) == state[p] # "new" /\ Stage(u, "holding", p, base)
StageImport(u, base) == Stage(u, "import", NoFile, base)

\* An error before the file is moved, or the call dropped: the staged file is deleted.
GiveUp(u) ==
    /\ IsAt(u, "staged")
    /\ staging' = staging \ {users[u].data}
    /\ Moves(u, Idle)
    /\ UNCHANGED <<rows, files, uploads, left>>

AnyName(p, base) == {File(p, base, n) : n \in 0 .. MaxCount}
LooksAtRows(p, base) ==
    {f \in AnyName(p, base) :
       /\ f.name.n >= (IF base \in Images THEN 1 ELSE 0)
       /\ \A h \in DOMAIN holdings : holdings[h].file # f}
TakesReserved(p, base) ==
    {f \in AnyName(p, base) :
       /\ f \notin DOMAIN files
       /\ \A n \in 0 .. f.name.n - 1 : File(p, base, n) \in DOMAIN files}
\* asset::unique_path: the name itself, or the first counter that makes it free; the name of
\* an image is never taken.
UniquePath(p, base) ==
    LET first == IF base \in Images THEN 1 ELSE 0 IN
    {f \in AnyName(p, base) :
       /\ f.name.n >= first
       /\ f \notin DOMAIN files
       /\ \A n \in first .. f.name.n - 1 : File(p, base, n) \in DOMAIN files}

\* Staged::persist, in a transaction that has found the entity.
Persist(u, does, f) ==
    /\ IsAt(u, "staged") /\ users[u].does = does
    /\ NoOneWrites
    /\ users[u].data \in staging
    /\ staging' = staging \ {users[u].data}
    /\ files' = With(files, f, users[u].data)
    /\ Moves(u, [step |-> "writing", does |-> does, file |-> f, data |-> users[u].data])
    /\ UNCHANGED <<rows, uploads, left>>

PersistImage(u) ==
    /\ IsAt(u, "staged") /\ users[u].does = "image"
    /\ IsThere(users[u].of)
    /\ Persist(u, "image", ImageFile(users[u].of, users[u].base))

PersistHolding(u) ==
    /\ IsAt(u, "staged") /\ users[u].does = "holding"
    /\ IsThere(users[u].of)
    /\ \E f \in UniquePath(users[u].of, users[u].base) : Persist(u, "holding", f)

\* An import that is rolled back gives its id to the next one.
PersistImport(u, p) ==
    /\ state[p] = "new"
    /\ IsAt(u, "staged") /\ users[u].does = "import"
    /\ \E f \in UniquePath(p, users[u].base) : Persist(u, "import", f)

\* The id of a new holding: SQLite's, one more than the largest there is.
IsNextHolding(h) == h \notin DOMAIN holdings /\ \A i \in DOMAIN holdings : i < h

\* After the commit only the previous image is left to remove.
CommitImage(u) ==
    /\ IsAt(u, "writing") /\ users[u].does = "image"
    /\ LET f == users[u].file
           previous == image[f.of]
       IN /\ image' = [image EXCEPT ![f.of] = f]
          /\ Moves(u, IF previous \in {NoFile, f} THEN Idle
                      ELSE [step |-> "removing", was |-> "image", file |-> previous])
    /\ UNCHANGED <<state, holdings, files, staging, uploads, left>>

CommitHolding(u) ==
    /\ IsAt(u, "writing") /\ users[u].does \in {"holding", "import"}
    /\ LET f == users[u].file IN
       /\ \E h \in HoldingIds :
             /\ IsNextHolding(h)
             /\ holdings' = With(holdings, h, [of |-> f.of, file |-> f, data |-> users[u].data])
       /\ state' = [state EXCEPT ![f.of] = "there"]
    /\ Moves(u, Idle)
    /\ UNCHANGED <<image, files, staging, uploads, left>>

\* A statement or the commit failed, the call was dropped or the process crashed: the
\* rows are as before, the file stays.
RollBack(u) ==
    /\ IsAt(u, "writing")
    /\ left' = [left EXCEPT !.files = @ \union {users[u].file}]
    /\ Moves(u, Idle)
    /\ UNCHANGED <<rows, files, staging, uploads>>

-----------------------------------------------------------------------------
(***************************************************************************)
(* Rows without a file                                                     *)
(***************************************************************************)
InsertPhysical(p) ==
    /\ \E h \in HoldingIds :
          /\ IsNextHolding(h)
          /\ holdings' = With(holdings, h, [of |-> p, file |-> NoFile, data |-> 0])
    /\ UNCHANGED <<image, files, staging, users, uploads, left>>

ImportPhysical(p) ==
    /\ NoOneWrites /\ state[p] = "new"
    /\ state' = [state EXCEPT ![p] = "there"]
    /\ InsertPhysical(p)

AddPhysical(p) ==
    /\ NoOneWrites /\ IsThere(p)
    /\ InsertPhysical(p)
    /\ UNCHANGED state

CreatePerson(x) ==
    /\ NoOneWrites /\ state[x] = "new"
    /\ state' = [state EXCEPT ![x] = "there"]
    /\ UNCHANGED <<image, holdings, files, staging, users, uploads, left>>

-----------------------------------------------------------------------------
(***************************************************************************)
(* Removing                                                                *)
(***************************************************************************)

\* clear_cover, clear_profile
ClearImage(u, e) ==
    /\ IsAt(u, "idle") /\ NoOneWrites
    /\ IsThere(e) /\ image[e] # NoFile
    /\ image' = [image EXCEPT ![e] = NoFile]
    /\ Moves(u, [step |-> "removing", was |-> "image", file |-> image[e]])
    /\ UNCHANGED <<state, holdings, files, staging, uploads, left>>

\* remove_holding, of any id: the page it was picked on may be old, and ids are used again.
RemoveHolding(u, p, h) ==
    /\ IsAt(u, "idle") /\ NoOneWrites
    /\ IsThere(p)
    /\ h \in HoldingsOf(p) /\ HoldingsOf(p) # {h}
    /\ holdings' = Restrict(holdings, DOMAIN holdings \ {h})
    /\ Moves(u, IF holdings[h].file = NoFile THEN Idle
                ELSE [step |-> "removing", was |-> "holding", file |-> holdings[h].file])
    /\ UNCHANGED <<state, image, files, staging, uploads, left>>

\* After the commit.  A failure is logged, and the file stays.
RemoveFile(u) ==
    /\ IsAt(u, "removing")
    /\ files' = Restrict(files, DOMAIN files \ {users[u].file})
    /\ Moves(u, Idle)
    /\ UNCHANGED <<rows, staging, uploads, left>>

ForgetsHoldings(gone) == holdings' = holdings
\* ON DELETE CASCADE
Cascade(gone) ==
    holdings' = Restrict(holdings, {h \in DOMAIN holdings : holdings[h].of \notin gone})

\* A transaction that deletes entities, and notes whose directories to remove after it.
Deletes(u, gone, dirs) ==
    /\ IsAt(u, "idle") /\ NoOneWrites
    /\ gone # {}
    /\ state' = [e \in Entities |-> IF e \in gone THEN "gone" ELSE state[e]]
    /\ image' = [e \in Entities |-> IF e \in gone THEN NoFile ELSE image[e]]
    /\ Cascade(gone)
    /\ Moves(u, [step |-> "clearing", dirs |-> dirs])
    /\ UNCHANGED <<files, staging, uploads, left>>

There == {e \in Entities : IsThere(e)}

ForgetsOrphans(u, p) ==
    \E orphans \in SUBSET (There \intersect People) :
       IsThere(p) /\ Deletes(u, {p} \union orphans, {p})
\* Publication::delete, with the people it orphans; Person::delete and every operation that
\* collects orphans; Library::delete.
DeletePublication(u, p) ==
    \E orphans \in SUBSET (There \intersect People) :
       IsThere(p) /\ Deletes(u, {p} \union orphans, {p} \union orphans)
CollectPeople(u) ==
    \E orphans \in SUBSET (There \intersect People) : Deletes(u, orphans, orphans)
DeleteLibrary(u) == Deletes(u, There, There)

\* asset::remove_dir
RemoveDir(u, e) == files' = Restrict(files, {f \in DOMAIN files : f.of # e})

\* asset::remove_dirs, one directory after the other
ClearDir(u) ==
    /\ IsAt(u, "clearing")
    /\ \E e \in users[u].dirs :
          /\ RemoveDir(u, e)
          /\ Moves(u, IF users[u].dirs = {e} THEN Idle
                      ELSE [users[u] EXCEPT !.dirs = @ \ {e}])
    /\ UNCHANGED <<rows, staging, uploads, left>>

-----------------------------------------------------------------------------
(***************************************************************************)
(* Crashes and restarts                                                    *)
(***************************************************************************)

\* The process of a call dies, or a removal fails: what it was about to remove stays.
Stop(u) ==
    /\ users[u].step \in {"staged", "removing", "clearing"}
    /\ left' =
         CASE IsAt(u, "staged") -> [left EXCEPT !.staged = @ \union {users[u].data}]
           [] IsAt(u, "removing") -> [left EXCEPT !.files = @ \union {users[u].file}]
           [] IsAt(u, "clearing") ->
                [left EXCEPT !.files = @ \union {f \in DOMAIN files : f.of \in users[u].dirs}]
    /\ Moves(u, Idle)
    /\ UNCHANGED <<rows, files, staging, uploads>>

\* Engine::new, when it migrates: the staging directory is cleared, whoever else uses it.
OpenMigrating ==
    /\ staging # {}
    /\ staging' = {}
    /\ UNCHANGED <<rows, files, users, uploads, left>>

-----------------------------------------------------------------------------
Adds(u) ==
    \/ \E e \in Entities, base \in Images : StageImage(u, e, base)
    \/ \E p \in Publications, base \in Filenames : StageHolding(u, p, base)
    \/ \E base \in Filenames : StageImport(u, base)
    \/ GiveUp(u)
    \/ PersistImage(u) \/ PersistHolding(u) \/ \E p \in Publications : PersistImport(u, p)
    \/ CommitImage(u) \/ CommitHolding(u) \/ RollBack(u)

Removes(u) ==
    \/ \E e \in Entities : ClearImage(u, e)
    \/ \E p \in Publications, h \in HoldingIds : RemoveHolding(u, p, h)
    \/ \E p \in Publications : DeletePublication(u, p)
    \/ CollectPeople(u) \/ DeleteLibrary(u)
    \/ RemoveFile(u) \/ ClearDir(u)

Init ==
    /\ state = [e \in Entities |-> "new"]
    /\ image = [e \in Entities |-> NoFile]
    /\ holdings = <<>>
    /\ files = <<>>
    /\ staging = {}
    /\ users = [u \in Users |-> Idle]
    /\ uploads = 0
    /\ left = [files |-> {}, staged |-> {}]

Next ==
    \/ \E u \in Users : Adds(u) \/ Removes(u) \/ Stop(u)
    \/ \E p \in Publications : ImportPhysical(p) \/ AddPhysical(p)
    \/ \E x \in People : CreatePerson(x)
    \/ OpenMigrating

Spec == Init /\ [][Next]_vars

-----------------------------------------------------------------------------
(***************************************************************************)
(* Properties                                                              *)
(***************************************************************************)

\* The types, and what the cascades keep: only an entity that is there has holdings or names an
\* image, and both are files of its own directory.
TypeOK ==
    /\ state \in [Entities -> {"new", "there", "gone"}]
    /\ image \in [Entities -> Files \union {NoFile}]
    /\ \A e \in Entities : image[e] # NoFile => IsThere(e) /\ image[e].of = e
    /\ DOMAIN holdings \subseteq HoldingIds
    /\ \A h \in DOMAIN holdings :
          /\ holdings[h].of \in Publications /\ IsThere(holdings[h].of)
          /\ holdings[h].file \in Files \union {NoFile}
          /\ holdings[h].file # NoFile => holdings[h].file.of = holdings[h].of
    /\ DOMAIN files \subseteq Files
    /\ \A f \in DOMAIN files : files[f] \in 1 .. uploads
    /\ staging \subseteq 1 .. uploads
    /\ users \in [Users -> {Idle} \union Staged \union Writing \union Removing \union Clearing]
    /\ uploads \in 0 .. MaxUploads
    /\ left \in [files : SUBSET Files, staged : SUBSET Uploads]

\* Every digital holding has its file, with what was uploaded for it, whatever else is added,
\* removed, rolled back or crashes at the same time: two rows never share a file, and no late
\* removal meets one that a new row names (unique_path, remove_holding, remove_dirs).
HoldingsHaveTheirFiles ==
    \A h \in DOMAIN holdings :
       LET f == holdings[h].file IN
       f # NoFile => f \in DOMAIN files /\ files[f] = holdings[h].data

IsNamed(f) ==
    \/ image[f.of] = f
    \/ \E h \in DOMAIN holdings : holdings[h].file = f
IsInHand(f) ==
    \E u \in Users :
       \/ users[u].step \in {"writing", "removing"} /\ users[u].file = f
       \/ IsAt(u, "clearing") /\ f.of \in users[u].dirs

\* "A file is deleted with its owner" (docs/design/05-data-model.md): a file that no row names is
\* about to be named or removed, and so is a staged one, unless a call was interrupted with it.
NothingIsLeftBehind ==
    /\ \A f \in DOMAIN files : IsNamed(f) \/ IsInHand(f) \/ f \in left.files
    /\ \A d \in staging :
          d \in left.staged \/ \E u \in Users : IsAt(u, "staged") /\ users[u].data = d

\* Replaces the image of e, or removes an image of that name that was replaced before.
DisturbsImage(u, e) ==
    \/ /\ IsAt(u, "staged") /\ users[u].does = "image"
       /\ IsAt(u, "writing")' /\ users'[u].file = image[e]
    \/ /\ IsAt(u, "removing") /\ users[u].was = "image"
       /\ users[u].file = image[e] /\ users'[u] # users[u]

\* A cover or profile that its row names stays as it is, but for another image of the same name
\* that is being set, and for the late removal of one (publication.rs:772, 783): no holding, no
\* import, no deletion of other entities and no restart touches it.
OnlyImagesDisturbImages ==
    [][\A e \in Entities :
          image[e] \in DOMAIN files /\ image'[e] = image[e]
             => \/ image[e] \in DOMAIN files' /\ files'[image[e]] = files[image[e]]
                \/ \E u \in Users : DisturbsImage(u, e)]_vars

=============================================================================
