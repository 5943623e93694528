----------------------------- MODULE AssetsProofs -----------------------------
(***************************************************************************)
(* The safety of Assets, for any calls, entities, names of files and       *)
(* bounds.                                                                 *)
(***************************************************************************)
EXTENDS Assets, TLAPS

(***************************************************************************)
(* The inductive invariant.                                                *)
(***************************************************************************)

\* A call that a holding's file is in the hands of: its row is not there yet, or no more.
Holds(u) ==
    \/ IsAt(u, "writing") /\ users[u].does # "image"
    \/ IsAt(u, "removing") /\ users[u].was = "holding"

\* No two holdings share a file, and none has the name of an image.
HoldingsAreApart ==
    \A h \in DOMAIN holdings :
       holdings[h].file # NoFile =>
          /\ ~IsImageFile(holdings[h].file)
          /\ \A i \in DOMAIN holdings : i # h => holdings[i].file # holdings[h].file

\* Nor do a holding and a call, or two calls; and a file that is to be removed is there, so
\* that its name can't be taken again before, unless the publication is gone.
HandsAreApart ==
    \A u \in Users : Holds(u) =>
       /\ ~IsImageFile(users[u].file)
       /\ users[u].file \in DOMAIN files \/ state[users[u].file.of] = "gone"
       /\ \A h \in DOMAIN holdings : holdings[h].file # users[u].file
       /\ \A v \in Users : Holds(v) /\ v # u => users[v].file # users[u].file

ImagesAreImages ==
    /\ \A e \in Entities : image[e] # NoFile => IsImageFile(image[e])
    /\ \A u \in Users :
          \/ IsAt(u, "writing") /\ users[u].does = "image"
          \/ IsAt(u, "removing") /\ users[u].was = "image"
          => IsImageFile(users[u].file)

\* Writers come one at a time, and what they found in their transaction stays so.
WritersKept ==
    \A u \in Users : IsAt(u, "writing") =>
       /\ \A v \in Users : IsAt(v, "writing") => v = u
       /\ users[u].does \in {"image", "holding"} => IsThere(users[u].file.of)
       /\ users[u].does = "import" => state[users[u].file.of] = "new"
       /\ users[u].does # "image" =>
             /\ users[u].file.of \in Publications
             /\ users[u].file \in DOMAIN files
             /\ files[users[u].file] = users[u].data

ClearersKept ==
    \A u \in Users : IsAt(u, "clearing") => \A e \in users[u].dirs : state[e] = "gone"

Inv ==
    /\ TypeOK
    /\ HoldingsHaveTheirFiles
    /\ NothingIsLeftBehind
    /\ HoldingsAreApart
    /\ HandsAreApart
    /\ ImagesAreImages
    /\ WritersKept
    /\ ClearersKept

-----------------------------------------------------------------------------
(* What a call is in the middle of is told by its step. *)
LEMMA StepTypes ==
    ASSUME TypeOK, NEW u \in Users
    PROVE  /\ IsAt(u, "idle") => users[u] = Idle
           /\ IsAt(u, "staged") => users[u] \in Staged
           /\ IsAt(u, "writing") => users[u] \in Writing
           /\ IsAt(u, "removing") => users[u] \in Removing
           /\ IsAt(u, "clearing") => users[u] \in Clearing
<1>1. users[u] \in {Idle} \union Staged \union Writing \union Removing \union Clearing
  BY DEF TypeOK
<1>2. CASE users[u] = Idle
  BY <1>2 DEF Idle, IsAt
<1>3. CASE users[u] \in Staged
  BY <1>3 DEF Staged, IsAt
<1>4. CASE users[u] \in Writing
  BY <1>4 DEF Writing, IsAt
<1>5. CASE users[u] \in Removing
  BY <1>5 DEF Removing, IsAt
<1>6. CASE users[u] \in Clearing
  BY <1>6 DEF Clearing, IsAt
<1> QED BY <1>1, <1>2, <1>3, <1>4, <1>5, <1>6

(* No name that unique_path picks is taken, or that of an image. *)
LEMMA UniquePathIsFree ==
    ASSUME NEW p \in Publications, NEW base \in Filenames, NEW f \in UniquePath(p, base)
    PROVE  f \in Files /\ f.of = p /\ f \notin DOMAIN files /\ ~IsImageFile(f)
BY BoundsAreNat DEF UniquePath, AnyName, File, Files, Names, IsImageFile, Entities

(* An empty house. *)
LEMMA InitHolds == Init => Inv
<1> SUFFICES ASSUME Init PROVE Inv
  OBVIOUS
<1>1. TypeOK
  BY BoundsAreNat DEF Init, TypeOK, IsThere
<1>2. \A u \in Users : users[u].step = "idle"
  BY DEF Init, Idle
<1> QED
  BY <1>1, <1>2 DEF Init, Inv, HoldingsHaveTheirFiles, NothingIsLeftBehind, HoldingsAreApart,
     HandsAreApart, ImagesAreImages, WritersKept, ClearersKept, Holds, IsAt

Doing == {Idle} \union Staged \union Writing \union Removing \union Clearing

(* A call moves on, the others stay. *)
LEMMA Moved ==
    ASSUME TypeOK, NEW u \in Users, NEW to, to \in Doing, Moves(u, to)
    PROVE  /\ users' \in [Users -> Doing]
           /\ users'[u] = to
           /\ \A v \in Users : v # u => users'[v] = users[v]
<1>1. users \in [Users -> Doing]
  BY DEF TypeOK, Doing
<1> QED
  BY <1>1 DEF Moves

-----------------------------------------------------------------------------
(***************************************************************************)
(* Adding files                                                            *)
(***************************************************************************)

(* A file that is staged belongs to its call. *)
LEMMA StageKeeps ==
    ASSUME Inv, NEW u \in Users, NEW does, NEW of, NEW base, Stage(u, does, of, base),
           [step |-> "staged", does |-> does, of |-> of, base |-> base, data |-> uploads + 1]
              \in Staged
    PROVE  Inv'
<1> DEFINE to == [step |-> "staged", does |-> does, of |-> of, base |-> base,
                  data |-> uploads + 1]
<1>1. to \in Doing /\ Moves(u, to)
  BY DEF Doing, Stage
<1>2. /\ users' \in [Users -> Doing]
      /\ users'[u] = to
      /\ \A v \in Users : v # u => users'[v] = users[v]
  <2> HIDE DEF to
  <2> QED
    BY <1>1, Moved DEF Inv
<1>3. users[u].step = "idle"
  BY DEF Stage, IsAt
<1>4. users'[u].step = "staged" /\ users'[u].data = uploads + 1
  BY <1>2
<1>5. TypeOK'
  BY <1>2, BoundsAreNat DEF Inv, TypeOK, Stage, rows, Doing, IsThere, Uploads
<1>6. NothingIsLeftBehind'
  <2>1. \A f : IsInHand(f) => IsInHand(f)'
    BY <1>2, <1>3, <1>4 DEF IsInHand, IsAt
  <2>2. \A f : IsNamed(f) => IsNamed(f)'
    BY DEF IsNamed, Stage, rows
  <2>3. \A d \in staging :
           d \in left.staged \/ \E v \in Users : IsAt(v, "staged")' /\ users'[v].data = d
    BY <1>2, <1>3 DEF Inv, NothingIsLeftBehind, IsAt
  <2> QED
    BY <1>2, <1>4, <2>1, <2>2, <2>3 DEF Inv, NothingIsLeftBehind, Stage, IsAt
<1>7. HandsAreApart' /\ ImagesAreImages' /\ WritersKept' /\ ClearersKept'
  BY <1>2, <1>3, <1>4
  DEF Inv, HandsAreApart, ImagesAreImages, WritersKept, ClearersKept, Holds, IsAt, Stage, rows,
      IsThere
<1>8. HoldingsHaveTheirFiles' /\ HoldingsAreApart'
  BY DEF Inv, HoldingsHaveTheirFiles, HoldingsAreApart, Stage, rows
<1> QED
  BY <1>5, <1>6, <1>7, <1>8 DEF Inv

(* A call that stages nothing more: the file it staged is gone. *)
LEMMA GiveUpKeeps ==
    ASSUME Inv, NEW u \in Users, GiveUp(u)
    PROVE  Inv'
<1>1. /\ users' \in [Users -> Doing]
      /\ users'[u] = Idle
      /\ \A v \in Users : v # u => users'[v] = users[v]
  BY Moved DEF Inv, GiveUp, Doing
<1>2. users[u].step = "staged" /\ users'[u].step = "idle"
  BY <1>1 DEF GiveUp, IsAt, Idle
<1>3. TypeOK'
  BY <1>1 DEF Inv, TypeOK, GiveUp, rows, Doing, IsThere
<1>4. NothingIsLeftBehind'
  <2>1. \A f : (IsInHand(f) => IsInHand(f)') /\ (IsNamed(f) => IsNamed(f)')
    BY <1>1, <1>2 DEF IsInHand, IsNamed, IsAt, GiveUp, rows
  <2> QED
    BY <1>1, <1>2, <2>1 DEF Inv, NothingIsLeftBehind, GiveUp, IsAt
<1>5. HandsAreApart' /\ ImagesAreImages' /\ WritersKept' /\ ClearersKept'
  BY <1>1, <1>2
  DEF Inv, HandsAreApart, ImagesAreImages, WritersKept, ClearersKept, Holds, IsAt, GiveUp, rows,
      IsThere
<1>6. HoldingsHaveTheirFiles' /\ HoldingsAreApart'
  BY DEF Inv, HoldingsHaveTheirFiles, HoldingsAreApart, GiveUp, rows
<1> QED
  BY <1>3, <1>4, <1>5, <1>6 DEF Inv

(* A file that is moved to its place: over an image of that name, or where nothing is. *)
LEMMA PersistKeeps ==
    ASSUME Inv, NEW u \in Users, NEW does \in {"image", "holding", "import"}, NEW f \in Files,
           Persist(u, does, f),
           does = "image" => IsImageFile(f) /\ IsThere(f.of),
           does # "image" =>
              /\ f \notin DOMAIN files /\ ~IsImageFile(f)
              /\ f.of \in Publications
              /\ state[f.of] = IF does = "import" THEN "new" ELSE "there"
    PROVE  Inv'
<1> DEFINE data == users[u].data
           to == [step |-> "writing", does |-> does, file |-> f, data |-> data]
<1>1. users[u] \in Staged /\ users[u].step = "staged"
  BY StepTypes DEF Inv, Persist, IsAt
<1>2. data \in Uploads /\ data \in 1 .. uploads
  BY <1>1 DEF Staged, Persist, Inv, TypeOK
<1>3. /\ users' \in [Users -> Doing]
      /\ users'[u] = to
      /\ \A v \in Users : v # u => users'[v] = users[v]
  <2>1. to \in Doing /\ Moves(u, to)
    BY <1>2 DEF Doing, Writing, Persist
  <2> HIDE DEF to
  <2> QED
    BY <2>1, Moved DEF Inv
<1>4. /\ DOMAIN files' = DOMAIN files \union {f}
      /\ files'[f] = data
      /\ \A g \in DOMAIN files : g # f => files'[g] = files[g]
  BY DEF Persist, With
<1>5. /\ rows' = rows /\ left' = left /\ uploads' = uploads
      /\ state' = state /\ image' = image /\ holdings' = holdings
      /\ staging' = staging \ {data}
  BY DEF Persist, rows
<1>6. users'[u].step = "writing" /\ users'[u].does = does /\ users'[u].file = f
      /\ users'[u].data = data
  BY <1>3
<1> HIDE DEF data, to
<1>7. TypeOK'
  BY <1>2, <1>3, <1>4, <1>5 DEF Inv, TypeOK, Doing, IsThere
<1>8. NothingIsLeftBehind'
  <2>1. \A g : (IsInHand(g) => IsInHand(g)') /\ (IsNamed(g) => IsNamed(g)')
    BY <1>1, <1>3, <1>5, <1>6 DEF IsInHand, IsNamed, IsAt
  <2>2. IsInHand(f)'
    BY <1>6 DEF IsInHand
  <2>3. \A d \in staging' :
           d \in left.staged \/ \E v \in Users : IsAt(v, "staged")' /\ users'[v].data = d
    BY <1>1, <1>3, <1>5 DEF Inv, NothingIsLeftBehind, IsAt, data
  <2> QED
    BY <1>4, <1>5, <2>1, <2>2, <2>3 DEF Inv, NothingIsLeftBehind
<1>9. HoldingsHaveTheirFiles' /\ HoldingsAreApart'
  BY <1>4, <1>5 DEF Inv, HoldingsHaveTheirFiles, HoldingsAreApart
<1>10. HandsAreApart'
  <2>1. \A h \in DOMAIN holdings : holdings[h].file # NoFile => holdings[h].file \in DOMAIN files
    BY DEF Inv, HoldingsHaveTheirFiles
  <2>2. does # "image" =>
           /\ \A h \in DOMAIN holdings : holdings[h].file # f
           /\ \A v \in Users : Holds(v) => users[v].file # f
    BY <2>1, NoFileIsNone DEF Inv, HandsAreApart
  <2>3. \A v \in Users : v # u => (Holds(v)' <=> Holds(v))
    BY <1>3 DEF Holds, IsAt
  <2>4. Holds(u)' <=> does # "image"
    BY <1>6 DEF Holds, IsAt
  <2> QED
    BY <1>3, <1>4, <1>5, <1>6, <2>2, <2>3, <2>4 DEF Inv, HandsAreApart, IsImageFile
<1>11. ImagesAreImages' /\ ClearersKept'
  BY <1>3, <1>5, <1>6 DEF Inv, ImagesAreImages, ClearersKept, IsAt, IsImageFile
<1>12. WritersKept'
  BY <1>3, <1>4, <1>5, <1>6 DEF Inv, WritersKept, IsAt, IsThere, Persist, NoOneWrites
<1> QED
  BY <1>7, <1>8, <1>9, <1>10, <1>11, <1>12 DEF Inv

(* The three of them. *)
LEMMA PersistsKeep ==
    ASSUME Inv, NEW u \in Users,
           \/ PersistImage(u) \/ PersistHolding(u)
           \/ \E p \in Publications : PersistImport(u, p)
    PROVE  Inv'
<1>1. IsAt(u, "staged") => users[u] \in Staged
  BY StepTypes DEF Inv
<1>2. CASE PersistImage(u)
  <2> DEFINE f == ImageFile(users[u].of, users[u].base)
  <2>1. f \in Files /\ IsImageFile(f) /\ f.of = users[u].of
    BY <1>1, <1>2, BoundsAreNat
    DEF PersistImage, Staged, ImageFile, File, Files, Names, IsImageFile, Entities
  <2> HIDE DEF f
  <2>2. Persist(u, "image", f) /\ IsThere(f.of)
    BY <1>2, <2>1 DEF PersistImage, f
  <2> QED
    BY <2>1, <2>2, PersistKeeps
<1>3. CASE PersistHolding(u)
  <2>1. users[u].of \in Publications /\ users[u].base \in Filenames
    BY <1>1, <1>3 DEF PersistHolding, Staged
  <2>2. PICK f \in UniquePath(users[u].of, users[u].base) : Persist(u, "holding", f)
    BY <1>3 DEF PersistHolding
  <2>3. f \in Files /\ f.of = users[u].of /\ f \notin DOMAIN files /\ ~IsImageFile(f)
    BY <2>1, <2>2, UniquePathIsFree
  <2>4. state[f.of] = "there"
    BY <1>3, <2>3 DEF PersistHolding, IsThere
  <2> QED
    BY <2>1, <2>2, <2>3, <2>4, PersistKeeps
<1>4. CASE \E p \in Publications : PersistImport(u, p)
  <2>1. PICK p \in Publications : PersistImport(u, p)
    BY <1>4
  <2>2. users[u].base \in Filenames
    BY <1>1, <2>1 DEF PersistImport, Staged
  <2>3. PICK f \in UniquePath(p, users[u].base) : Persist(u, "import", f)
    BY <2>1 DEF PersistImport
  <2>4. f \in Files /\ f.of = p /\ f \notin DOMAIN files /\ ~IsImageFile(f)
    BY <2>2, <2>3, UniquePathIsFree
  <2>5. state[f.of] = "new"
    BY <2>1, <2>4 DEF PersistImport
  <2> QED
    BY <2>3, <2>4, <2>5, PersistKeeps
<1> QED
  BY <1>2, <1>3, <1>4

(* The new image is named; the previous one, if it has another name, is in hand. *)
LEMMA CommitImageKeeps ==
    ASSUME Inv, NEW u \in Users, CommitImage(u)
    PROVE  Inv'
<1>0. PICK f, previous : f = users[u].file /\ previous = image[f.of]
  OBVIOUS
<1> DEFINE to == IF previous \in {NoFile, f} THEN Idle
                  ELSE [step |-> "removing", was |-> "image", file |-> previous]
<1>1. users[u] \in Writing /\ users[u].step = "writing" /\ users[u].does = "image"
  BY StepTypes DEF Inv, CommitImage, IsAt
<1>2. f \in Files /\ f.of \in Entities /\ IsImageFile(f) /\ IsThere(f.of)
  BY <1>0, <1>1 DEF Writing, Files, Inv, ImagesAreImages, WritersKept, IsAt
<1>3. previous # NoFile => previous \in Files /\ IsImageFile(previous) /\ previous.of = f.of
  BY <1>0, <1>2 DEF Inv, TypeOK, ImagesAreImages
<1>4. /\ users' \in [Users -> Doing]
      /\ users'[u] = to
      /\ \A v \in Users : v # u => users'[v] = users[v]
  <2>1. to \in Doing /\ Moves(u, to)
    BY <1>0, <1>3 DEF Doing, Removing, CommitImage
  <2> HIDE DEF to
  <2> QED
    BY <2>1, Moved DEF Inv
<1>5. /\ image' \in [Entities -> Files \union {NoFile}]
      /\ image'[f.of] = f
      /\ \A e \in Entities : e # f.of => image'[e] = image[e]
  BY <1>0, <1>2 DEF CommitImage, Inv, TypeOK
<1>6. /\ state' = state /\ holdings' = holdings /\ files' = files
      /\ staging' = staging /\ uploads' = uploads /\ left' = left
  BY DEF CommitImage
<1>7. /\ users'[u].step \in {"idle", "removing"}
      /\ users'[u].step = "removing" => users'[u].was = "image" /\ users'[u].file = previous
      /\ users'[u].step = "removing" => previous # NoFile
      /\ previous \notin {NoFile, f} => users'[u].step = "removing"
  BY <1>4 DEF Idle
<1> HIDE DEF to
<1>8. TypeOK'
  BY <1>2, <1>4, <1>5, <1>6 DEF Inv, TypeOK, Doing, IsThere
<1>9. NothingIsLeftBehind'
  <2>1. \A g \in Files : g # previous => (IsNamed(g) => IsNamed(g)')
    BY <1>0, <1>5, <1>6, <1>2 DEF IsNamed, Files
  <2>2. \A g : g # f => (IsInHand(g) => IsInHand(g)')
    BY <1>0, <1>1, <1>4 DEF IsInHand, IsAt
  <2>3. IsNamed(f)'
    BY <1>5 DEF IsNamed
  <2>4. previous \in Files => IsNamed(previous)' \/ IsInHand(previous)'
    BY <1>7, <2>3, NoFileIsNone DEF IsInHand
  <2>5. \A g \in DOMAIN files : g \in Files
    BY DEF Inv, TypeOK
  <2>6. \A d \in staging :
           d \in left.staged \/ \E v \in Users : IsAt(v, "staged")' /\ users'[v].data = d
    BY <1>1, <1>4 DEF Inv, NothingIsLeftBehind, IsAt
  <2> QED
    BY <1>6, <2>1, <2>2, <2>3, <2>4, <2>5, <2>6 DEF Inv, NothingIsLeftBehind
<1>10. HoldingsHaveTheirFiles' /\ HoldingsAreApart'
  BY <1>6 DEF Inv, HoldingsHaveTheirFiles, HoldingsAreApart
<1>11. HandsAreApart' /\ WritersKept' /\ ClearersKept'
  BY <1>4, <1>6, <1>7 DEF Inv, HandsAreApart, WritersKept, ClearersKept, Holds, IsAt, IsThere
<1>12. ImagesAreImages'
  BY <1>2, <1>3, <1>4, <1>5, <1>7 DEF Inv, ImagesAreImages, IsAt
<1> QED
  BY <1>8, <1>9, <1>10, <1>11, <1>12 DEF Inv

(* The new row takes the file out of the hand of its call. *)
LEMMA CommitHoldingKeeps ==
    ASSUME Inv, NEW u \in Users, CommitHolding(u)
    PROVE  Inv'
<1>0. PICK f : f = users[u].file
  OBVIOUS
<1>1. users[u] \in Writing /\ users[u].step = "writing" /\ users[u].does # "image"
  BY StepTypes DEF Inv, CommitHolding, IsAt
<1>2. /\ f \in Files /\ f # NoFile /\ f.of \in Publications /\ ~IsImageFile(f)
      /\ f \in DOMAIN files /\ files[f] = users[u].data
      /\ state[f.of] # "gone"
      /\ Holds(u)
  BY <1>0, <1>1, NoFileIsNone
  DEF Writing, Inv, HandsAreApart, WritersKept, Holds, IsAt, IsThere
<1>3. /\ users' \in [Users -> Doing]
      /\ users'[u] = Idle
      /\ \A v \in Users : v # u => users'[v] = users[v]
  BY Moved DEF Inv, CommitHolding, Doing
<1>4. users'[u].step = "idle"
  BY <1>3 DEF Idle
<1>5. /\ image' = image /\ files' = files
      /\ staging' = staging /\ uploads' = uploads /\ left' = left
  BY DEF CommitHolding
<1>6. PICK h \in HoldingIds :
         /\ IsNextHolding(h)
         /\ holdings' = With(holdings, h, [of |-> f.of, file |-> f, data |-> users[u].data])
  BY <1>0 DEF CommitHolding
<1>7. /\ DOMAIN holdings' = DOMAIN holdings \union {h}
      /\ h \notin DOMAIN holdings
      /\ holdings'[h].of = f.of /\ holdings'[h].file = f /\ holdings'[h].data = users[u].data
      /\ \A i \in DOMAIN holdings : holdings'[i] = holdings[i]
  BY <1>6 DEF With, IsNextHolding
<1>8. /\ state' \in [Entities -> {"new", "there", "gone"}]
      /\ state'[f.of] = "there"
      /\ \A e \in Entities : e # f.of => state'[e] = state[e]
  BY <1>0, <1>2 DEF CommitHolding, Inv, TypeOK, Entities
<1>9. TypeOK'
  <2>1. \A e \in Entities : image'[e] # NoFile => state'[e] = "there" /\ image'[e].of = e
    BY <1>5, <1>8 DEF Inv, TypeOK, IsThere
  <2>2. \A i \in DOMAIN holdings' :
           /\ holdings'[i].of \in Publications /\ state'[holdings'[i].of] = "there"
           /\ holdings'[i].file \in Files \union {NoFile}
           /\ holdings'[i].file # NoFile => holdings'[i].file.of = holdings'[i].of
    BY <1>2, <1>7, <1>8 DEF Inv, TypeOK, IsThere, Entities
  <2>3. \A g \in DOMAIN files' : files'[g] \in 1 .. uploads'
    BY <1>5 DEF Inv, TypeOK
  <2> QED
    BY <1>3, <1>5, <1>6, <1>7, <1>8, <2>1, <2>2, <2>3 DEF Inv, TypeOK, Doing, IsThere
<1>10. NothingIsLeftBehind'
  <2>1. \A g : IsNamed(g) => IsNamed(g)'
    BY <1>5, <1>7 DEF IsNamed
  <2>2. \A g : g # f => (IsInHand(g) => IsInHand(g)')
    BY <1>0, <1>1, <1>3 DEF IsInHand, IsAt
  <2>3. IsNamed(f)'
    BY <1>7 DEF IsNamed
  <2>4. \A d \in staging :
           d \in left.staged \/ \E v \in Users : IsAt(v, "staged")' /\ users'[v].data = d
    BY <1>1, <1>3 DEF Inv, NothingIsLeftBehind, IsAt
  <2> QED
    BY <1>5, <2>1, <2>2, <2>3, <2>4 DEF Inv, NothingIsLeftBehind
<1>11. HoldingsHaveTheirFiles'
  BY <1>2, <1>5, <1>7 DEF Inv, HoldingsHaveTheirFiles
<1>12. HoldingsAreApart'
  BY <1>0, <1>1, <1>2, <1>7 DEF Inv, HoldingsAreApart, HandsAreApart, IsImageFile
<1>13. HandsAreApart'
  <2>1. ~Holds(u)' /\ \A v \in Users : v # u => (Holds(v)' <=> Holds(v))
    BY <1>3, <1>4 DEF Holds, IsAt
  <2>2. \A v \in Users : v # u /\ Holds(v) => users[v].file # f /\ users[v].file \in Files
    BY <1>0, <1>2, StepTypes DEF Inv, HandsAreApart, Holds, Writing, Removing
  <2>3. \A v \in Users : v # u /\ Holds(v) /\ state[users[v].file.of] = "gone"
           => state'[users[v].file.of] = "gone"
    BY <1>2, <1>8, <2>2 DEF Files
  <2> QED
    BY <1>3, <1>5, <1>7, <2>1, <2>2, <2>3 DEF Inv, HandsAreApart, IsImageFile
<1>14. ImagesAreImages'
  BY <1>3, <1>4, <1>5 DEF Inv, ImagesAreImages, IsAt
<1>15. WritersKept'
  BY <1>1, <1>3, <1>4 DEF Inv, WritersKept, IsAt
<1>16. ClearersKept'
  <2>1. \A v \in Users : IsAt(v, "clearing") => users[v].dirs \subseteq Entities
    BY StepTypes DEF Inv, Clearing
  <2> QED
    BY <1>2, <1>3, <1>4, <1>8, <2>1 DEF Inv, ClearersKept, IsAt
<1> QED
  BY <1>9, <1>10, <1>11, <1>12, <1>13, <1>14, <1>15, <1>16 DEF Inv

(* The file stays, and is known to. *)
LEMMA RollBackKeeps ==
    ASSUME Inv, NEW u \in Users, RollBack(u)
    PROVE  Inv'
<1>1. users[u] \in Writing /\ users[u].step = "writing"
  BY StepTypes DEF Inv, RollBack, IsAt
<1>2. /\ users' \in [Users -> Doing]
      /\ users'[u] = Idle
      /\ \A v \in Users : v # u => users'[v] = users[v]
  BY Moved DEF Inv, RollBack, Doing
<1>3. users'[u].step = "idle"
  BY <1>2 DEF Idle
<1>4. /\ state' = state /\ image' = image /\ holdings' = holdings /\ files' = files
      /\ staging' = staging /\ uploads' = uploads
      /\ left' \in [files : SUBSET Files, staged : SUBSET Uploads]
      /\ left'.files = left.files \union {users[u].file} /\ left'.staged = left.staged
  BY <1>1 DEF RollBack, rows, Inv, TypeOK, Writing
<1>5. TypeOK'
  BY <1>2, <1>4 DEF Inv, TypeOK, Doing, IsThere
<1>6. NothingIsLeftBehind'
  <2>1. \A g : IsNamed(g) => IsNamed(g)'
    BY <1>4 DEF IsNamed
  <2>2. \A g : IsInHand(g) => IsInHand(g)' \/ g \in left'.files
    BY <1>1, <1>2, <1>4 DEF IsInHand, IsAt
  <2>3. \A d \in staging :
           d \in left.staged \/ \E v \in Users : IsAt(v, "staged")' /\ users'[v].data = d
    BY <1>1, <1>2 DEF Inv, NothingIsLeftBehind, IsAt
  <2> QED
    BY <1>4, <2>1, <2>2, <2>3 DEF Inv, NothingIsLeftBehind
<1>7. HoldingsHaveTheirFiles' /\ HoldingsAreApart'
  BY <1>4 DEF Inv, HoldingsHaveTheirFiles, HoldingsAreApart
<1>8. HandsAreApart' /\ ImagesAreImages' /\ WritersKept' /\ ClearersKept'
  BY <1>2, <1>3, <1>4
  DEF Inv, HandsAreApart, ImagesAreImages, WritersKept, ClearersKept, Holds, IsAt, IsThere
<1> QED
  BY <1>5, <1>6, <1>7, <1>8 DEF Inv

-----------------------------------------------------------------------------
(***************************************************************************)
(* Rows without a file                                                     *)
(***************************************************************************)

(* An entity that is new, or there already, is there: no transaction is under way. *)
LEMMA AppearsKeeps ==
    ASSUME Inv, NEW e \in Entities, NoOneWrites, state[e] # "gone",
           state' = [state EXCEPT ![e] = "there"],
           UNCHANGED <<image, files, staging, users, uploads, left>>,
           DOMAIN holdings' \subseteq HoldingIds,
           \A h \in DOMAIN holdings' :
              \/ h \in DOMAIN holdings /\ holdings'[h] = holdings[h]
              \/ holdings'[h].of = e /\ e \in Publications /\ holdings'[h].file = NoFile,
           \A h \in DOMAIN holdings : h \in DOMAIN holdings' /\ holdings'[h] = holdings[h]
    PROVE  Inv'
<1>1. /\ state' \in [Entities -> {"new", "there", "gone"}]
      /\ state'[e] = "there"
      /\ \A d \in Entities : d # e => state'[d] = state[d]
  BY DEF Inv, TypeOK
<1>2. TypeOK'
  <2>1. \A d \in Entities : image'[d] # NoFile => state'[d] = "there" /\ image'[d].of = d
    BY <1>1 DEF Inv, TypeOK, IsThere
  <2>2. \A h \in DOMAIN holdings' :
           /\ holdings'[h].of \in Publications /\ state'[holdings'[h].of] = "there"
           /\ holdings'[h].file \in Files \union {NoFile}
           /\ holdings'[h].file # NoFile => holdings'[h].file.of = holdings'[h].of
    BY <1>1 DEF Inv, TypeOK, IsThere, Entities
  <2> QED
    BY <1>1, <2>1, <2>2 DEF Inv, TypeOK, IsThere
<1>3. NothingIsLeftBehind'
  <2>1. \A g : (IsNamed(g) => IsNamed(g)') /\ (IsInHand(g) => IsInHand(g)')
    BY DEF IsNamed, IsInHand, IsAt
  <2> QED
    BY <2>1 DEF Inv, NothingIsLeftBehind, IsAt
<1>4. HoldingsHaveTheirFiles' /\ HoldingsAreApart'
  BY DEF Inv, HoldingsHaveTheirFiles, HoldingsAreApart
<1>5. HandsAreApart'
  <2>1. \A u \in Users : Holds(u) => users[u].file \in Files
    BY StepTypes DEF Inv, Holds, Writing, Removing
  <2>2. \A u \in Users : Holds(u) /\ state[users[u].file.of] = "gone"
           => state'[users[u].file.of] = "gone"
    BY <1>1, <2>1 DEF Files
  <2>3. \A u \in Users : Holds(u)' <=> Holds(u)
    BY DEF Holds, IsAt
  <2> QED
    BY <2>1, <2>2, <2>3, NoFileIsNone DEF Inv, HandsAreApart, IsImageFile
<1>6. ImagesAreImages'
  BY DEF Inv, ImagesAreImages, IsAt
<1>7. WritersKept'
  BY DEF NoOneWrites, WritersKept, IsAt
<1>8. ClearersKept'
  <2>1. \A u \in Users : IsAt(u, "clearing") => users[u].dirs \subseteq Entities
    BY StepTypes DEF Inv, Clearing
  <2> QED
    BY <1>1, <2>1 DEF Inv, ClearersKept, IsAt
<1> QED
  BY <1>2, <1>3, <1>4, <1>5, <1>6, <1>7, <1>8 DEF Inv

(* Physical holdings and people have no file. *)
LEMMA RowsKeep ==
    ASSUME Inv,
           \/ \E p \in Publications : ImportPhysical(p) \/ AddPhysical(p)
           \/ \E x \in People : CreatePerson(x)
    PROVE  Inv'
<1>1. CASE \E p \in Publications : ImportPhysical(p) \/ AddPhysical(p)
  <2>1. PICK p \in Publications : ImportPhysical(p) \/ AddPhysical(p)
    BY <1>1
  <2>2. InsertPhysical(p) /\ NoOneWrites
    BY <2>1 DEF ImportPhysical, AddPhysical
  <2>3. state[p] # "gone" /\ state' = [state EXCEPT ![p] = "there"]
    BY <2>1 DEF ImportPhysical, AddPhysical, IsThere, Inv, TypeOK
  <2>4. PICK h \in HoldingIds :
           /\ IsNextHolding(h)
           /\ holdings' = With(holdings, h, [of |-> p, file |-> NoFile, data |-> 0])
    BY <2>2 DEF InsertPhysical
  <2>5. /\ DOMAIN holdings' = DOMAIN holdings \union {h}
        /\ h \notin DOMAIN holdings
        /\ holdings'[h].of = p /\ holdings'[h].file = NoFile
        /\ \A i \in DOMAIN holdings : holdings'[i] = holdings[i]
    BY <2>4 DEF With, IsNextHolding
  <2>6. DOMAIN holdings' \subseteq HoldingIds
    BY <2>5 DEF Inv, TypeOK
  <2> QED
    BY <2>2, <2>3, <2>5, <2>6, AppearsKeeps DEF InsertPhysical, Entities
<1>2. CASE \E x \in People : CreatePerson(x)
  <2>1. PICK x \in People : CreatePerson(x)
    BY <1>2
  <2> QED
    BY <2>1, AppearsKeeps DEF CreatePerson, Entities, Inv, TypeOK
<1> QED
  BY <1>1, <1>2

-----------------------------------------------------------------------------
(***************************************************************************)
(* Removing                                                                *)
(***************************************************************************)

(* The image that is no longer named is in hand. *)
LEMMA ClearImageKeeps ==
    ASSUME Inv, NEW u \in Users, NEW e \in Entities, ClearImage(u, e)
    PROVE  Inv'
<1>0. PICK f : f = image[e]
  OBVIOUS
<1>1. f \in Files /\ f.of = e /\ IsImageFile(f)
  BY <1>0 DEF ClearImage, Inv, TypeOK, ImagesAreImages
<1>2. /\ users' \in [Users -> Doing]
      /\ users'[u] = [step |-> "removing", was |-> "image", file |-> f]
      /\ \A v \in Users : v # u => users'[v] = users[v]
  BY <1>0, <1>1, Moved DEF Inv, ClearImage, Doing, Removing
<1>3. /\ users[u].step = "idle"
      /\ users'[u].step = "removing" /\ users'[u].was = "image" /\ users'[u].file = f
  BY <1>2 DEF ClearImage, IsAt
<1>4. /\ image' \in [Entities -> Files \union {NoFile}]
      /\ image'[e] = NoFile
      /\ \A d \in Entities : d # e => image'[d] = image[d]
  BY DEF ClearImage, Inv, TypeOK
<1>5. /\ state' = state /\ holdings' = holdings /\ files' = files
      /\ staging' = staging /\ uploads' = uploads /\ left' = left
  BY DEF ClearImage
<1>6. TypeOK'
  BY <1>2, <1>4, <1>5 DEF Inv, TypeOK, Doing, IsThere
<1>7. NothingIsLeftBehind'
  <2>1. \A g \in Files : g # f => (IsNamed(g) => IsNamed(g)')
    BY <1>0, <1>4, <1>5 DEF IsNamed, Files
  <2>2. \A g : IsInHand(g) => IsInHand(g)'
    BY <1>2, <1>3 DEF IsInHand, IsAt
  <2>3. IsInHand(f)'
    BY <1>3 DEF IsInHand
  <2>4. \A d \in staging :
           d \in left.staged \/ \E v \in Users : IsAt(v, "staged")' /\ users'[v].data = d
    BY <1>2, <1>3 DEF Inv, NothingIsLeftBehind, IsAt
  <2> QED
    BY <1>5, <2>1, <2>2, <2>3, <2>4 DEF Inv, NothingIsLeftBehind, TypeOK
<1>8. HoldingsHaveTheirFiles' /\ HoldingsAreApart'
  BY <1>5 DEF Inv, HoldingsHaveTheirFiles, HoldingsAreApart
<1>9. HandsAreApart' /\ WritersKept' /\ ClearersKept'
  BY <1>2, <1>3, <1>5 DEF Inv, HandsAreApart, WritersKept, ClearersKept, Holds, IsAt, IsThere
<1>10. ImagesAreImages'
  BY <1>1, <1>2, <1>3, <1>4 DEF Inv, ImagesAreImages, IsAt
<1> QED
  BY <1>6, <1>7, <1>8, <1>9, <1>10 DEF Inv

(* The file of the removed holding is in hand, and was no one else's. *)
LEMMA RemoveHoldingKeeps ==
    ASSUME Inv, NEW u \in Users, NEW p \in Publications, NEW h \in HoldingIds,
           RemoveHolding(u, p, h)
    PROVE  Inv'
<1>0. PICK f : f = holdings[h].file
  OBVIOUS
<1> DEFINE to == IF f = NoFile THEN Idle
                 ELSE [step |-> "removing", was |-> "holding", file |-> f]
<1>1. h \in DOMAIN holdings /\ f \in Files \union {NoFile}
  BY <1>0 DEF RemoveHolding, HoldingsOf, Inv, TypeOK
<1>2. /\ users' \in [Users -> Doing]
      /\ users'[u] = to
      /\ \A v \in Users : v # u => users'[v] = users[v]
  <2>1. to \in Doing /\ Moves(u, to)
    BY <1>0, <1>1 DEF Doing, Removing, RemoveHolding
  <2> HIDE DEF to
  <2> QED
    BY <2>1, Moved DEF Inv
<1>3. /\ users[u].step = "idle"
      /\ f = NoFile => users'[u].step = "idle"
      /\ f # NoFile =>
            users'[u].step = "removing" /\ users'[u].was = "holding" /\ users'[u].file = f
  BY <1>2 DEF RemoveHolding, IsAt, Idle
<1> HIDE DEF to
<1>4. /\ DOMAIN holdings' = DOMAIN holdings \ {h}
      /\ \A i \in DOMAIN holdings : i # h => holdings'[i] = holdings[i]
  BY DEF RemoveHolding, Restrict
<1>5. /\ state' = state /\ image' = image /\ files' = files
      /\ staging' = staging /\ uploads' = uploads /\ left' = left
  BY DEF RemoveHolding
<1>6. TypeOK'
  BY <1>2, <1>4, <1>5 DEF Inv, TypeOK, Doing, IsThere
<1>7. NothingIsLeftBehind'
  <2>1. \A g : g # f => (IsNamed(g) => IsNamed(g)')
    BY <1>0, <1>4, <1>5 DEF IsNamed
  <2>2. \A g : IsInHand(g) => IsInHand(g)'
    BY <1>2, <1>3 DEF IsInHand, IsAt
  <2>3. f # NoFile => IsInHand(f)'
    BY <1>3 DEF IsInHand
  <2>4. \A d \in staging :
           d \in left.staged \/ \E v \in Users : IsAt(v, "staged")' /\ users'[v].data = d
    BY <1>2, <1>3 DEF Inv, NothingIsLeftBehind, IsAt
  <2>5. NoFile \notin DOMAIN files
    BY NoFileIsNone DEF Inv, TypeOK
  <2> QED
    BY <1>5, <2>1, <2>2, <2>3, <2>4, <2>5 DEF Inv, NothingIsLeftBehind
<1>8. HoldingsHaveTheirFiles' /\ HoldingsAreApart'
  BY <1>4, <1>5 DEF Inv, HoldingsHaveTheirFiles, HoldingsAreApart
<1>9. HandsAreApart'
  <2>1. f # NoFile =>
           /\ ~IsImageFile(f) /\ f \in DOMAIN files
           /\ \A i \in DOMAIN holdings' : holdings'[i].file # f
           /\ \A v \in Users : Holds(v) => users[v].file # f
    BY <1>0, <1>1, <1>4
    DEF Inv, HoldingsHaveTheirFiles, HoldingsAreApart, HandsAreApart
  <2>2. \A v \in Users : v # u => (Holds(v)' <=> Holds(v))
    BY <1>2 DEF Holds, IsAt
  <2>3. Holds(u)' => f # NoFile
    BY <1>3 DEF Holds, IsAt
  <2> QED
    BY <1>2, <1>3, <1>4, <1>5, <2>1, <2>2, <2>3 DEF Inv, HandsAreApart, IsImageFile
<1>10. ImagesAreImages' /\ WritersKept' /\ ClearersKept'
  BY <1>2, <1>3, <1>5 DEF Inv, ImagesAreImages, WritersKept, ClearersKept, IsAt, IsThere
<1> QED
  BY <1>6, <1>7, <1>8, <1>9, <1>10 DEF Inv

(* What is removed after a commit is not a holding's: an image's name is never one's, and the *)
(* file of a removed holding was in no other hands.                                           *)
LEMMA RemoveFileKeeps ==
    ASSUME Inv, NEW u \in Users, RemoveFile(u)
    PROVE  Inv'
<1>0. PICK f : f = users[u].file
  OBVIOUS
<1>1. users[u] \in Removing /\ users[u].step = "removing"
  BY StepTypes DEF Inv, RemoveFile, IsAt
<1>2. /\ users' \in [Users -> Doing]
      /\ users'[u] = Idle
      /\ \A v \in Users : v # u => users'[v] = users[v]
  BY Moved DEF Inv, RemoveFile, Doing
<1>3. users'[u].step = "idle"
  BY <1>2 DEF Idle
<1>4. /\ DOMAIN files' = DOMAIN files \ {f}
      /\ \A g \in DOMAIN files : g # f => files'[g] = files[g]
  BY <1>0 DEF RemoveFile, Restrict
<1>5. /\ state' = state /\ image' = image /\ holdings' = holdings
      /\ staging' = staging /\ uploads' = uploads /\ left' = left
  BY DEF RemoveFile, rows
<1>6. /\ \A h \in DOMAIN holdings : holdings[h].file # NoFile => holdings[h].file # f
      /\ \A v \in Users : v # u /\ Holds(v) => users[v].file # f
  <2>1. CASE users[u].was = "image"
    <3>1. IsImageFile(f)
      BY <1>0, <1>1, <2>1 DEF Inv, ImagesAreImages, IsAt
    <3> QED
      BY <3>1 DEF Inv, HoldingsAreApart, HandsAreApart
  <2>2. CASE users[u].was = "holding"
    <3>1. Holds(u)
      BY <1>1, <2>2 DEF Holds, IsAt
    <3> QED
      BY <1>0, <3>1 DEF Inv, HandsAreApart
  <2> QED
    BY <1>1, <2>1, <2>2 DEF Removing
<1>7. TypeOK'
  BY <1>2, <1>4, <1>5 DEF Inv, TypeOK, Doing, IsThere
<1>8. NothingIsLeftBehind'
  <2>1. \A g : IsNamed(g) => IsNamed(g)'
    BY <1>5 DEF IsNamed
  <2>2. \A g : g # f => (IsInHand(g) => IsInHand(g)')
    BY <1>0, <1>1, <1>2 DEF IsInHand, IsAt
  <2>3. \A d \in staging :
           d \in left.staged \/ \E v \in Users : IsAt(v, "staged")' /\ users'[v].data = d
    BY <1>1, <1>2 DEF Inv, NothingIsLeftBehind, IsAt
  <2> QED
    BY <1>4, <1>5, <2>1, <2>2, <2>3 DEF Inv, NothingIsLeftBehind
<1>9. HoldingsHaveTheirFiles' /\ HoldingsAreApart'
  BY <1>4, <1>5, <1>6 DEF Inv, HoldingsHaveTheirFiles, HoldingsAreApart
<1>10. HandsAreApart'
  <2>1. ~Holds(u)' /\ \A v \in Users : v # u => (Holds(v)' <=> Holds(v))
    BY <1>2, <1>3 DEF Holds, IsAt
  <2> QED
    BY <1>2, <1>4, <1>5, <1>6, <2>1 DEF Inv, HandsAreApart
<1>11. ImagesAreImages' /\ ClearersKept'
  BY <1>2, <1>3, <1>5 DEF Inv, ImagesAreImages, ClearersKept, IsAt
<1>12. WritersKept'
  <2>1. \A v \in Users : v # u /\ IsAt(v, "writing") /\ users[v].does # "image"
           => users[v].file # f
    BY <1>6 DEF Holds
  <2> QED
    BY <1>2, <1>3, <1>4, <1>5, <2>1 DEF Inv, WritersKept, IsAt, IsThere
<1> QED
  BY <1>7, <1>8, <1>9, <1>10, <1>11, <1>12 DEF Inv

(* What the deleted entities leave is in their directories, and those are in hand. *)
LEMMA DeletesKeep ==
    ASSUME Inv, NEW u \in Users, NEW gone \in SUBSET There, Deletes(u, gone, gone)
    PROVE  Inv'
<1>1. gone \subseteq Entities /\ \A e \in gone : IsThere(e)
  BY DEF There
<1>2. /\ users' \in [Users -> Doing]
      /\ users'[u] = [step |-> "clearing", dirs |-> gone]
      /\ \A v \in Users : v # u => users'[v] = users[v]
  BY <1>1, Moved DEF Inv, Deletes, Doing, Clearing
<1>3. users[u].step = "idle" /\ users'[u].step = "clearing" /\ users'[u].dirs = gone
  BY <1>2 DEF Deletes, IsAt
<1>4. /\ state' = [e \in Entities |-> IF e \in gone THEN "gone" ELSE state[e]]
      /\ image' = [e \in Entities |-> IF e \in gone THEN NoFile ELSE image[e]]
  BY DEF Deletes
<1>5. /\ DOMAIN holdings' = {h \in DOMAIN holdings : holdings[h].of \notin gone}
      /\ \A h \in DOMAIN holdings' : holdings'[h] = holdings[h]
  BY DEF Deletes, Cascade, Restrict
<1>6. /\ files' = files /\ staging' = staging /\ uploads' = uploads /\ left' = left
      /\ \A v \in Users : users[v].step # "writing"
  BY DEF Deletes, NoOneWrites, IsAt
<1>7. TypeOK'
  <2>1. state' \in [Entities -> {"new", "there", "gone"}]
    BY <1>4 DEF Inv, TypeOK
  <2>2. image' \in [Entities -> Files \union {NoFile}]
    BY <1>4 DEF Inv, TypeOK
  <2>3. \A e \in Entities : image'[e] # NoFile => state'[e] = "there" /\ image'[e].of = e
    BY <1>4 DEF Inv, TypeOK, IsThere
  <2>4. \A h \in DOMAIN holdings' :
           /\ holdings'[h].of \in Publications /\ state'[holdings'[h].of] = "there"
           /\ holdings'[h].file \in Files \union {NoFile}
           /\ holdings'[h].file # NoFile => holdings'[h].file.of = holdings'[h].of
    BY <1>4, <1>5 DEF Inv, TypeOK, IsThere, Entities
  <2> QED
    BY <1>2, <1>5, <1>6, <2>1, <2>2, <2>3, <2>4 DEF Inv, TypeOK, Doing, IsThere
<1>8. NothingIsLeftBehind'
  <2>1. \A g \in Files : g.of \notin gone => (IsNamed(g) => IsNamed(g)')
    <3>1. \A h \in DOMAIN holdings : holdings[h].file \in Files
             => holdings[h].file.of = holdings[h].of
      BY NoFileIsNone DEF Inv, TypeOK
    <3> QED
      BY <1>4, <1>5, <3>1 DEF IsNamed, Files
  <2>2. \A g : g.of \in gone => IsInHand(g)'
    BY <1>3 DEF IsInHand, IsAt
  <2>3. \A g : IsInHand(g) => IsInHand(g)'
    BY <1>2, <1>3 DEF IsInHand, IsAt
  <2>4. \A d \in staging :
           d \in left.staged \/ \E v \in Users : IsAt(v, "staged")' /\ users'[v].data = d
    BY <1>2, <1>3 DEF Inv, NothingIsLeftBehind, IsAt
  <2> QED
    BY <1>6, <2>1, <2>2, <2>3, <2>4 DEF Inv, NothingIsLeftBehind, TypeOK
<1>9. HoldingsHaveTheirFiles' /\ HoldingsAreApart'
  BY <1>5, <1>6 DEF Inv, HoldingsHaveTheirFiles, HoldingsAreApart
<1>10. HandsAreApart'
  <2>1. ~Holds(u)' /\ \A v \in Users : v # u => (Holds(v)' <=> Holds(v))
    BY <1>2, <1>3 DEF Holds, IsAt
  <2>2. \A v \in Users : Holds(v) => users[v].file.of \in Entities
    BY StepTypes DEF Inv, Holds, Writing, Removing, Files
  <2>3. \A v \in Users : Holds(v) /\ state[users[v].file.of] = "gone"
           => state'[users[v].file.of] = "gone"
    BY <1>4, <2>2
  <2> QED
    BY <1>2, <1>5, <1>6, <2>1, <2>3 DEF Inv, HandsAreApart
<1>11. ImagesAreImages'
  BY <1>2, <1>3, <1>4 DEF Inv, ImagesAreImages, IsAt
<1>12. WritersKept'
  BY <1>2, <1>3, <1>6 DEF WritersKept, IsAt
<1>13. ClearersKept'
  <2>1. \A v \in Users : IsAt(v, "clearing") => users[v].dirs \subseteq Entities
    BY StepTypes DEF Inv, Clearing
  <2> QED
    BY <1>1, <1>2, <1>3, <1>4, <2>1 DEF Inv, ClearersKept, IsAt
<1> QED
  BY <1>7, <1>8, <1>9, <1>10, <1>11, <1>12, <1>13 DEF Inv

(* Only what is gone has its directory removed. *)
LEMMA ClearDirKeeps ==
    ASSUME Inv, NEW u \in Users, ClearDir(u)
    PROVE  Inv'
<1>0. PICK e \in users[u].dirs :
         /\ RemoveDir(u, e)
         /\ Moves(u, IF users[u].dirs = {e} THEN Idle ELSE [users[u] EXCEPT !.dirs = @ \ {e}])
  BY DEF ClearDir
<1>1. users[u] \in Clearing /\ users[u].step = "clearing" /\ e \in Entities /\ state[e] = "gone"
  BY <1>0, StepTypes DEF Inv, ClearDir, ClearersKept, IsAt, Clearing
<1>2. PICK to : to = IF users[u].dirs = {e} THEN Idle ELSE [users[u] EXCEPT !.dirs = @ \ {e}]
  OBVIOUS
<1>3. /\ to \in Doing
      /\ to.step \in {"idle", "clearing"}
      /\ users[u].dirs # {e} => to.step = "clearing"
      /\ to.step = "clearing" => to.dirs = users[u].dirs \ {e}
  BY <1>1, <1>2 DEF Doing, Clearing, Idle
<1>4. /\ users' \in [Users -> Doing]
      /\ users'[u] = to
      /\ \A v \in Users : v # u => users'[v] = users[v]
  BY <1>0, <1>2, <1>3, Moved DEF Inv
<1>5. /\ DOMAIN files' = {f \in DOMAIN files : f.of # e}
      /\ \A f \in DOMAIN files' : files'[f] = files[f]
  BY <1>0 DEF RemoveDir, Restrict
<1>6. /\ state' = state /\ image' = image /\ holdings' = holdings
      /\ staging' = staging /\ uploads' = uploads /\ left' = left
  BY DEF ClearDir, rows
<1>7. TypeOK'
  BY <1>4, <1>5, <1>6 DEF Inv, TypeOK, Doing, IsThere
<1>8. NothingIsLeftBehind'
  <2>1. \A g : IsNamed(g) => IsNamed(g)'
    BY <1>6 DEF IsNamed
  <2>2. \A g : g.of # e => (IsInHand(g) => IsInHand(g)')
    BY <1>1, <1>3, <1>4 DEF IsInHand, IsAt
  <2>3. \A d \in staging :
           d \in left.staged \/ \E v \in Users : IsAt(v, "staged")' /\ users'[v].data = d
    BY <1>1, <1>4 DEF Inv, NothingIsLeftBehind, IsAt
  <2> QED
    BY <1>5, <1>6, <2>1, <2>2, <2>3 DEF Inv, NothingIsLeftBehind
<1>9. HoldingsHaveTheirFiles' /\ HoldingsAreApart'
  <2>1. \A h \in DOMAIN holdings : holdings[h].file # NoFile => holdings[h].file.of # e
    BY <1>1 DEF Inv, TypeOK, IsThere
  <2> QED
    BY <1>5, <1>6, <2>1 DEF Inv, HoldingsHaveTheirFiles, HoldingsAreApart
<1>10. HandsAreApart'
  <2>1. ~Holds(u)' /\ \A v \in Users : v # u => (Holds(v)' <=> Holds(v))
    BY <1>3, <1>4 DEF Holds, IsAt
  <2> QED
    BY <1>1, <1>4, <1>5, <1>6, <2>1 DEF Inv, HandsAreApart
<1>11. ImagesAreImages' /\ ClearersKept'
  BY <1>1, <1>3, <1>4, <1>6 DEF Inv, ImagesAreImages, ClearersKept, IsAt
<1>12. WritersKept'
  <2>1. \A v \in Users : IsAt(v, "writing") /\ users[v].does # "image" => users[v].file.of # e
    BY <1>1, StepTypes DEF Inv, WritersKept, IsThere, Writing
  <2> QED
    BY <1>1, <1>3, <1>4, <1>5, <1>6, <2>1 DEF Inv, WritersKept, IsAt, IsThere
<1> QED
  BY <1>7, <1>8, <1>9, <1>10, <1>11, <1>12 DEF Inv

-----------------------------------------------------------------------------
(***************************************************************************)
(* Crashes and restarts                                                    *)
(***************************************************************************)

(* What was about to be removed stays, and is known to. *)
LEMMA StopKeeps ==
    ASSUME Inv, NEW u \in Users, Stop(u)
    PROVE  Inv'
<1>1. /\ users' \in [Users -> Doing]
      /\ users'[u] = Idle
      /\ \A v \in Users : v # u => users'[v] = users[v]
  BY Moved DEF Inv, Stop, Doing
<1>2. users'[u].step = "idle" /\ users[u].step \in {"staged", "removing", "clearing"}
  BY <1>1 DEF Stop, Idle
<1>3. /\ state' = state /\ image' = image /\ holdings' = holdings /\ files' = files
      /\ staging' = staging /\ uploads' = uploads
  BY DEF Stop, rows
<1>4. /\ left' \in [files : SUBSET Files, staged : SUBSET Uploads]
      /\ left.files \subseteq left'.files /\ left.staged \subseteq left'.staged
      /\ users[u].step = "staged" => users[u].data \in left'.staged
      /\ users[u].step = "removing" => users[u].file \in left'.files
      /\ users[u].step = "clearing" =>
            \A f \in DOMAIN files : f.of \in users[u].dirs => f \in left'.files
  <2>1. CASE users[u].step = "staged"
    <3>1. users[u].data \in Uploads
      BY <2>1, StepTypes DEF Inv, IsAt, Staged
    <3> QED
      BY <2>1, <3>1 DEF Stop, IsAt, Inv, TypeOK
  <2>2. CASE users[u].step = "removing"
    <3>1. users[u].file \in Files
      BY <2>2, StepTypes DEF Inv, IsAt, Removing
    <3> QED
      BY <2>2, <3>1 DEF Stop, IsAt, Inv, TypeOK
  <2>3. CASE users[u].step = "clearing"
    BY <2>3 DEF Stop, IsAt, Inv, TypeOK
  <2> QED
    BY <1>2, <2>1, <2>2, <2>3
<1>5. TypeOK'
  BY <1>1, <1>3, <1>4 DEF Inv, TypeOK, Doing, IsThere
<1>6. NothingIsLeftBehind'
  <2>1. \A g : IsNamed(g) => IsNamed(g)'
    BY <1>3 DEF IsNamed
  <2>2. \A g \in DOMAIN files : IsInHand(g) => IsInHand(g)' \/ g \in left'.files
    BY <1>1, <1>2, <1>4 DEF IsInHand, IsAt
  <2>3. \A d \in staging :
           d \in left'.staged \/ \E v \in Users : IsAt(v, "staged")' /\ users'[v].data = d
    BY <1>1, <1>4 DEF Inv, NothingIsLeftBehind, IsAt
  <2> QED
    BY <1>3, <1>4, <2>1, <2>2, <2>3 DEF Inv, NothingIsLeftBehind
<1>7. HoldingsHaveTheirFiles' /\ HoldingsAreApart'
  BY <1>3 DEF Inv, HoldingsHaveTheirFiles, HoldingsAreApart
<1>8. HandsAreApart' /\ ImagesAreImages' /\ WritersKept' /\ ClearersKept'
  BY <1>1, <1>2, <1>3
  DEF Inv, HandsAreApart, ImagesAreImages, WritersKept, ClearersKept, Holds, IsAt, IsThere
<1> QED
  BY <1>5, <1>6, <1>7, <1>8 DEF Inv

(* Nothing that a row names is in the staging directory. *)
LEMMA UntouchedKeeps ==
    ASSUME Inv, OpenMigrating \/ UNCHANGED vars
    PROVE  Inv'
<1>1. /\ UNCHANGED <<state, image, holdings, files, users, uploads, left>>
      /\ staging' \subseteq staging
  BY DEF OpenMigrating, vars, rows
<1> QED
  BY <1>1
  DEF Inv, TypeOK, HoldingsHaveTheirFiles, NothingIsLeftBehind, HoldingsAreApart, HandsAreApart,
      ImagesAreImages, WritersKept, ClearersKept, IsNamed, IsInHand, Holds, IsAt, IsThere

-----------------------------------------------------------------------------
(***************************************************************************)
(* The theorems                                                            *)
(***************************************************************************)

(* Every step keeps the invariant. *)
LEMMA NextKeeps == Inv /\ [Next]_vars => Inv'
<1> SUFFICES ASSUME Inv, [Next]_vars PROVE Inv'
  OBVIOUS
<1>1. ASSUME NEW u \in Users, Adds(u)
      PROVE  Inv'
  <2>1. CASE \E e \in Entities, base \in Images : StageImage(u, e, base)
    BY <2>1, StageKeeps, BoundsAreNat
    DEF StageImage, Stage, Staged, Uploads, Inv, TypeOK
  <2>2. CASE \E p \in Publications, base \in Filenames : StageHolding(u, p, base)
    BY <2>2, StageKeeps, BoundsAreNat
    DEF StageHolding, Stage, Staged, Uploads, Inv, TypeOK
  <2>3. CASE \E base \in Filenames : StageImport(u, base)
    BY <2>3, StageKeeps, BoundsAreNat
    DEF StageImport, Stage, Staged, Uploads, Inv, TypeOK
  <2>4. CASE GiveUp(u)
    BY <2>4, GiveUpKeeps
  <2>5. CASE \/ PersistImage(u) \/ PersistHolding(u)
             \/ \E p \in Publications : PersistImport(u, p)
    BY <2>5, PersistsKeep
  <2>6. CASE CommitImage(u)
    BY <2>6, CommitImageKeeps
  <2>7. CASE CommitHolding(u)
    BY <2>7, CommitHoldingKeeps
  <2>8. CASE RollBack(u)
    BY <2>8, RollBackKeeps
  <2> QED
    BY <1>1, <2>1, <2>2, <2>3, <2>4, <2>5, <2>6, <2>7, <2>8 DEF Adds
<1>2. ASSUME NEW u \in Users, Removes(u)
      PROVE  Inv'
  <2>1. CASE \E e \in Entities : ClearImage(u, e)
    BY <2>1, ClearImageKeeps
  <2>2. CASE \E p \in Publications, h \in HoldingIds : RemoveHolding(u, p, h)
    BY <2>2, RemoveHoldingKeeps
  <2>3. CASE \E p \in Publications : DeletePublication(u, p)
    <3>1. PICK p \in Publications, orphans \in SUBSET (There \intersect People) :
             IsThere(p) /\ Deletes(u, {p} \union orphans, {p} \union orphans)
      BY <2>3 DEF DeletePublication
    <3>2. {p} \union orphans \in SUBSET There
      BY <3>1 DEF There, Entities
    <3> QED
      BY <3>1, <3>2, DeletesKeep
  <2>4. CASE CollectPeople(u)
    <3>1. PICK orphans \in SUBSET (There \intersect People) : Deletes(u, orphans, orphans)
      BY <2>4 DEF CollectPeople
    <3> QED
      BY <3>1, DeletesKeep
  <2>5. CASE DeleteLibrary(u)
    BY <2>5, DeletesKeep DEF DeleteLibrary
  <2>6. CASE RemoveFile(u)
    BY <2>6, RemoveFileKeeps
  <2>7. CASE ClearDir(u)
    BY <2>7, ClearDirKeeps
  <2> QED
    BY <1>2, <2>1, <2>2, <2>3, <2>4, <2>5, <2>6, <2>7 DEF Removes
<1>3. ASSUME NEW u \in Users, Stop(u)
      PROVE  Inv'
  BY <1>3, StopKeeps
<1>4. CASE \/ \E p \in Publications : ImportPhysical(p) \/ AddPhysical(p)
           \/ \E x \in People : CreatePerson(x)
  BY <1>4, RowsKeep
<1>5. CASE OpenMigrating \/ UNCHANGED vars
  BY <1>5, UntouchedKeeps
<1> QED
  BY <1>1, <1>2, <1>3, <1>4, <1>5 DEF Next

(* The invariant of the files and their rows. *)
THEOREM InvHolds == Spec => []Inv
BY InitHolds, NextKeeps, PTL DEF Spec

(* Every value keeps its type, and every row that names a file is one of an entity that is   *)
(* there and names a file of that entity's directory.                                        *)
THEOREM Typed == Spec => []TypeOK
<1>1. Inv => TypeOK
  BY DEF Inv
<1> QED
  BY InvHolds, <1>1, PTL

(* Every digital holding has its file, with what was uploaded for it. *)
THEOREM HoldingFilesAreThere == Spec => []HoldingsHaveTheirFiles
<1>1. Inv => HoldingsHaveTheirFiles
  BY DEF Inv
<1> QED
  BY InvHolds, <1>1, PTL

(* Every file that no row names is in a call's hands, or one of an interrupted call. *)
THEOREM NothingIsLost == Spec => []NothingIsLeftBehind
<1>1. Inv => NothingIsLeftBehind
  BY DEF Inv
<1> QED
  BY InvHolds, <1>1, PTL

(* A new file that takes the name of an image is an image. *)
LEMMA OnlyAnImageIsReplaced ==
    ASSUME Inv, NEW e \in Entities, image[e] \in DOMAIN files, NEW u \in Users,
           \/ PersistImage(u) \/ PersistHolding(u)
           \/ \E p \in Publications : PersistImport(u, p)
    PROVE  \/ image[e] \in DOMAIN files' /\ files'[image[e]] = files[image[e]]
           \/ DisturbsImage(u, e)
<1>1. PICK does, f : Persist(u, does, f) /\ (does # "image" => f \notin DOMAIN files)
  <2>1. CASE PersistImage(u)
    BY <2>1 DEF PersistImage
  <2>2. CASE PersistHolding(u)
    BY <2>2 DEF PersistHolding, UniquePath
  <2>3. CASE \E p \in Publications : PersistImport(u, p)
    BY <2>3 DEF PersistImport, UniquePath
  <2> QED
    BY <2>1, <2>2, <2>3
<1>2. users'[u] = [step |-> "writing", does |-> does, file |-> f, data |-> users[u].data]
  BY <1>1 DEF Persist, Moves, Inv, TypeOK
<1>3. CASE image[e] = f
  BY <1>1, <1>2, <1>3 DEF DisturbsImage, Persist, IsAt
<1>4. CASE image[e] # f
  BY <1>1, <1>4 DEF Persist, With
<1> QED
  BY <1>3, <1>4

(* No step changes the image of an entity under its name, but for another image's.             *)
THEOREM ImagesAreLeftAlone == Spec => OnlyImagesDisturbImages
<1> DEFINE Alone ==
             \A e \in Entities :
                image[e] \in DOMAIN files /\ image'[e] = image[e]
                  => \/ image[e] \in DOMAIN files' /\ files'[image[e]] = files[image[e]]
                     \/ \E u \in Users : DisturbsImage(u, e)
<1>1. Inv /\ Next => Alone
  <2> SUFFICES ASSUME Inv, Next, NEW e \in Entities, image[e] \in DOMAIN files,
                      ~(image[e] \in DOMAIN files' /\ files'[image[e]] = files[image[e]])
               PROVE  \E u \in Users : DisturbsImage(u, e)
    OBVIOUS
  <2>1. image[e] \in Files /\ image[e].of = e /\ IsImageFile(image[e]) /\ IsThere(e)
    BY NoFileIsNone DEF Inv, TypeOK, ImagesAreImages
  <2>2. files' # files
    OBVIOUS
  <2>3. PICK u \in Users :
           \/ PersistImage(u) \/ PersistHolding(u)
           \/ \E p \in Publications : PersistImport(u, p)
           \/ RemoveFile(u) \/ ClearDir(u)
    BY <2>2
    DEF Next, Adds, Removes, StageImage, StageHolding, StageImport, Stage, GiveUp, CommitImage,
        CommitHolding, RollBack, ImportPhysical, AddPhysical, InsertPhysical, CreatePerson,
        ClearImage, RemoveHolding, DeletePublication, CollectPeople, DeleteLibrary, Deletes,
        Stop, OpenMigrating
  <2>4. CASE \/ PersistImage(u) \/ PersistHolding(u)
             \/ \E p \in Publications : PersistImport(u, p)
    BY <2>4, OnlyAnImageIsReplaced
  <2>5. CASE RemoveFile(u)
    <3>1. users[u] \in Removing /\ users[u].step = "removing" /\ users'[u] = Idle
      BY <2>5, StepTypes DEF Inv, RemoveFile, IsAt, Moves, TypeOK
    <3>2. image[e] = users[u].file
      BY <2>5 DEF RemoveFile, Restrict
    <3>3. users[u].was = "image"
      BY <2>1, <3>1, <3>2 DEF Removing, Inv, HandsAreApart, Holds, IsAt
    <3> QED
      BY <3>1, <3>2, <3>3 DEF DisturbsImage, IsAt, Idle
  <2>6. CASE ClearDir(u)
    <3>1. PICK d \in users[u].dirs : RemoveDir(u, d)
      BY <2>6 DEF ClearDir
    <3>2. d # e
      BY <2>1, <2>6, <3>1 DEF Inv, ClearersKept, ClearDir, IsThere
    <3> QED
      BY <2>1, <3>1, <3>2 DEF RemoveDir, Restrict
  <2> QED
    BY <2>3, <2>4, <2>5, <2>6
<1>2. UNCHANGED vars => Alone
  BY DEF vars
<1> QED
  BY InvHolds, <1>1, <1>2, PTL DEF Spec, OnlyImagesDisturbImages

================================================================================
