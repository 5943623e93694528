-------------------------------- MODULE Shell --------------------------------
(***************************************************************************)
(* The command line (crates/scorarium-cli): one session of the shell on    *)
(* the tables (Catalog), beside everyone else who writes them.             *)
(*                                                                         *)
(* A line names a library, or goes to the one that is selected, then, for  *)
(* most commands, an entity of it and often another, each by a reference   *)
(* that is a name or an id.  Every reference is looked up by a query of    *)
(* its own, and what is then done is a transaction, or several: between    *)
(* any two of them others write, and a ctrl-c may end the command.         *)
(*                                                                         *)
(* References, names and ids are texts; those that are ids of something    *)
(* parse as such.  All entities are of one library, Home; of what the      *)
(* other libraries hold nothing is kept.  What a line says besides its     *)
(* references is chosen where it is first looked at.  A field that is set, *)
(* cleared, added to or removed from other than a name, a classification   *)
(* and what links entities is not in the tables, nor is what is printed.   *)
(***************************************************************************)
EXTENDS Catalog, Naturals, Sequences

Seqs == INSTANCE SequencesExt

CONSTANTS
    Libraries, Home,    \* LibraryIds, and the one that the rows are in
    Texts, Names,       \* what can be typed, and what rows are called
    NoText,             \* of a library that isn't there, and of no selection
    Roles,
    Session,            \* the shell, as a reviewer
    MaxLines, MaxActs   \* bound the commands, and what others do meanwhile

ASSUME ShellIsTyped ==
    /\ Libraries \union Entities \union Names \subseteq Texts
    /\ NoText \notin Texts
    /\ Home \in Libraries
    /\ Session \in Reviewers
    /\ MaxLines \in Nat /\ MaxActs \in Nat

VARIABLES
    libraries,  \* the names of the libraries
    name,       \* the names and titles of the entities
    roles,      \* the roles of each contributor row
    selected,   \* Shell::selected
    sh,         \* the command that is under way
    deletedBy,  \* who deleted each library, for the properties
    used        \* how much of the bounds

shellVars == <<db, review, libraries, name, roles, selected, sh, deletedBy, used>>

Kinded == {"publication", "work", "person"}
RowsOf(kind) ==
    CASE kind = "publication" -> Publications
      [] kind = "work" -> Works
      [] kind = "person" -> People

Exists(l) == libraries[l] # NoText
Credits == Parents \X People

NoneSeen == [x \in People |-> {}]

\* What the command is at, the library it is in, the entity it is about, the text that
\* named it and the roles of its contributors as they were loaded, what it links it with,
\* and what is left to do.  For the properties: whether no one else has written since the
\* command looked that entity up, whether what it is to do was all there to be done, and
\* how the last command ended.
AtPrompt == [step |-> "prompt", lib |-> NoText, kind |-> "publication", ref |-> NoText,
             on |-> NoText, seen |-> NoneSeen, new |-> FALSE, text |-> NoText,
             other |-> NoText, todo |-> <<>>, alone |-> FALSE, sound |-> FALSE,
             outcome |-> "none"]

Ends(outcome) ==
    sh' = [AtPrompt EXCEPT !.outcome = outcome]
Goes(step) == sh' = [sh EXCEPT !.step = step]
IsAt(step) == sh.step = step

Stays == UNCHANGED <<libraries, selected, deletedBy, used>>
SameRows == UNCHANGED <<db, review, name, roles>>
Reads == SameRows /\ Stays

-----------------------------------------------------------------------------
(***************************************************************************)
(* References                                                              *)
(***************************************************************************)
\* publications, works and people of a library, drafts included
Candidates(lib, kind) == IF lib = Home THEN Live(RowsOf(kind)) ELSE {}

\* same_name, or the id
Bearing(candidates, names, ref) == {c \in candidates : c = ref \/ names[c] = ref}

TakesTheFirst(candidates, names, ref, found) ==
    LET bearing == Bearing(candidates, names, ref) IN
    bearing # {} /\ found = CHOOSE c \in bearing : TRUE
\* reference::resolve
Resolves(candidates, names, ref, found) == Bearing(candidates, names, ref) = {found}
Fails(candidates, names, ref) ==
    \A c \in candidates : ~Resolves(candidates, names, ref, c)

\* reference::target: an id links, a name never does.
LinksExisting(candidates, ref, new) == ref \in candidates /\ ~new
CreatesNew(candidates, ref, new) ==
    /\ ref \notin candidates
    /\ new \/ \A c \in candidates : name[c] # ref

-----------------------------------------------------------------------------
(***************************************************************************)
(* Lines                                                                   *)
(***************************************************************************)
TypesLine == used.lines < MaxLines /\ used' = [used EXCEPT !.lines = @ + 1]

InLibrary(ref) == sh' = [AtPrompt EXCEPT !.step = "library", !.ref = ref]

\* "library <library> ..."
NamesLibrary ==
    /\ IsAt("prompt") /\ TypesLine
    /\ \E ref \in Texts : InLibrary(ref)
    /\ UNCHANGED <<db, review, roles, libraries, name, selected, deletedBy>>

\* A line that begins with none of the shell's commands has the id of the selected
\* library put before it, as a reference like any other.
UsesSelection ==
    /\ IsAt("prompt") /\ TypesLine
    /\ IF selected = NoText THEN Ends("failed") /\ UNCHANGED selected
       ELSE IF ~Exists(selected) THEN Ends("failed") /\ selected' = NoText
       ELSE InLibrary(selected) /\ UNCHANGED selected
    /\ UNCHANGED <<db, review, roles, libraries, name, deletedBy>>

Deselects ==
    /\ IsAt("prompt") /\ TypesLine
    /\ selected' = NoText
    /\ Ends("ok")
    /\ UNCHANGED <<db, review, roles, libraries, name, deletedBy>>

CreatesLibrary ==
    /\ IsAt("prompt") /\ TypesLine
    /\ \E l \in Libraries, text \in Names :
        /\ ~Exists(l) /\ deletedBy[l] = "none"
        /\ libraries' = [libraries EXCEPT ![l] = text]
    /\ Ends("ok")
    /\ UNCHANGED <<db, review, roles, name, selected, deletedBy>>

\* library::resolve
ResolvesLibrary ==
    /\ IsAt("library")
    /\ LET there == {l \in Libraries : Exists(l)} IN
       \/ Fails(there, libraries, sh.ref) /\ Ends("failed")
       \/ \E l \in there :
            /\ Resolves(there, libraries, sh.ref, l)
            /\ sh' = [sh EXCEPT !.step = "resolved", !.lib = l]
    /\ Reads

SeenOf(e) == IF e \in Parents THEN [x \in People |-> roles[<<e, x>>]] ELSE NoneSeen

\* publication::resolve, work::resolve and person::resolve, of the subject
ResolvesSubject ==
    /\ IsAt("resolved")
    /\ \E kind \in Kinded, ref \in Texts :
        LET candidates == Candidates(sh.lib, kind) IN
        \/ Fails(candidates, name, ref) /\ Ends("failed")
        \/ \E e \in candidates :
             /\ Resolves(candidates, name, ref, e)
             /\ sh' = [sh EXCEPT !.step = "subject", !.kind = kind, !.ref = ref, !.on = e,
                                 !.seen = SeenOf(e), !.alone = TRUE]
    /\ Reads

-----------------------------------------------------------------------------
(***************************************************************************)
(* Commands on a library                                                   *)
(***************************************************************************)
\* The rows' names and roles go with them.
NamesFollow(names) ==
    name' = [e \in Entities |-> IF IsLive(db', e) THEN names[e] ELSE NoText]
RolesFollow ==
    \E r \in Roles :
        roles' = [c \in Credits |-> IF c \notin db'.links THEN {}
                                    ELSE IF roles[c] = {} THEN {r} ELSE roles[c]]
FollowsRows == NamesFollow(name) /\ RolesFollow

SetsName ==
    /\ IsAt("resolved")
    /\ IF Exists(sh.lib)
       THEN Ends("ok") /\ \E text \in Names : libraries' = [libraries EXCEPT ![sh.lib] = text]
       ELSE Ends("failed") /\ UNCHANGED libraries
    /\ UNCHANGED <<db, review, roles, name, selected, deletedBy, used>>

Selects ==
    /\ IsAt("resolved")
    /\ selected' = sh.lib
    /\ Ends("ok")
    /\ UNCHANGED <<db, review, roles, libraries, name, deletedBy, used>>

DropLibrary(l) ==
    /\ libraries' = [libraries EXCEPT ![l] = NoText]
    /\ Edits(IF l = Home THEN Remove(db, Entities) ELSE db)
    /\ FollowsRows

DeletesLibrary ==
    /\ IsAt("resolved")
    /\ IF Exists(sh.lib)
       THEN /\ DropLibrary(sh.lib)
            /\ deletedBy' = [deletedBy EXCEPT ![sh.lib] = "cut off"]
            /\ Goes("deleted")
       ELSE Ends("failed") /\ SameRows /\ UNCHANGED <<libraries, deletedBy>>
    /\ UNCHANGED <<selected, used>>

KeepsSelection == UNCHANGED selected
\* ... and looks whether that was the selected one.
ForgetsSelection ==
    selected' = IF selected # NoText /\ ~Exists(selected) THEN NoText ELSE selected

LooksAfterSelection ==
    /\ IsAt("deleted")
    /\ ForgetsSelection
    /\ deletedBy' = [deletedBy EXCEPT ![sh.lib] = "us"]
    /\ Ends("ok")
    /\ UNCHANGED <<db, review, roles, libraries, name, used>>

\* Library::import; what others hold is not kept.
Imports ==
    /\ IsAt("resolved")
    /\ IF ~Exists(sh.lib) THEN Ends("failed") /\ SameRows
       ELSE IF sh.lib # Home THEN Ends("ok") /\ SameRows
       ELSE \E p \in Fresh(Publications), title \in Names :
              /\ Edits(Insert(db, p, "draft"))
              /\ NamesFollow([name EXCEPT ![p] = title]) /\ RolesFollow
              /\ Ends("ok")
    /\ Stays

-----------------------------------------------------------------------------
(***************************************************************************)
(* Commands on an entity: of one transaction                               *)
(***************************************************************************)
IsThere == IsLive(db, sh.on)

\* An operation finds the entity in its transaction, or fails.
Does(d, names) ==
    /\ IF IsThere
       THEN Edits(d) /\ NamesFollow(names) /\ RolesFollow /\ Ends("ok")
       ELSE SameRows /\ Ends("failed")
    /\ Stays

Renames ==
    /\ IsAt("subject")
    /\ \E text \in Names : Does(db, [name EXCEPT ![sh.on] = text])

Classifies ==
    /\ IsAt("subject") /\ sh.on \in Parents
    /\ \E k \in Kinds :
        LET d == [db EXCEPT !.kind[sh.on] = k] IN
        Does(IF sh.on \in Publications /\ db.kind[sh.on] # k THEN Inherit(d, sh.on, k) ELSE d,
             name)

\* Fields that are not in the tables
Touches == IsAt("subject") /\ Does(db, name)

CommitsIt == IsAt("subject") /\ Does(Commit(db, sh.on), name)

DeletesIt == IsAt("subject") /\ sh.on \in Publications /\ Does(Delete(db, sh.on), name)

RejectsAllOfIt ==
    IsAt("subject") /\ Does(Reject(db, sh.on, ProposalsOf(db, sh.on)), name)

-----------------------------------------------------------------------------
(***************************************************************************)
(* add contributor, add work                                               *)
(***************************************************************************)
Targets(kind) ==
    CASE sh.kind = "publication" -> {"work", "person"}
      [] sh.kind = "work" -> {"person"}
      [] sh.kind = "person" -> {}

\* work::target and person::target
ChoosesTarget ==
    /\ IsAt("subject")
    /\ \E kind \in Targets(sh.kind), ref \in Texts, new \in BOOLEAN :
        LET candidates == Candidates(sh.lib, kind)
            chosen == [sh EXCEPT !.kind = kind, !.text = ref, !.new = new]
        IN \/ /\ LinksExisting(candidates, ref, new)
              /\ sh' = [chosen EXCEPT !.step = "linking", !.other = ref]
           \/ /\ CreatesNew(candidates, ref, new)
              /\ sh' = [chosen EXCEPT !.step = "creating"]
           \/ /\ ~LinksExisting(candidates, ref, new) /\ ~CreatesNew(candidates, ref, new)
              /\ Ends("failed")
    /\ Reads

\* One more role of a contributor who has one already writes only that row.
Credit(d, a, x, r) ==
    /\ Edits(AddContributor(d, a, x))
    /\ NamesFollow(name)
    /\ roles' = [roles EXCEPT ![<<a, x>>] = @ \union {r}]

LinksTarget ==
    /\ IsAt("linking")
    /\ IF ~IsThere \/ ~IsLive(db, sh.other)
       THEN SameRows /\ Ends("failed")
       ELSE /\ IF sh.other \in Works THEN Edits(AddWork(db, sh.on, sh.other)) /\ FollowsRows
               ELSE \E r \in Roles : Credit(db, sh.on, sh.other, r)
            /\ Ends("ok")
    /\ Stays

CreatesTarget ==
    /\ IsAt("creating")
    /\ IF IsThere
       THEN \E e \in Fresh(RowsOf(sh.kind)) :
              /\ Edits(IF e \in Works
                       THEN [Link(Insert(db, e, db.mark[sh.on]), sh.on, e)
                               EXCEPT !.kind[e] = db.kind[sh.on]]
                       ELSE Link(Insert(db, e, db.mark[sh.on]), sh.on, e))
              /\ NamesFollow([name EXCEPT ![e] = sh.text]) /\ RolesFollow
              /\ Ends("ok")
       ELSE SameRows /\ Ends("failed")
    /\ Stays

-----------------------------------------------------------------------------
(***************************************************************************)
(* remove contributor, remove work                                         *)
(***************************************************************************)
\* The roles that a contributor is removed from when the line gives none
RolesToRemove(seen) == Seqs!SetToSeq(seen)

ChoosesLink ==
    /\ IsAt("subject")
    /\ \E kind \in Targets(sh.kind), ref \in Texts :
        LET candidates == Candidates(sh.lib, kind) IN
        \/ Fails(candidates, name, ref) /\ Ends("failed")
        \/ \E e \in candidates :
             /\ Resolves(candidates, name, ref, e)
             /\ \/ /\ kind = "work"
                   /\ sh' = [sh EXCEPT !.step = "unlinking", !.other = e]
                \/ /\ kind = "person"
                   /\ \/ sh' = [sh EXCEPT !.step = "removing", !.other = e, !.sound = TRUE,
                                          !.todo = RolesToRemove(sh.seen[e])]
                      \/ \E r \in Roles :
                           sh' = [sh EXCEPT !.step = "removing", !.other = e, !.todo = <<r>>]
    /\ Reads

RemovesTheWork ==
    /\ IsAt("unlinking")
    /\ Does(RemoveWork(db, sh.on, sh.other), name)

\* A row of a role less; the contributor goes with the last.
Uncredit(d, a, x, r) ==
    LET left == roles[<<a, x>>] \ {r} IN
    IF r \notin roles[<<a, x>>] THEN SameRows
    ELSE /\ Edits(IF left = {} THEN RemoveContributor(d, a, x) ELSE CollectPeople(d))
         /\ NamesFollow(name)
         /\ roles' = [c \in Credits |-> IF c \notin db'.links THEN {}
                                        ELSE IF c = <<a, x>> THEN left ELSE roles[c]]

RemovesARole ==
    /\ IsAt("removing")
    /\ IF sh.todo = <<>> THEN SameRows /\ Ends("ok")
       ELSE IF IsThere
       THEN /\ Uncredit(db, sh.on, sh.other, Head(sh.todo))
            /\ sh' = [sh EXCEPT !.todo = Tail(@)]
       ELSE SameRows /\ Ends("failed")
    /\ Stays

-----------------------------------------------------------------------------
(***************************************************************************)
(* accept, reject and discard-changes                                      *)
(***************************************************************************)
IsPending(d, about) == <<sh.on, about>> \in d.proposals

\* A line lists the ids of proposals of the entity, or, as NoText, one that isn't.
ListsProposals ==
    /\ IsAt("subject")
    /\ LET pending == {e \in Works \union People \union {Value} : IsPending(db, e)} IN
       \E todo \in Seqs!SeqOf(pending \union {NoText}, 2), step \in {"accepting", "rejecting"} :
        /\ todo # <<>>
        /\ sh' = [sh EXCEPT !.step = step, !.todo = todo,
                            !.sound = Seqs!IsInjective(todo) /\ ~Seqs!Contains(todo, NoText)]
    /\ Reads

\* Accepting is over three transactions; a proposal that isn't there ends the command, and
\* so does an entity that has gone.
AcceptsNext ==
    /\ IsAt("accepting") /\ review[Session] = NotReviewing
    /\ IF sh.todo = <<>> THEN Ends("ok") /\ UNCHANGED <<db, review>>
       ELSE IF IsPending(db, Head(sh.todo))
       THEN /\ ReadProposal(Session)
            /\ review'[Session].of = sh.on /\ review'[Session].about = Head(sh.todo)
            /\ sh' = [sh EXCEPT !.todo = Tail(@)]
       ELSE Ends("failed") /\ UNCHANGED <<db, review>>
    /\ UNCHANGED <<name, roles>>
    /\ Stays

AppliesNext ==
    /\ IsAt("accepting")
    /\ ApplyProposal(Session)
    /\ IF review'[Session] = NotReviewing THEN Ends("failed") ELSE UNCHANGED sh
    /\ FollowsRows
    /\ Stays

\* A proposed cover or profile is downloaded; that fails, or what comes is no image.
AcceptsImage ==
    sh.on \notin Works /\ review[Session].step = "read" /\ review[Session].about = Value

MissesImage ==
    /\ IsAt("accepting") /\ AcceptsImage
    /\ Interrupted(Session)
    /\ Ends("failed")
    /\ UNCHANGED <<name, roles>>
    /\ Stays

DiscardsNext ==
    /\ IsAt("accepting")
    /\ DiscardProposal(Session)
    /\ UNCHANGED <<sh, name, roles>>
    /\ Stays

RejectsNext ==
    /\ IsAt("rejecting")
    /\ IF sh.todo = <<>> THEN Ends("ok") /\ SameRows
       ELSE IF IsPending(db, Head(sh.todo))
       THEN /\ Edits(Reject(db, sh.on, {<<sh.on, Head(sh.todo)>>}))
            /\ FollowsRows
            /\ sh' = [sh EXCEPT !.todo = Tail(@)]
       ELSE Ends("failed") /\ SameRows
    /\ Stays

\* Entity::review_item: in the queue as a draft, for its proposals, or for its enrichment
IsQueued(enriched) ==
    IsThere /\ (IsDraft(db, sh.on) \/ ProposalsOf(db, sh.on) # {} \/ enriched)

DiscardsChanges ==
    /\ IsAt("subject")
    /\ \E enriched \in BOOLEAN :
        IF IsQueued(enriched) THEN Goes("discarding") ELSE Ends("failed")
    /\ Reads

\* ReviewItem::discard reloads the entity, and deletes the draft or rejects all of it.
ReloadsIt ==
    /\ IsAt("discarding") /\ review[Session] = NotReviewing
    /\ IF ~IsThere THEN Ends("failed") /\ SameRows
       ELSE IF IsDraft(db, sh.on)
       THEN ReloadDraft(Session) /\ review'[Session].of = sh.on /\ UNCHANGED <<name, roles, sh>>
       ELSE /\ Edits(Reject(db, sh.on, ProposalsOf(db, sh.on)))
            /\ FollowsRows
            /\ Ends("ok")
    /\ Stays

DeletesReloaded ==
    /\ IsAt("discarding")
    /\ DeleteReloaded(Session)
    /\ FollowsRows
    /\ Ends(IF IsThere THEN "ok" ELSE "failed")
    /\ Stays

\* tokio::select! drops what the line was doing, wherever it waits.
CtrlC ==
    /\ ~IsAt("prompt")
    /\ review' = [review EXCEPT ![Session] = NotReviewing]
    /\ Ends("cancelled")
    /\ UNCHANGED <<db, name, roles>>
    /\ Stays

-----------------------------------------------------------------------------
(***************************************************************************)
(* Everyone else                                                           *)
(***************************************************************************)
\* A row that has gone is not there again under the id that the shell has, and a listed
\* proposal that has gone isn't either.
Acts ==
    /\ used.acts < MaxActs
    /\ used' = [used EXCEPT !.acts = @ + 1]
    /\ \A e \in {sh.on, sh.other} \intersect Entities : IsLive(db', e) => IsLive(db, e)
    /\ sh' = [sh EXCEPT !.alone = FALSE,
                        !.todo = IF sh.step \notin {"accepting", "rejecting"} THEN @
                                 ELSE [i \in DOMAIN @ |-> IF IsPending(db', @[i]) THEN @[i]
                                                          ELSE NoText]]
    /\ UNCHANGED selected

OthersEdit ==
    /\ Exists(Home)
    /\ Edit
    /\ RolesFollow
    /\ \E text \in Names :
        NamesFollow([e \in Entities |-> IF IsLive(db, e) THEN name[e] ELSE text])
    /\ UNCHANGED <<libraries, deletedBy>>
    /\ Acts

OthersRename ==
    /\ \/ \E e \in Live(Entities), text \in Names :
            name' = [name EXCEPT ![e] = text] /\ UNCHANGED libraries
       \/ \E l \in Libraries, text \in Names :
            Exists(l) /\ libraries' = [libraries EXCEPT ![l] = text] /\ UNCHANGED name
    /\ UNCHANGED <<db, review, roles, deletedBy>>
    /\ Acts

OthersDeleteLibrary ==
    /\ \E l \in Libraries :
        /\ Exists(l)
        /\ DropLibrary(l)
        /\ deletedBy' = [deletedBy EXCEPT ![l] = "others"]
    /\ Acts

-----------------------------------------------------------------------------
\* A session opens on a library that holds some of the rows, and has selected one or none.
ShellInit ==
    /\ \E p \in Publications, x \in People, mark \in {"draft", "committed"},
          proposed \in {{}, Works \union People \union {Value}} :
        /\ db = [mark |-> [e \in Entities |-> IF e \in {p, x} THEN mark
                                              ELSE IF e \in proposed THEN "draft" ELSE "absent"],
                 kind |-> [a \in Parents |-> Unclassified],
                 links |-> {<<p, x>>},
                 proposals |-> {p} \X (proposed \ {x})]
    /\ review = [r \in Reviewers |-> NotReviewing]
    /\ \E text \in Names, there \in SUBSET Libraries :
        /\ Home \in there
        /\ libraries = [l \in Libraries |-> IF l \in there THEN text ELSE NoText]
        /\ name = [e \in Entities |-> IF IsLive(db, e) THEN text ELSE NoText]
    /\ roles = [c \in Credits |-> IF c \in db.links THEN Roles ELSE {}]
    /\ selected \in {l \in Libraries : Exists(l)} \union {NoText}
    /\ sh = AtPrompt
    /\ deletedBy = [l \in Libraries |-> "none"]
    /\ used = [lines |-> 0, acts |-> 0]

Line ==
    \/ NamesLibrary \/ UsesSelection \/ Deselects \/ CreatesLibrary
    \/ ResolvesLibrary \/ ResolvesSubject
    \/ SetsName \/ Selects \/ DeletesLibrary \/ LooksAfterSelection \/ Imports

Command ==
    \/ Renames \/ Classifies \/ Touches \/ CommitsIt \/ DeletesIt \/ RejectsAllOfIt
    \/ ChoosesTarget \/ LinksTarget \/ CreatesTarget
    \/ ChoosesLink \/ RemovesTheWork \/ RemovesARole
    \/ ListsProposals \/ AcceptsNext \/ AppliesNext \/ MissesImage \/ DiscardsNext \/ RejectsNext
    \/ DiscardsChanges \/ ReloadsIt \/ DeletesReloaded

ShellNext ==
    \/ Line \/ Command \/ CtrlC
    \/ OthersEdit \/ OthersRename \/ OthersDeleteLibrary

ShellSpec == ShellInit /\ [][ShellNext]_shellVars

-----------------------------------------------------------------------------
(* "Apply the specified proposed edits": what one accept commits, drops or collects
   never takes away the next proposal of the line, nor what that is about.  While no
   one else writes, a command that lists different proposals of the entity ends,
   done, failed or cut off, with those pending that it has not come to; and it fails
   only at a proposed cover or profile that it cannot get, which is still proposed. *)
ListedProposalsStay ==
    [][sh.step \in {"accepting", "rejecting"} /\ sh.sound /\ sh.alone /\ sh'.step = "prompt" =>
        /\ \A i \in DOMAIN sh.todo : IsPending(db', sh.todo[i])
        /\ sh'.outcome = "failed" => AcceptsImage /\ IsPending(db', Value)]_shellVars

(* "A name match is never linked implicitly, because names are not unique", and a
   reference that is ambiguous fails: as long as the shell is alone, what it writes
   to is the one entity that the text names, a contributor or work that it links
   was given by its id, and one that it makes without --new is the only one of its
   name. *)
NamesAreNotGuessed ==
    [][sh.alone /\ (db' # db \/ name' # name) /\ used'.acts = used.acts =>
        /\ sh.step = "subject" => Bearing(Candidates(sh.lib, sh.kind), name, sh.ref) = {sh.on}
        /\ sh.step = "linking" => sh.other = sh.text
        /\ sh.step = "creating" /\ ~sh.new =>
             \A e \in Live(RowsOf(sh.kind)) : name[e] # sh.text]_shellVars

(* A selected library that is gone was deleted by others, or by a command that was
   cut off before it looked: the shell's own deletions, by whatever name or id they
   reach the selected library, clear the selection. *)
SelectionIsThere ==
    sh.step # "deleted" /\ selected # NoText /\ ~Exists(selected)
        => deletedBy[selected] # "us"
=============================================================================
