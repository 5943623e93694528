-------------------------- MODULE EnrichmentProofs --------------------------
(***************************************************************************)
(* What Open Library's runs write, and what becomes of them, proved of      *)
(* Enrichment for any publications, authors, runs and sessions.             *)
(*                                                                         *)
(* Users' writes only take rows away and subtasks' writes only add some,   *)
(* so the tables stay sound; a user's write makes every subtask "dirty",   *)
(* about which nothing is claimed, and through a subtask's write all that  *)
(* the others know stays true.  What a finished subtask has done is        *)
(* therefore found done by the next of its kind.                           *)
(***************************************************************************)
EXTENDS Enrichment, WellFoundedInduction, TLAPS

\* The tables: of works there is no row, and of what a link or a proposal refers to always
\* one.  Only a publication is proposed people for.
Tables ==
    [mark : [Entities -> Marks],
     kind : [Parents -> Kinds \union {Unclassified}],
     links : SUBSET (Parents \X (Works \union People)),
     proposals : SUBSET (Entities \X (Works \union People \union Authors \union {Value}))]

Refers(d, e, x) == <<e, x>> \in d.links \/ <<e, x>> \in d.proposals

IsSound(d) ==
    /\ d \in Tables
    /\ \A w \in Works : ~IsLive(d, w)
    /\ \A l \in d.links \union d.proposals :
          IsLive(d, l[1]) /\ (l[2] \in People => l[1] \in Publications /\ IsLive(d, l[2]))

\* Nobody is there whom no publication names.
AllAreNamed(d) ==
    \A x \in People : IsLive(d, x) => \E p \in Publications : Refers(d, p, x)

ReviewSteps == {"idle", "read", "applied", "checking", "forgetting", "cancelling",
              "reloading", "deleting", "rejecting", "listing"}
Reviews == [step : ReviewSteps, of : Entities \union {Value},
            about : Works \union People \union Authors \union {Value}, there : BOOLEAN]

Names == {NameOf[a] : a \in Authors} \union {NoName}
SubtaskStates == [step : UnderWay \union {"none", "ended", "finished"},
                  person : People \union {NoPerson},
                  hist : {"dirty", "clean", "again"}, spare : BOOLEAN]
RunStates == [root : Publications \union {NoRoot}, failed : BOOLEAN, cancelled : BOOLEAN]

TypeInv ==
    /\ name \in [People -> Names]
    /\ held \subseteq Entities \X (Works \union Authors \union {Value})
    /\ run \in [Runs -> RunStates]
    /\ registry \in [Publications -> Runs \union {NoRun}]
    /\ sub \in [Subtasks -> SubtaskStates]

BoundsInv == used \in [acts : Nat, restarts : Nat]

RowsInv ==
    /\ IsSound(db)
    /\ AllAreNamed(db)
    /\ \A v \in held : IsLive(db, v[1])
    /\ \A x \in People : IsLive(db, x) => name[x] # NoName

\* What a session has read was proposed, and what it accepted is linked as long as both
\* are there; an id is not used again.
IsReview(v, d) ==
    /\ v \in Reviews
    /\ v.step \in {"reloading", "deleting", "rejecting", "checking", "forgetting", "cancelling",
                   "listing"} => v.of \in Publications
    /\ v.step \in {"read", "applied"} => v.of \in Entities
    /\ v.step \in {"read", "applied"} /\ v.about \in People =>
         v.of \in Publications /\ name[v.about] # NoName
    /\ v.step = "applied" /\ v.about \in People =>
         <<v.of, v.about>> \in d.links \/ ~IsLive(d, v.of) \/ ~IsLive(d, v.about)

ReviewInv ==
    /\ review = [r \in Reviewers |-> review[r]]
    /\ \A r \in Reviewers : IsReview(review[r], db)

SpareInv ==
    \A s \in Subtasks : run[s[1]].cancelled /\ sub[s].step \in Writing => sub[s].spare

IsBest(x, matches) ==
    /\ x \in matches
    /\ \A y \in matches \ {x} : \/ IsCommitted(db, x) /\ IsDraft(db, y)
                                \/ db.mark[x] = db.mark[y] /\ x < y

\* Whom matching an author chooses, ...
IsMatch(x, a) ==
    IF FindByRecord(a) # {} THEN IsBest(x, FindByRecord(a)) ELSE x \in FindByName(a)

\* ... that the author was proposed as them, ...
IsNamed(p, x) == IsLive(db, p) => Refers(db, p, x)
HasRecord(x, a) == <<x, a>> \in held \/ <<x, a>> \in db.proposals

\* ... and that a subtask of `p` has nothing left to write.
HasFields(p) == IsLive(db, p) => <<p, Value>> \in held \/ <<p, Value>> \in db.proposals
IsDone(p, t) ==
    IF t \in Authors
    THEN IsLive(db, p) =>
           \E x \in Live(People) : IsMatch(x, t) /\ IsNamed(p, x) /\ HasRecord(x, t)
    ELSE HasFields(p) /\ (IsLive(db, p) => db.kind[p] # Unclassified)

KnowsThat(p, a, step, x, again) ==
    /\ step = "finished" \/ again => IsDone(p, a)
    /\ step = "classifying" => HasFields(p)
    /\ step = "byName" => FindByRecord(a) = {}
    /\ step = "naming" /\ x = NoPerson => FindByRecord(a) = {} /\ (again => ~IsLive(db, p))
    /\ step \in {"naming", "linking"} /\ x # NoPerson => IsLive(db, x) /\ IsMatch(x, a)
    /\ step = "linking" => IsLive(db, p) /\ IsNamed(p, x)
Knows(s) == KnowsThat(RootOf(s), s[2], sub[s].step, sub[s].person, sub[s].hist = "again")

IsSubtask(s) ==
    /\ run[s[1]].root = NoRoot => sub[s].step = "none"
    /\ sub[s].step \in {"valuing", "classifying"} => s[2] = Edition
    /\ sub[s].step \in {"byRecord", "byName", "naming", "linking"} => s[2] \in Authors
    /\ sub[s].step = "linking" => sub[s].person # NoPerson
    /\ sub[s].step = "finished" => sub[s].hist # "dirty"
    /\ sub[s].step \in {"none", "ended"} => sub[s].hist = "dirty"
    /\ sub[s].hist # "dirty" => Knows(s)

EnrichInv ==
    /\ TypeInv /\ RowsInv /\ ReviewInv /\ SpareInv
    /\ \A s \in Subtasks : IsSubtask(s)

-----------------------------------------------------------------------------
(***************************************************************************)
(* Tables                                                                  *)
(***************************************************************************)

(* What ids there are. *)
LEMMA Ids ==
    /\ Publications \subseteq Entities /\ People \subseteq Entities /\ Works \subseteq Entities
    /\ Publications \subseteq Parents /\ Works \subseteq Parents /\ Parents \subseteq Entities
    /\ \A p \in Publications : p \notin People /\ p \notin Works
    /\ \A x \in People : x \notin Works /\ x \notin Parents
    /\ \A a \in Authors : a \notin People /\ a \notin Works /\ a # Value /\ a # Edition
    /\ Value \notin People /\ Value \notin Works
BY IdsAreDistinct, IdsAreOrdered DEF Entities, Parents

(* The tables of a database. *)
LEMMA TablesOf ==
    ASSUME NEW d \in Tables
    PROVE  /\ d.mark \in [Entities -> Marks]
           /\ d.kind \in [Parents -> Kinds \union {Unclassified}]
           /\ d.links \subseteq Parents \X (Works \union People)
           /\ d.proposals \subseteq Entities \X (Works \union People \union Authors \union {Value})
           /\ d = [mark |-> d.mark, kind |-> d.kind, links |-> d.links,
                   proposals |-> d.proposals]
BY DEF Tables

(* What refers to something is a row, ... *)
LEMMA Referring ==
    ASSUME NEW d, IsSound(d), NEW e, NEW x, Refers(d, e, x)
    PROVE  /\ e \in Entities /\ IsLive(d, e) /\ e \notin Works
           /\ x \in Works \union People \union Authors \union {Value}
           /\ x \in People => e \in Publications /\ IsLive(d, x)
<1> DEFINE l == <<e, x>>
<1>1. l \in d.links \/ l \in d.proposals
  BY DEF Refers
<1>2. l[1] = e /\ l[2] = x
  OBVIOUS
<1>3. e \in Entities /\ x \in Works \union People \union Authors \union {Value}
  BY <1>1, TablesOf, Ids DEF IsSound
<1>4. IsLive(d, e) /\ (x \in People => e \in Publications /\ IsLive(d, x))
  BY <1>1, <1>2 DEF IsSound
<1>5. e \notin Works
  BY <1>4 DEF IsSound
<1> QED BY <1>3, <1>4, <1>5

(* ... and tables where that is so are sound. *)
LEMMA SoundIfReferring ==
    ASSUME NEW d \in Tables, \A w \in Works : ~IsLive(d, w),
           \A e, x : Refers(d, e, x) =>
               IsLive(d, e) /\ (x \in People => e \in Publications /\ IsLive(d, x))
    PROVE  IsSound(d)
<1> SUFFICES ASSUME NEW l \in d.links \union d.proposals
             PROVE  IsLive(d, l[1]) /\ (l[2] \in People => l[1] \in Publications /\ IsLive(d, l[2]))
  BY DEF IsSound
<1>1. l = <<l[1], l[2]>>
  BY TablesOf
<1> QED BY <1>1 DEF Refers

\* What a user's transaction may make of the tables: no row is new, and a link
\* stays as long as what it links does.
Shrinks(d, n) ==
    /\ IsSound(n)
    /\ \A e \in Entities : IsLive(n, e) => IsLive(d, e)
    /\ \A l \in d.links : IsLive(n, l[1]) /\ IsLive(n, l[2]) => l \in n.links

\* Nobody loses a publication's reference.
KeepsNames(d, n) ==
    \A p \in Publications, x \in People : Refers(d, p, x) /\ IsLive(n, x) => Refers(n, p, x)

(* One after another. *)
LEMMA ShrinksFurther ==
    ASSUME NEW d, IsSound(d), NEW m, NEW n, Shrinks(d, m), Shrinks(m, n)
    PROVE  Shrinks(d, n)
<1>1. ASSUME NEW l \in d.links, IsLive(n, l[1]), IsLive(n, l[2])
      PROVE  l \in n.links
  <2>1. l[1] \in Entities /\ l[2] \in Entities
    BY TablesOf, Ids DEF IsSound
  <2> QED BY <1>1, <2>1 DEF Shrinks
<1> QED BY <1>1 DEF Shrinks

(* Nobody is without a publication's reference who has lost none. *)
LEMMA NamesAreKept ==
    ASSUME NEW d, NEW n, AllAreNamed(d), Shrinks(d, n), KeepsNames(d, n)
    PROVE  AllAreNamed(n)
BY Ids DEF AllAreNamed, Shrinks, KeepsNames

(* Deleting rows, with what refers to them, ... *)
LEMMA RemoveShrinks ==
    ASSUME NEW d, IsSound(d), NEW gone
    PROVE  /\ Shrinks(d, Remove(d, gone))
           /\ \A e \in Entities : IsLive(Remove(d, gone), e) <=> IsLive(d, e) /\ e \notin gone
           /\ \A e, x : Refers(Remove(d, gone), e, x) <=>
                            Refers(d, e, x) /\ e \notin gone /\ x \notin gone
<1> DEFINE n == Remove(d, gone)
           mark == [e \in Entities |-> IF e \in gone THEN "absent" ELSE d.mark[e]]
           kind == [a \in Parents |-> IF a \in gone THEN Unclassified ELSE d.kind[a]]
           links == {l \in d.links : l[1] \notin gone /\ l[2] \notin gone}
           proposals == {p \in d.proposals : p[1] \notin gone /\ p[2] \notin gone}
<1>1. n = [mark |-> mark, kind |-> kind, links |-> links, proposals |-> proposals]
  BY DEF Remove
<1>2. n \in Tables
  <2>1. d \in Tables
    BY DEF IsSound
  <2>2. mark \in [Entities -> Marks] /\ kind \in [Parents -> Kinds \union {Unclassified}]
    BY <2>1, TablesOf DEF Marks
  <2>3. /\ links \in SUBSET (Parents \X (Works \union People))
        /\ proposals \in SUBSET (Entities \X (Works \union People \union Authors \union {Value}))
    BY <2>1, TablesOf
  <2> HIDE DEF n, mark, kind, links, proposals
  <2> QED BY <1>1, <2>2, <2>3 DEF Tables
<1>3. \A e \in Entities : IsLive(n, e) <=> IsLive(d, e) /\ e \notin gone
  BY <1>1 DEF IsLive
<1>4. \A e, x : Refers(n, e, x) <=> Refers(d, e, x) /\ e \notin gone /\ x \notin gone
  BY <1>1 DEF Refers
<1>5. \A l \in d.links : l[1] \notin gone /\ l[2] \notin gone => l \in n.links
  BY <1>1
<1>6. \A l \in d.links : l[1] \in Entities /\ l[2] \in Entities
  BY TablesOf, Ids DEF IsSound
<1> HIDE DEF n
<1>7. IsSound(n)
  <2>1. \A w \in Works : ~IsLive(n, w)
    BY <1>3, Ids DEF IsSound
  <2>2. ASSUME NEW e, NEW x, Refers(n, e, x)
        PROVE  IsLive(n, e) /\ (x \in People => e \in Publications /\ IsLive(n, x))
    <3>1. Refers(d, e, x) /\ e \notin gone /\ x \notin gone
      BY <1>4, <2>2
    <3> QED BY <1>3, <3>1, Referring, Ids
  <2> QED BY <1>2, <2>1, <2>2, SoundIfReferring
<1>8. Shrinks(d, n)
  BY <1>3, <1>5, <1>6, <1>7 DEF Shrinks
<1> QED BY <1>3, <1>4, <1>8 DEF n

(* ... and then who has no reference left leaves only people whom a publication names. *)
LEMMA CollectNames ==
    ASSUME NEW d, IsSound(d)
    PROVE  Shrinks(d, Collect(d)) /\ AllAreNamed(Collect(d))
<1> DEFINE m == Remove(d, OrphanWorks(d))
           gone == OrphanPeople(m)
           n == Remove(m, gone)
<1>1. Shrinks(d, m)
  BY RemoveShrinks
<1>2. IsSound(m)
  BY <1>1 DEF Shrinks
<1>3. Collect(d) = n
  BY DEF Collect, CollectPeople
<1> HIDE DEF m
<1>4. /\ Shrinks(m, n)
      /\ \A e \in Entities : IsLive(n, e) <=> IsLive(m, e) /\ e \notin gone
      /\ \A e, x : Refers(n, e, x) <=> Refers(m, e, x) /\ e \notin gone /\ x \notin gone
  BY <1>2, RemoveShrinks
<1>5. gone \subseteq People
  BY DEF OrphanPeople
<1>6. \A x \in People : x \notin gone /\ IsLive(m, x) => \E a \in Parents : Refers(m, a, x)
  BY DEF OrphanPeople, IsNeeded, Refers
<1> HIDE DEF gone, n
<1>7. AllAreNamed(n)
  <2> SUFFICES ASSUME NEW x \in People, IsLive(n, x)
               PROVE  \E p \in Publications : Refers(n, p, x)
    BY DEF AllAreNamed
  <2>1. IsLive(m, x) /\ x \notin gone
    BY <1>4, Ids
  <2>2. PICK a \in Parents : Refers(m, a, x)
    BY <1>6, <2>1
  <2>3. a \in Publications
    BY <1>2, <2>2, Referring
  <2> QED BY <1>4, <1>5, <2>1, <2>2, <2>3, Ids
<1> QED BY <1>1, <1>3, <1>4, <1>7, ShrinksFurther

(* Proposals dropped. *)
LEMMA DroppingShrinks ==
    ASSUME NEW d, IsSound(d), NEW S \in SUBSET d.proposals,
           NEW n, n = [d EXCEPT !.proposals = S]
    PROVE  /\ Shrinks(d, n) /\ n.mark = d.mark /\ n.kind = d.kind /\ n.links = d.links
           /\ n.proposals = S
<1>1. d \in Tables
  BY DEF IsSound
<1>2. n = [mark |-> d.mark, kind |-> d.kind, links |-> d.links, proposals |-> S]
  BY <1>1 DEF Tables
<1>3. n \in Tables
  <2>1. S \in SUBSET (Entities \X (Works \union People \union Authors \union {Value}))
    BY <1>1, TablesOf
  <2> QED BY <1>1, <1>2, <2>1, TablesOf DEF Tables
<1>4. n.mark = d.mark /\ n.kind = d.kind /\ n.links = d.links /\ n.proposals = S
  BY <1>2
<1>5. \A e, x : Refers(n, e, x) => Refers(d, e, x)
  BY <1>4 DEF Refers
<1>6. \A e : IsLive(n, e) <=> IsLive(d, e)
  BY <1>4 DEF IsLive
<1>7. IsSound(n)
  <2>1. \A w \in Works : ~IsLive(n, w)
    BY <1>6 DEF IsSound
  <2> QED BY <1>3, <1>5, <1>6, <2>1, Referring, SoundIfReferring
<1> QED BY <1>4, <1>6, <1>7 DEF Shrinks

(* Rows committed: the proposals of those that were drafts are dropped. *)
LEMMA CommittingShrinks ==
    ASSUME NEW d, IsSound(d), NEW these
    PROVE  /\ Shrinks(d, CommitRows(d, these))
           /\ these \subseteq People => KeepsNames(d, CommitRows(d, these))
<1> DEFINE n == CommitRows(d, these)
           committed == {e \in these : IsDraft(d, e)}
           mark == [e \in Entities |-> IF e \in committed THEN "committed" ELSE d.mark[e]]
           proposals == {p \in d.proposals : p[1] \notin committed}
<1>1. d \in Tables
  BY DEF IsSound
<1>2. n = [d EXCEPT !.mark = mark, !.proposals = proposals]
  BY DEF CommitRows, ProposalsAfter
<1>3. /\ mark \in [Entities -> Marks]
      /\ proposals \in SUBSET (Entities \X (Works \union People \union Authors \union {Value}))
      /\ \A e \in Entities : mark[e] # "absent" <=> IsLive(d, e)
  BY <1>1, TablesOf DEF Marks, IsLive, IsDraft
<1>4. \A e, x : <<e, x>> \in proposals <=> <<e, x>> \in d.proposals /\ e \notin committed
  OBVIOUS
<1>5. committed \subseteq these
  OBVIOUS
<1> HIDE DEF n, mark, proposals, committed
<1>6. n = [mark |-> mark, kind |-> d.kind, links |-> d.links, proposals |-> proposals]
  BY <1>1, <1>2 DEF Tables
<1>7. n \in Tables
  BY <1>1, <1>3, <1>6, TablesOf DEF Tables
<1>8. \A e \in Entities : IsLive(n, e) <=> IsLive(d, e)
  BY <1>3, <1>6 DEF IsLive
<1>9. \A e, x : /\ Refers(n, e, x) => Refers(d, e, x)
                /\ Refers(d, e, x) /\ e \notin these => Refers(n, e, x)
  BY <1>4, <1>5, <1>6 DEF Refers
<1>10. IsSound(n)
  <2>1. \A w \in Works : ~IsLive(n, w)
    BY <1>8, Ids DEF IsSound
  <2>2. ASSUME NEW e, NEW x, Refers(n, e, x)
        PROVE  IsLive(n, e) /\ (x \in People => e \in Publications /\ IsLive(n, x))
    <3>1. Refers(d, e, x)
      BY <1>9, <2>2
    <3> QED BY <1>8, <3>1, Referring, Ids
  <2> QED BY <1>7, <2>1, <2>2, SoundIfReferring
<1>11. Shrinks(d, n)
  BY <1>6, <1>8, <1>10 DEF Shrinks
<1>12. these \subseteq People => KeepsNames(d, n)
  BY <1>9, Ids DEF KeepsNames
<1> QED BY <1>11, <1>12 DEF n

(* A contributor linked to a publication. *)
LEMMA AddingShrinks ==
    ASSUME NEW d, IsSound(d), AllAreNamed(d), NEW p \in Publications, IsLive(d, p),
           NEW x \in People, IsLive(d, x)
    PROVE  /\ Shrinks(d, AddContributor(d, p, x)) /\ AllAreNamed(AddContributor(d, p, x))
           /\ <<p, x>> \in AddContributor(d, p, x).links
<1> DEFINE m == Link(d, p, x)
           n == CommitRows(m, ContributorsOf(m, p))
           links == d.links \union {<<p, x>>}
<1>1. d \in Tables
  BY DEF IsSound
<1>2. m = [d EXCEPT !.links = links]
  BY <1>1 DEF Link, Tables
<1>3. links \in SUBSET (Parents \X (Works \union People))
  BY <1>1, TablesOf, Ids
<1>4. \A e, y : <<e, y>> \in links <=> <<e, y>> \in d.links \/ (e = p /\ y = x)
  OBVIOUS
<1>5. d.links \subseteq links /\ <<p, x>> \in links
  OBVIOUS
<1>6. \/ AddContributor(d, p, x) = d /\ <<p, x>> \in d.links
      \/ AddContributor(d, p, x) \in {m, n}
  BY DEF AddContributor
<1> HIDE DEF m, links
<1>7. m = [mark |-> d.mark, kind |-> d.kind, links |-> links, proposals |-> d.proposals]
  BY <1>1, <1>2 DEF Tables
<1>8. m \in Tables
  BY <1>1, <1>3, <1>7, TablesOf DEF Tables
<1>9. /\ \A e : IsLive(m, e) <=> IsLive(d, e)
      /\ \A e, y : Refers(m, e, y) <=> Refers(d, e, y) \/ (e = p /\ y = x)
  BY <1>4, <1>7 DEF IsLive, Refers
<1>10. IsSound(m)
  <2>1. \A w \in Works : ~IsLive(m, w)
    BY <1>9 DEF IsSound
  <2> QED BY <1>8, <1>9, <2>1, Referring, Ids, SoundIfReferring
<1>11. Shrinks(d, m) /\ KeepsNames(d, m)
  BY <1>5, <1>7, <1>9, <1>10 DEF Shrinks, KeepsNames
<1>12. AllAreNamed(m)
  BY <1>11, NamesAreKept
<1>13. ContributorsOf(m, p) \subseteq People
  BY DEF ContributorsOf
<1>14. Shrinks(m, n) /\ KeepsNames(m, n)
  BY <1>10, <1>13, CommittingShrinks
<1>15. n.links = m.links
  <2>1. m \in Tables
    BY <1>8
  <2> QED BY <2>1 DEF CommitRows, Tables
<1> HIDE DEF n
<1>16. AllAreNamed(n)
  BY <1>12, <1>14, NamesAreKept
<1>17. Shrinks(d, n)
  BY <1>11, <1>14, ShrinksFurther
<1>18. Shrinks(d, d)
  BY DEF Shrinks
<1>19. <<p, x>> \in m.links /\ <<p, x>> \in n.links
  BY <1>5, <1>7, <1>15
<1> QED BY <1>6, <1>11, <1>12, <1>16, <1>17, <1>18, <1>19

(* An entity's proposals rejected, and who is left without a reference collected. *)
LEMMA RejectingShrinks ==
    ASSUME NEW d, IsSound(d), AllAreNamed(d), NEW e \in Entities, IsLive(d, e),
           NEW S, \A p \in S : p[1] = e
    PROVE  Shrinks(d, Reject(d, e, S)) /\ AllAreNamed(Reject(d, e, S))
<1> DEFINE rest == [d EXCEPT !.proposals = @ \ S]
           proposals == d.proposals \ S
<1>1. e \in Publications \union People
  BY DEF IsSound, Entities
<1>2. rest = [d EXCEPT !.proposals = proposals]
  BY DEF IsSound, Tables
<1>3. proposals \subseteq d.proposals
  OBVIOUS
<1>4. \A f, x : <<f, x>> \in d.proposals /\ f # e => <<f, x>> \in proposals
  OBVIOUS
<1>5. /\ e \in Publications => Reject(d, e, S) = Collect(rest)
      /\ e \in People => Reject(d, e, S) = rest
  BY Ids DEF Reject
<1> HIDE DEF rest, proposals
<1>6. Shrinks(d, rest) /\ rest.links = d.links /\ rest.proposals = proposals
  BY <1>2, <1>3, DroppingShrinks
<1>7. CASE e \in Publications
  <2>1. Shrinks(rest, Collect(rest)) /\ AllAreNamed(Collect(rest))
    BY <1>6, CollectNames DEF Shrinks
  <2> QED BY <1>5, <1>6, <1>7, <2>1, ShrinksFurther
<1>8. CASE e \in People
  <2>1. KeepsNames(d, rest)
    BY <1>4, <1>6, <1>8, Ids DEF KeepsNames, Refers
  <2> QED BY <1>5, <1>6, <1>8, <2>1, NamesAreKept
<1> QED BY <1>1, <1>7, <1>8

(* An entity deleted, and who is left without a reference collected. *)
LEMMA DeletingShrinks ==
    ASSUME NEW d, IsSound(d), AllAreNamed(d), NEW e \in Entities, IsLive(d, e)
    PROVE  Shrinks(d, Delete(d, e)) /\ AllAreNamed(Delete(d, e))
<1> DEFINE gone == Remove(d, {e})
<1>1. e \in Publications \union People
  BY DEF IsSound, Entities
<1>2. /\ e \in Publications => Delete(d, e) = Collect(gone)
      /\ e \in People => Delete(d, e) = gone
  BY Ids DEF Delete
<1>3. /\ Shrinks(d, gone)
      /\ \A f \in Entities : IsLive(gone, f) <=> IsLive(d, f) /\ f # e
      /\ \A f, x : Refers(gone, f, x) <=> Refers(d, f, x) /\ f # e /\ x # e
  BY RemoveShrinks
<1> HIDE DEF gone
<1>4. CASE e \in Publications
  <2>1. Shrinks(gone, Collect(gone)) /\ AllAreNamed(Collect(gone))
    BY <1>3, CollectNames DEF Shrinks
  <2> QED BY <1>2, <1>3, <1>4, <2>1, ShrinksFurther
<1>5. CASE e \in People
  <2>1. KeepsNames(d, gone)
    BY <1>3, <1>5, Ids DEF KeepsNames
  <2> QED BY <1>2, <1>3, <1>5, <2>1, NamesAreKept
<1> QED BY <1>1, <1>4, <1>5

(* A draft committed, with what it refers to. *)
LEMMA CommitShrinks ==
    ASSUME NEW d, IsSound(d), AllAreNamed(d), NEW e \in Entities, IsLive(d, e)
    PROVE  Shrinks(d, Commit(d, e)) /\ AllAreNamed(Commit(d, e))
<1> DEFINE n == CommitRows(d, CommitClosure(d, e))
<1>1. e \in Publications \union People
  BY DEF IsSound, Entities
<1>2. CASE ~IsDraft(d, e)
  BY <1>2 DEF Commit, Shrinks
<1>3. /\ IsDraft(d, e) /\ e \in Publications => Commit(d, e) = Collect(n)
      /\ IsDraft(d, e) /\ e \in People => Commit(d, e) = n
  BY Ids DEF Commit
<1>4. Shrinks(d, n)
  BY CommittingShrinks
<1>5. CASE e \in People
  <2>1. \A x : <<e, x>> \notin d.links
    BY <1>5, TablesOf, Ids DEF IsSound
  <2>2. CommitClosure(d, e) \subseteq People
    BY <1>5, <2>1 DEF CommitClosure, ContentsOf, ContributorsOf
  <2>3. KeepsNames(d, n)
    BY <2>2, CommittingShrinks
  <2> HIDE DEF n
  <2> QED BY <1>2, <1>3, <1>4, <1>5, <2>3, NamesAreKept
<1> HIDE DEF n
<1>6. CASE e \in Publications
  <2>1. Shrinks(n, Collect(n)) /\ AllAreNamed(Collect(n))
    BY <1>4, CollectNames DEF Shrinks
  <2> QED BY <1>2, <1>3, <1>4, <1>6, <2>1, ShrinksFurther
<1> QED BY <1>1, <1>5, <1>6

\* What a subtask may make of them: proposals are added, and rows that a publication's
\* proposal refers to; nothing goes, and no classification is lost.
Grows(d, n) ==
    /\ IsSound(n)
    /\ n.links = d.links /\ d.proposals \subseteq n.proposals
    /\ \A e \in Entities : IsLive(d, e) => n.mark[e] = d.mark[e]
    /\ \A p \in Publications : IsLive(n, p) => IsLive(d, p)
    /\ \A a \in Parents : d.kind[a] # Unclassified => n.kind[a] # Unclassified
    /\ \A x \in People : IsLive(n, x) /\ ~IsLive(d, x) => \E p \in Publications : Refers(n, p, x)

(* Everyone who was named still is. *)
LEMMA GrowingNames ==
    ASSUME NEW d, NEW n, Grows(d, n), AllAreNamed(d)
    PROVE  AllAreNamed(n)
<1> SUFFICES ASSUME NEW x \in People, IsLive(n, x)
             PROVE  \E p \in Publications : Refers(n, p, x)
  BY DEF AllAreNamed
<1>1. \A p : Refers(d, p, x) => Refers(n, p, x)
  BY DEF Grows, Refers
<1> QED BY <1>1 DEF Grows, AllAreNamed

(* A proposal of what is there: one made again changes nothing. *)
LEMMA ProposingGrows ==
    ASSUME NEW d, IsSound(d), NEW e \in Entities, IsLive(d, e),
           NEW x \in Works \union People \union Authors \union {Value},
           x \in People => e \in Publications /\ IsLive(d, x)
    PROVE  /\ Grows(d, Propose(d, e, x))
           /\ <<e, x>> \in Propose(d, e, x).proposals
           /\ \A y \in Entities : Propose(d, e, x).mark[y] = d.mark[y]
           /\ <<e, x>> \in d.proposals => Propose(d, e, x) = d
<1> DEFINE n == Propose(d, e, x)
           proposals == d.proposals \union {<<e, x>>}
<1>1. d \in Tables
  BY DEF IsSound
<1>2. n = [d EXCEPT !.proposals = proposals]
  BY <1>1 DEF Propose, Tables
<1>3. proposals \in SUBSET (Entities \X (Works \union People \union Authors \union {Value}))
  BY <1>1, TablesOf
<1>4. /\ \A f, y : <<f, y>> \in proposals <=> <<f, y>> \in d.proposals \/ (f = e /\ y = x)
      /\ d.proposals \subseteq proposals
      /\ <<e, x>> \in d.proposals => proposals = d.proposals
  OBVIOUS
<1> HIDE DEF n, proposals
<1>5. n = [mark |-> d.mark, kind |-> d.kind, links |-> d.links, proposals |-> proposals]
  BY <1>1, <1>2 DEF Tables
<1>6. n \in Tables
  BY <1>1, <1>3, <1>5, TablesOf DEF Tables
<1>7. /\ n.mark = d.mark /\ n.kind = d.kind /\ n.links = d.links /\ n.proposals = proposals
      /\ \A f : IsLive(n, f) <=> IsLive(d, f)
  BY <1>5 DEF IsLive
<1>8. \A f, y : Refers(n, f, y) <=> Refers(d, f, y) \/ (f = e /\ y = x)
  BY <1>4, <1>7 DEF Refers
<1>9. IsSound(n)
  <2>1. \A w \in Works : ~IsLive(n, w)
    BY <1>7 DEF IsSound
  <2> QED BY <1>6, <1>7, <1>8, <2>1, Referring, SoundIfReferring
<1>10. Grows(d, n)
  BY <1>4, <1>7, <1>9 DEF Grows
<1>11. proposals = d.proposals => n = d
  BY <1>1, <1>5, TablesOf
<1>12. <<e, x>> \in n.proposals
  BY <1>4, <1>7
<1> QED BY <1>4, <1>7, <1>10, <1>11, <1>12 DEF n

(* A publication classified; its contents inherit that. *)
LEMMA ClassifyingGrows ==
    ASSUME NEW d, IsSound(d), NEW p \in Publications
    PROVE  LET n == Inherit([d EXCEPT !.kind[p] = Guess], p, Guess) IN
           /\ Grows(d, n) /\ n.kind[p] # Unclassified
           /\ \A e : IsLive(n, e) <=> IsLive(d, e)
<1> DEFINE m == [d EXCEPT !.kind[p] = Guess]
           n == Inherit(m, p, Guess)
           set == [d.kind EXCEPT ![p] = Guess]
           kind == [a \in Parents |->
                      IF a \in ContentsOf(m, p) /\ m.kind[a] = Unclassified THEN Guess
                      ELSE m.kind[a]]
<1>1. d \in Tables /\ Guess \in Kinds /\ Guess # Unclassified
  BY IdsAreDistinct, IdsAreOrdered DEF IsSound
<1>2. m = [mark |-> d.mark, kind |-> set, links |-> d.links, proposals |-> d.proposals]
  BY <1>1 DEF Tables
<1>3. /\ set \in [Parents -> Kinds \union {Unclassified}] /\ set[p] = Guess
      /\ \A a \in Parents : a # p => set[a] = d.kind[a]
  BY <1>1, TablesOf, Ids
<1> HIDE DEF set
<1>4. n = [m EXCEPT !.kind = kind]
  BY <1>1 DEF Inherit
<1>5. m.kind = set
  BY <1>2
<1>6. /\ kind \in [Parents -> Kinds \union {Unclassified}]
      /\ \A a \in Parents : set[a] # Unclassified => kind[a] # Unclassified
      /\ kind[p] # Unclassified
  BY <1>1, <1>3, <1>5, Ids
<1> HIDE DEF kind, n, m
<1>7. n = [mark |-> d.mark, kind |-> kind, links |-> d.links, proposals |-> d.proposals]
  BY <1>2, <1>4
<1>8. n \in Tables
  BY <1>1, <1>6, <1>7, TablesOf DEF Tables
<1>9. /\ n.mark = d.mark /\ n.kind = kind /\ n.links = d.links /\ n.proposals = d.proposals
      /\ \A e : IsLive(n, e) <=> IsLive(d, e)
      /\ \A e, x : Refers(n, e, x) <=> Refers(d, e, x)
  BY <1>7 DEF IsLive, Refers
<1>10. IsSound(n)
  <2>1. \A w \in Works : ~IsLive(n, w)
    BY <1>9 DEF IsSound
  <2> QED BY <1>8, <1>9, <2>1, Referring, SoundIfReferring
<1>11. \A a \in Parents : d.kind[a] # Unclassified => n.kind[a] # Unclassified
  BY <1>1, <1>3, <1>6, <1>9
<1>12. Grows(d, n)
  BY <1>9, <1>10, <1>11 DEF Grows
<1> QED BY <1>6, <1>9, <1>12 DEF n, m

(* A new person proposed. *)
LEMMA InsertingGrows ==
    ASSUME NEW d, IsSound(d), NEW p \in Publications, IsLive(d, p), NEW x \in People, ~IsLive(d, x)
    PROVE  LET n == Propose(Insert(d, x, "draft"), p, x) IN
           /\ Grows(d, n) /\ IsLive(n, x) /\ <<p, x>> \in n.proposals
           /\ \A y \in Entities : y # x => n.mark[y] = d.mark[y]
<1> DEFINE m == Insert(d, x, "draft")
           n == Propose(m, p, x)
           mark == [d.mark EXCEPT ![x] = "draft"]
<1>1. d \in Tables
  BY DEF IsSound
<1>2. m = [mark |-> mark, kind |-> d.kind, links |-> d.links, proposals |-> d.proposals]
  BY <1>1 DEF Insert, Tables
<1>3. /\ mark \in [Entities -> Marks] /\ mark[x] = "draft"
      /\ \A y \in Entities : y # x => mark[y] = d.mark[y]
  BY <1>1, TablesOf, Ids DEF Marks
<1> HIDE DEF mark, m
<1>4. m \in Tables
  BY <1>1, <1>2, <1>3, TablesOf DEF Tables
<1>5. /\ m.mark = mark /\ m.kind = d.kind /\ m.links = d.links /\ m.proposals = d.proposals
      /\ \A e \in Entities : IsLive(m, e) <=> IsLive(d, e) \/ e = x
      /\ \A e, y : Refers(m, e, y) <=> Refers(d, e, y)
  BY <1>2, <1>3 DEF IsLive, Refers
<1>6. IsSound(m)
  <2>1. \A w \in Works : ~IsLive(m, w)
    BY <1>5, Ids DEF IsSound
  <2>2. ASSUME NEW e, NEW y, Refers(m, e, y)
        PROVE  IsLive(m, e) /\ (y \in People => e \in Publications /\ IsLive(m, y))
    BY <1>5, <2>2, Referring, Ids
  <2> QED BY <1>4, <2>1, <2>2, SoundIfReferring
<1>7. IsLive(m, p) /\ IsLive(m, x) /\ p \in Entities /\ x \in Entities /\ p # x
  BY <1>5, Ids
<1>8. /\ Grows(m, n) /\ <<p, x>> \in n.proposals
      /\ \A y \in Entities : n.mark[y] = m.mark[y]
  BY <1>6, <1>7, ProposingGrows
<1> HIDE DEF n
<1>9. IsLive(n, x) /\ \A y \in Entities : y # x => n.mark[y] = d.mark[y]
  BY <1>3, <1>5, <1>7, <1>8 DEF IsLive
<1>10. Grows(d, n)
  <2>1. n.links = d.links /\ d.proposals \subseteq n.proposals /\ IsSound(n)
    BY <1>5, <1>8 DEF Grows
  <2>2. \A e \in Entities : IsLive(d, e) => n.mark[e] = d.mark[e]
    BY <1>9
  <2>3. \A q \in Publications : IsLive(n, q) => IsLive(d, q)
    BY <1>9, Ids DEF IsLive
  <2>4. \A a \in Parents : d.kind[a] # Unclassified => n.kind[a] # Unclassified
    BY <1>5, <1>8 DEF Grows
  <2>5. ASSUME NEW y \in People, IsLive(n, y), ~IsLive(d, y)
        PROVE  \E q \in Publications : Refers(n, q, y)
    <3>1. y = x
      BY <1>9, <2>5, Ids DEF IsLive
    <3> QED BY <1>8, <3>1 DEF Refers
  <2> QED BY <2>1, <2>2, <2>3, <2>4, <2>5 DEF Grows
<1> QED BY <1>8, <1>9, <1>10 DEF n, m

-----------------------------------------------------------------------------
(***************************************************************************)
(* Users                                                                   *)
(***************************************************************************)

(* What a session knows outlasts what others write. *)
LEMMA ReviewsStay ==
    ASSUME NEW d, IsSound(d), NEW n, Shrinks(d, n), NEW v, IsReview(v, d)
    PROVE  IsReview(v, n)
<1> SUFFICES ASSUME v.step = "applied", v.about \in People
             PROVE  <<v.of, v.about>> \in n.links \/ ~IsLive(n, v.of) \/ ~IsLive(n, v.about)
  BY DEF IsReview
<1>1. v.of \in Entities /\ v.about \in Entities
  BY Ids DEF IsReview
<1>2. CASE <<v.of, v.about>> \in d.links
  <2> DEFINE l == <<v.of, v.about>>
  <2>1. l[1] = v.of /\ l[2] = v.about
    OBVIOUS
  <2> QED BY <1>2, <2>1 DEF Shrinks
<1>3. CASE ~IsLive(d, v.of) \/ ~IsLive(d, v.about)
  BY <1>1, <1>3 DEF Shrinks
<1> QED BY <1>2, <1>3 DEF IsReview

(* A user's write leaves sound tables, and nothing that a subtask would know. *)
LEMMA UserWritesKeep ==
    ASSUME EnrichInv, NEW d, NEW h \in SUBSET (Entities \X (Works \union Authors \union {Value})),
           NEW reviews, UserWrites(d, h, reviews), Shrinks(db, d), AllAreNamed(d),
           \A r \in Reviewers : IsReview(reviews[r], d)
    PROVE  EnrichInv'
<1>1. /\ db' = d /\ held' = {v \in h : IsLive(d, v[1])}
      /\ name' = name /\ run' = run /\ registry' = registry
  BY DEF UserWrites, Write
<1>2. \A s \in Subtasks :
        sub'[s] = IF sub[s].step = "finished" THEN Ended ELSE [sub[s] EXCEPT !.hist = "dirty"]
  BY DEF UserWrites
<1>3. sub' = [s \in Subtasks |-> sub'[s]]
  BY DEF UserWrites
<1>4. ASSUME NEW s \in Subtasks
      PROVE  /\ sub'[s] \in SubtaskStates
             /\ sub'[s].hist = "dirty" /\ sub'[s].step # "finished"
             /\ sub'[s].step \notin {"none", "ended"} =>
                    /\ sub'[s].step = sub[s].step /\ sub'[s].spare = sub[s].spare
                    /\ sub'[s].person = sub[s].person
             /\ sub[s].step = "none" => sub'[s].step = "none"
  BY <1>2 DEF EnrichInv, TypeInv, SubtaskStates, Ended, NotStarted
<1>5. TypeInv'
  <2>1. held' \subseteq Entities \X (Works \union Authors \union {Value})
    BY <1>1
  <2> QED BY <1>1, <1>3, <1>4, <2>1 DEF EnrichInv, TypeInv
<1>6. RowsInv'
  <2>1. \A x \in People : IsLive(d, x) => name[x] # NoName
    BY Ids DEF EnrichInv, RowsInv, Shrinks
  <2> QED BY <1>1, <2>1 DEF RowsInv, Shrinks
<1>7. ReviewInv'
  <2>1. review' = [r \in Reviewers |->
                    [reviews[r] EXCEPT
                       !.there = @ /\ <<reviews[r].of, reviews[r].about>> \in d.proposals]]
    BY DEF UserWrites, Write
  <2>2. ASSUME NEW r \in Reviewers
        PROVE  /\ review'[r] \in Reviews
               /\ review'[r].step = reviews[r].step /\ review'[r].of = reviews[r].of
               /\ review'[r].about = reviews[r].about
    <3>1. reviews[r] \in Reviews
      BY DEF IsReview
    <3> DEFINE v == [reviews[r] EXCEPT
                       !.there = @ /\ <<reviews[r].of, reviews[r].about>> \in d.proposals]
    <3>2. v \in Reviews /\ v.step = reviews[r].step /\ v.of = reviews[r].of
          /\ v.about = reviews[r].about
      BY <3>1 DEF Reviews
    <3> QED BY <2>1, <3>2
  <2>3. review' = [r \in Reviewers |-> review'[r]]
    BY <2>1
  <2>4. ASSUME NEW r \in Reviewers
        PROVE  IsReview(review[r], db)'
    BY <1>1, <2>2 DEF IsReview
  <2> QED BY <1>1, <2>3, <2>4 DEF ReviewInv
<1>8. SpareInv'
  BY <1>1, <1>4 DEF EnrichInv, SpareInv, Writing
<1>9. ASSUME NEW s \in Subtasks
      PROVE  IsSubtask(s)'
  BY <1>1, <1>4 DEF EnrichInv, IsSubtask
<1> QED BY <1>5, <1>6, <1>7, <1>8, <1>9 DEF EnrichInv

-----------------------------------------------------------------------------
(***************************************************************************)
(* Everything else                                                         *)
(***************************************************************************)

\* What every other step does to the rows, if anything
Growing ==
    /\ Grows(db, db') /\ held' = held
    /\ \A x \in People : name[x] # NoName => name'[x] = name[x]
    /\ \A x \in People : IsLive(db', x) /\ ~IsLive(db, x) => name[x] = NoName /\ name'[x] # NoName

(* It may do nothing to them. *)
LEMMA NothingGrows ==
    ASSUME IsSound(db), UNCHANGED <<db, name, held>>
    PROVE  Growing
BY DEF Growing, Grows

(* Who was there is, as they were. *)
LEMMA GrowingLeaves ==
    ASSUME Growing
    PROVE  /\ \A e \in Entities : IsLive(db, e) =>
                /\ IsLive(db', e) /\ db'.mark[e] = db.mark[e]
                /\ IsDraft(db', e) <=> IsDraft(db, e)
                /\ IsCommitted(db', e) <=> IsCommitted(db, e)
           /\ \A p \in Publications : IsLive(db', p) <=> IsLive(db, p)
           /\ \A e, x : Refers(db, e, x) => Refers(db', e, x)
           /\ \A e, x : <<e, x>> \in db.proposals => <<e, x>> \in db'.proposals
BY Ids DEF Growing, Grows, IsLive, IsDraft, IsCommitted, Refers

(* No one new has a record, so whom an author's record finds stays so, and whom a name
   finds it still does. *)
LEMMA MatchesStay ==
    ASSUME RowsInv, Growing, NEW a
    PROVE  /\ FindByRecord(a)' = FindByRecord(a)
           /\ FindByName(a) \subseteq FindByName(a)'
           /\ \A x : IsMatch(x, a) => IsMatch(x, a)'
<1>1. \A x \in People : IsLive(db, x) => IsLive(db', x) /\ name'[x] = name[x]
  BY GrowingLeaves, Ids DEF RowsInv, Growing
<1>2. \A x \in People : <<x, a>> \in held => IsLive(db, x)
  <2>1. \A x : <<x, a>> \in held => IsLive(db, <<x, a>>[1])
    BY DEF RowsInv
  <2> QED BY <2>1
<1>3. held' = held
  BY DEF Growing
<1>4. FindByRecord(a)' = FindByRecord(a)
  BY <1>1, <1>2, <1>3 DEF FindByRecord, Live
<1>5. FindByName(a) \subseteq FindByName(a)'
  BY <1>1, <1>3 DEF FindByName, Live
<1>6. ASSUME NEW x, IsBest(x, FindByRecord(a))
      PROVE  IsBest(x, FindByRecord(a))'
  <2>1. \A y \in FindByRecord(a) : y \in Entities /\ IsLive(db, y)
    BY Ids DEF FindByRecord, Live
  <2>2. \A y \in FindByRecord(a) : /\ db'.mark[y] = db.mark[y]
                                   /\ IsDraft(db', y) <=> IsDraft(db, y)
                                   /\ IsCommitted(db', y) <=> IsCommitted(db, y)
    BY <2>1, GrowingLeaves
  <2> QED BY <1>4, <1>6, <2>2 DEF IsBest
<1>7. ASSUME NEW x, IsMatch(x, a)
      PROVE  IsMatch(x, a)'
  BY <1>4, <1>5, <1>6, <1>7 DEF IsMatch
<1> QED BY <1>4, <1>5, <1>7

(* So what a subtask has done stays done, ... *)
LEMMA DoneStays ==
    ASSUME RowsInv, Growing, NEW p \in Publications, NEW t
    PROVE  /\ HasFields(p) => HasFields(p)'
           /\ \A x : IsNamed(p, x) => IsNamed(p, x)'
           /\ IsDone(p, t) => IsDone(p, t)'
<1>1. HasFields(p) => HasFields(p)'
  BY GrowingLeaves DEF HasFields, Growing
<1>2. \A x : IsNamed(p, x) => IsNamed(p, x)'
  BY GrowingLeaves DEF IsNamed
<1>3. ASSUME t \in Authors, IsDone(p, t), IsLive(db', p)
      PROVE  \E x \in Live(People)' : IsMatch(x, t)' /\ IsNamed(p, x)' /\ HasRecord(x, t)'
  <2>1. IsLive(db, p)
    BY <1>3, GrowingLeaves
  <2>2. PICK x \in Live(People) : IsMatch(x, t) /\ IsNamed(p, x) /\ HasRecord(x, t)
    BY <1>3, <2>1 DEF IsDone
  <2>3. x \in Live(People)'
    BY GrowingLeaves, Ids DEF Live
  <2>4. HasRecord(x, t)'
    BY <2>2, GrowingLeaves DEF HasRecord, Growing
  <2> QED BY <1>2, <2>2, <2>3, <2>4, MatchesStay
<1>4. ASSUME t \notin Authors, IsDone(p, t)
      PROVE  IsDone(p, t)'
  <2>1. IsLive(db', p) => db'.kind[p] # Unclassified
    BY <1>4, GrowingLeaves, Ids DEF IsDone, Growing, Grows
  <2> QED BY <1>1, <1>4, <2>1 DEF IsDone
<1> QED BY <1>1, <1>2, <1>3, <1>4 DEF IsDone

(* ... and what the others know stays true. *)
LEMMA SubtaskStays ==
    ASSUME TypeInv, RowsInv, Growing, NEW s \in Subtasks, IsSubtask(s),
           run'[s[1]].root = run[s[1]].root,
           sub'[s].step = sub[s].step, sub'[s].person = sub[s].person, sub'[s].hist = sub[s].hist
    PROVE  IsSubtask(s)'
<1> SUFFICES ASSUME sub[s].hist # "dirty"
             PROVE  Knows(s)'
  BY DEF IsSubtask
<1>1. PICK p, a, x : p = RootOf(s) /\ a = s[2] /\ x = sub[s].person
  OBVIOUS
<1>2. RootOf(s)' = p /\ sub'[s].person = x
  BY <1>1 DEF RootOf
<1>3. p \in Publications
  <2>1. s[1] \in Runs
    BY DEF Subtasks
  <2>2. run[s[1]].root # NoRoot
    BY DEF IsSubtask
  <2> QED BY <1>1, <2>1, <2>2 DEF TypeInv, RunStates, RootOf
<1>4. Knows(s)
  BY DEF IsSubtask
<1>5. /\ HasFields(p) => HasFields(p)'
      /\ IsNamed(p, x) => IsNamed(p, x)'
      /\ IsDone(p, a) => IsDone(p, a)'
      /\ IsLive(db', p) <=> IsLive(db, p)
      /\ FindByRecord(a)' = FindByRecord(a)
      /\ IsMatch(x, a) => IsMatch(x, a)'
  BY <1>3, DoneStays, MatchesStay, GrowingLeaves
<1>6. x # NoPerson => x \in Entities
  <2>1. x \in People \union {NoPerson}
    BY <1>1 DEF TypeInv, SubtaskStates
  <2> QED BY <2>1, Ids
<1>7. x # NoPerson /\ IsLive(db, x) => IsLive(db', x)
  BY <1>6, GrowingLeaves
<1> QED BY <1>1, <1>2, <1>4, <1>5, <1>7 DEF Knows, KnowsThat

(* The rest of the invariant. *)
LEMMA GrowingKeeps ==
    ASSUME EnrichInv, Growing, TypeInv', SpareInv', \A s \in Subtasks : IsSubtask(s)',
           review' = [r \in Reviewers |-> review'[r]],
           \A r \in Reviewers : IsReview(review'[r], db)
    PROVE  EnrichInv'
<1>1. RowsInv'
  <2>1. IsSound(db') /\ AllAreNamed(db')
    BY GrowingNames DEF EnrichInv, RowsInv, Growing, Grows
  <2>2. \A v \in held' : IsLive(db', v[1])
    <3>1. \A v \in held : v[1] \in Entities
      BY DEF EnrichInv, TypeInv
    <3> QED BY <3>1, GrowingLeaves DEF EnrichInv, RowsInv, Growing
  <2>3. \A x \in People : IsLive(db', x) => name'[x] # NoName
    BY DEF EnrichInv, RowsInv, Growing
  <2> QED BY <2>1, <2>2, <2>3 DEF RowsInv
<1>2. ReviewInv'
  <2> SUFFICES ASSUME NEW r \in Reviewers
               PROVE  IsReview(review[r], db)'
    BY DEF ReviewInv
  <2> DEFINE v == review'[r]
  <2>1. IsReview(v, db)
    OBVIOUS
  <2>2. v.step \in {"read", "applied"} /\ v.about \in People =>
            v.of \in Publications /\ name'[v.about] # NoName
    BY <2>1 DEF IsReview, Growing
  <2>3. v.step = "applied" /\ v.about \in People =>
            <<v.of, v.about>> \in db'.links \/ ~IsLive(db', v.of) \/ ~IsLive(db', v.about)
    BY <2>1 DEF IsReview, Growing, Grows
  <2> QED BY <2>1, <2>2, <2>3 DEF IsReview
<1> QED BY <1>1, <1>2 DEF EnrichInv

-----------------------------------------------------------------------------
(***************************************************************************)
(* What users do                                                           *)
(***************************************************************************)

(* A session that looks, or goes on, changes at most the registry beside. *)
LEMMA LookingKeeps ==
    ASSUME EnrichInv, UNCHANGED <<db, name, held, run, sub>>,
           registry' \in [Publications -> Runs \union {NoRun}],
           review' = [r \in Reviewers |-> review'[r]],
           \A r \in Reviewers : IsReview(review'[r], db)
    PROVE  EnrichInv'
<1>1. Growing
  BY NothingGrows DEF EnrichInv, RowsInv
<1>2. TypeInv' /\ SpareInv'
  BY DEF EnrichInv, TypeInv, SpareInv
<1>3. \A s \in Subtasks : IsSubtask(s)'
  BY <1>1, SubtaskStays DEF EnrichInv
<1> QED BY <1>1, <1>2, <1>3, GrowingKeeps

(* A run that is cancelled. *)
LEMMA CancellingKeeps ==
    ASSUME EnrichInv, NEW n \in Runs, Cancels(n), UNCHANGED <<db, name, held, registry>>,
           review' = [r \in Reviewers |-> review'[r]],
           \A r \in Reviewers : IsReview(review'[r], db)
    PROVE  EnrichInv'
<1>1. Growing
  BY NothingGrows DEF EnrichInv, RowsInv
<1>2. /\ run' = [run EXCEPT ![n].cancelled = TRUE]
      /\ run \in [Runs -> RunStates]
  BY DEF Cancels, EnrichInv, TypeInv
<1>3. /\ run' \in [Runs -> RunStates]
      /\ \A m \in Runs : run'[m].root = run[m].root
      /\ \A m \in Runs : m # n => run'[m].cancelled = run[m].cancelled
  BY <1>2 DEF RunStates
<1>4. sub' = [s \in Subtasks |-> IF s[1] = n /\ sub[s].step \in Writing
                                 THEN [sub[s] EXCEPT !.spare = TRUE] ELSE sub[s]]
  BY DEF Cancels, Cancelled
<1>5. ASSUME NEW s \in Subtasks
      PROVE  /\ sub'[s] \in SubtaskStates
             /\ sub'[s].step = sub[s].step /\ sub'[s].person = sub[s].person
             /\ sub'[s].hist = sub[s].hist
             /\ sub[s].spare => sub'[s].spare
             /\ s[1] = n /\ sub[s].step \in Writing => sub'[s].spare
             /\ s[1] \in Runs
  BY <1>4 DEF EnrichInv, TypeInv, SubtaskStates, Subtasks
<1>6. TypeInv'
  BY <1>3, <1>4, <1>5 DEF EnrichInv, TypeInv
<1>7. SpareInv'
  BY <1>3, <1>5 DEF EnrichInv, SpareInv
<1>8. \A s \in Subtasks : IsSubtask(s)'
  BY <1>1, <1>3, <1>5, SubtaskStays DEF EnrichInv
<1> QED BY <1>1, <1>6, <1>7, <1>8, GrowingKeeps

(* What sessions may go on to know. *)
LEMMA ReviewsToCome ==
    ASSUME NEW d
    PROVE  /\ IsReview(NotReviewing, d)
           /\ \A step \in {"reloading", "deleting", "rejecting", "checking", "forgetting", "cancelling",
                   "listing"}, e \in Publications :
                IsReview([NotReviewing EXCEPT !.step = step, !.of = e], d)
BY Ids DEF IsReview, Reviews, ReviewSteps, NotReviewing

(* One session goes on, the others stay where they are. *)
LEMMA OneGoesOn ==
    ASSUME EnrichInv, NEW d, Shrinks(db, d), NEW r \in Reviewers, NEW v, IsReview(v, d),
           NEW reviews, reviews = [review EXCEPT ![r] = v]
    PROVE  /\ reviews = [q \in Reviewers |-> reviews[q]]
           /\ \A q \in Reviewers : IsReview(reviews[q], d)
<1>1. /\ reviews[r] = v
      /\ reviews = [q \in Reviewers |-> reviews[q]]
      /\ \A q \in Reviewers : q # r => reviews[q] = review[q]
  BY DEF EnrichInv, ReviewInv
<1>2. \A q \in Reviewers : IsReview(review[q], d)
  BY ReviewsStay DEF EnrichInv, RowsInv, ReviewInv
<1> QED BY <1>1, <1>2

(* In what a session does next it is where it looks after a publication, or idle. *)
LEMMA ReviewsAfter ==
    ASSUME EnrichInv, NEW d, Shrinks(db, d), NEW r \in Reviewers, NEW e \in Entities,
           NEW step \in {"reloading", "deleting", "rejecting", "checking", "forgetting", "cancelling",
                   "listing"}
    PROVE  /\ Idle(r) = [q \in Reviewers |-> Idle(r)[q]]
           /\ \A q \in Reviewers : IsReview(Idle(r)[q], d)
           /\ e \in Publications =>
                /\ At(r, step, e) = [q \in Reviewers |-> At(r, step, e)[q]]
                /\ \A q \in Reviewers : IsReview(At(r, step, e)[q], d)
           /\ \A q \in Reviewers : IsReview(Then(r, step, e)[q], d)
<1>1. /\ Idle(r) = [q \in Reviewers |-> Idle(r)[q]]
      /\ \A q \in Reviewers : IsReview(Idle(r)[q], d)
  BY ReviewsToCome, OneGoesOn DEF Idle
<1>2. ASSUME e \in Publications
      PROVE  /\ At(r, step, e) = [q \in Reviewers |-> At(r, step, e)[q]]
             /\ \A q \in Reviewers : IsReview(At(r, step, e)[q], d)
  <2> DEFINE v == [NotReviewing EXCEPT !.step = step, !.of = e]
  <2>1. IsReview(v, d)
    BY <1>2, ReviewsToCome
  <2>2. At(r, step, e) = [review EXCEPT ![r] = v]
    BY DEF At
  <2> HIDE DEF v
  <2> QED BY <2>1, <2>2, OneGoesOn
<1> QED BY <1>1, <1>2 DEF Then

(* Nothing is written. *)
LEMMA NothingShrinks ==
    ASSUME EnrichInv
    PROVE  Shrinks(db, db) /\ AllAreNamed(db) /\ IsSound(db)
BY DEF EnrichInv, RowsInv, Shrinks

(* A transaction of a session that then looks after the registry. *)
LEMMA WritingKeeps ==
    ASSUME EnrichInv, NEW r \in Reviewers, NEW e \in Entities, IsLive(db, e),
           NEW step \in {"reloading", "deleting", "rejecting", "checking", "forgetting", "cancelling",
                   "listing"},
           NEW d, d = Delete(db, e) \/ d = Commit(db, e)
                    \/ \E S : d = Reject(db, e, S) /\ \A p \in S : p[1] = e,
           UserWrites(d, held, Then(r, step, e))
    PROVE  EnrichInv'
<1>1. Shrinks(db, d) /\ AllAreNamed(d)
  BY NothingShrinks, DeletingShrinks, CommitShrinks, RejectingShrinks
<1>2. held \in SUBSET (Entities \X (Works \union Authors \union {Value}))
  BY DEF EnrichInv, TypeInv
<1>3. \A q \in Reviewers : IsReview(Then(r, step, e)[q], d)
  BY <1>1, ReviewsAfter
<1> QED BY <1>1, <1>2, <1>3, UserWritesKeep

(* What a session sets about. *)
LEMMA BeginningKeeps ==
    ASSUME EnrichInv, NEW r \in Reviewers, Begins(r)
    PROVE  EnrichInv'
<1> USE DEF mine
<1>1. CASE ReadProposal(r) /\ UNCHANGED mine
  <2>1. PICK p \in db.proposals :
          review' = [review EXCEPT ![r] =
                       [step |-> "read", of |-> p[1], about |-> p[2], there |-> TRUE]]
    BY <1>1 DEF ReadProposal
  <2>2. PICK v : v = [step |-> "read", of |-> p[1], about |-> p[2], there |-> TRUE]
    OBVIOUS
  <2>3. p = <<p[1], p[2]>> /\ Refers(db, p[1], p[2])
    BY NothingShrinks, TablesOf DEF IsSound, Refers
  <2>4. /\ p[1] \in Entities /\ p[2] \in Works \union People \union Authors \union {Value}
        /\ p[2] \in People => p[1] \in Publications /\ name[p[2]] # NoName
    BY <2>3, NothingShrinks, Referring DEF EnrichInv, RowsInv
  <2>5. IsReview(v, db) /\ review' = [review EXCEPT ![r] = v]
    BY <2>1, <2>2, <2>4 DEF IsReview, Reviews, ReviewSteps
  <2>6. /\ review' = [q \in Reviewers |-> review'[q]]
        /\ \A q \in Reviewers : IsReview(review'[q], db)
    <3>1. review' = [q \in Reviewers |-> review'[q]]
      BY <2>5 DEF EnrichInv, ReviewInv
    <3>2. \A q \in Reviewers : IsReview(review'[q], db)
      BY <2>5, NothingShrinks, OneGoesOn
    <3> QED BY <3>1, <3>2
  <2> QED BY <1>1, <2>6, LookingKeeps DEF ReadProposal, EnrichInv, TypeInv
<1>2. CASE RejectsOne(r)
  <2>1. PICK p \in db.proposals :
          UserWrites(Reject(db, p[1], {p}), held, Then(r, "checking", p[1]))
    BY <1>2 DEF RejectsOne
  <2>2. p[1] \in Entities /\ IsLive(db, p[1])
    BY NothingShrinks, TablesOf DEF IsSound
  <2>3. \E S : Reject(db, p[1], {p}) = Reject(db, p[1], S) /\ \A q \in S : q[1] = p[1]
    OBVIOUS
  <2> QED BY <2>1, <2>2, <2>3, WritingKeeps
<1>3. CASE RejectsOrDeletes(r)
  <2>1. PICK e \in Entities : IsLive(db, e) /\ (RejectsEvery(r, e) \/ DeletesOne(r, e))
    BY <1>3 DEF RejectsOrDeletes, Live
  <2>2. \E S : Reject(db, e, ProposalsOf(db, e)) = Reject(db, e, S) /\ \A q \in S : q[1] = e
    <3>1. \A q \in ProposalsOf(db, e) : q[1] = e
      BY DEF ProposalsOf
    <3> QED BY <3>1
  <2> QED BY <2>1, <2>2, WritingKeeps DEF RejectsEvery, DeletesOne
<1>4. CASE CommitsOne(r)
  <2>1. PICK e \in Entities : IsLive(db, e) /\ UserWrites(Commit(db, e), held, Then(r, "forgetting", e))
    BY <1>4 DEF CommitsOne, Live
  <2> QED BY <2>1, WritingKeeps
<1>5. CASE DiscardsItem(r)
  <2>1. ASSUME NEW n \in Runs, run[n].root # NoRoot, Cancels(n),
               review' = At(r, "reloading", run[n].root)
        PROVE  EnrichInv'
    <3>1. PICK p : p = run[n].root
      OBVIOUS
    <3>2. p \in Publications /\ p \in Entities
      BY <2>1, <3>1, Ids DEF EnrichInv, TypeInv, RunStates
    <3>3. /\ review' = [q \in Reviewers |-> review'[q]]
          /\ \A q \in Reviewers : IsReview(review'[q], db)
      BY <2>1, <3>1, <3>2, NothingShrinks, ReviewsAfter
    <3> QED BY <1>5, <2>1, <3>3, CancellingKeeps DEF DiscardsItem
  <2>2. ASSUME NEW p \in Publications, review' = At(r, "reloading", p), UNCHANGED <<run, sub>>
        PROVE  EnrichInv'
    <3>1. /\ review' = [q \in Reviewers |-> review'[q]]
          /\ \A q \in Reviewers : IsReview(review'[q], db)
      BY <2>2, NothingShrinks, ReviewsAfter, Ids
    <3> QED BY <1>5, <2>2, <3>1, LookingKeeps DEF DiscardsItem, EnrichInv, TypeInv
  <2> QED BY <1>5, <2>1, <2>2 DEF DiscardsItem
<1>6. CASE DeletesLibrary(r)
  <2> DEFINE d == Remove(db, Entities)
  <2>1. UserWrites(d, held, review)
    BY <1>6 DEF DeletesLibrary
  <2>2. Shrinks(db, d) /\ \A e \in Entities : ~IsLive(d, e)
    BY NothingShrinks, RemoveShrinks
  <2> HIDE DEF d
  <2>3. AllAreNamed(d)
    BY <2>2, Ids DEF AllAreNamed
  <2>4. \A q \in Reviewers : IsReview(review[q], d)
    BY <2>2, NothingShrinks, ReviewsStay DEF EnrichInv, ReviewInv
  <2>5. held \in SUBSET (Entities \X (Works \union Authors \union {Value}))
    BY DEF EnrichInv, TypeInv
  <2> QED BY <2>1, <2>2, <2>3, <2>4, <2>5, UserWritesKeep
<1>7. CASE ListsRows(r)
  <2>1. PICK p \in Publications : review' = At(r, "listing", p)
    BY <1>7 DEF ListsRows
  <2>2. /\ review' = [q \in Reviewers |-> review'[q]]
        /\ \A q \in Reviewers : IsReview(review'[q], db)
    BY <2>1, NothingShrinks, ReviewsAfter, Ids
  <2> QED BY <1>7, <2>2, LookingKeeps DEF ListsRows, EnrichInv, TypeInv
<1> QED BY <1>1, <1>2, <1>3, <1>4, <1>5, <1>6, <1>7 DEF Begins

(* What it goes on with. *)
LEMMA ContinuingKeeps ==
    ASSUME EnrichInv, NEW r \in Reviewers, Continues(r)
    PROVE  EnrichInv'
<1> USE DEF mine
<1> DEFINE v == review[r]
           applied == [review EXCEPT ![r].step = "applied"]
<1>1. /\ IsReview(v, db) /\ registry \in [Publications -> Runs \union {NoRun}]
      /\ held \in SUBSET (Entities \X (Works \union Authors \union {Value}))
  BY DEF EnrichInv, ReviewInv, TypeInv
<1>2. /\ Idle(r) = [q \in Reviewers |-> Idle(r)[q]]
      /\ \A q \in Reviewers : IsReview(Idle(r)[q], db)
  <2>1. IsReview(NotReviewing, db)
    BY ReviewsToCome
  <2> QED BY <2>1, NothingShrinks, OneGoesOn DEF Idle
<1>3. ASSUME review' = Idle(r), UNCHANGED <<db, name, held, run, sub>>,
             registry' \in [Publications -> Runs \union {NoRun}]
      PROVE  EnrichInv'
  BY <1>2, <1>3, LookingKeeps
<1>4. ASSUME NEW p \in Publications,
             NEW step \in {"reloading", "deleting", "rejecting", "checking", "forgetting", "cancelling",
                   "listing"},
             review' = At(r, step, p), UNCHANGED <<db, name, held, run, sub, registry>>
      PROVE  EnrichInv'
  <2>1. /\ review' = [q \in Reviewers |-> review'[q]]
        /\ \A q \in Reviewers : IsReview(review'[q], db)
    BY <1>4, NothingShrinks, ReviewsAfter, Ids
  <2> QED BY <1>1, <1>4, <2>1, LookingKeeps
<1>5. CASE Accepts(r)
  <2>1. CASE /\ IsLive(db, v.of) /\ v.about \in Live(People)
             /\ UserWrites(AddContributor(db, v.of, v.about), held, applied)
    <3> DEFINE d == AddContributor(db, v.of, v.about)
               w == [v EXCEPT !.step = "applied"]
    <3>1. v.of \in Publications /\ v.about \in People /\ IsLive(db, v.about)
      BY <1>1, <1>5, <2>1 DEF Accepts, IsReview, Live
    <3>2. Shrinks(db, d) /\ AllAreNamed(d) /\ <<v.of, v.about>> \in d.links
      BY <2>1, <3>1, NothingShrinks, AddingShrinks
    <3> HIDE DEF d
    <3>3. IsReview(w, d)
      BY <1>1, <1>5, <3>1, <3>2 DEF IsReview, Accepts, Reviews, ReviewSteps
    <3>4. applied = [review EXCEPT ![r] = w]
      OBVIOUS
    <3> HIDE DEF w
    <3>5. \A q \in Reviewers : IsReview(applied[q], d)
      BY <3>2, <3>3, <3>4, OneGoesOn
    <3> QED BY <1>1, <2>1, <3>2, <3>5, UserWritesKeep DEF d
  <2>2. CASE /\ IsLive(db, v.of) /\ v.about \notin People
             /\ UserWrites(db, held \union {<<v.of, v.about>>}, applied)
    <3> DEFINE w == [v EXCEPT !.step = "applied"]
               h == held \union {<<v.of, v.about>>}
    <3>1. /\ v.of \in Entities /\ v.about \in Works \union Authors \union {Value}
      BY <1>1, <1>5, <2>2 DEF Accepts, IsReview, Reviews
    <3>2. h \in SUBSET (Entities \X (Works \union Authors \union {Value}))
      BY <1>1, <3>1
    <3>3. IsReview(w, db)
      BY <1>1, <1>5, <2>2, <3>1 DEF IsReview, Accepts, Reviews, ReviewSteps
    <3>4. applied = [review EXCEPT ![r] = w]
      OBVIOUS
    <3> HIDE DEF w
    <3>5. \A q \in Reviewers : IsReview(applied[q], db)
      BY <3>3, <3>4, NothingShrinks, OneGoesOn
    <3>6. UserWrites(db, h, applied)
      BY <2>2
    <3> HIDE DEF h
    <3> QED BY <3>2, <3>5, <3>6, NothingShrinks, UserWritesKeep
  <2>3. CASE review' = Idle(r) /\ UNCHANGED <<db, mine>>
    BY <1>1, <1>3, <2>3
  <2> QED BY <1>5, <2>1, <2>2, <2>3 DEF Accepts
<1>6. CASE Discards(r)
  <2> DEFINE d == IF v.there THEN Discard(db, v.of, v.about) ELSE db
             S == db.proposals \ {<<v.of, v.about>>}
  <2>1. v.step = "applied" /\ UserWrites(d, held, Then(r, "checking", v.of))
    BY <1>6 DEF Discards
  <2>2. d = db \/ d = [db EXCEPT !.proposals = S]
    <3>1. Discard(db, v.of, v.about) = [db EXCEPT !.proposals = S]
      BY NothingShrinks DEF Discard, IsSound, Tables
    <3> QED BY <3>1
  <2>3. \A p, x : <<p, x>> \in S <=> <<p, x>> \in db.proposals /\ ~(p = v.of /\ x = v.about)
    OBVIOUS
  <2>4. S \in SUBSET db.proposals
    OBVIOUS
  <2> HIDE DEF d, S
  <2>5. Shrinks(db, d) /\ AllAreNamed(d)
    <3>1. CASE d = db
      BY <3>1, NothingShrinks
    <3>2. CASE d = [db EXCEPT !.proposals = S]
      <4>1. /\ Shrinks(db, d) /\ d.mark = db.mark /\ d.links = db.links /\ d.proposals = S
        BY <2>4, <3>2, NothingShrinks, DroppingShrinks
      <4>2. KeepsNames(db, d)
        <5> SUFFICES ASSUME NEW p \in Publications, NEW x \in People, Refers(db, p, x)
                     PROVE  Refers(d, p, x)
          BY DEF KeepsNames
        <5>1. CASE p = v.of /\ x = v.about
          <6>1. IsLive(db, p) /\ IsLive(db, x)
            BY NothingShrinks, Referring
          <6>2. <<p, x>> \in db.links
            BY <1>1, <2>1, <5>1, <6>1 DEF IsReview
          <6> QED BY <4>1, <6>2 DEF Refers
        <5>2. CASE ~(p = v.of /\ x = v.about)
          BY <2>3, <4>1, <5>2 DEF Refers
        <5> QED BY <5>1, <5>2
      <4> QED BY <4>1, <4>2, NothingShrinks, NamesAreKept
    <3> QED BY <2>2, <3>1, <3>2
  <2>6. \A q \in Reviewers : IsReview(Then(r, "checking", v.of)[q], d)
    <3>1. v.of \in Entities
      BY <1>1, <2>1 DEF IsReview
    <3> QED BY <2>5, <3>1, ReviewsAfter
  <2> QED BY <1>1, <2>1, <2>5, <2>6, UserWritesKeep
<1>7. CASE Reloads(r)
  <2>1. v.of \in Publications /\ UNCHANGED <<db, name, held, run, sub, registry>>
    BY <1>1, <1>7 DEF Reloads, IsReview
  <2>2. review' = At(r, "deleting", v.of) \/ review' = At(r, "rejecting", v.of) \/ review' = Idle(r)
    BY <1>7 DEF Reloads
  <2> QED BY <1>1, <1>3, <1>4, <2>1, <2>2
<1>8. CASE ActsOnReloaded(r)
  <2>1. v.of \in Publications /\ v.of \in Entities
    BY <1>1, <1>8, Ids DEF ActsOnReloaded, IsReview
  <2>2. CASE review' = Idle(r) /\ UNCHANGED <<db, mine>>
    BY <1>1, <1>3, <2>2
  <2>3. CASE IsLive(db, v.of) /\ (DeletesOne(r, v.of) \/ RejectsEvery(r, v.of))
    <3>1. \E S : /\ Reject(db, v.of, ProposalsOf(db, v.of)) = Reject(db, v.of, S)
                 /\ \A q \in S : q[1] = v.of
      <4>1. \A q \in ProposalsOf(db, v.of) : q[1] = v.of
        BY DEF ProposalsOf
      <4> QED BY <4>1
    <3> QED BY <2>1, <2>3, <3>1, WritingKeeps DEF RejectsEvery, DeletesOne
  <2> QED BY <1>8, <2>2, <2>3 DEF ActsOnReloaded
<1>9. CASE ChecksQueue(r)
  <2>1. v.of \in Publications /\ UNCHANGED <<db, name, held, run, sub, registry>>
    BY <1>1, <1>9 DEF ChecksQueue, IsReview
  <2>2. review' = At(r, "forgetting", v.of) \/ review' = Idle(r)
    BY <1>9 DEF ChecksQueue
  <2> QED BY <1>1, <1>3, <1>4, <2>1, <2>2
<1>10. CASE Forgets(r)
  <2>1. registry' \in [Publications -> Runs \union {NoRun}]
    BY <1>1, <1>10 DEF Forgets
  <2> QED BY <1>3, <1>10, <2>1 DEF Forgets
<1>11. CASE CancelsPending(r)
  <2>1. review' = Idle(r) /\ UNCHANGED <<db, name, held>>
    BY <1>11 DEF CancelsPending
  <2>2. CASE UNCHANGED <<run, sub, registry>>
    BY <1>1, <1>3, <2>1, <2>2
  <2>3. CASE registry' = [registry EXCEPT ![v.of] = NoRun] /\ UNCHANGED <<run, sub>>
    BY <1>1, <1>3, <2>1, <2>3
  <2>4. CASE registry[v.of] # NoRun /\ Cancels(registry[v.of]) /\ UNCHANGED registry
    <3>1. v.of \in Publications
      BY <1>1, <1>11 DEF CancelsPending, IsReview
    <3>2. registry[v.of] \in Runs
      BY <1>1, <2>4, <3>1
    <3> QED BY <1>2, <2>1, <2>4, <3>2, CancellingKeeps
  <2> QED BY <1>11, <2>2, <2>3, <2>4 DEF CancelsPending
<1>12. CASE ListsRuns(r)
  <2>1. v.of \in Publications /\ UNCHANGED <<db, name, held, run, sub, registry>>
    BY <1>1, <1>12 DEF ListsRuns, IsReview
  <2>2. review' = At(r, "forgetting", v.of) \/ review' = Idle(r)
    BY <1>12 DEF ListsRuns
  <2> QED BY <1>1, <1>3, <1>4, <2>1, <2>2
<1> QED BY <1>5, <1>6, <1>7, <1>8, <1>9, <1>10, <1>11, <1>12 DEF Continues

-----------------------------------------------------------------------------
(***************************************************************************)
(* Runs that begin, and the process that ends                              *)
(***************************************************************************)

(* A subtask has nothing to write whose like has finished. *)
LEMMA StartingKeeps ==
    ASSUME EnrichInv, Growing, NEW t \in Subtasks, NEW p \in Publications, RootOf(t)' = p,
           sub'[t] = Started(t, p)
    PROVE  sub'[t] \in SubtaskStates /\ sub'[t].step = "asking" /\ IsSubtask(t)'
<1>1. PICK a, again : a = t[2]
            /\ again = (\E m \in Runs : run[m].root = p /\ sub[<<m, t[2]>>].step = "finished")
  OBVIOUS
<1>2. sub'[t] = [step |-> "asking", person |-> NoPerson,
                 hist |-> IF again THEN "again" ELSE "clean", spare |-> FALSE]
  BY <1>1 DEF Started, NotStarted
<1>3. sub'[t] \in SubtaskStates
  BY <1>2 DEF SubtaskStates, UnderWay
<1>4. a \in {Edition} \union Authors
  BY <1>1 DEF Subtasks
<1>5. (sub'[t].hist = "again") => IsDone(p, a)'
  <2> SUFFICES ASSUME again
               PROVE  IsDone(p, a)'
    BY <1>2
  <2>1. PICK m \in Runs : run[m].root = p /\ sub[<<m, a>>].step = "finished"
    BY <1>1
  <2>2. <<m, a>> \in Subtasks
    BY <1>4 DEF Subtasks
  <2>3. Knows(<<m, a>>)
    BY <2>1, <2>2 DEF EnrichInv, IsSubtask
  <2>4. IsDone(RootOf(<<m, a>>), a)
    BY <2>1, <2>3 DEF Knows, KnowsThat
  <2>5. IsDone(p, a)
    BY <2>1, <2>4 DEF RootOf
  <2> QED BY <2>5, DoneStays DEF EnrichInv
<1>6. Knows(t)'
  BY <1>1, <1>2, <1>5 DEF Knows, KnowsThat
<1>7. run'[t[1]].root # NoRoot
  BY IdsAreOrdered DEF RootOf
<1> QED BY <1>2, <1>3, <1>6, <1>7 DEF IsSubtask

(* A run that begins: the others' subtasks know what they knew. *)
LEMMA EnrichingKeeps ==
    ASSUME EnrichInv, NEW p \in Publications, Enrich(p)
    PROVE  EnrichInv'
<1>1. PICK n \in Runs, keyed \in BOOLEAN :
        /\ run[n].root = NoRoot
        /\ run' = [run EXCEPT ![n].root = p]
        /\ registry' = [registry EXCEPT ![p] = n]
        /\ sub' = IF keyed
                  THEN [sub EXCEPT ![<<n, Edition>>] = Started(<<n, Edition>>, p)]
                  ELSE sub
  BY DEF Enrich
<1>2. UNCHANGED <<db, review, name, held>>
  BY DEF Enrich
<1>3. Growing
  BY <1>2, NothingGrows DEF EnrichInv, RowsInv
<1>4. run \in [Runs -> RunStates] /\ sub \in [Subtasks -> SubtaskStates]
  BY DEF EnrichInv, TypeInv
<1>5. /\ run' \in [Runs -> RunStates] /\ run'[n].root = p
      /\ \A m \in Runs : run'[m].cancelled = run[m].cancelled /\ (m # n => run'[m].root = run[m].root)
  BY <1>1, <1>4 DEF RunStates
<1>6. registry' \in [Publications -> Runs \union {NoRun}]
  BY <1>1 DEF EnrichInv, TypeInv
<1>7. PICK e : e = <<n, Edition>>
  OBVIOUS
<1>8. e \in Subtasks /\ e[1] = n /\ RootOf(e)' = p
  BY <1>5, <1>7 DEF Subtasks, RootOf
<1>9. /\ \A s \in Subtasks : s # e => sub'[s] = sub[s]
      /\ sub' = [s \in Subtasks |-> sub'[s]]
      /\ sub'[e] = sub[e] \/ sub'[e] = Started(e, p)
  BY <1>1, <1>4, <1>7, <1>8
<1>10. ASSUME NEW s \in Subtasks
       PROVE  /\ sub'[s] \in SubtaskStates /\ IsSubtask(s)'
              /\ sub'[s] = sub[s] \/ sub'[s].step = "asking"
  <2>1. CASE sub'[s] = Started(s, p) /\ RootOf(s)' = p
    BY <1>3, <2>1, StartingKeeps
  <2>2. CASE sub'[s] = sub[s] /\ s[1] = n
    <3>1. sub[s].step = "none" /\ sub[s].hist = "dirty"
      BY <1>1, <2>2 DEF EnrichInv, IsSubtask
    <3> QED BY <1>4, <2>2, <3>1 DEF IsSubtask
  <2>3. CASE sub'[s] = sub[s] /\ s[1] # n
    <3>1. run'[s[1]].root = run[s[1]].root
      BY <1>5, <2>3 DEF Subtasks
    <3>2. IsSubtask(s)'
      BY <1>3, <2>3, <3>1, SubtaskStays DEF EnrichInv
    <3> QED BY <1>4, <2>3, <3>2
  <2> QED BY <1>8, <1>9, <2>1, <2>2, <2>3
<1>11. TypeInv'
  BY <1>2, <1>5, <1>6, <1>9, <1>10 DEF EnrichInv, TypeInv
<1>12. SpareInv'
  <2> SUFFICES ASSUME NEW s \in Subtasks, run'[s[1]].cancelled, sub'[s].step \in Writing
               PROVE  sub'[s].spare
    BY DEF SpareInv
  <2>1. run[s[1]].cancelled
    BY <1>5 DEF Subtasks
  <2>2. sub'[s] = sub[s]
    BY <1>10 DEF Writing
  <2> QED BY <2>1, <2>2 DEF EnrichInv, SpareInv
<1> QED BY <1>2, <1>3, <1>10, <1>11, <1>12, GrowingKeeps DEF EnrichInv, ReviewInv

(* What was under way has ended. *)
LEMMA RestartKeeps ==
    ASSUME EnrichInv, Restart
    PROVE  EnrichInv'
<1>1. Growing
  BY NothingGrows DEF EnrichInv, RowsInv, Restart
<1>2. /\ sub' = [s \in Subtasks |-> sub'[s]]
      /\ \A s \in Subtasks : (sub'[s] = sub[s] /\ ~IsUnderWay(s)) \/ sub'[s] = Ended
  BY DEF Restart
<1>3. ASSUME NEW s \in Subtasks
      PROVE  /\ sub'[s] \in SubtaskStates /\ sub'[s].step \notin Writing /\ IsSubtask(s)'
  <2>1. CASE sub'[s] = sub[s] /\ ~IsUnderWay(s)
    <3>1. IsSubtask(s)'
      BY <1>1, <2>1, SubtaskStays DEF EnrichInv, Restart
    <3> QED BY <2>1, <3>1 DEF EnrichInv, TypeInv, IsUnderWay, UnderWay
  <2>2. CASE sub'[s] = Ended /\ IsUnderWay(s)
    <3>1. run'[s[1]].root # NoRoot
      BY <2>2 DEF EnrichInv, IsSubtask, IsUnderWay, UnderWay, Writing, Restart
    <3> QED BY <2>2, <3>1 DEF Ended, NotStarted, SubtaskStates, IsSubtask, Writing
  <2> QED BY <1>2, <2>1, <2>2 DEF Restart
<1>4. TypeInv' /\ SpareInv'
  BY <1>2, <1>3 DEF EnrichInv, TypeInv, SpareInv, Restart
<1>5. /\ review' = [r \in Reviewers |-> review'[r]]
      /\ \A r \in Reviewers : IsReview(review'[r], db)
  BY ReviewsToCome DEF Restart
<1> QED BY <1>1, <1>3, <1>4, <1>5, GrowingKeeps

(* Whoever has a handle cancels a run. *)
LEMMA CancelKeeps ==
    ASSUME EnrichInv, NEW n \in Runs, Cancel(n)
    PROVE  EnrichInv'
BY CancellingKeeps DEF Cancel, EnrichInv, ReviewInv

-----------------------------------------------------------------------------
(***************************************************************************)
(* Subtasks                                                                *)
(***************************************************************************)

(* What a subtask writes changes nothing of what sessions know but whether a proposal is
   there. *)
LEMMA ReviewsGoOn ==
    ASSUME EnrichInv, UNCHANGED review \/ Edits(db')
    PROVE  /\ review' = [r \in Reviewers |-> review'[r]]
           /\ \A r \in Reviewers : IsReview(review'[r], db)
<1>1. CASE UNCHANGED review
  BY <1>1 DEF EnrichInv, ReviewInv
<1>2. CASE Edits(db')
  <2>1. review' = [r \in Reviewers |->
                    [review[r] EXCEPT
                       !.there = @ /\ <<review[r].of, review[r].about>> \in db'.proposals]]
    BY <1>2 DEF Edits, Write
  <2>2. ASSUME NEW r \in Reviewers
        PROVE  IsReview(review'[r], db)
    <3>1. IsReview(review[r], db)
      BY DEF EnrichInv, ReviewInv
    <3>2. /\ review'[r] \in Reviews
          /\ review'[r].step = review[r].step /\ review'[r].of = review[r].of
          /\ review'[r].about = review[r].about
      BY <2>1, <3>1 DEF Reviews, IsReview
    <3> QED BY <3>1, <3>2 DEF IsReview
  <2>3. review' = [r \in Reviewers |-> review'[r]]
    BY <2>1
  <2> QED BY <2>2, <2>3
<1> QED BY <1>1, <1>2

(* One subtask goes on, and perhaps fails its run; the others stay where they are. *)
LEMMA OneSubtaskKeeps ==
    ASSUME EnrichInv, Growing, UNCHANGED review \/ Edits(db'), UNCHANGED registry,
           name' \in [People -> Names],
           NEW s \in Subtasks, NEW next \in SubtaskStates, sub' = [sub EXCEPT ![s] = next],
           IsSubtask(s)', next.step \in Writing => ~run[s[1]].cancelled,
           run' \in [Runs -> RunStates],
           \A n \in Runs : run'[n].root = run[n].root /\ run'[n].cancelled = run[n].cancelled
    PROVE  EnrichInv'
<1>1. sub \in [Subtasks -> SubtaskStates]
  BY DEF EnrichInv, TypeInv
<1>2. sub' \in [Subtasks -> SubtaskStates] /\ sub'[s] = next
  BY <1>1
<1>3. \A t \in Subtasks : t # s => sub'[t] = sub[t]
  BY <1>1
<1>4. \A t \in Subtasks : t[1] \in Runs
  BY DEF Subtasks
<1>5. \A t \in Subtasks : IsSubtask(t)'
  <2> SUFFICES ASSUME NEW t \in Subtasks, t # s
               PROVE  IsSubtask(t)'
    OBVIOUS
  <2> QED BY <1>3, <1>4, SubtaskStays DEF EnrichInv
<1>6. SpareInv'
  <2> SUFFICES ASSUME NEW t \in Subtasks, run'[t[1]].cancelled, sub'[t].step \in Writing
               PROVE  sub'[t].spare
    BY DEF SpareInv
  <2>1. run[t[1]].cancelled
    BY <1>4
  <2>2. t # s
    BY <1>2, <2>1
  <2> QED BY <1>3, <2>1, <2>2 DEF EnrichInv, SpareInv
<1>7. TypeInv'
  BY <1>2 DEF EnrichInv, TypeInv, Growing
<1> QED BY <1>5, <1>6, <1>7, ReviewsGoOn, GrowingKeeps

(* It fails, or ends, ... *)
LEMMA EndingKeeps ==
    ASSUME EnrichInv, Growing, UNCHANGED review \/ Edits(db'), name' \in [People -> Names],
           NEW s \in Subtasks, IsUnderWay(s), Fails(s) \/ Becomes(s, Ended)
    PROVE  EnrichInv'
<1>1. run \in [Runs -> RunStates] /\ sub \in [Subtasks -> SubtaskStates] /\ s[1] \in Runs
  BY DEF EnrichInv, TypeInv, Subtasks
<1>2. /\ run' \in [Runs -> RunStates]
      /\ \A n \in Runs : run'[n].root = run[n].root /\ run'[n].cancelled = run[n].cancelled
  <2>1. PICK n \in Runs, failed \in BOOLEAN :
          run' = run \/ run' = [run EXCEPT ![n].failed = failed]
    BY <1>1 DEF Fails, Becomes, RunStates
  <2>2. CASE run' = run
    BY <1>1, <2>2
  <2>3. CASE run' = [run EXCEPT ![n].failed = failed]
    BY <1>1, <2>3 DEF RunStates
  <2> QED BY <2>1, <2>2, <2>3
<1>3. sub' = [sub EXCEPT ![s] = Ended] /\ UNCHANGED registry
  BY DEF Fails, Becomes
<1>4. Ended \in SubtaskStates /\ Ended.step = "ended" /\ Ended.hist = "dirty"
  BY DEF Ended, NotStarted, SubtaskStates
<1>5. run[s[1]].root # NoRoot
  BY DEF EnrichInv, IsSubtask, IsUnderWay, UnderWay, Writing
<1>6. sub'[s] = Ended
  BY <1>1, <1>3
<1>7. IsSubtask(s)'
  BY <1>1, <1>2, <1>4, <1>5, <1>6 DEF IsSubtask
<1>8. Ended.step \notin Writing
  BY <1>4 DEF Writing
<1> QED BY <1>2, <1>3, <1>4, <1>7, <1>8, OneSubtaskKeeps

(* ... or goes on to what it may, knowing what it must. *)
LEMMA GoingOnKeeps ==
    ASSUME EnrichInv, Growing, UNCHANGED review \/ Edits(db'), name' \in [People -> Names],
           NEW s \in Subtasks, IsUnderWay(s), NEW p, p = RootOf(s), NEW h, h = sub[s].hist,
           NEW step \in UnderWay, NEW x \in People \union {NoPerson},
           \/ step \notin Writing /\ Becomes(s, To(s, step, x))
           \/ Becomes(s, Checked(s, To(s, step, x))),
           step \in {"valuing", "classifying"} => s[2] = Edition,
           step \in {"byRecord", "byName", "naming", "linking"} => s[2] \in Authors,
           step = "linking" => x # NoPerson,
           h # "dirty" => KnowsThat(p, s[2], step, x, h = "again")'
    PROVE  EnrichInv'
<1>1. run \in [Runs -> RunStates] /\ sub \in [Subtasks -> SubtaskStates] /\ s[1] \in Runs
  BY DEF EnrichInv, TypeInv, Subtasks
<1>2. CASE Becomes(s, Ended)
  BY <1>2, EndingKeeps
<1>3. CASE Becomes(s, To(s, step, x)) /\ (step \in Writing => ~run[s[1]].cancelled)
  <2>1. PICK next : next = To(s, step, x)
    OBVIOUS
  <2>2. next = [step |-> step, person |-> x, hist |-> h, spare |-> FALSE]
    BY <1>1, <2>1 DEF To, SubtaskStates
  <2>3. next \in SubtaskStates
    BY <1>1, <2>2 DEF SubtaskStates
  <2>4. sub' = [sub EXCEPT ![s] = next] /\ UNCHANGED <<run, registry>>
    BY <1>3, <2>1 DEF Becomes
  <2>5. sub'[s] = next
    BY <1>1, <2>4
  <2>6. RootOf(s)' = p
    BY <2>4 DEF RootOf
  <2>7. h # "dirty" => Knows(s)'
    BY <2>2, <2>5, <2>6 DEF Knows
  <2>8. run[s[1]].root # NoRoot
    BY DEF EnrichInv, IsSubtask, IsUnderWay, UnderWay, Writing
  <2>9. IsSubtask(s)'
    BY <2>2, <2>4, <2>5, <2>7, <2>8 DEF IsSubtask, UnderWay, Writing
  <2>10. next.step \in Writing => ~run[s[1]].cancelled
    BY <1>3, <2>2
  <2>11. run' \in [Runs -> RunStates]
         /\ \A n \in Runs : run'[n].root = run[n].root /\ run'[n].cancelled = run[n].cancelled
    BY <1>1, <2>4
  <2> QED BY <2>3, <2>4, <2>9, <2>10, <2>11, OneSubtaskKeeps
<1> QED BY <1>2, <1>3 DEF Checked, SeesCancelled

(* An author is done who is whom matching finds, named and linked. *)
LEMMA FinishingKeeps ==
    ASSUME EnrichInv, Growing, UNCHANGED review \/ Edits(db'), name' \in [People -> Names],
           NEW s \in Subtasks, IsUnderWay(s), NEW p, p = RootOf(s),
           Becomes(s, Finished(s)), sub[s].hist # "dirty" => IsDone(p, s[2])'
    PROVE  EnrichInv'
<1>1. run \in [Runs -> RunStates] /\ sub \in [Subtasks -> SubtaskStates] /\ s[1] \in Runs
  BY DEF EnrichInv, TypeInv, Subtasks
<1>2. CASE sub[s].hist = "dirty"
  BY <1>2, EndingKeeps DEF Finished
<1>3. CASE sub[s].hist # "dirty"
  <2>1. PICK next : next = Finished(s)
    OBVIOUS
  <2>2. next = [step |-> "finished", person |-> NoPerson, hist |-> "clean", spare |-> FALSE]
    BY <1>3, <2>1 DEF Finished, NotStarted
  <2>3. next \in SubtaskStates /\ next.step \notin Writing
    BY <2>2 DEF SubtaskStates, Writing
  <2>4. sub' = [sub EXCEPT ![s] = next] /\ UNCHANGED <<run, registry>>
    BY <2>1 DEF Becomes
  <2>5. sub'[s] = next
    BY <1>1, <2>4
  <2>6. RootOf(s)' = p
    BY <2>4 DEF RootOf
  <2>7. Knows(s)'
    BY <1>3, <2>2, <2>5, <2>6 DEF Knows, KnowsThat
  <2>8. run[s[1]].root # NoRoot
    BY DEF EnrichInv, IsSubtask, IsUnderWay, UnderWay, Writing
  <2>9. IsSubtask(s)'
    BY <2>2, <2>4, <2>5, <2>7, <2>8 DEF IsSubtask
  <2>10. run' \in [Runs -> RunStates]
         /\ \A n \in Runs : run'[n].root = run[n].root /\ run'[n].cancelled = run[n].cancelled
    BY <1>1, <2>4
  <2> QED BY <2>3, <2>4, <2>9, <2>10, OneSubtaskKeeps
<1> QED BY <1>2, <1>3

(* A set of naturals has a least element. *)
LEMMA Smallest ==
    ASSUME NEW T \in SUBSET Nat, T # {}
    PROVE  \E n \in T : \A m \in T : n <= m
<1> DEFINE R == OpToRel(<, Nat)
<1>1. IsWellFoundedOn(R, Nat)
  BY NatLessThanWellFounded
<1>2. \A x, y \in Nat : x < y => <<x, y>> \in R
  BY DEF OpToRel
<1> HIDE DEF R
<1>3. PICK n \in T : \A m \in T : <<m, n>> \notin R
  BY <1>1, WFMin
<1>4. ASSUME NEW m \in T
      PROVE  n <= m
  <2>1. ~(m < n)
    BY <1>2, <1>3
  <2> QED BY <2>1
<1> QED BY <1>4

(* Of people who are there one is the best match, ... *)
LEMMA BestIsThere ==
    ASSUME RowsInv, NEW matches, matches \subseteq Live(People), matches # {}
    PROVE  IsBest(BestMatch(matches), matches) /\ BestMatch(matches) # NoPerson
<1> DEFINE sure == {x \in matches : IsCommitted(db, x)}
<1>1. /\ matches \subseteq People /\ People \subseteq Nat /\ NoPerson \notin People
      /\ \A x \in matches : IsCommitted(db, x) \/ IsDraft(db, x)
  <2>1. db.mark \in [Entities -> Marks]
    BY TablesOf DEF RowsInv, IsSound
  <2> QED BY <2>1, Ids, IdsAreOrdered DEF Live, IsLive, IsCommitted, IsDraft, Marks, NoPerson
<1>2. sure \in SUBSET Nat /\ matches \in SUBSET Nat
  BY <1>1
<1>3. \E x \in matches : IsBest(x, matches)
  <2>1. CASE sure # {}
    <3>1. PICK x \in sure : \A y \in sure : x <= y
      BY <1>2, <2>1, Smallest
    <3> QED BY <1>1, <3>1 DEF IsBest, IsCommitted
  <2>2. CASE sure = {}
    <3>1. PICK x \in matches : \A y \in matches : x <= y
      BY <1>2, Smallest
    <3> QED BY <1>1, <2>2, <3>1 DEF IsBest, IsDraft
  <2> QED BY <2>1, <2>2
<1>4. IsBest(BestMatch(matches), matches)
  BY <1>3 DEF BestMatch, IsBest
<1> QED BY <1>1, <1>4 DEF IsBest

(* ... and no one else. *)
LEMMA BestIsOne ==
    ASSUME NEW matches, matches \subseteq People, NEW x, IsBest(x, matches),
           NEW y, IsBest(y, matches)
    PROVE  x = y
<1> SUFFICES ASSUME x # y
             PROVE  FALSE
  OBVIOUS
<1>1. x \in Nat /\ y \in Nat
  BY IdsAreOrdered DEF IsBest
<1>2. /\ (IsCommitted(db, x) /\ IsDraft(db, y)) \/ (db.mark[x] = db.mark[y] /\ x < y)
      /\ (IsCommitted(db, y) /\ IsDraft(db, x)) \/ (db.mark[x] = db.mark[y] /\ y < x)
  BY DEF IsBest
<1> QED BY <1>1, <1>2 DEF IsCommitted, IsDraft

(* What a subtask that is under way is about, and what stays of what it knows. *)
LEMMA WhatItKnows ==
    ASSUME EnrichInv, NEW s \in Subtasks, IsUnderWay(s)
    PROVE  /\ RootOf(s) \in Publications /\ RootOf(s) \in Entities /\ s[1] \in Runs
           /\ s[2] \in {Edition} \union Authors
           /\ sub[s].person \in People \union {NoPerson}
           /\ sub[s].step \in {"valuing", "classifying"} => s[2] = Edition
           /\ sub[s].step \in {"byRecord", "byName", "naming", "linking"} => s[2] \in Authors
           /\ sub[s].step = "linking" => sub[s].person # NoPerson
           /\ sub[s].hist # "dirty" => Knows(s)
<1>1. s[1] \in Runs /\ s[2] \in {Edition} \union Authors
  BY DEF Subtasks
<1>2. RootOf(s) \in Publications
  <2>1. run[s[1]].root # NoRoot
    BY DEF EnrichInv, IsSubtask, IsUnderWay, UnderWay, Writing
  <2> QED BY <1>1, <2>1 DEF EnrichInv, TypeInv, RunStates, RootOf
<1> QED BY <1>1, <1>2, Ids DEF EnrichInv, TypeInv, SubtaskStates, IsSubtask

(* That its like has finished what it has to do stays so. *)
LEMMA AgainStays ==
    ASSUME EnrichInv, Growing, NEW s \in Subtasks, IsUnderWay(s), NEW p, p = RootOf(s)
    PROVE  sub[s].hist = "again" => IsDone(p, s[2])'
<1> SUFFICES ASSUME sub[s].hist = "again"
             PROVE  IsDone(p, s[2])'
  OBVIOUS
<1>1. IsDone(p, s[2])
  BY WhatItKnows DEF Knows, KnowsThat
<1> QED BY <1>1, WhatItKnows, DoneStays DEF EnrichInv

(* A subtask's proposal, made unless it is there, ... *)
LEMMA ProposingIsGrowing ==
    ASSUME EnrichInv, NEW e \in Entities, IsLive(db, e),
           NEW x \in People \union Authors \union {Value},
           x \in People => e \in Publications /\ IsLive(db, x),
           NEW T, Puts(IF <<e, x>> \in T THEN db ELSE Propose(db, e, x))
    PROVE  /\ Growing /\ Edits(db') /\ name' \in [People -> Names]
           /\ <<e, x>> \in T \/ <<e, x>> \in db'.proposals
           /\ \A y \in Entities : db'.mark[y] = db.mark[y]
           /\ <<e, x>> \in db.proposals => db' = db
<1>1. UNCHANGED <<name, held>> /\ db' = IF <<e, x>> \in T THEN db ELSE Propose(db, e, x)
  BY DEF Puts, Edits, Write
<1>2. Edits(db')
  BY DEF Puts, Edits, Write
<1>3. IsSound(db) /\ name \in [People -> Names]
  BY DEF EnrichInv, RowsInv, TypeInv
<1>4. /\ Grows(db, Propose(db, e, x))
      /\ <<e, x>> \in Propose(db, e, x).proposals
      /\ \A y \in Entities : Propose(db, e, x).mark[y] = db.mark[y]
      /\ <<e, x>> \in db.proposals => Propose(db, e, x) = db
  BY <1>3, ProposingGrows
<1>5. Grows(db, db)
  BY <1>3 DEF Grows
<1>6. /\ Grows(db, db')
      /\ <<e, x>> \in T \/ <<e, x>> \in db'.proposals
      /\ \A y \in Entities : db'.mark[y] = db.mark[y]
      /\ <<e, x>> \in db.proposals => db' = db
  BY <1>1, <1>4, <1>5
<1>7. Growing
  BY <1>1, <1>6, Ids DEF Growing, IsLive
<1> QED BY <1>1, <1>2, <1>3, <1>6, <1>7

(* ... or nothing. *)
LEMMA ReadingIsGrowing ==
    ASSUME EnrichInv, Reads
    PROVE  Growing /\ UNCHANGED review /\ name' \in [People -> Names]
BY NothingGrows DEF EnrichInv, RowsInv, TypeInv, Reads

(* It asks ... *)
LEMMA AnsweredKeeps ==
    ASSUME EnrichInv, NEW s \in Subtasks, Answered(s)
    PROVE  EnrichInv'
<1>1. IsUnderWay(s) /\ Reads
  BY DEF Answered, IsUnderWay, UnderWay
<1>2. PICK p, h : p = RootOf(s) /\ h = sub[s].hist
  OBVIOUS
<1>3. KnowsThat(p, s[2], "loading", NoPerson, h = "again")'
  BY <1>1, <1>2, ReadingIsGrowing, AgainStays DEF KnowsThat
<1>4. CASE Becomes(s, To(s, "loading", NoPerson))
  BY <1>1, <1>2, <1>3, <1>4, ReadingIsGrowing, GoingOnKeeps DEF UnderWay, Writing
<1>5. CASE Becomes(s, Ended) \/ Fails(s)
  BY <1>1, <1>5, ReadingIsGrowing, EndingKeeps
<1> QED BY <1>4, <1>5 DEF Answered

(* ... and loads its publication, or cancels its run. *)
LEMMA LoadsKeeps ==
    ASSUME EnrichInv, NEW s \in Subtasks, Loads(s)
    PROVE  EnrichInv'
<1>1. IsUnderWay(s) /\ Reads
  BY DEF Loads, IsUnderWay, UnderWay
<1>2. PICK p, h : p = RootOf(s) /\ h = sub[s].hist
  OBVIOUS
<1>3. Growing
  BY <1>1, ReadingIsGrowing
<1>4. CASE IsLive(db, RootOf(s)) /\ s[2] = Edition
  <2>1. Becomes(s, Checked(s, To(s, "valuing", NoPerson)))
    BY <1>4 DEF Loads
  <2>2. KnowsThat(p, s[2], "valuing", NoPerson, h = "again")'
    BY <1>1, <1>2, <1>3, AgainStays DEF KnowsThat
  <2> QED BY <1>1, <1>2, <1>4, <2>1, <2>2, ReadingIsGrowing, GoingOnKeeps DEF UnderWay, Writing
<1>5. CASE IsLive(db, RootOf(s)) /\ s[2] # Edition
  <2>1. Becomes(s, To(s, "byRecord", NoPerson)) /\ s[2] \in Authors
    BY <1>1, <1>5, WhatItKnows DEF Loads
  <2>2. KnowsThat(p, s[2], "byRecord", NoPerson, h = "again")'
    BY <1>1, <1>2, <1>3, AgainStays DEF KnowsThat
  <2> QED BY <1>1, <1>2, <2>1, <2>2, ReadingIsGrowing, GoingOnKeeps DEF UnderWay, Writing
<1>6. CASE ~IsLive(db, RootOf(s))
  <2>1. PICK n : n = s[1]
    OBVIOUS
  <2>2. /\ run' = [run EXCEPT ![n].cancelled = TRUE]
        /\ sub' = Cancelled(n, [sub EXCEPT ![s] = Ended])
        /\ UNCHANGED registry
    BY <1>6, <2>1 DEF Loads
  <2>3. run \in [Runs -> RunStates] /\ sub \in [Subtasks -> SubtaskStates] /\ n \in Runs
    BY <2>1 DEF EnrichInv, TypeInv, Subtasks
  <2>4. /\ run' \in [Runs -> RunStates]
        /\ \A m \in Runs : run'[m].root = run[m].root
        /\ \A m \in Runs : m # n => run'[m].cancelled = run[m].cancelled
    BY <2>2, <2>3 DEF RunStates
  <2>5. PICK subs : subs = [sub EXCEPT ![s] = Ended]
    OBVIOUS
  <2>6. /\ subs[s] = Ended
        /\ \A t \in Subtasks : t # s => subs[t] = sub[t]
    BY <2>3, <2>5
  <2>7. sub' = [t \in Subtasks |-> IF t[1] = n /\ subs[t].step \in Writing
                                   THEN [subs[t] EXCEPT !.spare = TRUE] ELSE subs[t]]
    BY <2>2, <2>5 DEF Cancelled
  <2>8. sub'[s] = Ended /\ Ended \in SubtaskStates /\ Ended.step = "ended" /\ Ended.hist = "dirty"
    BY <2>6, <2>7 DEF Ended, NotStarted, SubtaskStates, Writing
  <2>9. ASSUME NEW t \in Subtasks, t # s
        PROVE  /\ sub'[t] \in SubtaskStates
               /\ sub'[t].step = sub[t].step /\ sub'[t].person = sub[t].person
               /\ sub'[t].hist = sub[t].hist
               /\ sub[t].spare => sub'[t].spare
               /\ t[1] = n /\ sub[t].step \in Writing => sub'[t].spare
    BY <2>3, <2>6, <2>7, <2>9 DEF SubtaskStates
  <2>10. \A t \in Subtasks : t[1] \in Runs
    BY DEF Subtasks
  <2>11. TypeInv'
    BY <1>1, <2>2, <2>4, <2>7, <2>8, <2>9 DEF EnrichInv, TypeInv, Reads
  <2>12. SpareInv'
    BY <2>4, <2>8, <2>9, <2>10 DEF EnrichInv, SpareInv, Writing
  <2>13. ASSUME NEW t \in Subtasks
         PROVE  IsSubtask(t)'
    <3>1. CASE t = s
      <4>1. run[n].root # NoRoot
        BY <1>1, <2>1 DEF EnrichInv, IsSubtask, IsUnderWay, UnderWay, Writing
      <4> QED BY <2>1, <2>3, <2>4, <2>8, <3>1, <4>1 DEF IsSubtask
    <3>2. CASE t # s
      BY <1>3, <2>4, <2>9, <2>10, <3>2, SubtaskStays DEF EnrichInv
    <3> QED BY <3>1, <3>2
  <2> QED BY <1>1, <1>3, <2>11, <2>12, <2>13, ReadingIsGrowing, ReviewsGoOn, GrowingKeeps
<1> QED BY <1>4, <1>5, <1>6

(* It proposes fields, ... *)
LEMMA ProposesFieldsKeeps ==
    ASSUME EnrichInv, NEW s \in Subtasks, ProposesFields(s)
    PROVE  EnrichInv'
<1>1. IsUnderWay(s) /\ sub[s].step = "valuing"
  BY DEF ProposesFields, IsUnderWay, UnderWay, Writing
<1>2. PICK p, h : p = RootOf(s) /\ h = sub[s].hist
  OBVIOUS
<1>3. CASE IsLive(db, p)
  <2>1. /\ Puts(IF <<p, Value>> \in held THEN db ELSE Propose(db, p, Value))
        /\ Becomes(s, Checked(s, To(s, "classifying", NoPerson)))
    BY <1>2, <1>3 DEF ProposesFields
  <2>2. /\ Growing /\ Edits(db') /\ name' \in [People -> Names]
        /\ <<p, Value>> \in held \/ <<p, Value>> \in db'.proposals
    BY <1>1, <1>2, <1>3, <2>1, WhatItKnows, Ids, ProposingIsGrowing
  <2>3. HasFields(p)'
    BY <1>2, <2>2 DEF HasFields, Growing
  <2>4. KnowsThat(p, s[2], "classifying", NoPerson, h = "again")'
    BY <1>1, <1>2, <2>2, <2>3, AgainStays DEF KnowsThat
  <2> QED BY <1>1, <1>2, <2>1, <2>2, <2>4, WhatItKnows, GoingOnKeeps DEF UnderWay, Writing
<1>4. CASE ~IsLive(db, p)
  BY <1>1, <1>2, <1>4, ReadingIsGrowing, EndingKeeps DEF ProposesFields
<1> QED BY <1>3, <1>4

(* ... classifies, and enqueues its authors, ... *)
LEMMA ClassifiesKeeps ==
    ASSUME EnrichInv, NEW s \in Subtasks, Classifies(s)
    PROVE  EnrichInv'
<1>1. IsUnderWay(s) /\ sub[s].step = "classifying"
  BY DEF Classifies, IsUnderWay, UnderWay, Writing
<1>2. PICK p : p = RootOf(s)
  OBVIOUS
<1>3. CASE ~IsLive(db, p)
  BY <1>1, <1>2, <1>3, ReadingIsGrowing, EndingKeeps DEF Classifies
<1>4. CASE IsLive(db, p)
  <2> DEFINE classified == Inherit([db EXCEPT !.kind[p] = Guess], p, Guess)
  <2>1. /\ Puts(IF db.kind[p] # Unclassified THEN db ELSE classified)
        /\ sub' = WithAuthors(s)
        /\ UNCHANGED <<run, registry>>
    BY <1>2, <1>4 DEF Classifies
  <2>2. p \in Publications /\ p \in Entities /\ s[2] = Edition /\ s[1] \in Runs /\ Edition \notin Authors
    BY <1>1, <1>2, WhatItKnows, IdsAreOrdered
  <2>3. IsSound(db) /\ Grows(db, db)
    BY DEF EnrichInv, RowsInv, Grows
  <2>4. /\ Grows(db, classified) /\ classified.kind[p] # Unclassified
        /\ \A e : IsLive(classified, e) <=> IsLive(db, e)
    BY <2>2, <2>3, ClassifyingGrows
  <2> HIDE DEF classified
  <2>5. Edits(db') /\ UNCHANGED <<name, held>> /\ Grows(db, db') /\ db'.kind[p] # Unclassified
    BY <2>1, <2>3, <2>4 DEF Puts, Edits, Write
  <2>6. Growing
    <3>1. \A x \in People : IsLive(db', x) => IsLive(db, x)
      BY <2>1, <2>4 DEF Puts, Edits, Write
    <3> QED BY <2>5, <3>1 DEF Growing
  <2>7. sub \in [Subtasks -> SubtaskStates] /\ run \in [Runs -> RunStates]
    BY DEF EnrichInv, TypeInv
  <2>8. /\ sub' = [t \in Subtasks |-> sub'[t]]
        /\ sub'[s] = Finished(s)
        /\ \A t \in Subtasks : t # s => \/ sub'[t] = sub[t]
                                        \/ t[1] = s[1] /\ sub'[t] = Started(t, p)
    BY <1>2, <2>1 DEF WithAuthors
  <2>9. \A t \in Subtasks : t[1] \in Runs /\ RootOf(t)' = RootOf(t) /\ run'[t[1]] = run[t[1]]
    BY <2>1 DEF Subtasks, RootOf
  <2>10. sub'[s] \in SubtaskStates /\ sub'[s].step \notin Writing /\ IsSubtask(s)'
    <3>1. CASE sub[s].hist = "dirty"
      <4>1. sub'[s] = [step |-> "ended", person |-> NoPerson, hist |-> "dirty", spare |-> FALSE]
        BY <2>8, <3>1 DEF Finished, Ended, NotStarted
      <4>2. run'[s[1]].root # NoRoot
        BY <1>1, <2>1 DEF EnrichInv, IsSubtask
      <4> QED BY <4>1, <4>2 DEF SubtaskStates, IsSubtask, Writing
    <3>2. CASE sub[s].hist # "dirty"
      <4>1. sub'[s] = [step |-> "finished", person |-> NoPerson, hist |-> "clean", spare |-> FALSE]
        BY <2>8, <3>2 DEF Finished, NotStarted
      <4>2. run'[s[1]].root # NoRoot
        BY <1>1, <2>1 DEF EnrichInv, IsSubtask
      <4>3. HasFields(p)
        BY <1>1, <1>2, <3>2, WhatItKnows DEF Knows, KnowsThat
      <4>4. HasFields(p)'
        BY <2>2, <2>6, <4>3, DoneStays DEF EnrichInv
      <4>5. IsDone(p, s[2])'
        BY <2>2, <2>5, <4>4 DEF IsDone
      <4>6. RootOf(s)' = p
        BY <1>2, <2>9
      <4>7. Knows(s)'
        BY <4>1, <4>5, <4>6 DEF Knows, KnowsThat
      <4> QED BY <4>1, <4>2, <4>7 DEF SubtaskStates, IsSubtask, Writing
    <3> QED BY <3>1, <3>2
  <2>11. ASSUME NEW t \in Subtasks
         PROVE  /\ sub'[t] \in SubtaskStates /\ IsSubtask(t)'
                /\ sub'[t].step \in Writing => sub'[t] = sub[t]
    <3>1. CASE sub'[t] = sub[t]
      BY <2>6, <2>7, <2>9, <3>1, SubtaskStays DEF EnrichInv
    <3>2. CASE t[1] = s[1] /\ sub'[t] = Started(t, p)
      <4>1. RootOf(t)' = p
        BY <1>2, <2>9, <3>2 DEF RootOf
      <4> QED BY <2>2, <2>6, <3>2, <4>1, StartingKeeps DEF Writing
    <3> QED BY <2>8, <2>10, <3>1, <3>2
  <2>12. TypeInv'
    BY <2>1, <2>5, <2>8, <2>11 DEF EnrichInv, TypeInv
  <2>13. SpareInv'
    BY <2>9, <2>11 DEF EnrichInv, SpareInv
  <2> QED BY <2>5, <2>6, <2>11, <2>12, <2>13, ReviewsGoOn, GrowingKeeps
<1> QED BY <1>3, <1>4

(* ... looks for its author's record and then for the name, ... *)
LEMMA MatchesRecordKeeps ==
    ASSUME EnrichInv, NEW s \in Subtasks, MatchesRecord(s)
    PROVE  EnrichInv'
<1>1. IsUnderWay(s) /\ Reads /\ s[2] \in Authors
  <2>1. IsUnderWay(s)
    BY DEF MatchesRecord, IsUnderWay, UnderWay
  <2> QED BY <2>1, WhatItKnows DEF MatchesRecord
<1>2. PICK p, h, a : p = RootOf(s) /\ h = sub[s].hist /\ a = s[2]
  OBVIOUS
<1>3. Growing
  BY <1>1, ReadingIsGrowing
<1>4. FindByRecord(a)' = FindByRecord(a) /\ (\A x : IsMatch(x, a) => IsMatch(x, a)')
  BY <1>3, MatchesStay DEF EnrichInv
<1>5. CASE FindByRecord(a) = {}
  <2>1. Becomes(s, To(s, "byName", NoPerson))
    BY <1>2, <1>5 DEF MatchesRecord
  <2>2. KnowsThat(p, s[2], "byName", NoPerson, h = "again")'
    BY <1>1, <1>2, <1>3, <1>4, <1>5, AgainStays DEF KnowsThat
  <2> QED BY <1>1, <1>2, <2>1, <2>2, ReadingIsGrowing, GoingOnKeeps DEF UnderWay, Writing
<1>6. CASE FindByRecord(a) # {}
  <2>1. PICK x : x = BestMatch(FindByRecord(a))
    OBVIOUS
  <2>2. Becomes(s, Checked(s, To(s, "naming", x)))
    BY <1>2, <1>6, <2>1 DEF MatchesRecord, Matched
  <2>3. FindByRecord(a) \subseteq Live(People)
    BY DEF FindByRecord
  <2>4. IsBest(x, FindByRecord(a)) /\ x # NoPerson
    BY <1>6, <2>1, <2>3, BestIsThere DEF EnrichInv
  <2>5. x \in People /\ IsLive(db, x)
    BY <2>3, <2>4 DEF IsBest, Live
  <2>6. IsMatch(x, a)
    BY <1>6, <2>4 DEF IsMatch
  <2>7. KnowsThat(p, s[2], "naming", x, h = "again")'
    <3>1. IsLive(db', x) /\ IsMatch(x, a)'
      BY <1>1, <1>4, <2>5, <2>6 DEF Reads
    <3> QED BY <1>1, <1>2, <1>3, <2>4, <3>1, AgainStays DEF KnowsThat
  <2> QED BY <1>1, <1>2, <2>2, <2>5, <2>7, ReadingIsGrowing, GoingOnKeeps DEF UnderWay, Writing
<1> QED BY <1>5, <1>6

(* ... among those without another record, ... *)
LEMMA MatchesNameKeeps ==
    ASSUME EnrichInv, NEW s \in Subtasks, MatchesName(s)
    PROVE  EnrichInv'
<1>1. IsUnderWay(s) /\ Reads /\ s[2] \in Authors /\ sub[s].step = "byName"
  <2>1. IsUnderWay(s)
    BY DEF MatchesName, IsUnderWay, UnderWay
  <2> QED BY <2>1, WhatItKnows DEF MatchesName
<1>2. PICK p, h, a, x : p = RootOf(s) /\ h = sub[s].hist /\ a = s[2] /\ x = BestMatch(FindByName(a))
  OBVIOUS
<1>3. Growing
  BY <1>1, ReadingIsGrowing
<1>4. FindByRecord(a)' = FindByRecord(a) /\ (\A y : IsMatch(y, a) => IsMatch(y, a)')
  BY <1>3, MatchesStay DEF EnrichInv
<1>5. Becomes(s, Checked(s, To(s, "naming", x)))
  BY <1>2 DEF MatchesName, Matched
<1>6. FindByName(a) \subseteq Live(People)
  BY DEF FindByName
<1>7. FindByName(a) # {} => x \in FindByName(a) /\ x # NoPerson
  BY <1>2, <1>6, BestIsThere DEF EnrichInv, IsBest
<1>8. FindByName(a) = {} => x = NoPerson
  BY <1>2 DEF BestMatch
<1>9. x \in People \union {NoPerson} /\ (x # NoPerson => IsLive(db, x))
  BY <1>6, <1>7, <1>8 DEF Live
<1>10. h # "dirty" => KnowsThat(p, s[2], "naming", x, h = "again")'
  <2> SUFFICES ASSUME h # "dirty"
               PROVE  KnowsThat(p, s[2], "naming", x, h = "again")'
    OBVIOUS
  <2>1. FindByRecord(a) = {}
    BY <1>1, <1>2, WhatItKnows DEF Knows, KnowsThat
  <2>2. x # NoPerson => IsLive(db', x) /\ IsMatch(x, a)'
    BY <1>1, <1>4, <1>7, <1>8, <1>9, <2>1 DEF IsMatch, Reads
  <2>3. x = NoPerson /\ h = "again" => ~IsLive(db', p)
    <3> SUFFICES ASSUME x = NoPerson, h = "again", IsLive(db, p)
                 PROVE  FALSE
      BY <1>1 DEF Reads
    <3>1. IsDone(p, a)
      BY <1>1, <1>2, WhatItKnows DEF Knows, KnowsThat
    <3>2. \E y : IsMatch(y, a)
      BY <1>1, <1>2, <3>1 DEF IsDone
    <3> QED BY <1>7, <2>1, <3>2 DEF IsMatch
  <2> QED BY <1>1, <1>2, <1>3, <1>4, <2>1, <2>2, <2>3, AgainStays DEF KnowsThat
<1> QED BY <1>1, <1>2, <1>5, <1>9, <1>10, ReadingIsGrowing, GoingOnKeeps DEF UnderWay, Writing

(* ... proposes whom it found ... *)
LEMMA ProposesPersonKeeps ==
    ASSUME EnrichInv, NEW s \in Subtasks, ProposesPerson(s)
    PROVE  EnrichInv'
<1>1. IsUnderWay(s) /\ sub[s].step = "naming" /\ s[2] \in Authors
  <2>1. IsUnderWay(s)
    BY DEF ProposesPerson, IsUnderWay, UnderWay, Writing
  <2> QED BY <2>1, WhatItKnows DEF ProposesPerson
<1>2. PICK p, h, a, x : p = RootOf(s) /\ h = sub[s].hist /\ a = s[2] /\ x = sub[s].person
  OBVIOUS
<1>3. x # NoPerson /\ x \in People /\ p \in Publications /\ p \in Entities
  BY <1>1, <1>2, WhatItKnows DEF ProposesPerson
<1>4. CASE IsLive(db, p) /\ IsLive(db, x)
  <2>1. /\ Puts(IF <<p, x>> \in db.links THEN db ELSE Propose(db, p, x))
        /\ Becomes(s, Checked(s, To(s, "linking", x)))
    BY <1>2, <1>4 DEF ProposesPerson
  <2>2. /\ Growing /\ Edits(db') /\ name' \in [People -> Names]
        /\ <<p, x>> \in db.links \/ <<p, x>> \in db'.proposals
    BY <1>3, <1>4, <2>1, ProposingIsGrowing
  <2>3. IsNamed(p, x)' /\ IsLive(db', p)
    BY <1>3, <1>4, <2>2, GrowingLeaves DEF IsNamed, Refers, Growing, Grows
  <2>4. IsLive(db', x)
    BY <1>3, <1>4, <2>2, GrowingLeaves, Ids
  <2>5. h # "dirty" => IsMatch(x, a)'
    <3>1. h # "dirty" => IsMatch(x, a)
      BY <1>1, <1>2, <1>3, WhatItKnows DEF Knows, KnowsThat
    <3> QED BY <2>2, <3>1, MatchesStay DEF EnrichInv
  <2>6. h # "dirty" => KnowsThat(p, s[2], "linking", x, h = "again")'
    BY <1>1, <1>2, <2>2, <2>3, <2>4, <2>5, AgainStays DEF KnowsThat
  <2> QED BY <1>1, <1>2, <1>3, <2>1, <2>2, <2>6, GoingOnKeeps DEF UnderWay, Writing
<1>5. CASE ~(IsLive(db, p) /\ IsLive(db, x))
  BY <1>1, <1>2, <1>5, ReadingIsGrowing, EndingKeeps DEF ProposesPerson
<1> QED BY <1>4, <1>5

(* ... or someone new, whom matching would find, ... *)
LEMMA ProposesNewPersonKeeps ==
    ASSUME EnrichInv, NEW s \in Subtasks, ProposesNewPerson(s)
    PROVE  EnrichInv'
<1>1. IsUnderWay(s) /\ sub[s].step = "naming" /\ sub[s].person = NoPerson /\ s[2] \in Authors
  <2>1. IsUnderWay(s)
    BY DEF ProposesNewPerson, IsUnderWay, UnderWay, Writing
  <2> QED BY <2>1, WhatItKnows DEF ProposesNewPerson
<1>2. PICK p, h, a : p = RootOf(s) /\ h = sub[s].hist /\ a = s[2]
  OBVIOUS
<1>3. p \in Publications /\ p \in Entities
  BY <1>1, <1>2, WhatItKnows
<1>4. CASE ~IsLive(db, p)
  BY <1>1, <1>2, <1>4, ReadingIsGrowing, EndingKeeps DEF ProposesNewPerson
<1>5. CASE IsLive(db, p)
  <2>1. PICK x \in People :
          /\ \A y \in People : (name[y] = NoName) <=> (y >= x)
          /\ Edits(Propose(Insert(db, x, "draft"), p, x))
          /\ name' = [name EXCEPT ![x] = NameOf[a]]
          /\ Becomes(s, Checked(s, To(s, "linking", x)))
          /\ UNCHANGED held
    BY <1>2, <1>5 DEF ProposesNewPerson
  <2>2. name[x] = NoName /\ ~IsLive(db, x) /\ x \in Entities /\ x # NoPerson
    <3>1. x >= x
      BY IdsAreOrdered
    <3> QED BY <2>1, <3>1, Ids, IdsAreOrdered DEF EnrichInv, RowsInv, NoPerson
  <2> DEFINE n == Propose(Insert(db, x, "draft"), p, x)
  <2>3. db' = n /\ Edits(db')
    BY <2>1 DEF Edits, Write
  <2>4. /\ Grows(db, n) /\ IsLive(n, x) /\ <<p, x>> \in n.proposals
        /\ \A y \in Entities : y # x => n.mark[y] = db.mark[y]
    BY <1>3, <1>5, <2>2, InsertingGrows DEF EnrichInv, RowsInv
  <2> HIDE DEF n
  <2>5. /\ name \in [People -> Names] /\ name' \in [People -> Names]
        /\ name'[x] = NameOf[a] /\ NameOf[a] # NoName
        /\ \A y \in People : y # x => name'[y] = name[y]
    BY <1>1, <1>2, <2>1, IdsAreOrdered DEF EnrichInv, TypeInv, Names
  <2>6. \A y \in People : IsLive(db', y) /\ ~IsLive(db, y) => y = x
    BY <2>3, <2>4, Ids DEF IsLive
  <2>7. Growing
    BY <2>1, <2>2, <2>3, <2>4, <2>5, <2>6 DEF Growing
  <2>8. IsLive(db', x) /\ IsNamed(p, x)' /\ IsLive(db', p)
    BY <1>3, <1>5, <2>3, <2>4, <2>7, GrowingLeaves DEF IsNamed, Refers
  <2>9. x \in FindByName(a)'
    <3>1. \A b : <<x, b>> \notin held
      <4> SUFFICES ASSUME NEW b, <<x, b>> \in held
                   PROVE  FALSE
        OBVIOUS
      <4>1. IsLive(db, <<x, b>>[1])
        BY DEF EnrichInv, RowsInv
      <4> QED BY <2>2, <4>1
    <3> QED BY <2>1, <2>5, <2>8, <3>1 DEF FindByName, Live
  <2>10. h # "dirty" => FindByRecord(a)' = {}
    <3>1. h # "dirty" => FindByRecord(a) = {}
      BY <1>1, <1>2, WhatItKnows DEF Knows, KnowsThat
    <3> QED BY <2>7, <3>1, MatchesStay DEF EnrichInv
  <2>11. h # "dirty" => IsMatch(x, a)'
    BY <2>9, <2>10 DEF IsMatch
  <2>12. h # "dirty" => KnowsThat(p, s[2], "linking", x, h = "again")'
    BY <1>1, <1>2, <2>7, <2>8, <2>11, AgainStays DEF KnowsThat
  <2> QED BY <1>1, <1>2, <2>1, <2>2, <2>3, <2>5, <2>7, <2>12, GoingOnKeeps DEF UnderWay, Writing
<1> QED BY <1>4, <1>5

(* ... and then a link to the author's record. *)
LEMMA ProposesLinkToKeeps ==
    ASSUME EnrichInv, NEW s \in Subtasks, ProposesLinkTo(s)
    PROVE  EnrichInv'
<1>1. IsUnderWay(s) /\ sub[s].step = "linking" /\ s[2] \in Authors
  <2>1. IsUnderWay(s)
    BY DEF ProposesLinkTo, IsUnderWay, UnderWay, Writing
  <2> QED BY <2>1, WhatItKnows DEF ProposesLinkTo
<1>2. PICK p, a, x : p = RootOf(s) /\ a = s[2] /\ x = sub[s].person
  OBVIOUS
<1>3. x \in People /\ x \in Entities /\ x # NoPerson /\ p \in Publications /\ a \notin People
  BY <1>1, <1>2, WhatItKnows, Ids
<1>4. CASE ~IsLive(db, x)
  BY <1>1, <1>2, <1>4, ReadingIsGrowing, EndingKeeps DEF ProposesLinkTo
<1>5. CASE IsLive(db, x)
  <2>1. /\ Puts(IF <<x, a>> \in held THEN db ELSE Propose(db, x, a))
        /\ Becomes(s, Finished(s))
    BY <1>2, <1>5 DEF ProposesLinkTo
  <2>2. /\ Growing /\ Edits(db') /\ name' \in [People -> Names]
        /\ <<x, a>> \in held \/ <<x, a>> \in db'.proposals
    BY <1>1, <1>2, <1>3, <1>5, <2>1, ProposingIsGrowing
  <2>3. x \in Live(People)' /\ HasRecord(x, a)'
    BY <1>3, <1>5, <2>2, GrowingLeaves DEF Live, HasRecord, Growing
  <2>4. sub[s].hist # "dirty" => IsDone(p, s[2])'
    <3> SUFFICES ASSUME sub[s].hist # "dirty"
                 PROVE  IsDone(p, a)'
      BY <1>2
    <3>1. IsMatch(x, a) /\ IsNamed(p, x)
      BY <1>1, <1>2, <1>3, WhatItKnows DEF Knows, KnowsThat
    <3>2. IsMatch(x, a)' /\ IsNamed(p, x)'
      BY <1>3, <2>2, <3>1, MatchesStay, DoneStays DEF EnrichInv
    <3> QED BY <1>1, <1>2, <2>3, <3>2 DEF IsDone
  <2> QED BY <1>1, <1>2, <2>1, <2>2, <2>4, FinishingKeeps
<1> QED BY <1>4, <1>5

(* It is dropped where it waits. *)
LEMMA DroppedKeeps ==
    ASSUME EnrichInv, NEW s \in Subtasks, Dropped(s)
    PROVE  EnrichInv'
BY ReadingIsGrowing, EndingKeeps DEF Dropped

-----------------------------------------------------------------------------
(***************************************************************************)
(* The invariant                                                           *)
(***************************************************************************)

(* Nobody has been proposed yet, and no run has begun. *)
LEMMA EnrichInvInit ==
    EnrichmentInit => EnrichInv
<1> SUFFICES ASSUME EnrichmentInit
             PROVE  EnrichInv
  OBVIOUS
<1>1. PICK mark \in [Publications -> {"draft", "committed"}] :
        db = [mark |-> [e \in Entities |-> IF e \in Publications THEN mark[e] ELSE "absent"],
              kind |-> [a \in Parents |-> Unclassified],
              links |-> {}, proposals |-> {}]
  BY DEF EnrichmentInit
<1>2. db \in Tables
  BY <1>1 DEF Tables, Marks
<1>3. \A e \in Entities : IsLive(db, e) => e \in Publications
  BY <1>1 DEF IsLive
<1>4. db.links = {} /\ db.proposals = {}
  BY <1>1
<1>5. IsSound(db) /\ AllAreNamed(db)
  BY <1>2, <1>3, <1>4, Ids DEF IsSound, AllAreNamed
<1>6. RowsInv
  BY <1>3, <1>5, Ids DEF RowsInv, EnrichmentInit
<1>7. TypeInv
  BY DEF EnrichmentInit, TypeInv, Names, RunStates, SubtaskStates, NotStarted
<1>8. ReviewInv
  BY ReviewsToCome DEF EnrichmentInit, ReviewInv
<1>9. SpareInv /\ \A s \in Subtasks : IsSubtask(s)
  BY DEF EnrichmentInit, SpareInv, IsSubtask, NotStarted, Writing
<1> QED BY <1>6, <1>7, <1>8, <1>9 DEF EnrichInv

(* Every step keeps it. *)
LEMMA EnrichInvNext ==
    EnrichInv /\ [EnrichmentNext]_allVars => EnrichInv'
<1> SUFFICES ASSUME EnrichInv, [EnrichmentNext]_allVars
             PROVE  EnrichInv'
  OBVIOUS
<1>1. CASE Acts
  BY <1>1, CancelKeeps, BeginningKeeps DEF Acts
<1>2. CASE GoesOn
  <2>1. ASSUME NEW s \in Subtasks, Subtask(s)
        PROVE  EnrichInv'
    BY <2>1, AnsweredKeeps, LoadsKeeps, ProposesFieldsKeeps, ClassifiesKeeps, MatchesRecordKeeps,
       MatchesNameKeeps, ProposesPersonKeeps, ProposesNewPersonKeeps, ProposesLinkToKeeps,
       DroppedKeeps DEF Subtask
  <2> QED BY <1>2, <2>1, EnrichingKeeps, ContinuingKeeps DEF GoesOn
<1>3. CASE Restart
  BY <1>3, RestartKeeps
<1>4. CASE UNCHANGED allVars
  <2>1. UNCHANGED <<db, name, held, run, sub, registry, review>>
    BY <1>4 DEF allVars, mine
  <2> QED BY <2>1, LookingKeeps DEF EnrichInv, ReviewInv, TypeInv
<1> QED BY <1>1, <1>2, <1>3, <1>4 DEF EnrichmentNext

(* The tables stay sound, whoever writes between a subtask's look and its write; and a
   subtask since whose start no user wrote knows what the run before it has left done. *)
THEOREM Enriched == EnrichmentSpec => []EnrichInv
BY EnrichInvInit, EnrichInvNext, PTL DEF EnrichmentSpec

-----------------------------------------------------------------------------
(***************************************************************************)
(* Who writes                                                              *)
(***************************************************************************)

\* Authors are looked up when the edition is done.
AuthorsInv ==
    \A s \in Subtasks : s[2] # Edition /\ sub[s].step # "none" =>
        sub[<<s[1], Edition>>].step \in {"ended", "finished"}

\* What most steps make of a subtask
GoesThrough(s) ==
    \/ sub'[s].step = sub[s].step
    \/ sub[s].step \in UnderWay /\ sub'[s].step # "none"
    \/ sub[s].step = "finished" /\ sub'[s].step = "ended"

(* A user's write. *)
LEMMA WritingGoesThrough ==
    ASSUME EnrichInv, NEW d, NEW h, NEW reviews, UserWrites(d, h, reviews), NEW s \in Subtasks
    PROVE  /\ GoesThrough(s) /\ UNCHANGED <<run, registry>>
           /\ sub[s].step \in Writing => sub'[s].step = sub[s].step
<1>1. sub[s] \in SubtaskStates
  BY DEF EnrichInv, TypeInv
<1>2. sub'[s] = IF sub[s].step = "finished" THEN Ended ELSE [sub[s] EXCEPT !.hist = "dirty"]
  BY DEF UserWrites
<1> QED BY <1>1, <1>2 DEF SubtaskStates, GoesThrough, Ended, NotStarted, UserWrites, Writing

(* A cancellation. *)
LEMMA CancellingGoesThrough ==
    ASSUME EnrichInv, NEW n, Cancels(n), NEW s \in Subtasks
    PROVE  GoesThrough(s)
<1>1. sub[s] \in SubtaskStates
  BY DEF EnrichInv, TypeInv
<1>2. sub'[s] = IF s[1] = n /\ sub[s].step \in Writing THEN [sub[s] EXCEPT !.spare = TRUE] ELSE sub[s]
  BY DEF Cancels, Cancelled
<1> QED BY <1>1, <1>2 DEF SubtaskStates, GoesThrough

(* What users do besides to the registry is to forget. *)
LEMMA UsersGoThrough ==
    ASSUME EnrichInv, NEW r \in Reviewers, Begins(r) \/ Continues(r), NEW s \in Subtasks
    PROVE  /\ GoesThrough(s)
           /\ db' = db \/ (sub[s].step \in Writing => sub'[s].step = sub[s].step)
           /\ UNCHANGED registry \/ Forgets(r) \/ CancelsPending(r)
<1> USE DEF mine
<1>1. CASE \E d, h, reviews : UserWrites(d, h, reviews)
  BY <1>1, WritingGoesThrough
<1>2. CASE UNCHANGED <<db, sub>> /\ (UNCHANGED registry \/ Forgets(r) \/ CancelsPending(r))
  BY <1>2 DEF GoesThrough
<1>3. CASE UNCHANGED db /\ (UNCHANGED registry \/ CancelsPending(r)) /\ \E n : Cancels(n)
  BY <1>3, CancellingGoesThrough
<1>4. CASE Begins(r)
  <2>1. CASE RejectsOne(r) \/ RejectsOrDeletes(r) \/ CommitsOne(r) \/ DeletesLibrary(r)
    BY <1>1, <2>1 DEF RejectsOne, RejectsOrDeletes, CommitsOne, DeletesLibrary, RejectsEvery, DeletesOne
  <2>2. CASE (ReadProposal(r) /\ UNCHANGED mine) \/ ListsRows(r)
    BY <1>2, <2>2 DEF ReadProposal, ListsRows
  <2>3. CASE DiscardsItem(r)
    BY <1>2, <1>3, <2>3 DEF DiscardsItem
  <2> QED BY <1>4, <2>1, <2>2, <2>3 DEF Begins
<1>5. CASE Continues(r)
  <2>1. CASE Accepts(r)
    BY <1>1, <1>2, <2>1 DEF Accepts
  <2>2. CASE Discards(r)
    BY <1>1, <2>2 DEF Discards
  <2>3. CASE ActsOnReloaded(r)
    BY <1>1, <1>2, <2>3 DEF ActsOnReloaded, DeletesOne, RejectsEvery
  <2>4. CASE Reloads(r) \/ ChecksQueue(r) \/ ListsRuns(r)
    BY <1>2, <2>4 DEF Reloads, ChecksQueue, ListsRuns
  <2>5. CASE Forgets(r)
    BY <1>2, <2>5 DEF Forgets
  <2>6. CASE CancelsPending(r)
    BY <1>2, <1>3, <2>6 DEF CancelsPending
  <2> QED BY <1>5, <2>1, <2>2, <2>3, <2>4, <2>5, <2>6 DEF Continues
<1> QED BY <1>4, <1>5

(* What a subtask does besides to others is to enqueue authors. *)
LEMMA SubtaskGoesThrough ==
    ASSUME EnrichInv, NEW t \in Subtasks, Subtask(t), NEW s \in Subtasks
    PROVE  /\ UNCHANGED registry
           /\ GoesThrough(s) \/ Classifies(t)
           /\ db' # db => \/ ProposesFields(t) \/ Classifies(t) \/ ProposesPerson(t)
                          \/ ProposesNewPerson(t) \/ ProposesLinkTo(t)
           /\ db' # db /\ s # t /\ ~Classifies(t) => sub'[s] = sub[s]
<1>1. sub \in [Subtasks -> SubtaskStates]
  BY DEF EnrichInv, TypeInv
<1>2. CASE Classifies(t)
  BY <1>2 DEF Classifies, Becomes, Fails
<1>3. /\ Fails(t) => UNCHANGED registry /\ sub' = [sub EXCEPT ![t] = Ended]
      /\ \A next : Becomes(t, next) => UNCHANGED registry /\ sub' = [sub EXCEPT ![t] = next]
      /\ Reads => db' = db
  BY DEF Fails, Becomes, Reads
<1>4. Ended.step = "ended" /\ Finished(t).step \in {"ended", "finished"}
      /\ \A next, x : next # "none" => To(t, next, x).step = next /\ Checked(t, To(t, next, x)).step # "none"
  BY <1>1 DEF Ended, Finished, NotStarted, To, Checked, SubtaskStates
<1>5. ASSUME IsUnderWay(t), UNCHANGED registry, NEW next, next.step # "none",
             sub' = [sub EXCEPT ![t] = next]
      PROVE  /\ UNCHANGED registry /\ GoesThrough(s)
             /\ s # t => sub'[s] = sub[s]
  <2>1. s # t => sub'[s] = sub[s]
    BY <1>1, <1>5
  <2>2. sub'[t] = next
    BY <1>1, <1>5
  <2> QED BY <1>5, <2>1, <2>2 DEF GoesThrough, IsUnderWay
<1> DEFINE P == UNCHANGED registry /\ GoesThrough(s) /\ (s # t => sub'[s] = sub[s])
<1>6. ASSUME IsUnderWay(t),
             \/ Fails(t) \/ Becomes(t, Ended) \/ Becomes(t, Finished(t))
             \/ \E next, x : /\ next # "none"
                             /\ Becomes(t, To(t, next, x)) \/ Becomes(t, Checked(t, To(t, next, x)))
      PROVE  P
  <2>1. CASE Fails(t) \/ Becomes(t, Ended)
    BY <1>3, <1>4, <1>5, <1>6, <2>1
  <2>2. CASE Becomes(t, Finished(t))
    <3>1. Finished(t).step # "none"
      BY <1>4
    <3> QED BY <1>3, <1>5, <1>6, <2>2, <3>1
  <2>3. ASSUME NEW step, NEW x, step # "none",
               Becomes(t, To(t, step, x)) \/ Becomes(t, Checked(t, To(t, step, x)))
        PROVE  P
    <3>1. PICK next : next.step # "none" /\ Becomes(t, next)
      BY <1>4, <2>3
    <3> QED BY <1>3, <1>5, <1>6, <3>1
  <2> QED BY <1>6, <2>1, <2>2, <2>3
<1> HIDE DEF P
<1>7. CASE Answered(t)
  <2>1. IsUnderWay(t) /\ Reads
    BY <1>7 DEF Answered, IsUnderWay, UnderWay
  <2>2. P
    BY <1>6, <1>7, <2>1 DEF Answered
  <2> QED BY <1>3, <2>1, <2>2 DEF P
<1>8. CASE Loads(t) /\ IsLive(db, RootOf(t))
  <2>1. IsUnderWay(t) /\ Reads
    BY <1>8 DEF Loads, IsUnderWay, UnderWay
  <2>2. P
    BY <1>6, <1>8, <2>1 DEF Loads
  <2> QED BY <1>3, <2>1, <2>2 DEF P
<1>9. CASE Loads(t) /\ ~IsLive(db, RootOf(t))
  <2>1. PICK subs : subs = [sub EXCEPT ![t] = Ended]
    OBVIOUS
  <2>2. subs \in [Subtasks -> SubtaskStates] /\ subs[s] \in {sub[s], Ended} /\ (s # t => subs[s] = sub[s])
    BY <1>1, <2>1 DEF Ended, NotStarted, SubtaskStates
  <2>3. sub'[s] = IF s[1] = t[1] /\ subs[s].step \in Writing THEN [subs[s] EXCEPT !.spare = TRUE] ELSE subs[s]
    BY <1>9, <2>1 DEF Loads, Cancelled
  <2>4. sub'[s].step = subs[s].step
    BY <2>2, <2>3 DEF SubtaskStates
  <2>5. sub[t].step \in UnderWay /\ db' = db /\ UNCHANGED registry
    BY <1>9 DEF Loads, UnderWay, Reads
  <2> QED BY <1>4, <2>2, <2>4, <2>5 DEF GoesThrough
<1>10. CASE ProposesFields(t)
  <2>1. IsUnderWay(t)
    BY <1>10 DEF ProposesFields, IsUnderWay, UnderWay, Writing
  <2>2. P
    BY <1>6, <1>10, <2>1 DEF ProposesFields
  <2> QED BY <1>10, <2>2 DEF P
<1>11. CASE MatchesRecord(t)
  <2>1. IsUnderWay(t) /\ Reads
    BY <1>11 DEF MatchesRecord, IsUnderWay, UnderWay
  <2>2. P
    BY <1>6, <1>11, <2>1 DEF MatchesRecord, Matched
  <2> QED BY <1>3, <2>1, <2>2 DEF P
<1>12. CASE MatchesName(t)
  <2>1. IsUnderWay(t) /\ Reads
    BY <1>12 DEF MatchesName, IsUnderWay, UnderWay
  <2>2. P
    BY <1>6, <1>12, <2>1 DEF MatchesName, Matched
  <2> QED BY <1>3, <2>1, <2>2 DEF P
<1>13. CASE ProposesPerson(t)
  <2>1. IsUnderWay(t)
    BY <1>13 DEF ProposesPerson, IsUnderWay, UnderWay, Writing
  <2>2. P
    BY <1>6, <1>13, <2>1 DEF ProposesPerson
  <2> QED BY <1>13, <2>2 DEF P
<1>14. CASE ProposesNewPerson(t)
  <2>1. IsUnderWay(t)
    BY <1>14 DEF ProposesNewPerson, IsUnderWay, UnderWay, Writing
  <2>2. P
    BY <1>6, <1>14, <2>1 DEF ProposesNewPerson
  <2> QED BY <1>14, <2>2 DEF P
<1>15. CASE ProposesLinkTo(t)
  <2>1. IsUnderWay(t)
    BY <1>15 DEF ProposesLinkTo, IsUnderWay, UnderWay, Writing
  <2>2. P
    BY <1>6, <1>15, <2>1 DEF ProposesLinkTo
  <2> QED BY <1>15, <2>2 DEF P
<1>16. CASE Dropped(t)
  <2>1. P
    BY <1>6, <1>16 DEF Dropped
  <2> QED BY <1>3, <1>16, <2>1 DEF P, Dropped
<1> QED BY <1>2, <1>7, <1>8, <1>9, <1>10, <1>11, <1>12, <1>13, <1>14, <1>15, <1>16 DEF Subtask

(* Nothing is enqueued twice. *)
LEMMA AuthorsNext ==
    ASSUME EnrichInv, AuthorsInv, [EnrichmentNext]_allVars
    PROVE  AuthorsInv'
<1> SUFFICES ASSUME NEW s \in Subtasks, s[2] # Edition, sub'[s].step # "none"
             PROVE  sub'[<<s[1], Edition>>].step \in {"ended", "finished"}
  BY DEF AuthorsInv
<1>1. PICK e : e = <<s[1], Edition>>
  OBVIOUS
<1>2. e \in Subtasks /\ e[1] = s[1] /\ e[2] = Edition /\ s[1] \in Runs /\ s[2] \in Authors /\ s # e
  BY <1>1 DEF Subtasks
<1>3. sub \in [Subtasks -> SubtaskStates]
  BY DEF EnrichInv, TypeInv
<1>4. CASE GoesThrough(s) /\ GoesThrough(e)
  <2>1. sub[s].step # "none"
    BY <1>4 DEF GoesThrough, UnderWay, Writing
  <2>2. sub[e].step \in {"ended", "finished"}
    BY <1>1, <2>1 DEF AuthorsInv
  <2> QED BY <1>1, <1>4, <2>2 DEF GoesThrough, UnderWay, Writing
<1>5. ASSUME NEW p \in Publications, Enrich(p)
      PROVE  sub'[e].step \in {"ended", "finished"}
  <2>1. PICK n \in Runs :
          /\ run[n].root = NoRoot
          /\ sub' = sub \/ sub' = [sub EXCEPT ![<<n, Edition>>] = Started(<<n, Edition>>, p)]
    BY <1>5 DEF Enrich
  <2>2. <<n, Edition>> \in Subtasks
    BY DEF Subtasks
  <2>3. sub'[s] = sub[s]
    BY <1>2, <1>3, <2>1, <2>2
  <2>4. sub[e].step \in {"ended", "finished"}
    BY <1>1, <2>3 DEF AuthorsInv
  <2>5. run[e[1]].root # NoRoot
    BY <1>2, <2>4 DEF EnrichInv, IsSubtask
  <2>6. e # <<n, Edition>>
    BY <1>2, <2>1, <2>5
  <2> QED BY <1>2, <1>3, <2>1, <2>2, <2>4, <2>6
<1>6. ASSUME NEW t \in Subtasks, Classifies(t)
      PROVE  sub'[e].step \in {"ended", "finished"}
  <2>1. IsUnderWay(t) /\ sub[t].step = "classifying"
    BY <1>6 DEF Classifies, IsUnderWay, UnderWay, Writing
  <2>2. t[2] = Edition /\ t[1] \in Runs /\ t = <<t[1], Edition>>
    BY <2>1, WhatItKnows DEF Subtasks
  <2>3. CASE t = e
    <3>1. sub'[e] = Ended \/ sub'[e] = Finished(e)
      BY <1>2, <1>3, <1>6, <2>3 DEF Classifies, Fails, WithAuthors
    <3> QED BY <3>1 DEF Ended, Finished, NotStarted
  <2>4. CASE t # e
    <3>1. t[1] # s[1]
      BY <1>1, <2>2, <2>4
    <3>2. s # t /\ e # t
      BY <1>2, <2>2, <3>1
    <3>3. sub'[s] = sub[s] /\ sub'[e] = sub[e]
      BY <1>2, <1>3, <1>6, <3>1, <3>2 DEF Classifies, Fails, WithAuthors
    <3> QED BY <1>1, <3>3 DEF AuthorsInv
  <2> QED BY <2>3, <2>4
<1>7. CASE Acts
  BY <1>1, <1>2, <1>4, <1>7, CancellingGoesThrough, UsersGoThrough DEF Acts, Cancel
<1>8. CASE GoesOn
  <2>1. ASSUME NEW t \in Subtasks, Subtask(t)
        PROVE  sub'[e].step \in {"ended", "finished"}
    BY <1>1, <1>2, <1>4, <1>6, <2>1, SubtaskGoesThrough
  <2>2. ASSUME NEW r \in Reviewers, Continues(r)
        PROVE  sub'[e].step \in {"ended", "finished"}
    BY <1>1, <1>2, <1>4, <2>2, UsersGoThrough
  <2> QED BY <1>1, <1>5, <1>8, <2>1, <2>2 DEF GoesOn
<1>9. CASE Restart
  <2>1. GoesThrough(s) /\ GoesThrough(e)
    BY <1>2, <1>9 DEF Restart, GoesThrough, IsUnderWay, Ended, NotStarted
  <2> QED BY <1>1, <1>4, <2>1
<1>10. CASE UNCHANGED allVars
  <2>1. GoesThrough(s) /\ GoesThrough(e)
    BY <1>10 DEF allVars, mine, GoesThrough
  <2> QED BY <1>1, <1>4, <2>1
<1> QED BY <1>1, <1>7, <1>8, <1>9, <1>10 DEF EnrichmentNext

(* No author is looked up before its edition is done. *)
LEMMA AuthorsWait == EnrichmentSpec => []AuthorsInv
<1>1. EnrichmentInit => AuthorsInv
  <2> SUFFICES ASSUME EnrichmentInit
               PROVE  AuthorsInv
    OBVIOUS
  <2>1. \A s \in Subtasks : sub[s].step = "none"
    BY DEF EnrichmentInit, NotStarted
  <2> QED BY <2>1 DEF AuthorsInv
<1>2. EnrichInv /\ AuthorsInv /\ [EnrichmentNext]_allVars => AuthorsInv'
  BY AuthorsNext
<1> QED BY <1>1, <1>2, Enriched, PTL DEF EnrichmentSpec

(* What moves a subtask on when something is written is its own write. *)
LEMMA WhoWrites ==
    ASSUME EnrichInv, AuthorsInv, [EnrichmentNext]_allVars, NEW s \in Subtasks, HasWritten(s)
    PROVE  \/ ProposesFields(s) \/ Classifies(s) \/ ProposesPerson(s)
           \/ ProposesNewPerson(s) \/ ProposesLinkTo(s)
<1> USE DEF HasWritten
<1>1. ASSUME NEW t \in Subtasks, Subtask(t)
      PROVE  \/ ProposesFields(s) \/ Classifies(s) \/ ProposesPerson(s)
             \/ ProposesNewPerson(s) \/ ProposesLinkTo(s)
  <2>1. CASE s = t
    BY <1>1, <2>1, SubtaskGoesThrough
  <2>2. CASE s # t /\ ~Classifies(t)
    BY <1>1, <2>2, SubtaskGoesThrough
  <2>3. CASE s # t /\ Classifies(t)
    <3>1. IsUnderWay(t) /\ sub[t].step = "classifying"
      BY <2>3 DEF Classifies, IsUnderWay, UnderWay, Writing
    <3>2. t = <<t[1], Edition>>
      BY <3>1, WhatItKnows DEF Subtasks
    <3>3. sub \in [Subtasks -> SubtaskStates]
      BY DEF EnrichInv, TypeInv
    <3>4. s[1] = t[1]
      BY <2>3, <3>3 DEF Classifies, Fails, WithAuthors
    <3>5. s[2] # Edition
      BY <2>3, <3>2, <3>4 DEF Subtasks
    <3>6. sub[<<s[1], Edition>>].step \in {"ended", "finished"}
      BY <3>5 DEF AuthorsInv, Writing
    <3> QED BY <3>1, <3>2, <3>4, <3>6
  <2> QED BY <2>1, <2>2, <2>3
<1>2. ASSUME NEW r \in Reviewers, Begins(r) \/ Continues(r)
      PROVE  FALSE
  BY <1>2, UsersGoThrough
<1>3. CASE Acts
  BY <1>2, <1>3 DEF Acts, Cancel
<1>4. CASE GoesOn
  BY <1>1, <1>2, <1>4 DEF GoesOn, Enrich
<1>5. CASE Restart \/ UNCHANGED allVars
  BY <1>5 DEF Restart, allVars
<1> QED BY <1>3, <1>4, <1>5 DEF EnrichmentNext

-----------------------------------------------------------------------------
(***************************************************************************)
(* The theorems                                                            *)
(***************************************************************************)

(* A run that is in progress or has failed is not forgotten by what was read before it
   began, nor by anything but a cancellation, a new run or the end of the process. *)
THEOREM RunsStay == EnrichmentSpec => RunsToReviewAreKept
<1>1. EnrichmentSpec => []BoundsInv
  <2>1. EnrichmentInit => BoundsInv
    BY DEF EnrichmentInit, BoundsInv
  <2>2. BoundsInv /\ [EnrichmentNext]_allVars => BoundsInv'
    BY DEF EnrichmentNext, Acts, GoesOn, Restart, allVars, BoundsInv
  <2> QED BY <2>1, <2>2, PTL DEF EnrichmentSpec
<1>2. ASSUME EnrichInv, BoundsInv, [EnrichmentNext]_allVars
      PROVE  \A p \in Publications :
               registry[p] # NoRun /\ NeedsReview(registry[p]) =>
                 \/ registry'[p] = registry[p]
                 \/ registry'[p] # NoRun /\ ~InProgress(registry[p])
                 \/ used'.restarts # used.restarts
  <2> SUFFICES ASSUME NEW p \in Publications, registry[p] # NoRun, NeedsReview(registry[p])
               PROVE  \/ registry'[p] = registry[p]
                      \/ registry'[p] # NoRun /\ ~InProgress(registry[p])
                      \/ used'.restarts # used.restarts
    OBVIOUS
  <2>1. registry \in [Publications -> Runs \union {NoRun}] /\ registry[p] \in Runs
    BY <1>2 DEF EnrichInv, TypeInv
  <2>2. ASSUME NEW r \in Reviewers, Begins(r) \/ Continues(r)
        PROVE  registry'[p] = registry[p]
    <3>1. CASE Forgets(r)
      BY <1>2, <2>1, <3>1 DEF Forgets, IsForgettable, NeedsReview
    <3>2. CASE CancelsPending(r)
      BY <1>2, <2>1, <3>2 DEF CancelsPending, NeedsReview
    <3>3. <<registry[p], Edition>> \in Subtasks
      BY <2>1 DEF Subtasks
    <3> QED BY <1>2, <2>2, <3>1, <3>2, <3>3, UsersGoThrough
  <2>3. ASSUME NEW q \in Publications, Enrich(q)
        PROVE  registry'[p] = registry[p] \/ (registry'[p] # NoRun /\ ~InProgress(registry[p]))
    <3>1. PICK n \in Runs : registry' = [registry EXCEPT ![q] = n]
      BY <2>3 DEF Enrich
    <3>2. n # NoRun
      BY IdsAreOrdered DEF Runs, NoRun
    <3>3. registry[q] # NoRun => ~InProgress(registry[q])
      BY <2>3 DEF Enrich
    <3> QED BY <1>2, <2>1, <3>1, <3>2, <3>3
  <2>4. CASE Acts
    BY <2>2, <2>4 DEF Acts, Cancel
  <2>5. CASE GoesOn
    <3>1. ASSUME NEW t \in Subtasks, Subtask(t)
          PROVE  registry' = registry
      BY <1>2, <3>1, SubtaskGoesThrough
    <3> QED BY <2>2, <2>3, <2>5, <3>1 DEF GoesOn
  <2>6. CASE Restart
    BY <1>2, <2>6 DEF Restart, BoundsInv
  <2>7. CASE UNCHANGED allVars
    BY <2>7 DEF allVars, mine
  <2> QED BY <1>2, <2>4, <2>5, <2>6, <2>7 DEF EnrichmentNext
<1> QED BY <1>1, <1>2, Enriched, PTL DEF EnrichmentSpec, RunsToReviewAreKept

(* What is cancelled writes no more than it was about to; and what is gone gets no
   proposals. *)
THEOREM RunsStop == EnrichmentSpec => StopsWhenOver
<1>1. ASSUME EnrichInv, AuthorsInv, [EnrichmentNext]_allVars
      PROVE  \A s \in Subtasks : HasWritten(s) =>
               /\ ~run[s[1]].cancelled \/ sub[s].spare
               /\ \/ IsLive(db, RootOf(s))
                  \/ sub[s].step = "linking" /\ IsNeededElsewhere(sub[s].person, RootOf(s))
  <2> SUFFICES ASSUME NEW s \in Subtasks, HasWritten(s)
               PROVE  /\ ~run[s[1]].cancelled \/ sub[s].spare
                      /\ \/ IsLive(db, RootOf(s))
                         \/ sub[s].step = "linking" /\ IsNeededElsewhere(sub[s].person, RootOf(s))
    OBVIOUS
  <2>1. ~run[s[1]].cancelled \/ sub[s].spare
    BY <1>1 DEF HasWritten, EnrichInv, SpareInv
  <2>2. IsUnderWay(s) /\ db' # db
    BY <1>1 DEF HasWritten, IsUnderWay, UnderWay
  <2>3. CASE ProposesFields(s) \/ Classifies(s) \/ ProposesPerson(s) \/ ProposesNewPerson(s)
    BY <2>1, <2>2, <2>3 DEF ProposesFields, Classifies, ProposesPerson, ProposesNewPerson, Reads
  <2>4. CASE ProposesLinkTo(s) /\ ~IsLive(db, RootOf(s))
    <3>1. PICK x, p : x = sub[s].person /\ p = RootOf(s)
      OBVIOUS
    <3>2. sub[s].step = "linking" /\ IsLive(db, x)
      BY <2>2, <2>4, <3>1 DEF ProposesLinkTo, Reads
    <3>3. x \in People
      BY <1>1, <2>2, <3>1, <3>2, WhatItKnows
    <3>4. PICK q \in Publications : Refers(db, q, x)
      BY <1>1, <3>2, <3>3 DEF EnrichInv, RowsInv, AllAreNamed
    <3>5. IsLive(db, q)
      BY <1>1, <3>4, Referring DEF EnrichInv, RowsInv
    <3>6. q # p
      BY <2>4, <3>1, <3>5
    <3>7. IsNeededElsewhere(x, p)
      BY <3>4, <3>6 DEF IsNeededElsewhere, Refers
    <3> QED BY <2>1, <3>1, <3>2, <3>7
  <2> QED BY <1>1, <2>1, <2>3, <2>4, WhoWrites
<1> QED BY <1>1, Enriched, AuthorsWait, PTL DEF EnrichmentSpec, StopsWhenOver

(* Whom matching finds is one person, but for namesakes. *)
LEMMA MatchIsOne ==
    ASSUME NEW a, NEW x, IsMatch(x, a), NEW y, IsMatch(y, a), x # y
    PROVE  \E v, w \in Namesakes(a) : v # w
<1>1. CASE FindByRecord(a) # {}
  <2>1. FindByRecord(a) \subseteq People
    BY DEF FindByRecord, Live
  <2> QED BY <1>1, <2>1, BestIsOne DEF IsMatch
<1>2. CASE FindByRecord(a) = {}
  <2>1. x \in Namesakes(a) /\ y \in Namesakes(a)
    BY <1>2 DEF IsMatch, FindByName, Namesakes
  <2> QED BY <2>1
<1> QED BY <1>1, <1>2

(* What a run has left done is found done by the next, down to the person each author was
   matched with: only namesakes make it write again. *)
THEOREM RerunsRepeat == EnrichmentSpec => RerunsAddNothing
<1>1. ASSUME EnrichInv, AuthorsInv, [EnrichmentNext]_allVars
      PROVE  \A s \in Subtasks : HasWritten(s) /\ sub[s].hist = "again"
               => s[2] # Edition /\ \E x, y \in Namesakes(s[2]) : x # y
  <2> SUFFICES ASSUME NEW s \in Subtasks, HasWritten(s), sub[s].hist = "again"
               PROVE  s[2] # Edition /\ \E x, y \in Namesakes(s[2]) : x # y
    OBVIOUS
  <2>1. IsUnderWay(s) /\ db' # db
    BY <1>1 DEF HasWritten, IsUnderWay, UnderWay
  <2>2. PICK p, a, x : p = RootOf(s) /\ a = s[2] /\ x = sub[s].person
    OBVIOUS
  <2>3. /\ p \in Publications /\ p \in Entities /\ Knows(s) /\ IsDone(p, a)
        /\ sub[s].step \in {"valuing", "classifying"} => a = Edition
        /\ sub[s].step \in {"naming", "linking"} => a \in Authors
        /\ x \in People \union {NoPerson} /\ (sub[s].step = "linking" => x # NoPerson)
    BY <1>1, <2>1, <2>2, WhatItKnows DEF Knows, KnowsThat
  <2>4. /\ sub[s].step = "naming" /\ x = NoPerson => ~IsLive(db, p)
        /\ sub[s].step \in {"naming", "linking"} /\ x # NoPerson => IsLive(db, x) /\ IsMatch(x, a)
        /\ sub[s].step = "linking" => IsLive(db, p)
    BY <1>1, <2>2, <2>3 DEF Knows, KnowsThat
  <2>5. Edition \notin Authors
    BY IdsAreOrdered
  <2>6. CASE ProposesFields(s)
    <3>1. IsLive(db, p) /\ Puts(IF <<p, Value>> \in held THEN db ELSE Propose(db, p, Value))
      BY <2>1, <2>2, <2>6 DEF ProposesFields, Reads
    <3>2. HasFields(p)
      BY <2>3, <2>5, <2>6 DEF ProposesFields, IsDone
    <3>3. <<p, Value>> \in held => db' = db
      BY <3>1 DEF Puts, Edits, Write
    <3>4. <<p, Value>> \in db.proposals => db' = db
      BY <1>1, <2>3, <3>1, Ids, ProposingIsGrowing
    <3> QED BY <2>1, <3>1, <3>2, <3>3, <3>4 DEF HasFields
  <2>7. CASE Classifies(s)
    BY <2>1, <2>2, <2>3, <2>5, <2>7 DEF Classifies, IsDone, Puts, Edits, Write, Reads
  <2>8. CASE ProposesPerson(s)
    <3>1. /\ IsLive(db, p) /\ IsLive(db, x) /\ x \in People /\ sub[s].step = "naming" /\ a \in Authors
          /\ Puts(IF <<p, x>> \in db.links THEN db ELSE Propose(db, p, x))
      BY <2>1, <2>2, <2>3, <2>8 DEF ProposesPerson, Reads
    <3>2. IsMatch(x, a)
      BY <2>2, <2>4, <2>8, <3>1 DEF ProposesPerson
    <3>3. PICK y \in People : IsMatch(y, a) /\ IsNamed(p, y)
      BY <2>3, <3>1 DEF IsDone, Live
    <3>4. <<p, x>> \in db.links => db' = db
      BY <3>1 DEF Puts, Edits, Write
    <3>5. <<p, x>> \in db.proposals => db' = db
      BY <1>1, <2>3, <3>1, ProposingIsGrowing
    <3>6. x # y
      BY <2>1, <3>1, <3>3, <3>4, <3>5 DEF IsNamed, Refers
    <3> QED BY <2>2, <2>5, <3>1, <3>2, <3>3, <3>6, MatchIsOne
  <2>9. CASE ProposesNewPerson(s)
    BY <2>1, <2>2, <2>4, <2>9 DEF ProposesNewPerson, Reads
  <2>10. CASE ProposesLinkTo(s)
    <3>1. /\ IsLive(db, x) /\ x \in People /\ x \in Entities /\ sub[s].step = "linking"
          /\ a \in Authors /\ a \notin People
          /\ Puts(IF <<x, a>> \in held THEN db ELSE Propose(db, x, a))
      BY <2>1, <2>2, <2>3, <2>10, Ids DEF ProposesLinkTo, Reads
    <3>2. IsMatch(x, a)
      BY <2>3, <2>4, <3>1
    <3>3. PICK y \in People : IsMatch(y, a) /\ HasRecord(y, a)
      BY <2>3, <2>4, <3>1 DEF IsDone, Live
    <3>4. <<x, a>> \in held => db' = db
      BY <3>1 DEF Puts, Edits, Write
    <3>5. <<x, a>> \in db.proposals => db' = db
      BY <1>1, <3>1, ProposingIsGrowing
    <3>6. x # y
      BY <2>1, <3>3, <3>4, <3>5 DEF HasRecord
    <3> QED BY <2>2, <2>5, <3>1, <3>2, <3>3, <3>6, MatchIsOne
  <2> QED BY <1>1, <2>6, <2>7, <2>8, <2>9, <2>10, WhoWrites
<1> QED BY <1>1, Enriched, AuthorsWait, PTL DEF EnrichmentSpec, RerunsAddNothing
=============================================================================
