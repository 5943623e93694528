---------------------------- MODULE CatalogProofs ----------------------------
(***************************************************************************)
(* The safety of Catalog, for any rows, kinds and reviewers, and of the    *)
(* shell's selection and the audit log beside it.                          *)
(*                                                                         *)
(* An operation is an operator on the tables, so most of the proof is      *)
(* about those: each makes sound tables of sound ones, and what it records *)
(* accounts for the rows that it makes, commits and deletes, and for every *)
(* field that it changes.                                                  *)
(***************************************************************************)
EXTENDS AuditLog, Shell, FiniteSetTheorems, TLAPS

Db == [mark : [Entities -> Marks],
       kind : [Parents -> Kinds \union {Unclassified}],
       links : SUBSET (Parents \X (Works \union People)),
       proposals : SUBSET (Entities \X (Works \union People \union {Value}))]

\* Works are in publications, and a row is linked or proposed only if it is
\* there.
Linked(d) ==
    \A l \in d.links : /\ IsLive(d, l[1]) /\ IsLive(d, l[2])
                       /\ l[2] \in Works => l[1] \in Publications
Proposed(d) ==
    \A p \in d.proposals : /\ IsLive(d, p[1])
                           /\ p[2] # Value => IsLive(d, p[2]) /\ p[1] \in Parents
                           /\ p[2] \in Works => p[1] \in Publications

Marked(d) ==
    \A l \in d.links : IsCommitted(d, l[1]) => IsCommitted(d, l[2])

\* Classified works, but for those of `rest`, which an operation has yet to
\* reach.
ClassifiedBut(d, rest) ==
    \A l \in d.links : l[1] \notin rest /\ l[2] \in Works /\ d.kind[l[1]] # Unclassified
        => d.kind[l[2]] # Unclassified

SoundBut(d, rest) ==
    d \in Db /\ Linked(d) /\ Proposed(d) /\ Marked(d) /\ ClassifiedBut(d, rest)

Sound(d) == SoundBut(d, {})

\* What a reviewer has read could be proposed.
IsReview(v) ==
    /\ v \in [step : Steps, of : Entities \union {Value},
              about : Works \union People \union {Value}, there : BOOLEAN]
    /\ IF v.step = "idle" THEN v = NotReviewing ELSE v.of \in Entities
    /\ v.step = "read" =>
        /\ v.about # Value => v.of \in Parents
        /\ v.about \in Works => v.of \in Publications

(* The inductive invariant. *)
Inv ==
    /\ Sound(db)
    /\ review = [r \in Reviewers |-> review[r]]
    /\ \A r \in Reviewers : IsReview(review[r])

-----------------------------------------------------------------------------
(***************************************************************************)
(* Tables                                                                  *)
(***************************************************************************)

(* The tables of a database. *)
LEMMA Tables ==
    ASSUME NEW d \in Db
    PROVE  /\ d.mark \in [Entities -> Marks]
           /\ d.kind \in [Parents -> Kinds \union {Unclassified}]
           /\ d.links \subseteq Parents \X (Works \union People)
           /\ d.proposals \subseteq Entities \X (Works \union People \union {Value})
           /\ \A l \in d.links : l[1] \in Parents /\ l[2] \in Works \union People
           /\ \A p \in d.proposals : p[1] \in Entities /\ p[2] \in Works \union People \union {Value}
BY DEF Db

(* What an operation that changes one table makes. *)
LEMMA OneTable ==
    ASSUME NEW d \in Db, NEW S
    PROVE  /\ [d EXCEPT !.kind = S] =
                [mark |-> d.mark, kind |-> S, links |-> d.links, proposals |-> d.proposals]
           /\ [d EXCEPT !.links = S] =
                [mark |-> d.mark, kind |-> d.kind, links |-> S, proposals |-> d.proposals]
           /\ [d EXCEPT !.proposals = S] =
                [mark |-> d.mark, kind |-> d.kind, links |-> d.links, proposals |-> S]
BY DEF Db

(* Rows that are linked, as entities. *)
LEMMA LinkedRows ==
    /\ Parents \subseteq Entities /\ Works \union People \subseteq Entities
    /\ Works \subseteq Parents /\ Publications \subseteq Parents
    /\ Parents \intersect People = {} /\ Value \notin Entities
    /\ Publications \intersect Works = {}
BY IdsAreDistinct DEF Parents, Entities

(* Deleting rows leaves tables of the same types, ... *)
LEMMA RemoveTyped ==
    ASSUME NEW d \in Db, NEW gone
    PROVE  Remove(d, gone) \in Db
<1> DEFINE mark == [e \in Entities |-> IF e \in gone THEN "absent" ELSE d.mark[e]]
           kind == [a \in Parents |-> IF a \in gone THEN Unclassified ELSE d.kind[a]]
<1>1. mark \in [Entities -> Marks] /\ kind \in [Parents -> Kinds \union {Unclassified}]
  BY Tables DEF Marks
<1>2. /\ {l \in d.links : l[1] \notin gone /\ l[2] \notin gone}
            \in SUBSET (Parents \X (Works \union People))
      /\ {p \in d.proposals : p[1] \notin gone /\ p[2] \notin gone}
            \in SUBSET (Entities \X (Works \union People \union {Value}))
  BY Tables
<1> QED BY <1>1, <1>2 DEF Remove, Db

(* ... and, with all that refers to them, sound tables. *)
LEMMA RemoveSound ==
    ASSUME NEW rest, NEW d, SoundBut(d, rest), NEW gone
    PROVE  SoundBut(Remove(d, gone), rest)
<1> DEFINE n == Remove(d, gone)
<1> USE LinkedRows
<1>1. /\ n.mark = [e \in Entities |-> IF e \in gone THEN "absent" ELSE d.mark[e]]
      /\ n.kind = [a \in Parents |-> IF a \in gone THEN Unclassified ELSE d.kind[a]]
      /\ n.links = {l \in d.links : l[1] \notin gone /\ l[2] \notin gone}
      /\ n.proposals = {p \in d.proposals : p[1] \notin gone /\ p[2] \notin gone}
      /\ n = [mark |-> n.mark, kind |-> n.kind, links |-> n.links, proposals |-> n.proposals]
  BY DEF Remove
<1> HIDE DEF n
<1>2. d \in Db
  BY DEF SoundBut
<1>3. n \in Db
  BY <1>2, RemoveTyped DEF n
<1>4. \A l \in n.links : /\ l \in d.links /\ l[1] \in Parents /\ l[2] \in Works \union People
                         /\ n.mark[l[1]] = d.mark[l[1]] /\ n.mark[l[2]] = d.mark[l[2]]
                         /\ n.kind[l[1]] = d.kind[l[1]]
                         /\ l[2] \in Works => n.kind[l[2]] = d.kind[l[2]]
  BY <1>1, <1>2, Tables
<1>5. \A p \in n.proposals : /\ p \in d.proposals
                             /\ n.mark[p[1]] = d.mark[p[1]]
                             /\ p[2] # Value => n.mark[p[2]] = d.mark[p[2]]
  BY <1>1, <1>2, Tables
<1>6. Linked(n) /\ Marked(n) /\ ClassifiedBut(n, rest)
  BY <1>4 DEF SoundBut, Linked, Marked, ClassifiedBut, IsLive, IsCommitted
<1>7. Proposed(n)
  BY <1>5 DEF SoundBut, Proposed, IsLive
<1> QED BY <1>3, <1>6, <1>7 DEF SoundBut, n

(* So does collecting orphans. *)
LEMMA CollectSound ==
    ASSUME NEW rest, NEW d, SoundBut(d, rest)
    PROVE  SoundBut(CollectPeople(d), rest) /\ SoundBut(Collect(d), rest)
<1>1. ASSUME NEW e, SoundBut(e, rest)
      PROVE  SoundBut(CollectPeople(e), rest)
  BY <1>1, RemoveSound DEF CollectPeople
<1>2. SoundBut(Remove(d, OrphanWorks(d)), rest)
  BY RemoveSound
<1> QED BY <1>1, <1>2 DEF Collect

(* Collecting people touches no classification. *)
LEMMA CollectPeopleKeepsKinds ==
    ASSUME NEW d \in Db
    PROVE  CollectPeople(d).kind = d.kind
<1>1. \A a \in Parents : a \notin OrphanPeople(d)
  BY LinkedRows DEF OrphanPeople
<1>2. CollectPeople(d).kind = [a \in Parents |-> d.kind[a]]
  BY <1>1 DEF CollectPeople, Remove
<1> QED BY <1>2, Tables

(* Committing rows changes marks and drops proposals. *)
LEMMA CommitRowsTyped ==
    ASSUME NEW d \in Db, NEW these
    PROVE  LET n == CommitRows(d, these)
               committed == {e \in these : IsDraft(d, e)}
           IN /\ n.mark = [e \in Entities |-> IF e \in committed THEN "committed" ELSE d.mark[e]]
              /\ n.proposals = {p \in d.proposals : p[1] \notin committed}
              /\ n.kind = d.kind /\ n.links = d.links
              /\ n \in Db
<1> DEFINE n == CommitRows(d, these)
           committed == {e \in these : IsDraft(d, e)}
           mark == [e \in Entities |-> IF e \in committed THEN "committed" ELSE d.mark[e]]
           proposals == {p \in d.proposals : p[1] \notin committed}
<1>1. n = [d EXCEPT !.mark = mark, !.proposals = proposals]
  BY DEF CommitRows, ProposalsAfter
<1>2. /\ mark \in [Entities -> Marks]
      /\ proposals \in SUBSET (Entities \X (Works \union People \union {Value}))
  BY Tables DEF Marks
<1> HIDE DEF n, mark, proposals
<1>3. n = [mark |-> mark, kind |-> d.kind, links |-> d.links, proposals |-> proposals]
  BY <1>1 DEF Db
<1>4. n \in Db
  BY <1>2, <1>3, Tables DEF Db
<1> QED BY <1>3, <1>4 DEF n, mark, proposals

(* It leaves sound tables if what the rows refer to is committed too, or was. *)
LEMMA CommitRowsSound ==
    ASSUME NEW rest, NEW d \in Db, Linked(d), Proposed(d), ClassifiedBut(d, rest), NEW these,
           \A l \in d.links : IsCommitted(d, l[1]) \/ l[1] \in these =>
                                  IsCommitted(d, l[2]) \/ l[2] \in these
    PROVE  SoundBut(CommitRows(d, these), rest) /\ CommitRows(d, these).kind = d.kind
<1> DEFINE n == CommitRows(d, these)
           committed == {e \in these : IsDraft(d, e)}
<1> USE LinkedRows
<1>1. /\ n.mark = [e \in Entities |-> IF e \in committed THEN "committed" ELSE d.mark[e]]
      /\ n.proposals = {p \in d.proposals : p[1] \notin committed}
      /\ n.kind = d.kind /\ n.links = d.links
      /\ n \in Db
  BY CommitRowsTyped
<1> HIDE DEF n
<1>3. \A e \in Entities : /\ IsLive(n, e) <=> IsLive(d, e)
                          /\ IsCommitted(n, e) <=> \/ IsCommitted(d, e)
                                                   \/ e \in these /\ IsLive(d, e)
  BY <1>1, Tables DEF IsLive, IsCommitted, IsDraft, Marks
<1>4. \A l \in d.links : l[1] \in Entities /\ l[2] \in Entities
  BY Tables
<1>5. \A p \in n.proposals : /\ p \in d.proposals /\ p[1] \in Entities
                             /\ p[2] # Value => p[2] \in Entities
  BY <1>1, Tables
<1>6. Linked(n) /\ Marked(n) /\ ClassifiedBut(n, rest)
  BY <1>1, <1>3, <1>4 DEF Linked, Marked, ClassifiedBut
<1>7. Proposed(n)
  BY <1>3, <1>5 DEF Proposed
<1> QED BY <1>1, <1>6, <1>7 DEF SoundBut, n

(* A new row refers to nothing and nothing refers to it yet. *)
LEMMA InsertSound ==
    ASSUME NEW d, Sound(d), NEW e \in Entities, ~IsLive(d, e),
           NEW mark \in {"draft", "committed"}
    PROVE  /\ Sound(Insert(d, e, mark))
           /\ Insert(d, e, mark).mark = [d.mark EXCEPT ![e] = mark]
           /\ Insert(d, e, mark).kind = d.kind
           /\ Insert(d, e, mark).links = d.links
           /\ Insert(d, e, mark).proposals = d.proposals
<1> DEFINE n == Insert(d, e, mark)
<1> USE LinkedRows
<1>1. d \in Db
  BY DEF Sound, SoundBut
<1>2. n = [mark |-> [d.mark EXCEPT ![e] = mark], kind |-> d.kind, links |-> d.links,
           proposals |-> d.proposals]
  BY <1>1 DEF Insert, Db
<1> HIDE DEF n
<1>3. /\ n.mark = [d.mark EXCEPT ![e] = mark] /\ n.kind = d.kind
      /\ n.links = d.links /\ n.proposals = d.proposals
  BY <1>2
<1>4. n \in Db
  <2>1. [d.mark EXCEPT ![e] = mark] \in [Entities -> Marks]
    BY <1>1, Tables DEF Marks
  <2> QED BY <1>1, <1>2, <2>1, Tables DEF Db
<1>5. \A x \in Entities : x # e => n.mark[x] = d.mark[x]
  BY <1>1, <1>3, Tables
<1>6. /\ \A l \in d.links : l[1] \in Entities \ {e} /\ l[2] \in Entities \ {e}
      /\ \A p \in d.proposals : p[1] \in Entities \ {e} /\ (p[2] # Value => p[2] \in Entities \ {e})
  BY <1>1, Tables DEF Sound, SoundBut, Linked, Proposed
<1>7. Linked(n) /\ Marked(n) /\ ClassifiedBut(n, {})
  BY <1>3, <1>5, <1>6 DEF Sound, SoundBut, Linked, Marked, ClassifiedBut, IsLive, IsCommitted
<1>8. Proposed(n)
  BY <1>3, <1>5, <1>6 DEF Sound, SoundBut, Proposed, IsLive
<1> QED BY <1>3, <1>4, <1>7, <1>8 DEF Sound, SoundBut, n

(* Taking away a link or proposals. *)
LEMMA UnlinkSound ==
    ASSUME NEW d, Sound(d), NEW a, NEW e
    PROVE  Sound(Unlink(d, a, e))
<1> DEFINE n == Unlink(d, a, e)
<1>1. d \in Db
  BY DEF Sound, SoundBut
<1>2. n = [mark |-> d.mark, kind |-> d.kind, links |-> d.links \ {<<a, e>>},
           proposals |-> d.proposals]
  <2> DEFINE S == d.links \ {<<a, e>>}
  <2>1. n = [d EXCEPT !.links = S]
    BY <1>1 DEF Unlink, Db
  <2> HIDE DEF n, S
  <2>2. n = [mark |-> d.mark, kind |-> d.kind, links |-> S, proposals |-> d.proposals]
    BY <1>1, <2>1, OneTable
  <2> QED BY <2>2 DEF S
<1> HIDE DEF n
<1>3. n \in Db
  BY <1>1, <1>2, Tables DEF Db
<1>4. n.mark = d.mark /\ n.kind = d.kind /\ n.links \subseteq d.links /\ n.proposals = d.proposals
  BY <1>2
<1>5. Linked(n) /\ Marked(n) /\ ClassifiedBut(n, {}) /\ Proposed(n)
  BY <1>4 DEF Sound, SoundBut, Linked, Marked, ClassifiedBut, Proposed, IsLive, IsCommitted
<1> QED BY <1>3, <1>5 DEF Sound, SoundBut, n

(* Taking proposals away leaves nothing that refers to them. *)
LEMMA FewerProposalsSound ==
    ASSUME NEW d, Sound(d), NEW these
    PROVE  Sound([d EXCEPT !.proposals = @ \ these])
<1> DEFINE n == [d EXCEPT !.proposals = @ \ these]
<1>1. d \in Db
  BY DEF Sound, SoundBut
<1>2. n = [mark |-> d.mark, kind |-> d.kind, links |-> d.links,
           proposals |-> d.proposals \ these]
  <2> DEFINE S == d.proposals \ these
  <2>1. n = [d EXCEPT !.proposals = S]
    BY <1>1 DEF Db
  <2> HIDE DEF n, S
  <2>2. n = [mark |-> d.mark, kind |-> d.kind, links |-> d.links, proposals |-> S]
    BY <1>1, <2>1, OneTable
  <2> QED BY <2>2 DEF S
<1> HIDE DEF n
<1>3. n \in Db
  BY <1>1, <1>2, Tables DEF Db
<1>4. n.mark = d.mark /\ n.kind = d.kind /\ n.links = d.links /\ n.proposals \subseteq d.proposals
  BY <1>2
<1>5. Linked(n) /\ Marked(n) /\ ClassifiedBut(n, {}) /\ Proposed(n)
  BY <1>4 DEF Sound, SoundBut, Linked, Marked, ClassifiedBut, Proposed, IsLive, IsCommitted
<1> QED BY <1>3, <1>5 DEF Sound, SoundBut, n

(* A proposal between rows that are there. *)
LEMMA ProposeSound ==
    ASSUME NEW d, Sound(d), NEW a \in Entities, IsLive(d, a),
           NEW e \in Works \union People \union {Value},
           e # Value => a \in Parents /\ IsLive(d, e),
           e \in Works => a \in Publications
    PROVE  Sound(Propose(d, a, e))
<1> DEFINE n == Propose(d, a, e)
<1>1. d \in Db
  BY DEF Sound, SoundBut
<1>2. n = [mark |-> d.mark, kind |-> d.kind, links |-> d.links,
           proposals |-> d.proposals \union {<<a, e>>}]
  <2> DEFINE S == d.proposals \union {<<a, e>>}
  <2>1. n = [d EXCEPT !.proposals = S]
    BY <1>1 DEF Propose, Db
  <2> HIDE DEF n, S
  <2>2. n = [mark |-> d.mark, kind |-> d.kind, links |-> d.links, proposals |-> S]
    BY <1>1, <2>1, OneTable
  <2> QED BY <2>2 DEF S
<1> HIDE DEF n
<1>3. n \in Db
  BY <1>1, <1>2, Tables DEF Db
<1>4. /\ n.mark = d.mark /\ n.kind = d.kind /\ n.links = d.links
      /\ n.proposals = d.proposals \union {<<a, e>>}
  BY <1>2
<1>5. Linked(n) /\ Marked(n) /\ ClassifiedBut(n, {})
  BY <1>4 DEF Sound, SoundBut, Linked, Marked, ClassifiedBut, IsLive, IsCommitted
<1>6. Proposed(n)
  BY <1>4 DEF Sound, SoundBut, Proposed, IsLive
<1> QED BY <1>3, <1>5, <1>6 DEF Sound, SoundBut, n

(* A link between rows that are there: what it may spoil is for the operation
   that makes it to mend. *)
LEMMA LinkTables ==
    ASSUME NEW d, Sound(d), NEW a \in Parents, NEW e \in Works \union People,
           IsLive(d, a), IsLive(d, e),
           e \in Works => a \in Publications
    PROVE  /\ Link(d, a, e) \in Db /\ Linked(Link(d, a, e)) /\ Proposed(Link(d, a, e))
           /\ ClassifiedBut(Link(d, a, e), {a})
           /\ e \in People => ClassifiedBut(Link(d, a, e), {})
           /\ Link(d, a, e).mark = d.mark /\ Link(d, a, e).kind = d.kind
           /\ Link(d, a, e).links = d.links \union {<<a, e>>}
<1> DEFINE n == Link(d, a, e)
<1> USE LinkedRows
<1>1. d \in Db
  BY DEF Sound, SoundBut
<1>2. n = [mark |-> d.mark, kind |-> d.kind, links |-> d.links \union {<<a, e>>},
           proposals |-> d.proposals]
  <2> DEFINE S == d.links \union {<<a, e>>}
  <2>1. n = [d EXCEPT !.links = S]
    BY <1>1 DEF Link, Db
  <2> HIDE DEF n, S
  <2>2. n = [mark |-> d.mark, kind |-> d.kind, links |-> S, proposals |-> d.proposals]
    BY <1>1, <2>1, OneTable
  <2> QED BY <2>2 DEF S
<1> HIDE DEF n
<1>3. n \in Db
  BY <1>1, <1>2, Tables DEF Db
<1>4. /\ n.mark = d.mark /\ n.kind = d.kind /\ n.links = d.links \union {<<a, e>>}
      /\ n.proposals = d.proposals
  BY <1>2
<1>5. Linked(n) /\ Proposed(n)
  BY <1>4 DEF Sound, SoundBut, Linked, Proposed, IsLive
<1>6. ClassifiedBut(n, {a}) /\ (e \in People => ClassifiedBut(n, {}))
  BY <1>4, IdsAreDistinct DEF Sound, SoundBut, ClassifiedBut
<1> QED BY <1>3, <1>4, <1>5, <1>6 DEF n

(* A classification reaches the works of a publication that have none, and so
   mends what was left to reach. *)
LEMMA InheritSound ==
    ASSUME NEW a \in Publications, NEW d, SoundBut(d, {a}),
           NEW k \in Kinds \union {Unclassified},
           d.kind[a] # Unclassified => k # Unclassified
    PROVE  Sound(Inherit(d, a, k))
<1> USE LinkedRows, IdsAreDistinct
<1> DEFINE kinds == [e \in Parents |->
                       IF e \in ContentsOf(d, a) /\ d.kind[e] = Unclassified THEN k
                       ELSE d.kind[e]]
           n == [d EXCEPT !.kind = kinds]
<1>1. d \in Db
  BY DEF SoundBut
<1>2. CASE k = Unclassified
  <2>1. ClassifiedBut(d, {})
    BY <1>2 DEF SoundBut, ClassifiedBut
  <2> QED BY <1>2, <2>1 DEF Inherit, Sound, SoundBut
<1>3. CASE k # Unclassified
  <2>1. Inherit(d, a, k) = n
    BY <1>3 DEF Inherit
  <2>2. kinds \in [Parents -> Kinds \union {Unclassified}]
    BY <1>1, Tables
  <2>3. /\ \A l \in d.links : l[2] \in Works =>
              /\ l[1] \in Publications
              /\ l[1] = a => kinds[l[2]] # Unclassified
              /\ kinds[l[1]] = d.kind[l[1]]
              /\ d.kind[l[2]] # Unclassified => kinds[l[2]] # Unclassified
    <3>1. ASSUME NEW l \in d.links, l[2] \in Works
          PROVE  /\ l[1] \in Publications /\ l[1] \in Parents /\ l[2] \in Parents
                 /\ l = <<l[1], l[2]>>
      BY <1>1, <3>1, Tables DEF SoundBut, Linked
    <3> QED BY <1>3, <3>1 DEF ContentsOf
  <2> HIDE DEF kinds
  <2>4. n = [mark |-> d.mark, kind |-> kinds, links |-> d.links, proposals |-> d.proposals]
    BY <1>1, OneTable
  <2> HIDE DEF n
  <2>5. n \in Db
    BY <1>1, <2>2, <2>4, Tables DEF Db
  <2>6. n.mark = d.mark /\ n.kind = kinds /\ n.links = d.links /\ n.proposals = d.proposals
    BY <2>4
  <2>7. Linked(n) /\ Marked(n) /\ Proposed(n)
    BY <2>6 DEF SoundBut, Linked, Marked, Proposed, IsLive, IsCommitted
  <2>8. ClassifiedBut(n, {})
    BY <2>3, <2>6 DEF SoundBut, ClassifiedBut
  <2> QED BY <2>1, <2>5, <2>7, <2>8 DEF Sound, SoundBut
<1> QED BY <1>2, <1>3

(* Giving one row a classification. *)
LEMMA KindTables ==
    ASSUME NEW d \in Db, NEW a \in Parents, NEW k \in Kinds \union {Unclassified}
    PROVE  /\ [d EXCEPT !.kind[a] = k] \in Db
           /\ [d EXCEPT !.kind[a] = k].kind = [d.kind EXCEPT ![a] = k]
           /\ [d EXCEPT !.kind[a] = k].mark = d.mark
           /\ [d EXCEPT !.kind[a] = k].links = d.links
           /\ [d EXCEPT !.kind[a] = k].proposals = d.proposals
<1> DEFINE kinds == [d.kind EXCEPT ![a] = k]
           n == [d EXCEPT !.kind[a] = k]
<1>1. kinds \in [Parents -> Kinds \union {Unclassified}]
  BY Tables
<1>2. n = [d EXCEPT !.kind = kinds]
  BY DEF Db
<1> HIDE DEF kinds
<1>3. n = [mark |-> d.mark, kind |-> kinds, links |-> d.links, proposals |-> d.proposals]
  BY <1>2, OneTable
<1> HIDE DEF n
<1>4. n \in Db
  BY <1>1, <1>3, Tables DEF Db
<1> QED BY <1>3, <1>4 DEF n, kinds

(* A row's classification: of a work, which has no contents, or of a
   publication, whose contents are yet to be reached. *)
LEMMA ClassifySound ==
    ASSUME NEW d, Sound(d), NEW a \in Parents, NEW k \in Kinds
    PROVE  /\ SoundBut([d EXCEPT !.kind[a] = k], {a})
           /\ a \in Works => Sound([d EXCEPT !.kind[a] = k])
<1> USE LinkedRows, IdsAreDistinct
<1> DEFINE n == [d EXCEPT !.kind[a] = k]
<1>1. d \in Db
  BY DEF Sound, SoundBut
<1>2. /\ n \in Db /\ n.kind = [d.kind EXCEPT ![a] = k]
      /\ n.mark = d.mark /\ n.links = d.links /\ n.proposals = d.proposals
  BY <1>1, KindTables
<1> HIDE DEF n
<1>3. \A b \in Parents : n.kind[b] = IF b = a THEN k ELSE d.kind[b]
  BY <1>1, <1>2, Tables
<1>4. Linked(n) /\ Marked(n) /\ Proposed(n)
  BY <1>2 DEF Sound, SoundBut, Linked, Marked, Proposed, IsLive, IsCommitted
<1>5. \A l \in d.links : /\ l[1] \in Parents
                         /\ l[2] \in Works => l[1] \in Publications /\ l[2] \in Parents
  BY <1>1, Tables DEF Sound, SoundBut, Linked
<1>6. ClassifiedBut(n, {a})
  BY <1>2, <1>3, <1>5 DEF Sound, SoundBut, ClassifiedBut
<1>7. a \in Works => ClassifiedBut(n, {})
  BY <1>2, <1>3, <1>5 DEF Sound, SoundBut, ClassifiedBut
<1> QED BY <1>2, <1>4, <1>6, <1>7 DEF Sound, SoundBut, n

-----------------------------------------------------------------------------
(***************************************************************************)
(* Operations                                                              *)
(***************************************************************************)

(* Linking a work commits it, with its contributors, if its publication is
   committed, and classifies it if its publication is classified. *)
LEMMA AddWorkSound ==
    ASSUME NEW d, Sound(d), NEW p \in Publications, NEW w \in Works, IsLive(d, p), IsLive(d, w)
    PROVE  Sound(AddWork(d, p, w))
<1> USE LinkedRows
<1> DEFINE linked == Link(d, p, w)
           commits == IF IsCommitted(d, p)
                      THEN {e \in ContentsOf(linked, p) \union ContributorsOf(d, w) : IsDraft(d, e)}
                      ELSE {}
           committed == CommitRows(linked, commits)
           collected == IF commits = {} THEN committed ELSE CollectPeople(committed)
<1>1. /\ linked \in Db /\ Linked(linked) /\ Proposed(linked) /\ ClassifiedBut(linked, {p})
      /\ linked.mark = d.mark /\ linked.kind = d.kind
      /\ linked.links = d.links \union {<<p, w>>}
  BY LinkTables, SMTT(30)
<1>2. d \in Db /\ Linked(d) /\ Marked(d)
  BY DEF Sound, SoundBut
<1>3. ASSUME NEW l \in linked.links, IsCommitted(linked, l[1]) \/ l[1] \in commits
      PROVE  IsCommitted(linked, l[2]) \/ l[2] \in commits
  <2>1. /\ l[1] \in Parents /\ l[2] \in Works \union People
        /\ l = <<l[1], l[2]>>
        /\ IsLive(d, l[2])
        /\ l[2] \in Works => l[1] \in Publications
    BY <1>1, Tables DEF Linked, IsLive
  <2>2. IsDraft(d, l[2]) \/ IsCommitted(d, l[2])
    BY <1>2, <2>1, Tables DEF IsLive, IsDraft, IsCommitted, Marks
  <2>3. \A e : IsCommitted(linked, e) <=> IsCommitted(d, e)
    BY <1>1 DEF IsCommitted
  <2>4. CASE l[1] \in commits
    <3>1. /\ IsCommitted(d, p) /\ IsDraft(d, l[1])
          /\ l[1] \in ContentsOf(linked, p) \union ContributorsOf(d, w)
      BY <2>4
    <3>2. l[1] \in Works /\ <<p, l[1]>> \in linked.links
      BY <2>1, <3>1 DEF ContentsOf, ContributorsOf
    <3>3. l[1] = w
      <4>1. <<p, l[1]>> \notin d.links
        BY <1>2, <3>1 DEF Marked, IsDraft, IsCommitted
      <4> QED BY <1>1, <3>2, <4>1
    <3>4. l[2] \in People /\ l # <<p, w>>
      BY <2>1, <3>2
    <3>5. l[2] \in ContributorsOf(d, w)
      BY <1>1, <2>1, <3>3, <3>4 DEF ContributorsOf
    <3> QED BY <2>2, <2>3, <3>1, <3>5
  <2>5. CASE l = <<p, w>> /\ IsCommitted(d, p)
    <3>1. l[2] \in ContentsOf(linked, p)
      BY <1>1, <2>5 DEF ContentsOf
    <3> QED BY <2>2, <2>3, <2>5, <3>1
  <2>6. CASE l \in d.links /\ IsCommitted(d, l[1])
    BY <1>2, <2>3, <2>6 DEF Marked
  <2> QED BY <1>1, <1>3, <2>3, <2>4, <2>5, <2>6
<1>4. SoundBut(committed, {p}) /\ committed.kind = d.kind
  <2> HIDE DEF linked, commits
  <2>1. \A l \in linked.links : IsCommitted(linked, l[1]) \/ l[1] \in commits =>
                                    IsCommitted(linked, l[2]) \/ l[2] \in commits
    BY <1>3
  <2> QED BY <1>1, <2>1, CommitRowsSound
<1>5. SoundBut(collected, {p}) /\ collected.kind = d.kind
  <2> HIDE DEF committed
  <2>1. committed \in Db
    BY <1>4 DEF SoundBut
  <2> QED BY <1>4, <2>1, CollectSound, CollectPeopleKeepsKinds
<1>6. AddWork(d, p, w) = IF <<p, w>> \in d.links THEN d ELSE Inherit(collected, p, d.kind[p])
  BY DEF AddWork
<1> HIDE DEF collected
<1>7. d.kind[p] \in Kinds \union {Unclassified}
  BY <1>2, Tables
<1> QED BY <1>5, <1>6, <1>7, InheritSound

(* Linking a contributor commits it if its publication or work is committed. *)
LEMMA AddContributorSound ==
    ASSUME NEW d, Sound(d), NEW a \in Parents, NEW x \in People, IsLive(d, a), IsLive(d, x)
    PROVE  Sound(AddContributor(d, a, x))
<1> USE LinkedRows, IdsAreDistinct
<1> DEFINE linked == Link(d, a, x)
           those == ContributorsOf(linked, a)
<1>1. /\ linked \in Db /\ Linked(linked) /\ Proposed(linked) /\ ClassifiedBut(linked, {})
      /\ linked.mark = d.mark
      /\ linked.links = d.links \union {<<a, x>>}
  BY LinkTables, ZenonT(60)
<1>2. Marked(d) /\ \A e : IsCommitted(linked, e) <=> IsCommitted(d, e)
  BY <1>1 DEF Sound, SoundBut, IsCommitted
<1>3. CASE <<a, x>> \in d.links
  BY <1>3 DEF AddContributor
<1>4. CASE <<a, x>> \notin d.links /\ IsCommitted(d, a)
  <2>1. AddContributor(d, a, x) = CommitRows(linked, those)
    BY <1>4 DEF AddContributor
  <2>2. x \in those /\ those \subseteq People
    BY <1>1 DEF ContributorsOf
  <2>3. \A l \in linked.links : l[1] \notin those
    BY <1>1, <2>2, Tables
  <2> HIDE DEF linked, those
  <2>4. \A l \in linked.links : IsCommitted(linked, l[1]) \/ l[1] \in those =>
                                    IsCommitted(linked, l[2]) \/ l[2] \in those
    BY <1>1, <1>2, <2>2, <2>3 DEF Marked
  <2> QED BY <1>1, <2>1, <2>4, CommitRowsSound DEF Sound
<1>5. CASE <<a, x>> \notin d.links /\ ~IsCommitted(d, a)
  <2>1. AddContributor(d, a, x) = linked
    BY <1>5 DEF AddContributor
  <2> HIDE DEF linked
  <2>2. Marked(linked)
    BY <1>1, <1>2, <1>5 DEF Marked
  <2> QED BY <1>1, <2>1, <2>2 DEF Sound, SoundBut
<1> QED BY <1>3, <1>4, <1>5

(* Unlinking, deleting and rejecting refer to nothing new. *)
LEMMA LesserOperationsSound ==
    ASSUME NEW d, Sound(d), NEW a, NEW e, NEW these
    PROVE  /\ Sound(RemoveWork(d, a, e)) /\ Sound(RemoveContributor(d, a, e))
           /\ Sound(Delete(d, e)) /\ Sound(Reject(d, e, these))
<1>1. \A n : Sound(n) => Sound(CollectPeople(n)) /\ Sound(Collect(n))
  BY CollectSound DEF Sound
<1>2. Sound(Unlink(d, a, e))
  BY UnlinkSound
<1>3. Sound(Remove(d, {e}))
  BY RemoveSound DEF Sound
<1>4. Sound([d EXCEPT !.proposals = @ \ these])
  BY FewerProposalsSound
<1>5. Sound(RemoveWork(d, a, e)) /\ Sound(RemoveContributor(d, a, e))
  BY <1>1, <1>2 DEF RemoveWork, RemoveContributor
<1>6. Sound(Delete(d, e))
  BY <1>1, <1>3 DEF Delete
<1>7. Sound(Reject(d, e, these))
  BY <1>1, <1>4 DEF Reject
<1> QED BY <1>5, <1>6, <1>7

(* A commit takes all that the committed refer to with it. *)
LEMMA CommittedClosureSound ==
    ASSUME NEW d, Sound(d), NEW e \in Entities
    PROVE  Sound(CommitRows(d, CommitClosure(d, e)))
<1> USE LinkedRows
<1> DEFINE these == CommitClosure(d, e)
           committed == CommitRows(d, these)
<1>1. d \in Db /\ Linked(d) /\ Proposed(d) /\ Marked(d) /\ ClassifiedBut(d, {})
  BY DEF Sound, SoundBut
<1>2. ASSUME NEW l \in d.links, l[1] \in these
      PROVE  l[2] \in these
  <2>1. /\ l[1] \in Parents /\ l[2] \in Works \union People /\ l = <<l[1], l[2]>>
        /\ l[2] \in Works => l[1] \in Publications
    BY <1>1, Tables DEF Linked
  <2>2. l[1] = e \/ l[1] \in ContentsOf(d, e)
    BY <1>2, <2>1 DEF CommitClosure, ContributorsOf
  <2>3. CASE l[1] = e
    BY <2>1, <2>3 DEF CommitClosure, ContentsOf, ContributorsOf
  <2>4. CASE l[1] \in ContentsOf(d, e)
    <3>1. l[2] \in ContributorsOf(d, l[1])
      BY <2>1, <2>4 DEF ContentsOf, ContributorsOf
    <3> QED BY <2>4, <3>1 DEF CommitClosure
  <2> QED BY <2>2, <2>3, <2>4
<1>3. Sound(committed)
  <2> HIDE DEF these
  <2>1. \A l \in d.links : IsCommitted(d, l[1]) \/ l[1] \in these =>
                               IsCommitted(d, l[2]) \/ l[2] \in these
    BY <1>1, <1>2 DEF Marked
  <2> QED BY <1>1, <2>1, CommitRowsSound DEF Sound
<1> QED BY <1>3

(* Then it collects, or not. *)
LEMMA CommitSound ==
    ASSUME NEW d, Sound(d), NEW e \in Entities
    PROVE  Sound(Commit(d, e))
BY CommittedClosureSound, CollectSound DEF Commit, Sound

(* A new work or contributor is a draft exactly if what it is created for is,
   and a new work has its publication's classification. *)
LEMMA CreateSound ==
    ASSUME NEW d, Sound(d), NEW a \in Parents, IsLive(d, a),
           NEW e \in Works \union People, ~IsLive(d, e),
           e \in Works => a \in Publications
    PROVE  /\ e \in People => Sound(Link(Insert(d, e, d.mark[a]), a, e))
           /\ e \in Works => Sound([Link(Insert(d, e, d.mark[a]), a, e)
                                      EXCEPT !.kind[e] = d.kind[a]])
<1> USE LinkedRows
<1> DEFINE m == d.mark[a]
           inserted == Insert(d, e, m)
           linked == Link(inserted, a, e)
           n == [linked EXCEPT !.kind[e] = d.kind[a]]
<1>1. d \in Db /\ Marked(d) /\ Linked(d) /\ ClassifiedBut(d, {})
  BY DEF Sound, SoundBut
<1>2. m \in {"draft", "committed"} /\ e \in Entities /\ a # e
  BY <1>1, Tables DEF IsLive, Marks
<1> HIDE DEF m
<1>3. /\ Sound(inserted) /\ inserted.mark = [d.mark EXCEPT ![e] = m]
      /\ inserted.kind = d.kind /\ inserted.links = d.links
  BY <1>2, InsertSound
<1> HIDE DEF inserted
<1>4. /\ inserted.mark[e] = m /\ inserted.mark[a] = m
      /\ IsLive(inserted, a) /\ IsLive(inserted, e)
  BY <1>1, <1>2, <1>3, Tables DEF IsLive, m
<1>5. /\ linked \in Db /\ Linked(linked) /\ Proposed(linked)
      /\ ClassifiedBut(linked, {a}) /\ (e \in People => ClassifiedBut(linked, {}))
      /\ linked.mark = inserted.mark /\ linked.kind = d.kind
      /\ linked.links = d.links \union {<<a, e>>}
  <2>1. /\ linked \in Db /\ Linked(linked) /\ Proposed(linked)
        /\ ClassifiedBut(linked, {a})
        /\ e \in People => ClassifiedBut(linked, {})
        /\ linked.mark = inserted.mark /\ linked.kind = inserted.kind
        /\ linked.links = inserted.links \union {<<a, e>>}
    BY <1>3, <1>4, LinkTables, ZenonT(60)
  <2> HIDE DEF linked
  <2> QED BY <1>3, <2>1
<1> HIDE DEF linked
<1>6. Marked(linked)
  BY <1>3, <1>4, <1>5 DEF Sound, SoundBut, Marked, IsCommitted
<1>7. ASSUME e \in People
      PROVE  Sound(linked)
  BY <1>5, <1>6, <1>7 DEF Sound, SoundBut
<1>8. ASSUME e \in Works
      PROVE  Sound(n)
  <2>1. e \in Parents /\ d.kind[a] \in Kinds \union {Unclassified}
    BY <1>1, <1>8, Tables
  <2>2. /\ n \in Db /\ n.kind = [d.kind EXCEPT ![e] = d.kind[a]]
        /\ n.mark = linked.mark /\ n.links = linked.links /\ n.proposals = linked.proposals
    BY <1>5, <2>1, KindTables
  <2> HIDE DEF n
  <2>3. Linked(n) /\ Marked(n) /\ Proposed(n)
    BY <1>5, <1>6, <2>2 DEF Linked, Marked, Proposed, IsLive, IsCommitted
  <2>4. n.kind[e] = d.kind[a] /\ n.kind[a] = d.kind[a]
          /\ \A b \in Parents : b # e => n.kind[b] = d.kind[b]
    BY <1>1, <1>2, <2>1, <2>2, Tables
  <2>5. \A l \in d.links : /\ l[1] \in Parents \ {e} /\ l[2] # e
                           /\ l[2] \in Works => l[2] \in Parents
    BY <1>1, Tables DEF Linked
  <2>6. ClassifiedBut(n, {})
    BY <1>1, <1>5, <2>2, <2>4, <2>5 DEF ClassifiedBut
  <2> QED BY <2>2, <2>3, <2>6 DEF Sound, SoundBut
<1> QED BY <1>7, <1>8 DEF n, linked, inserted, m

-----------------------------------------------------------------------------
(***************************************************************************)
(* Steps                                                                   *)
(***************************************************************************)

(* Writing sound tables keeps the invariant: all it does to a review is to tell
   whether its proposal is still there. *)
LEMMA WriteKeepsInv ==
    ASSUME NEW d, Sound(d), NEW reviews, \A r \in Reviewers : IsReview(reviews[r]),
           Write(d, reviews)
    PROVE  Inv'
<1> DEFINE after == [r \in Reviewers |->
                       [reviews[r] EXCEPT
                          !.there = @ /\ <<reviews[r].of, reviews[r].about>> \in d.proposals]]
<1>1. db' = d /\ review' = after
  BY DEF Write
<1>2. ASSUME NEW r \in Reviewers
      PROVE  IsReview(after[r])
  <2> DEFINE v == reviews[r]
             there == v.there /\ <<v.of, v.about>> \in d.proposals
  <2>1. IsReview(v) /\ after[r] = [v EXCEPT !.there = there]
    OBVIOUS
  <2>2. there \in BOOLEAN /\ (v = NotReviewing => there = NotReviewing.there)
    BY DEF NotReviewing
  <2> HIDE DEF after, v, there
  <2>3. IsReview([v EXCEPT !.there = there])
    BY <2>1, <2>2 DEF IsReview, NotReviewing
  <2> QED BY <2>1, <2>3
<1>3. after = [r \in Reviewers |-> after[r]]
  OBVIOUS
<1> HIDE DEF after
<1>4. Sound(db)'
  BY <1>1 DEF Sound, SoundBut, Linked, Proposed, Marked, ClassifiedBut, IsLive, IsCommitted
<1>5. \A r \in Reviewers : IsReview(review[r])'
  BY <1>1, <1>2 DEF IsReview
<1> QED BY <1>1, <1>3, <1>4, <1>5 DEF Inv

(* What leaves the tables and the reviews alone does too. *)
LEMMA SameTablesKeepInv ==
    ASSUME Inv, UNCHANGED <<db, review>>
    PROVE  Inv'
BY DEF Inv, Sound, SoundBut, Linked, Proposed, Marked, ClassifiedBut, IsLive, IsCommitted, IsReview

(* Every edit makes sound tables. *)
LEMMA EditKeepsInv ==
    ASSUME Inv, Edit
    PROVE  Inv'
<1> USE LinkedRows
<1>1. Sound(db) /\ db \in Db /\ \A r \in Reviewers : IsReview(review[r])
  BY DEF Inv, Sound, SoundBut
<1>2. ASSUME NEW d, Sound(d), Edits(d)
      PROVE  Inv'
  BY <1>1, <1>2, WriteKeepsInv DEF Edits
<1>3. CASE Import
  <2>1. PICK p \in Publications : ~IsLive(db, p) /\ Edits(Insert(db, p, "draft"))
    BY <1>3 DEF Import, Fresh
  <2> QED BY <1>1, <1>2, <2>1, InsertSound
<1>4. CASE Classify \/ ClassifyIfUnset
  <2>1. PICK p \in Publications, k \in Kinds : Edits(Inherit([db EXCEPT !.kind[p] = k], p, k))
    BY <1>4 DEF Classify, ClassifyIfUnset, Live
  <2> DEFINE n == [db EXCEPT !.kind[p] = k]
  <2>2. SoundBut(n, {p})
    BY <1>1, ClassifySound
  <2> HIDE DEF n
  <2>3. Sound(Inherit(n, p, k))
    BY <2>2, InheritSound, IdsAreDistinct
  <2> QED BY <1>2, <2>1, <2>3 DEF n
<1>5. CASE ClassifyWork
  BY <1>1, <1>2, <1>5, ClassifySound DEF ClassifyWork, Live
<1>6. CASE CreateWork
  <2>1. PICK p \in Publications, w \in Works :
          /\ IsLive(db, p) /\ ~IsLive(db, w)
          /\ Edits([Link(Insert(db, w, db.mark[p]), p, w) EXCEPT !.kind[w] = db.kind[p]])
    BY <1>6 DEF CreateWork, Live, Fresh
  <2> QED BY <1>1, <1>2, <2>1, CreateSound
<1>7. CASE CreateContributor
  <2>1. PICK a \in Parents, x \in People :
          /\ IsLive(db, a) /\ ~IsLive(db, x)
          /\ Edits(Link(Insert(db, x, db.mark[a]), a, x))
    BY <1>7 DEF CreateContributor, Live, Fresh
  <2>2. x \notin Works
    BY IdsAreDistinct
  <2> QED BY <1>1, <1>2, <2>1, <2>2, CreateSound
<1>8. CASE AddsWork
  BY <1>1, <1>2, <1>8, AddWorkSound DEF AddsWork, Live
<1>9. CASE RemovesWork \/ RemovesContributor
  BY <1>1, <1>2, <1>9, LesserOperationsSound DEF RemovesWork, RemovesContributor
<1>10. CASE AddsContributor
  BY <1>1, <1>2, <1>10, AddContributorSound DEF AddsContributor, Live
<1>11. CASE ProposesLink
  <2>1. PICK a \in Parents, e \in Works \union People :
          /\ IsLive(db, a) /\ IsLive(db, e) /\ (e \in Works => a \in Publications)
          /\ Edits(Propose(db, a, e))
    BY <1>11 DEF ProposesLink, Live
  <2> QED BY <1>1, <1>2, <2>1, ProposeSound
<1>12. CASE ProposesValue
  <2>1. PICK e \in Entities : IsLive(db, e) /\ Edits(Propose(db, e, Value))
    BY <1>12, IdsAreDistinct DEF ProposesValue, Live
  <2>2. Value \notin Works
    OBVIOUS
  <2> QED BY <1>1, <1>2, <2>1, <2>2, ProposeSound
<1>13. CASE ProposesNew
  <2>1. PICK a \in Parents, e \in Works \union People :
          /\ IsLive(db, a) /\ ~IsLive(db, e) /\ (e \in Works => a \in Publications)
          /\ Edits(Propose(Insert(db, e, "draft"), a, e))
    BY <1>13 DEF ProposesNew, Live, Fresh
  <2> DEFINE n == Insert(db, e, "draft")
  <2>2. Sound(n) /\ n.mark = [db.mark EXCEPT ![e] = "draft"]
    BY <1>1, <2>1, InsertSound
  <2> HIDE DEF n
  <2>3. IsLive(n, a) /\ IsLive(n, e)
    BY <1>1, <2>1, <2>2, Tables DEF IsLive
  <2>4. Sound(Propose(n, a, e))
    BY <2>1, <2>2, <2>3, ProposeSound
  <2> QED BY <1>2, <2>1, <2>4 DEF n
<1>14. CASE Rejects \/ RejectsAll
  BY <1>1, <1>2, <1>14, LesserOperationsSound DEF Rejects, RejectsAll
<1>15. CASE Commits
  BY <1>1, <1>2, <1>15, CommitSound DEF Commits, Live
<1>16. CASE Deletes
  BY <1>1, <1>2, <1>16, LesserOperationsSound DEF Deletes
<1> QED BY <1>3, <1>4, <1>5, <1>6, <1>7, <1>8, <1>9, <1>10, <1>11, <1>12, <1>13, <1>14, <1>15,
           <1>16 DEF Edit

(* What a reviewer has read may be gone or committed by the time it is used:
   each of the transactions looks again at what it writes. *)
LEMMA ReviewKeepsInv ==
    ASSUME Inv, NEW r \in Reviewers, Review(r)
    PROVE  Inv'
<1> USE LinkedRows
<1>1. /\ Sound(db) /\ db \in Db /\ \A q \in Reviewers : IsReview(review[q])
      /\ review = [q \in Reviewers |-> review[q]]
  BY DEF Inv, Sound, SoundBut
<1>2. IsReview(NotReviewing)
  BY DEF IsReview, NotReviewing, Steps
<1>3. \A q \in Reviewers : IsReview([review EXCEPT ![r] = NotReviewing][q])
  BY <1>1, <1>2
<1>4. ASSUME UNCHANGED db, NEW v, IsReview(v), review' = [review EXCEPT ![r] = v]
      PROVE  Inv'
  <2>1. Sound(db)'
    BY <1>1, <1>4 DEF Sound, SoundBut, Linked, Proposed, Marked, ClassifiedBut, IsLive, IsCommitted
  <2>2. \A q \in Reviewers : review'[q] = IF q = r THEN v ELSE review[q]
    BY <1>1, <1>4
  <2>3. review' = [q \in Reviewers |-> review'[q]]
    BY <1>1, <1>4
  <2>4. \A q \in Reviewers : IsReview(review[q])'
    BY <1>1, <1>4, <2>2 DEF IsReview
  <2> QED BY <2>1, <2>3, <2>4 DEF Inv
<1>5. CASE ReadProposal(r)
  <2>1. PICK p \in db.proposals :
          review' = [review EXCEPT ![r] =
                       [step |-> "read", of |-> p[1], about |-> p[2], there |-> TRUE]]
    BY <1>5 DEF ReadProposal
  <2>2. IsReview([step |-> "read", of |-> p[1], about |-> p[2], there |-> TRUE])
    <3>1. /\ p[1] \in Entities /\ p[2] \in Works \union People \union {Value}
          /\ p[2] # Value => p[1] \in Parents
          /\ p[2] \in Works => p[1] \in Publications
      BY <1>1, Tables DEF Sound, SoundBut, Proposed
    <3> QED BY <3>1 DEF IsReview, Steps
  <2>3. UNCHANGED db
    BY <1>5 DEF ReadProposal
  <2> QED BY <1>4, <2>1, <2>2, <2>3
<1>6. CASE ReloadDraft(r)
  <2>1. PICK e \in Entities :
          review' = [review EXCEPT ![r] = [NotReviewing EXCEPT !.step = "deleting", !.of = e]]
    BY <1>6 DEF ReloadDraft, Live
  <2> DEFINE v == [NotReviewing EXCEPT !.step = "deleting", !.of = e]
  <2>2. NotReviewing \in [step : Steps, of : Entities \union {Value},
                         about : Works \union People \union {Value}, there : BOOLEAN]
    BY <1>2 DEF IsReview
  <2>3. IsReview(v)
    <3> DEFINE m == [NotReviewing EXCEPT !.step = "deleting"]
    <3>1. m \in [step : Steps, of : Entities \union {Value},
                about : Works \union People \union {Value}, there : BOOLEAN]
            /\ m.step = "deleting"
      BY <2>2 DEF Steps
    <3>2. v = [m EXCEPT !.of = e]
      OBVIOUS
    <3> HIDE DEF m, v
    <3>3. /\ v \in [step : Steps, of : Entities \union {Value},
                    about : Works \union People \union {Value}, there : BOOLEAN]
          /\ v.step = "deleting" /\ v.of = e
      BY <3>1, <3>2
    <3> QED BY <3>3 DEF IsReview
  <2>4. UNCHANGED db
    BY <1>6 DEF ReloadDraft
  <2> HIDE DEF v
  <2> QED BY <1>4, <2>1, <2>3, <2>4 DEF v
<1>7. CASE Interrupted(r)
  BY <1>2, <1>4, <1>7 DEF Interrupted
<1>8. CASE ApplyProposal(r)
  <2> DEFINE a == review[r].of
             about == review[r].about
  <2>1. review[r].step = "read"
    BY <1>8 DEF ApplyProposal
  <2>2. /\ a \in Entities /\ about \in Works \union People \union {Value}
        /\ about # Value => a \in Parents
        /\ about \in Works => a \in Publications
    BY <1>1, <2>1 DEF IsReview
  <2>3. CASE IsLive(db, a) /\ (about # Value => IsLive(db, about))
    <3>1. Write(Apply(db, a, about), [review EXCEPT ![r].step = "applied"])
      BY <1>8, <2>3 DEF ApplyProposal
    <3> HIDE DEF a, about
    <3>2. Sound(Apply(db, a, about))
      BY <1>1, <2>2, <2>3, AddWorkSound, AddContributorSound DEF Apply
    <3>3. \A q \in Reviewers : IsReview([review EXCEPT ![r].step = "applied"][q])
      <4>1. ASSUME NEW q \in Reviewers
            PROVE  IsReview([review EXCEPT ![r].step = "applied"][q])
        <5>1. CASE q = r
          <6>1. [review EXCEPT ![r].step = "applied"][q] = [review[r] EXCEPT !.step = "applied"]
            BY <1>1, <5>1
          <6>2. IsReview([review[r] EXCEPT !.step = "applied"])
            BY <1>1, <2>1 DEF IsReview, Steps
          <6> QED BY <6>1, <6>2
        <5>2. CASE q # r
          <6>1. [review EXCEPT ![r].step = "applied"][q] = review[q]
            BY <1>1, <5>2
          <6> QED BY <1>1, <6>1
        <5> QED BY <5>1, <5>2
      <4> QED BY <4>1
    <3> QED BY <3>1, <3>2, <3>3, WriteKeepsInv
  <2>4. CASE ~(IsLive(db, a) /\ (about # Value => IsLive(db, about)))
    <3>1. Write(db, [review EXCEPT ![r] = NotReviewing])
      BY <1>8, <2>4 DEF ApplyProposal
    <3> QED BY <1>1, <1>3, <3>1, WriteKeepsInv
  <2> QED BY <2>3, <2>4
<1>9. CASE DiscardProposal(r)
  <2>1. Sound(Discard(db, review[r].of, review[r].about))
    BY <1>1, FewerProposalsSound DEF Discard
  <2> QED BY <1>1, <1>3, <1>9, <2>1, WriteKeepsInv DEF DiscardProposal
<1>10. CASE DeleteReloaded(r)
  <2>1. Sound(Delete(db, review[r].of))
    BY <1>1, LesserOperationsSound
  <2> QED BY <1>1, <1>3, <1>10, <2>1, WriteKeepsInv DEF DeleteReloaded
<1> QED BY <1>5, <1>6, <1>7, <1>8, <1>9, <1>10 DEF Review

-----------------------------------------------------------------------------
(***************************************************************************)
(* The theorems                                                            *)
(***************************************************************************)

(* Empty tables are sound. *)
LEMMA InitInv == Init => Inv
<1> SUFFICES ASSUME Init PROVE Inv
  OBVIOUS
<1>1. /\ db.mark = [e \in Entities |-> "absent"] /\ db.kind = [a \in Parents |-> Unclassified]
      /\ db.links = {} /\ db.proposals = {}
      /\ db \in Db
  BY DEF Init, Db, Marks
<1>2. Sound(db)
  BY <1>1 DEF Sound, SoundBut, Linked, Proposed, Marked, ClassifiedBut
<1>3. /\ review = [r \in Reviewers |-> review[r]]
      /\ \A r \in Reviewers : IsReview(review[r])
  BY DEF Init, IsReview, NotReviewing, Steps
<1> QED BY <1>2, <1>3 DEF Inv

(* Inv is an invariant of the catalog. *)
THEOREM InvHolds == Spec => []Inv
<1>1. Inv /\ [Next]_vars => Inv'
  <2> SUFFICES ASSUME Inv, [Next]_vars PROVE Inv'
    OBVIOUS
  <2>1. CASE Edit
    BY <2>1, EditKeepsInv
  <2>2. ASSUME NEW r \in Reviewers, Review(r) PROVE Inv'
    BY <2>2, ReviewKeepsInv
  <2>3. CASE UNCHANGED vars
    BY <2>3 DEF vars, Inv, Sound, SoundBut, Linked, Proposed, Marked, ClassifiedBut, IsLive,
                IsCommitted, IsReview
  <2> QED BY <2>1, <2>2, <2>3 DEF Next
<1> QED BY <1>1, InitInv, PTL DEF Spec

(* No link and no proposal ever names a row that is gone. *)
THEOREM Typed == Spec => []TypeOK
<1>1. Inv => TypeOK
  <2> SUFFICES ASSUME Inv PROVE TypeOK
    OBVIOUS
  <2>1. db \in Db /\ Linked(db) /\ Proposed(db)
    BY DEF Inv, Sound, SoundBut
  <2>2. review \in [Reviewers -> [step : Steps, of : Entities \union {Value},
                                  about : Works \union People \union {Value},
                                  there : BOOLEAN]]
    BY DEF Inv, IsReview
  <2> QED BY <2>1, <2>2 DEF TypeOK, Db, Linked, Proposed
<1> QED BY <1>1, InvHolds, PTL

(* A committed entity never references a draft. *)
THEOREM CommittedIsClosed == Spec => []CommittedNeverReferencesDraft
<1>1. Inv => CommittedNeverReferencesDraft
  BY DEF Inv, Sound, SoundBut, Marked, CommittedNeverReferencesDraft
<1> QED BY <1>1, InvHolds, PTL

(* A classified publication's works are all classified. *)
THEOREM ClassifiedIsClosed == Spec => []ContentsAreClassified
<1>1. Inv => ContentsAreClassified
  BY DEF Inv, Sound, SoundBut, ClassifiedBut, ContentsAreClassified
<1> QED BY <1>1, InvHolds, PTL

-----------------------------------------------------------------------------
(***************************************************************************)
(* Commits drop proposals                                                  *)
(***************************************************************************)

\* What `n` commits of the drafts of `d` has no proposals left.
Drops(d, n) ==
    \A e \in Entities : IsDraft(d, e) /\ IsCommitted(n, e) => ProposalsOf(n, e) = {}

\* `n` commits nothing that `d` does not, and proposes nothing that `d` does not.
IsLess(d, n) ==
    /\ n.proposals \subseteq d.proposals
    /\ \A e \in Entities : IsCommitted(n, e) => IsCommitted(d, e)

\* `n` commits no draft of `d`.
CommitsNothing(d, n) ==
    \A e \in Entities : IsDraft(d, e) => ~IsCommitted(n, e)

(* Taking rows away, as a collection does, commits and proposes nothing. *)
LEMMA RemovingIsLess ==
    ASSUME NEW d
    PROVE  /\ \A gone : IsLess(d, Remove(d, gone))
           /\ IsLess(d, CollectPeople(d)) /\ IsLess(d, Collect(d))
<1>1. \A c, gone : IsLess(c, Remove(c, gone))
  BY DEF IsLess, Remove, IsCommitted
<1>2. \A c : IsLess(c, CollectPeople(c))
  BY <1>1 DEF CollectPeople
<1>3. IsLess(d, Collect(d))
  BY <1>1, <1>2 DEF Collect, IsLess
<1> QED BY <1>1, <1>2, <1>3

(* Nor does it bring back proposals that a commit dropped. *)
LEMMA LessDrops ==
    ASSUME NEW d, NEW m, NEW n, Drops(d, m), IsLess(m, n)
    PROVE  Drops(d, n)
BY DEF Drops, IsLess, ProposalsOf

(* An operation that commits nothing has nothing to drop. *)
LEMMA NothingDrops ==
    ASSUME NEW d, NEW n, CommitsNothing(d, n)
    PROVE  Drops(d, n)
BY DEF Drops, CommitsNothing

(* Nor does taking rows away commit anything. *)
LEMMA LessCommitsNothing ==
    ASSUME NEW d, NEW n, IsLess(d, n)
    PROVE  CommitsNothing(d, n)
BY DEF IsLess, CommitsNothing, IsDraft, IsCommitted

(* The triggers drop the proposals of each row whose mark is cleared. *)
LEMMA CommitRowsDrops ==
    ASSUME NEW d \in Db, NEW these
    PROVE  Drops(d, CommitRows(d, these))
<1> DEFINE n == CommitRows(d, these)
           committed == {e \in these : IsDraft(d, e)}
<1>1. /\ n.mark = [e \in Entities |-> IF e \in committed THEN "committed" ELSE d.mark[e]]
      /\ n.proposals = {p \in d.proposals : p[1] \notin committed}
  BY CommitRowsTyped
<1> HIDE DEF n
<1>2. ASSUME NEW e \in Entities, IsDraft(d, e), IsCommitted(n, e)
      PROVE  ProposalsOf(n, e) = {}
  <2>1. e \in committed
    BY <1>1, <1>2 DEF IsDraft, IsCommitted
  <2> QED BY <1>1, <2>1 DEF ProposalsOf
<1> QED BY <1>2 DEF Drops, n

(* A classification touches no mark and no proposal. *)
LEMMA InheritTables ==
    ASSUME NEW d \in Db, NEW a, NEW k
    PROVE  Inherit(d, a, k).mark = d.mark /\ Inherit(d, a, k).proposals = d.proposals
<1> DEFINE kinds == [e \in Parents |->
                       IF e \in ContentsOf(d, a) /\ d.kind[e] = Unclassified THEN k
                       ELSE d.kind[e]]
<1>1. Inherit(d, a, k) = d \/ Inherit(d, a, k) = [d EXCEPT !.kind = kinds]
  BY DEF Inherit
<1> HIDE DEF kinds
<1>2. /\ [d EXCEPT !.kind = kinds].mark = d.mark
      /\ [d EXCEPT !.kind = kinds].proposals = d.proposals
  BY OneTable
<1> QED BY <1>1, <1>2

(* The operations that commit drop the proposals of what they commit, ... *)
LEMMA AddWorkDrops ==
    ASSUME NEW d, Sound(d), NEW p \in Publications, NEW w \in Works, IsLive(d, p), IsLive(d, w)
    PROVE  Drops(d, AddWork(d, p, w))
<1> USE LinkedRows
<1> DEFINE linked == Link(d, p, w)
           commits == IF IsCommitted(d, p)
                      THEN {e \in ContentsOf(linked, p) \union ContributorsOf(d, w) : IsDraft(d, e)}
                      ELSE {}
           committed == CommitRows(linked, commits)
           collected == IF commits = {} THEN committed ELSE CollectPeople(committed)
           n == Inherit(collected, p, d.kind[p])
<1>1. linked \in Db /\ linked.mark = d.mark
  BY LinkTables, ZenonT(60)
<1>2. Drops(d, committed)
  <2> HIDE DEF linked, commits
  <2>1. Drops(linked, committed)
    BY <1>1, CommitRowsDrops
  <2> QED BY <1>1, <2>1 DEF Drops, IsDraft
<1>3. Drops(d, collected)
  <2> HIDE DEF committed
  <2> QED BY <1>2, RemovingIsLess, LessDrops
<1>4. AddWork(d, p, w) = IF <<p, w>> \in d.links THEN d ELSE n
  BY DEF AddWork
<1>5. collected \in Db
  <2>1. linked \in Db /\ Linked(linked) /\ Proposed(linked) /\ ClassifiedBut(linked, {p})
    BY LinkTables
  <2> HIDE DEF linked, commits
  <2>2. committed \in Db
    BY <2>1, CommitRowsTyped
  <2> HIDE DEF committed
  <2> QED BY <2>2, RemoveTyped DEF CollectPeople
<1>6. Drops(d, n)
  <2> HIDE DEF collected
  <2>1. n.mark = collected.mark /\ n.proposals = collected.proposals
    BY <1>5, InheritTables
  <2> HIDE DEF n
  <2> QED BY <1>3, <2>1 DEF Drops, ProposalsOf, IsCommitted
<1>7. Drops(d, d)
  BY DEF Drops, IsDraft, IsCommitted
<1> QED BY <1>4, <1>6, <1>7

(* ... linking a contributor too, ... *)
LEMMA AddContributorDrops ==
    ASSUME NEW d, Sound(d), NEW a \in Parents, NEW x \in People, IsLive(d, a), IsLive(d, x)
    PROVE  Drops(d, AddContributor(d, a, x))
<1> USE LinkedRows, IdsAreDistinct
<1> DEFINE linked == Link(d, a, x)
           those == ContributorsOf(linked, a)
<1>1. linked \in Db /\ linked.mark = d.mark
  BY LinkTables, ZenonT(60)
<1>2. AddContributor(d, a, x) \in {d, linked, CommitRows(linked, those)}
  BY DEF AddContributor
<1> HIDE DEF linked, those
<1>3. Drops(d, d) /\ Drops(d, linked)
  BY <1>1 DEF Drops, IsDraft, IsCommitted
<1>4. Drops(linked, CommitRows(linked, those))
  BY <1>1, CommitRowsDrops
<1>5. Drops(d, CommitRows(linked, those))
  BY <1>1, <1>4 DEF Drops, IsDraft
<1> QED BY <1>2, <1>3, <1>5

(* ... a commit with all that its closure reaches, ... *)
LEMMA CommitDrops ==
    ASSUME NEW d, Sound(d), NEW e \in Entities
    PROVE  Drops(d, Commit(d, e))
<1> DEFINE n == CommitRows(d, CommitClosure(d, e))
<1>1. d \in Db
  BY DEF Sound, SoundBut
<1>2. Drops(d, n)
  BY <1>1, CommitRowsDrops
<1>3. Commit(d, e) \in {d, n, Collect(n), CollectPeople(n)}
  BY DEF Commit
<1> HIDE DEF n
<1>4. Drops(d, Collect(n)) /\ Drops(d, CollectPeople(n))
  BY <1>2, RemovingIsLess, LessDrops
<1>5. Drops(d, d)
  BY DEF Drops, IsDraft, IsCommitted
<1> QED BY <1>2, <1>3, <1>4, <1>5

(* ... and those that only take away commit nothing. *)
LEMMA LesserOperationsDrop ==
    ASSUME NEW d, Sound(d), NEW a, NEW e, NEW these
    PROVE  /\ Drops(d, RemoveWork(d, a, e)) /\ Drops(d, RemoveContributor(d, a, e))
           /\ Drops(d, Delete(d, e)) /\ Drops(d, Reject(d, e, these))
           /\ Drops(d, Discard(d, a, e))
<1>1. d \in Db
  BY DEF Sound, SoundBut
<1>2. \A n : n.mark = d.mark => Drops(d, n)
  BY DEF Drops, IsDraft, IsCommitted
<1>3. \A n : Drops(d, n) => Drops(d, CollectPeople(n)) /\ Drops(d, Collect(n))
  BY RemovingIsLess, LessDrops
<1>4. Drops(d, Unlink(d, a, e))
  BY <1>1, <1>2 DEF Unlink, Db
<1>5. Drops(d, [d EXCEPT !.proposals = @ \ these]) /\ Drops(d, Discard(d, a, e))
  BY <1>1, <1>2 DEF Discard, Db
<1>6. Drops(d, Remove(d, {e}))
  BY RemovingIsLess, LessCommitsNothing, NothingDrops
<1>7. Drops(d, d)
  BY <1>2
<1>8. Drops(d, RemoveWork(d, a, e)) /\ Drops(d, RemoveContributor(d, a, e))
  BY <1>3, <1>4, <1>7 DEF RemoveWork, RemoveContributor
<1>9. Drops(d, Delete(d, e))
  BY <1>3, <1>6 DEF Delete
<1>10. Drops(d, Reject(d, e, these))
  BY <1>3, <1>5 DEF Reject
<1> QED BY <1>5, <1>8, <1>9, <1>10

(* A row inserted was not there to be a draft before. *)
LEMMA InsertDrops ==
    ASSUME NEW d, Sound(d), NEW e \in Entities, ~IsLive(d, e),
           NEW mark \in {"draft", "committed"}, NEW n,
           n.mark = Insert(d, e, mark).mark
    PROVE  Drops(d, n)
<1>1. d \in Db /\ Insert(d, e, mark).mark = [d.mark EXCEPT ![e] = mark]
  <2>1. d \in Db
    BY DEF Sound, SoundBut
  <2>2. Insert(d, e, mark) = [d EXCEPT !.mark = [d.mark EXCEPT ![e] = mark]]
    BY <2>1 DEF Insert, Db
  <2> QED BY <2>1, <2>2 DEF Db
<1>2. \A x \in Entities : IsDraft(d, x) => n.mark[x] = d.mark[x]
  BY <1>1, Tables DEF IsDraft, IsLive
<1> QED BY <1>2 DEF Drops, IsDraft, IsCommitted

-----------------------------------------------------------------------------
(* So does every edit, ... *)
LEMMA EditDrops ==
    ASSUME Inv, Edit
    PROVE  Drops(db, db')
<1> USE LinkedRows
<1>1. Sound(db) /\ db \in Db
  BY DEF Inv, Sound, SoundBut
<1>2. ASSUME NEW d, Drops(db, d), Edits(d)
      PROVE  Drops(db, db')
  BY <1>2 DEF Edits, Write
<1>3. \A d : d.mark = db.mark => Drops(db, d)
  BY DEF Drops, IsDraft, IsCommitted
<1>4. CASE Import
  <2>1. PICK p \in Publications : ~IsLive(db, p) /\ Edits(Insert(db, p, "draft"))
    BY <1>4 DEF Import, Fresh
  <2> QED BY <1>1, <1>2, <2>1, InsertDrops
<1>5. CASE Classify \/ ClassifyIfUnset
  <2>1. PICK p \in Publications, k \in Kinds : Edits(Inherit([db EXCEPT !.kind[p] = k], p, k))
    BY <1>5 DEF Classify, ClassifyIfUnset, Live
  <2> DEFINE n == [db EXCEPT !.kind[p] = k]
  <2>2. n \in Db /\ n.mark = db.mark
    BY <1>1, KindTables
  <2> HIDE DEF n
  <2>3. Inherit(n, p, k).mark = db.mark
    BY <2>2, InheritTables
  <2> QED BY <1>2, <1>3, <2>1, <2>3 DEF n
<1>6. CASE ClassifyWork
  <2>1. PICK w \in Works, k \in Kinds : Edits([db EXCEPT !.kind[w] = k])
    BY <1>6 DEF ClassifyWork, Live
  <2>2. [db EXCEPT !.kind[w] = k].mark = db.mark
    BY <1>1, KindTables
  <2> QED BY <1>2, <1>3, <2>1, <2>2
<1>7. ASSUME NEW a \in Parents, IsLive(db, a), NEW e \in Works \union People, ~IsLive(db, e),
             e \in Works => a \in Publications
      PROVE  /\ Drops(db, Link(Insert(db, e, db.mark[a]), a, e))
             /\ e \in Works => Drops(db, [Link(Insert(db, e, db.mark[a]), a, e)
                                            EXCEPT !.kind[e] = db.kind[a]])
  <2> DEFINE m == db.mark[a]
             inserted == Insert(db, e, m)
             linked == Link(inserted, a, e)
             n == [linked EXCEPT !.kind[e] = db.kind[a]]
  <2>1. m \in {"draft", "committed"} /\ e \in Entities /\ a # e
    BY <1>1, <1>7, Tables DEF IsLive, Marks
  <2> HIDE DEF m
  <2>2. Sound(inserted) /\ inserted.mark = [db.mark EXCEPT ![e] = m]
    BY <1>1, <1>7, <2>1, InsertSound
  <2>3. IsLive(inserted, a) /\ IsLive(inserted, e)
    <3> HIDE DEF inserted
    <3> QED BY <1>1, <1>7, <2>1, <2>2, Tables DEF IsLive, m
  <2>4. linked \in Db /\ linked.mark = inserted.mark
    <3> HIDE DEF inserted
    <3> QED BY <1>7, <2>2, <2>3, LinkTables
  <2>5. Drops(db, linked)
    <3> HIDE DEF linked
    <3> QED BY <1>1, <1>7, <2>1, <2>4, InsertDrops
  <2>6. ASSUME e \in Works
        PROVE  Drops(db, n)
    <3>1. e \in Parents /\ db.kind[a] \in Kinds \union {Unclassified}
      BY <1>1, <2>6, Tables
    <3> HIDE DEF linked
    <3>2. n.mark = linked.mark
      BY <2>4, <3>1, KindTables
    <3> HIDE DEF n
    <3> QED BY <1>1, <1>7, <2>1, <2>4, <3>2, InsertDrops
  <2> QED BY <2>5, <2>6 DEF m
<1>8. CASE CreateWork
  <2>1. PICK p \in Publications, w \in Works :
          /\ IsLive(db, p) /\ ~IsLive(db, w)
          /\ Edits([Link(Insert(db, w, db.mark[p]), p, w) EXCEPT !.kind[w] = db.kind[p]])
    BY <1>8 DEF CreateWork, Live, Fresh
  <2> QED BY <1>2, <1>7, <2>1
<1>9. CASE CreateContributor
  <2>1. PICK a \in Parents, x \in People :
          /\ IsLive(db, a) /\ ~IsLive(db, x)
          /\ Edits(Link(Insert(db, x, db.mark[a]), a, x))
    BY <1>9 DEF CreateContributor, Live, Fresh
  <2>2. x \notin Works
    BY IdsAreDistinct
  <2> QED BY <1>2, <1>7, <2>1, <2>2
<1>10. CASE AddsWork
  BY <1>1, <1>2, <1>10, AddWorkDrops DEF AddsWork, Live
<1>11. CASE RemovesWork \/ RemovesContributor
  BY <1>1, <1>2, <1>11, LesserOperationsDrop DEF RemovesWork, RemovesContributor
<1>12. CASE AddsContributor
  BY <1>1, <1>2, <1>12, AddContributorDrops DEF AddsContributor, Live
<1>13. CASE ProposesLink \/ ProposesValue
  <2>1. PICK a, e : Edits(Propose(db, a, e))
    BY <1>13 DEF ProposesLink, ProposesValue
  <2>2. Propose(db, a, e).mark = db.mark
    BY <1>1 DEF Propose, Db
  <2> QED BY <1>2, <1>3, <2>1, <2>2
<1>14. CASE ProposesNew
  <2>1. PICK a \in Parents, e \in Works \union People :
          ~IsLive(db, e) /\ Edits(Propose(Insert(db, e, "draft"), a, e))
    BY <1>14 DEF ProposesNew, Live, Fresh
  <2> DEFINE n == Insert(db, e, "draft")
  <2>2. n \in Db
    BY <1>1, <2>1, InsertSound DEF Sound, SoundBut
  <2>3. Propose(n, a, e).mark = n.mark
    <3> HIDE DEF n
    <3> QED BY <2>2 DEF Propose, Db
  <2>4. Drops(db, Propose(n, a, e))
    BY <1>1, <2>1, <2>3, InsertDrops
  <2> QED BY <1>2, <2>1, <2>4
<1>15. CASE Rejects \/ RejectsAll
  BY <1>1, <1>2, <1>15, LesserOperationsDrop DEF Rejects, RejectsAll
<1>16. CASE Commits
  BY <1>1, <1>2, <1>16, CommitDrops DEF Commits, Live
<1>17. CASE Deletes
  BY <1>1, <1>2, <1>17, LesserOperationsDrop DEF Deletes
<1> QED BY <1>4, <1>5, <1>6, <1>8, <1>9, <1>10, <1>11, <1>12, <1>13, <1>14, <1>15, <1>16,
           <1>17 DEF Edit

(* ... and every step of a review. *)
LEMMA ReviewDrops ==
    ASSUME Inv, NEW r \in Reviewers, Review(r)
    PROVE  Drops(db, db')
<1> USE LinkedRows
<1>1. Sound(db) /\ IsReview(review[r])
  BY DEF Inv
<1>2. Drops(db, db)
  BY DEF Drops, IsDraft, IsCommitted
<1>3. CASE ReadProposal(r) \/ ReloadDraft(r) \/ Interrupted(r)
  BY <1>2, <1>3 DEF ReadProposal, ReloadDraft, Interrupted
<1>4. CASE ApplyProposal(r)
  <2> DEFINE a == review[r].of
             about == review[r].about
  <2>1. /\ a \in Entities /\ about \in Works \union People \union {Value}
        /\ about # Value => a \in Parents
        /\ about \in Works => a \in Publications
    BY <1>1, <1>4 DEF IsReview, ApplyProposal
  <2>2. \/ db' = db
        \/ db' = Apply(db, a, about) /\ IsLive(db, a) /\ (about # Value => IsLive(db, about))
    BY <1>4 DEF ApplyProposal, Write
  <2> HIDE DEF a, about
  <2> QED BY <1>1, <1>2, <2>1, <2>2, AddWorkDrops, AddContributorDrops DEF Apply
<1>5. CASE DiscardProposal(r) \/ DeleteReloaded(r)
  BY <1>1, <1>2, <1>5, LesserOperationsDrop DEF DiscardProposal, DeleteReloaded, Write
<1> QED BY <1>3, <1>4, <1>5 DEF Review

(* Committing a draft drops its proposals, and those of every draft the commit
   cascades to. *)
THEOREM CommitsDrop == Spec => CommittingDropsProposals
<1>1. ASSUME Inv, [Next]_vars
      PROVE  \A e \in Entities : IsDraft(db, e) /\ IsCommitted(db', e) => ProposalsOf(db', e) = {}
  <2>1. CASE Edit
    BY <1>1, <2>1, EditDrops DEF Drops
  <2>2. ASSUME NEW r \in Reviewers, Review(r)
        PROVE  Drops(db, db')
    BY <1>1, <2>2, ReviewDrops
  <2>3. CASE UNCHANGED vars
    BY <2>3 DEF vars, IsDraft, IsCommitted
  <2> QED BY <1>1, <2>1, <2>2, <2>3 DEF Next, Drops
<1> QED BY <1>1, InvHolds, PTL DEF Spec, CommittingDropsProposals

-----------------------------------------------------------------------------
(***************************************************************************)
(* What is collected                                                       *)
(***************************************************************************)

\* Why `a`, which links or proposes `e` in `d`, does not keep it in `n`.
Releases(d, n, actor, a, e) ==
    \/ a = actor
    \/ ~IsLive(n, a)
    \/ <<a, e>> \notin d.links /\ IsDraft(d, a) /\ IsCommitted(n, a)

References(d) == d.links \union d.proposals

\* From `d` to `n`, a reference between rows that stay goes only when what refers releases it,
\* and a row only when all that refers to it does.
Spares(d, n, actor) ==
    /\ \A a \in Parents, e \in Entities :
          <<a, e>> \in References(d) \ References(n) /\ IsLive(n, e) => Releases(d, n, actor, a, e)
    /\ \A e \in Entities : IsLive(d, e) /\ ~IsLive(n, e) =>
          \/ e = actor
          \/ /\ e \notin Publications
             /\ \A a \in Parents : <<a, e>> \in References(d) => Releases(d, n, actor, a, e)

\* From `d` to `n` no work, or no work and no person, is orphaned.
OrphansNoWork(d, n) == OrphanWorks(n) \subseteq OrphanWorks(d)
OrphansNone(d, n) == Orphans(n) \subseteq Orphans(d)

(* What removing rows leaves. *)
LEMMA RemoveTables ==
    ASSUME NEW d, NEW gone
    PROVE  LET n == Remove(d, gone) IN
           /\ n.mark = [e \in Entities |-> IF e \in gone THEN "absent" ELSE d.mark[e]]
           /\ \A e \in Entities : IsLive(n, e) <=> IsLive(d, e) /\ e \notin gone
           /\ \A e \in Entities : IsCommitted(n, e) <=> IsCommitted(d, e) /\ e \notin gone
           /\ \A a, e : <<a, e>> \in References(n)
                          <=> <<a, e>> \in References(d) /\ a \notin gone /\ e \notin gone
<1> DEFINE n == Remove(d, gone)
<1>1. /\ n.mark = [e \in Entities |-> IF e \in gone THEN "absent" ELSE d.mark[e]]
      /\ n.links = {l \in d.links : l[1] \notin gone /\ l[2] \notin gone}
      /\ n.proposals = {p \in d.proposals : p[1] \notin gone /\ p[2] \notin gone}
  BY DEF Remove
<1> HIDE DEF n
<1>2. \A e \in Entities : n.mark[e] = IF e \in gone THEN "absent" ELSE d.mark[e]
  BY <1>1
<1>3. \A e \in Entities : IsLive(n, e) <=> IsLive(d, e) /\ e \notin gone
  BY <1>2 DEF IsLive
<1>4. \A e \in Entities : IsCommitted(n, e) <=> IsCommitted(d, e) /\ e \notin gone
  BY <1>2 DEF IsCommitted
<1>5. \A a, e : <<a, e>> \in References(n)
                  <=> <<a, e>> \in References(d) /\ a \notin gone /\ e \notin gone
  BY <1>1 DEF References
<1> QED BY <1>1, <1>3, <1>4, <1>5 DEF n

(* Removing rows that nothing refers to, none of them a publication, spares what was spared. *)
LEMMA RemovingOrphansSpares ==
    ASSUME NEW d, NEW m, NEW actor, Spares(d, m, actor),
           NEW gone \in SUBSET (Works \union People), \A e \in gone : ~IsNeeded(m, e)
    PROVE  Spares(d, Remove(m, gone), actor)
<1> DEFINE n == Remove(m, gone)
<1> USE LinkedRows
<1>1. /\ \A e \in Entities : IsLive(n, e) <=> IsLive(m, e) /\ e \notin gone
      /\ \A e \in Entities : IsCommitted(n, e) <=> IsCommitted(m, e) /\ e \notin gone
      /\ \A a, e : <<a, e>> \in References(n)
                      <=> <<a, e>> \in References(m) /\ a \notin gone /\ e \notin gone
  BY RemoveTables
<1> HIDE DEF n
<1>2. ASSUME NEW a \in Parents, NEW e, Releases(d, m, actor, a, e)
      PROVE  Releases(d, n, actor, a, e)
  BY <1>1, <1>2 DEF Releases
<1>3. ASSUME NEW a \in Parents, NEW e \in Entities,
             <<a, e>> \in References(d), <<a, e>> \notin References(n), IsLive(n, e)
      PROVE  Releases(d, n, actor, a, e)
  <2>1. IsLive(m, e) /\ e \notin gone
    BY <1>1, <1>3
  <2>2. CASE <<a, e>> \notin References(m)
    BY <1>2, <1>3, <2>1, <2>2 DEF Spares
  <2>3. CASE <<a, e>> \in References(m)
    <3>1. a \in gone
      BY <1>1, <1>3, <2>1, <2>3
    <3> QED BY <1>1, <3>1 DEF Releases
  <2> QED BY <2>2, <2>3
<1>4. ASSUME NEW e \in Entities, IsLive(d, e), ~IsLive(n, e), e # actor
      PROVE  /\ e \notin Publications
             /\ \A a \in Parents : <<a, e>> \in References(d) => Releases(d, n, actor, a, e)
  <2>1. CASE ~IsLive(m, e)
    BY <1>2, <1>4, <2>1 DEF Spares
  <2>2. CASE IsLive(m, e)
    <3>1. e \in gone
      BY <1>1, <1>4, <2>2
    <3>2. e \notin Publications
      BY <3>1, IdsAreDistinct
    <3>3. \A a \in Parents : <<a, e>> \notin References(m)
      BY <3>1 DEF IsNeeded, References
    <3> QED BY <1>2, <2>2, <3>2, <3>3 DEF Spares
  <2> QED BY <2>1, <2>2
<1> QED BY <1>3, <1>4 DEF Spares, n

(* Both collections remove such rows. *)
LEMMA CollectSpares ==
    ASSUME NEW d, NEW m, NEW actor, Spares(d, m, actor)
    PROVE  Spares(d, CollectPeople(m), actor) /\ Spares(d, Collect(m), actor)
<1>1. ASSUME NEW k, Spares(d, k, actor)
      PROVE  Spares(d, CollectPeople(k), actor)
  <2>1. /\ OrphanPeople(k) \in SUBSET (Works \union People)
        /\ \A e \in OrphanPeople(k) : ~IsNeeded(k, e)
    BY DEF OrphanPeople
  <2> QED BY <1>1, <2>1, RemovingOrphansSpares DEF CollectPeople
<1>2. Spares(d, Remove(m, OrphanWorks(m)), actor)
  <2>1. /\ OrphanWorks(m) \in SUBSET (Works \union People)
        /\ \A e \in OrphanWorks(m) : ~IsNeeded(m, e)
    BY DEF OrphanWorks
  <2> QED BY <2>1, RemovingOrphansSpares
<1> QED BY <1>1, <1>2 DEF Collect

(* Collecting people leaves no orphans of them, and works as they are; a person refers to
   nobody. *)
LEMMA CollectPeopleOrphansNone ==
    ASSUME NEW d, NEW m, OrphansNoWork(d, m)
    PROVE  OrphansNone(d, CollectPeople(m))
<1> DEFINE n == CollectPeople(m)
<1> USE LinkedRows
<1>1. /\ \A e \in Entities : IsLive(n, e) <=> IsLive(m, e) /\ e \notin OrphanPeople(m)
      /\ \A a, e : <<a, e>> \in References(n)
                      <=> <<a, e>> \in References(m) /\ a \notin OrphanPeople(m)
                                                     /\ e \notin OrphanPeople(m)
  BY RemoveTables DEF CollectPeople
<1> HIDE DEF n
<1>2. \A e \in Entities : IsLive(n, e) /\ IsNeeded(m, e) => IsNeeded(n, e)
  <2>1. ASSUME NEW e \in Entities, IsLive(n, e), NEW a \in Parents, <<a, e>> \in References(m)
        PROVE  <<a, e>> \in References(n)
    <3>1. a \notin OrphanPeople(m)
      BY DEF OrphanPeople
    <3> QED BY <1>1, <2>1, <3>1
  <2> QED BY <2>1 DEF IsNeeded, References
<1>3. \A x \in People : IsLive(n, x) => IsNeeded(n, x)
  <2>1. ASSUME NEW x \in People, IsLive(n, x)
        PROVE  IsNeeded(m, x)
    BY <1>1, <2>1 DEF OrphanPeople
  <2> QED BY <1>2, <2>1
<1>4. OrphanPeople(n) = {}
  BY <1>3 DEF OrphanPeople
<1>5. OrphanWorks(n) \subseteq OrphanWorks(m)
  <2>1. ASSUME NEW w \in Works, IsLive(n, w), ~IsNeeded(n, w)
        PROVE  IsLive(m, w) /\ ~IsNeeded(m, w)
    BY <1>1, <1>2, <2>1
  <2> QED BY <2>1 DEF OrphanWorks
<1> QED BY <1>4, <1>5 DEF OrphansNone, OrphansNoWork, Orphans, n

(* Collecting works first, which only publications refer to, and then people leaves no
   orphans at all. *)
LEMMA CollectOrphansNone ==
    ASSUME NEW d, NEW m, Linked(m), Proposed(m)
    PROVE  OrphansNone(d, Collect(m))
<1> DEFINE k == Remove(m, OrphanWorks(m))
<1> USE LinkedRows
<1>1. /\ \A e \in Entities : IsLive(k, e) <=> IsLive(m, e) /\ e \notin OrphanWorks(m)
      /\ \A a, e : <<a, e>> \in References(k)
                      <=> <<a, e>> \in References(m) /\ a \notin OrphanWorks(m)
                                                     /\ e \notin OrphanWorks(m)
  BY RemoveTables
<1>2. Collect(m) = CollectPeople(k)
  BY DEF Collect
<1> HIDE DEF k
<1>3. ASSUME NEW w \in Works, IsLive(k, w)
      PROVE  IsNeeded(k, w)
  <2>1. w \notin OrphanWorks(m) /\ IsNeeded(m, w)
    BY <1>1, <1>3 DEF OrphanWorks
  <2>2. PICK a \in Parents : <<a, w>> \in References(m)
    BY <2>1 DEF IsNeeded, References
  <2>3. a \in Publications
    <3>1. CASE <<a, w>> \in m.links
      <4> DEFINE l == <<a, w>>
      <4>1. l \in m.links /\ l[1] = a /\ l[2] = w
        BY <3>1
      <4> HIDE DEF l
      <4> QED BY <4>1 DEF Linked
    <3>2. CASE <<a, w>> \in m.proposals
      <4> DEFINE l == <<a, w>>
      <4>1. l \in m.proposals /\ l[1] = a /\ l[2] = w
        BY <3>2
      <4> HIDE DEF l
      <4> QED BY <4>1 DEF Proposed
    <3> QED BY <2>2, <3>1, <3>2 DEF References
  <2>4. a \notin OrphanWorks(m)
    BY <2>3 DEF OrphanWorks
  <2> QED BY <1>1, <2>1, <2>2, <2>4 DEF IsNeeded, References
<1>4. OrphanWorks(k) = {}
  BY <1>3 DEF OrphanWorks
<1>5. OrphansNoWork(d, k)
  BY <1>4 DEF OrphansNoWork
<1> QED BY <1>2, <1>5, CollectPeopleOrphansNone

\* What keeps a row keeps it: `n` has every row and every reference of `d`.
Grows(d, n) ==
    /\ \A e \in Entities : IsLive(d, e) => IsLive(n, e)
    /\ \A a \in Parents, e \in Entities : <<a, e>> \in References(d) => <<a, e>> \in References(n)

\* What is new in `n` is a publication, or needed.
NewIsNeeded(d, n) ==
    \A e \in Works \union People : IsLive(n, e) /\ ~IsLive(d, e) => IsNeeded(n, e)

\* What each of `rows` is needed for it still is.
NeedsAreKept(d, n, rows) ==
    \A e \in rows : IsLive(n, e) => IsLive(d, e) /\ (IsNeeded(d, e) => IsNeeded(n, e))

(* Growing orphans nothing ... *)
LEMMA GrowingSpares ==
    ASSUME NEW d, NEW n, Grows(d, n)
    PROVE  /\ \A actor : Spares(d, n, actor)
           /\ NewIsNeeded(d, n) => OrphansNone(d, n)
<1> USE LinkedRows
<1>1. \A actor : Spares(d, n, actor)
  BY DEF Grows, Spares
<1>2. ASSUME NewIsNeeded(d, n), NEW e \in Works \union People, IsLive(n, e), ~IsNeeded(n, e)
      PROVE  IsLive(d, e) /\ ~IsNeeded(d, e)
  <2>1. IsLive(d, e)
    BY <1>2 DEF NewIsNeeded
  <2>2. IsNeeded(d, e) => IsNeeded(n, e)
    BY DEF Grows, IsNeeded, References
  <2> QED BY <1>2, <2>1, <2>2
<1>3. NewIsNeeded(d, n) => OrphansNone(d, n)
  BY <1>2 DEF OrphansNone, Orphans, OrphanWorks, OrphanPeople
<1> QED BY <1>1, <1>3

(* ... and neither does what keeps the needs of the rows that stay. *)
LEMMA KeptNeedsOrphanNone ==
    ASSUME NEW d, NEW n
    PROVE  /\ NeedsAreKept(d, n, Works) => OrphansNoWork(d, n)
           /\ NeedsAreKept(d, n, Works \union People) => OrphansNone(d, n)
BY DEF NeedsAreKept, OrphansNoWork, OrphansNone, Orphans, OrphanWorks, OrphanPeople

(* Tables with the marks of others, and references that only one entity lost. *)
LEMMA LosingReferencesSpares ==
    ASSUME NEW d, NEW n, NEW actor, n.mark = d.mark,
           \A a \in Parents, e \in Entities :
              <<a, e>> \in References(d) => <<a, e>> \in References(n) \/ a = actor
    PROVE  Spares(d, n, actor)
<1>1. \A e \in Entities : IsLive(n, e) <=> IsLive(d, e)
  BY DEF IsLive
<1> QED BY <1>1 DEF Spares, Releases

(* Committing rows of tables that grew drops proposals of drafts alone, and of works and people,
   which propose no works. *)
LEMMA CommitRowsSpares ==
    ASSUME NEW d, NEW m \in Db, m.mark = d.mark, d.links \subseteq m.links,
           d.proposals = m.proposals, NEW these
    PROVE  /\ \A actor : Spares(d, CommitRows(m, these), actor)
           /\ Proposed(m) /\ these \intersect Publications = {} =>
                 OrphansNoWork(d, CommitRows(m, these))
           /\ Proposed(m) /\ these \subseteq People => OrphansNone(d, CommitRows(m, these))
<1> DEFINE n == CommitRows(m, these)
           committed == {e \in these : IsDraft(m, e)}
<1> USE LinkedRows
<1>1. /\ n.mark = [e \in Entities |-> IF e \in committed THEN "committed" ELSE m.mark[e]]
      /\ n.proposals = {p \in m.proposals : p[1] \notin committed}
      /\ n.links = m.links
  BY CommitRowsTyped
<1> HIDE DEF n
<1>2. \A e \in Entities : /\ IsLive(n, e) <=> IsLive(d, e)
                          /\ e \in committed => IsDraft(d, e) /\ IsCommitted(n, e)
  BY <1>1 DEF IsLive, IsCommitted, IsDraft
<1>3. \A a \in Parents, e \in Entities :
        <<a, e>> \in References(d) =>
          \/ <<a, e>> \in References(n)
          \/ <<a, e>> \in d.proposals /\ <<a, e>> \notin d.links /\ a \in committed
  <2>1. ASSUME NEW a \in Parents, NEW e \in Entities, <<a, e>> \in References(d),
               <<a, e>> \notin References(n)
        PROVE  <<a, e>> \in d.proposals /\ <<a, e>> \notin d.links /\ a \in committed
    <3>1. <<a, e>> \notin d.links /\ <<a, e>> \in m.proposals
      BY <1>1, <2>1 DEF References
    <3> DEFINE p == <<a, e>>
    <3>2. p \in m.proposals /\ p \notin n.proposals /\ p[1] = a
      BY <2>1, <3>1 DEF References
    <3> HIDE DEF p
    <3>3. a \in committed
      BY <1>1, <3>2
    <3> QED BY <3>1, <3>3
  <2> QED BY <2>1
<1>4. \A actor : Spares(d, n, actor)
  BY <1>2, <1>3 DEF Spares, Releases
<1>5. ASSUME Proposed(m), NEW a \in Parents, NEW e \in Works \union People,
             <<a, e>> \in d.proposals, a \in committed
      PROVE  a \in these /\ (e \in Works => a \in Publications)
  <2> DEFINE p == <<a, e>>
  <2>1. p \in m.proposals /\ p[1] = a /\ p[2] = e
    BY <1>5
  <2> HIDE DEF p
  <2> QED BY <1>5, <2>1 DEF Proposed
<1>6. ASSUME Proposed(m), these \intersect Publications = {}
      PROVE  OrphansNoWork(d, n)
  <2>1. ASSUME NEW a \in Parents, NEW e \in Works, <<a, e>> \in References(d)
        PROVE  <<a, e>> \in References(n)
    BY <1>3, <1>5, <1>6, <2>1
  <2>2. NeedsAreKept(d, n, Works)
    BY <1>2, <2>1 DEF NeedsAreKept, IsNeeded, References
  <2> QED BY <2>2, KeptNeedsOrphanNone
<1>7. ASSUME Proposed(m), these \subseteq People
      PROVE  OrphansNone(d, n)
  <2>1. ASSUME NEW a \in Parents, NEW e \in Works \union People, <<a, e>> \in References(d)
        PROVE  <<a, e>> \in References(n)
    BY <1>3, <1>5, <1>7, <2>1
  <2>2. NeedsAreKept(d, n, Works \union People)
    BY <1>2, <2>1 DEF NeedsAreKept, IsNeeded, References
  <2> QED BY <2>2, KeptNeedsOrphanNone
<1> QED BY <1>4, <1>6, <1>7 DEF n

(* Classifications matter to neither. *)
LEMMA KindsOrphanNone ==
    ASSUME NEW d, NEW m, NEW n,
           n.mark = m.mark, n.links = m.links, n.proposals = m.proposals
    PROVE  /\ \A actor : Spares(d, m, actor) => Spares(d, n, actor)
           /\ OrphansNone(d, m) => OrphansNone(d, n)
<1>1. /\ \A e : IsLive(n, e) <=> IsLive(m, e)
      /\ \A e : IsCommitted(n, e) <=> IsCommitted(m, e)
      /\ References(n) = References(m)
      /\ \A e : IsNeeded(n, e) <=> IsNeeded(m, e)
  BY DEF IsLive, IsCommitted, References, IsNeeded
<1>2. \A actor : Spares(d, m, actor) => Spares(d, n, actor)
  BY <1>1 DEF Spares, Releases
<1>3. OrphanWorks(n) = OrphanWorks(m) /\ OrphanPeople(n) = OrphanPeople(m)
  BY <1>1 DEF OrphanWorks, OrphanPeople
<1> QED BY <1>2, <1>3 DEF OrphansNone, Orphans

(* Inheriting a classification touches no link. *)
LEMMA InheritKeepsLinks ==
    ASSUME NEW d \in Db, NEW a, NEW k
    PROVE  Inherit(d, a, k).links = d.links
<1> DEFINE kinds == [e \in Parents |->
                       IF e \in ContentsOf(d, a) /\ d.kind[e] = Unclassified THEN k
                       ELSE d.kind[e]]
<1>1. Inherit(d, a, k) = d \/ Inherit(d, a, k) = [d EXCEPT !.kind = kinds]
  BY DEF Inherit
<1> HIDE DEF kinds
<1>2. [d EXCEPT !.kind = kinds].links = d.links
  BY OneTable
<1> QED BY <1>1, <1>2

(* A link between rows that are there is one more reference. *)
LEMMA LinkGrows ==
    ASSUME NEW d, Sound(d), NEW a \in Parents, NEW e \in Works \union People,
           IsLive(d, a), IsLive(d, e), e \in Works => a \in Publications
    PROVE  /\ Link(d, a, e) \in Db /\ Proposed(Link(d, a, e))
           /\ Link(d, a, e).mark = d.mark
           /\ d.links \subseteq Link(d, a, e).links
           /\ <<a, e>> \in Link(d, a, e).links
           /\ d.proposals = Link(d, a, e).proposals
<1> DEFINE n == Link(d, a, e)
<1>1. /\ n \in Db /\ Proposed(n) /\ n.mark = d.mark /\ n.links = d.links \union {<<a, e>>}
  BY LinkTables, ZenonT(60)
<1>2. n.proposals = d.proposals
  <2> DEFINE S == d.links \union {<<a, e>>}
  <2>1. n = [d EXCEPT !.links = S]
    BY DEF Link, Sound, SoundBut, Db
  <2> HIDE DEF n, S
  <2> QED BY <2>1, OneTable DEF Sound, SoundBut
<1> HIDE DEF n
<1> QED BY <1>1, <1>2 DEF n

(* Linking a work: the commit may drop the last proposal of a person, who is collected. *)
LEMMA AddWorkSpares ==
    ASSUME NEW d, Sound(d), NEW p \in Publications, NEW w \in Works, IsLive(d, p), IsLive(d, w)
    PROVE  Spares(d, AddWork(d, p, w), p) /\ OrphansNone(d, AddWork(d, p, w))
<1> USE LinkedRows
<1> DEFINE linked == Link(d, p, w)
           commits == IF IsCommitted(d, p)
                      THEN {e \in ContentsOf(linked, p) \union ContributorsOf(d, w) : IsDraft(d, e)}
                      ELSE {}
           committed == CommitRows(linked, commits)
           collected == IF commits = {} THEN committed ELSE CollectPeople(committed)
           n == Inherit(collected, p, d.kind[p])
<1>1. /\ linked \in Db /\ Proposed(linked) /\ linked.mark = d.mark
      /\ d.links \subseteq linked.links /\ d.proposals = linked.proposals
  BY LinkGrows, ZenonT(60)
<1>2. commits \intersect Publications = {}
  BY IdsAreDistinct DEF ContentsOf, ContributorsOf
<1>3. AddWork(d, p, w) = IF <<p, w>> \in d.links THEN d ELSE n
  BY DEF AddWork
<1>4. Spares(d, d, p) /\ OrphansNone(d, d)
  BY DEF Spares, OrphansNone
<1> HIDE DEF linked, commits
<1>5. /\ Spares(d, committed, p) /\ OrphansNoWork(d, committed)
      /\ commits = {} => OrphansNone(d, committed)
      /\ committed \in Db
  BY <1>1, <1>2, CommitRowsSpares, CommitRowsTyped
<1> HIDE DEF committed
<1>6. Spares(d, collected, p) /\ OrphansNone(d, collected) /\ collected \in Db
  BY <1>5, CollectSpares, CollectPeopleOrphansNone, RemoveTyped DEF CollectPeople
<1> HIDE DEF collected
<1>7. n.mark = collected.mark /\ n.links = collected.links /\ n.proposals = collected.proposals
  BY <1>6, InheritTables, InheritKeepsLinks
<1> HIDE DEF n
<1>8. Spares(d, n, p) /\ OrphansNone(d, n)
  BY <1>6, <1>7, KindsOrphanNone
<1> QED BY <1>3, <1>4, <1>8

(* Linking a contributor: a commit of people drops no proposal of a row. *)
LEMMA AddContributorSpares ==
    ASSUME NEW d, Sound(d), NEW a \in Parents, NEW x \in People, IsLive(d, a), IsLive(d, x)
    PROVE  Spares(d, AddContributor(d, a, x), a) /\ OrphansNone(d, AddContributor(d, a, x))
<1> USE LinkedRows, IdsAreDistinct
<1> DEFINE linked == Link(d, a, x)
           those == ContributorsOf(linked, a)
<1>1. /\ linked \in Db /\ Proposed(linked) /\ linked.mark = d.mark
      /\ d.links \subseteq linked.links /\ d.proposals = linked.proposals
  BY LinkGrows, ZenonT(60)
<1>2. AddContributor(d, a, x) \in {d, linked, CommitRows(linked, those)}
  BY DEF AddContributor
<1>3. those \subseteq People
  BY DEF ContributorsOf
<1> HIDE DEF linked, those
<1>4. Spares(d, d, a) /\ OrphansNone(d, d)
  BY DEF Spares, OrphansNone
<1>5. Spares(d, linked, a) /\ OrphansNone(d, linked)
  <2>1. Grows(d, linked) /\ NewIsNeeded(d, linked)
    BY <1>1 DEF Grows, NewIsNeeded, IsLive, References
  <2> QED BY <2>1, GrowingSpares
<1>6. Spares(d, CommitRows(linked, those), a) /\ OrphansNone(d, CommitRows(linked, those))
  BY <1>1, <1>3, CommitRowsSpares
<1> QED BY <1>2, <1>4, <1>5, <1>6

(* A commit collects what the proposals it drops leave. *)
LEMMA CommitSpares ==
    ASSUME NEW d, Sound(d), NEW e \in Entities
    PROVE  Spares(d, Commit(d, e), e) /\ OrphansNone(d, Commit(d, e))
<1> USE LinkedRows
<1> DEFINE these == CommitClosure(d, e)
           n == CommitRows(d, these)
<1>1. d \in Db /\ Proposed(d)
  BY DEF Sound, SoundBut
<1>2. Spares(d, d, e) /\ OrphansNone(d, d)
  BY DEF Spares, OrphansNone
<1>3. /\ e \in Works => these \intersect Publications = {}
      /\ e \in People => these \subseteq People
  <2>1. these \subseteq {e} \union Works \union People
    BY DEF CommitClosure, ContentsOf, ContributorsOf
  <2>2. ASSUME e \in People
        PROVE  ContentsOf(d, e) = {} /\ ContributorsOf(d, e) = {}
    <3>1. \A l \in d.links : l[1] # e
      BY <1>1, <2>2, Tables
    <3> QED BY <3>1 DEF ContentsOf, ContributorsOf
  <2>3. e \in People => these = {e}
    BY <2>2 DEF CommitClosure
  <2> HIDE DEF these
  <2> QED BY <2>1, <2>3, IdsAreDistinct
<1>4. Spares(d, n, e)
  <2> HIDE DEF these
  <2> QED BY <1>1, CommitRowsSpares
<1>5. SoundBut(n, {})
  BY CommittedClosureSound DEF Sound
<1>6. /\ e \in Works => OrphansNoWork(d, n)
      /\ e \in People => OrphansNone(d, n)
  <2> HIDE DEF these
  <2> QED BY <1>1, <1>3, CommitRowsSpares
<1>7. /\ Commit(d, e) \in {d, n, Collect(n), CollectPeople(n)}
      /\ e \in Publications => Commit(d, e) \in {d, Collect(n)}
      /\ e \in Works => Commit(d, e) \in {d, CollectPeople(n)}
      /\ e \in People => Commit(d, e) \in {d, n}
  BY IdsAreDistinct DEF Commit
<1> HIDE DEF n
<1>8. Spares(d, Collect(n), e) /\ Spares(d, CollectPeople(n), e)
  BY <1>4, CollectSpares
<1>9. OrphansNone(d, Collect(n))
  BY <1>5, CollectOrphansNone DEF SoundBut
<1>10. OrphansNoWork(d, n) => OrphansNone(d, CollectPeople(n))
  BY CollectPeopleOrphansNone
<1>11. Spares(d, Commit(d, e), e)
  BY <1>2, <1>4, <1>7, <1>8
<1>12. OrphansNone(d, Commit(d, e))
  BY <1>2, <1>6, <1>7, <1>9, <1>10 DEF Entities
<1> QED BY <1>11, <1>12

(* Taking away: an unlinked row may lose its last reference, one deleted takes its references
   with it, and so do rejected proposals. *)
LEMMA RemovesSpares ==
    ASSUME NEW d, Sound(d), NEW a \in Parents, NEW e \in Works \union People
    PROVE  /\ Spares(d, RemoveWork(d, a, e), a) /\ OrphansNone(d, RemoveWork(d, a, e))
           /\ Spares(d, RemoveContributor(d, a, e), a)
           /\ e \in People => OrphansNone(d, RemoveContributor(d, a, e))
<1> USE LinkedRows
<1> DEFINE n == Unlink(d, a, e)
<1>1. Sound(n)
  BY UnlinkSound
<1>2. n.mark = d.mark /\ n.links = d.links \ {<<a, e>>} /\ n.proposals = d.proposals
  <2> DEFINE S == d.links \ {<<a, e>>}
  <2>1. n = [d EXCEPT !.links = S]
    BY DEF Unlink, Sound, SoundBut, Db
  <2> HIDE DEF n, S
  <2>2. n = [mark |-> d.mark, kind |-> d.kind, links |-> S, proposals |-> d.proposals]
    BY <2>1, OneTable DEF Sound, SoundBut
  <2> QED BY <2>2 DEF S
<1>3. /\ RemoveWork(d, a, e) \in {d, Collect(n)}
      /\ RemoveContributor(d, a, e) \in {d, CollectPeople(n)}
  BY DEF RemoveWork, RemoveContributor
<1> HIDE DEF n
<1>4. Spares(d, d, a) /\ OrphansNone(d, d)
  BY DEF Spares, OrphansNone
<1>5. Spares(d, n, a)
  <2>1. \A b \in Parents, x \in Entities :
          <<b, x>> \in References(d) => <<b, x>> \in References(n) \/ b = a
    BY <1>2 DEF References
  <2> QED BY <1>2, <2>1, LosingReferencesSpares
<1>6. Spares(d, Collect(n), a) /\ Spares(d, CollectPeople(n), a)
  BY <1>5, CollectSpares
<1>7. OrphansNone(d, Collect(n))
  BY <1>1, CollectOrphansNone DEF Sound, SoundBut
<1>8. ASSUME e \in People
      PROVE  OrphansNone(d, CollectPeople(n))
  <2>1. \A b \in Parents, w \in Works : <<b, w>> \in References(d) => <<b, w>> \in References(n)
    BY <1>2, <1>8, IdsAreDistinct DEF References
  <2>2. NeedsAreKept(d, n, Works)
    BY <1>2, <2>1 DEF NeedsAreKept, IsNeeded, References, IsLive
  <2> QED BY <2>2, KeptNeedsOrphanNone, CollectPeopleOrphansNone
<1> QED BY <1>3, <1>4, <1>6, <1>7, <1>8

LEMMA DeleteSpares ==
    ASSUME NEW d, Sound(d), NEW e \in Entities
    PROVE  Spares(d, Delete(d, e), e) /\ OrphansNone(d, Delete(d, e))
<1> USE LinkedRows
<1> DEFINE n == Remove(d, {e})
<1>1. /\ \A x \in Entities : IsLive(n, x) <=> IsLive(d, x) /\ x # e
      /\ \A a, x : <<a, x>> \in References(n) <=> <<a, x>> \in References(d) /\ a # e /\ x # e
  BY RemoveTables
<1>2. Sound(n)
  BY RemoveSound DEF Sound
<1>3. /\ e \in Publications => Delete(d, e) = Collect(n)
      /\ e \in Works => Delete(d, e) = CollectPeople(n)
      /\ e \in People => Delete(d, e) = n
  BY IdsAreDistinct DEF Delete
<1> HIDE DEF n
<1>4. Spares(d, n, e)
  BY <1>1 DEF Spares, Releases
<1>5. Spares(d, Collect(n), e) /\ Spares(d, CollectPeople(n), e)
  BY <1>4, CollectSpares
<1>6. OrphansNone(d, Collect(n))
  BY <1>2, CollectOrphansNone DEF Sound, SoundBut
<1>7. ASSUME e \in Works
      PROVE  OrphansNone(d, CollectPeople(n))
  <2>1. ASSUME NEW a \in Parents, NEW w \in Works, <<a, w>> \in References(d)
        PROVE  a # e
    <3> DEFINE l == <<a, w>>
    <3>1. l \in d.links \union d.proposals /\ l[1] = a /\ l[2] = w
      BY <2>1 DEF References
    <3> HIDE DEF l
    <3>2. a \in Publications
      BY <3>1 DEF Sound, SoundBut, Linked, Proposed
    <3> QED BY <1>7, <3>2
  <2>2. NeedsAreKept(d, n, Works)
    BY <1>1, <2>1 DEF NeedsAreKept, IsNeeded, References
  <2> QED BY <2>2, KeptNeedsOrphanNone, CollectPeopleOrphansNone
<1>8. ASSUME e \in People
      PROVE  OrphansNone(d, n)
  <2>1. NeedsAreKept(d, n, Works \union People)
    BY <1>1, <1>8 DEF NeedsAreKept, IsNeeded, References
  <2> QED BY <2>1, KeptNeedsOrphanNone
<1> QED BY <1>3, <1>4, <1>5, <1>6, <1>7, <1>8 DEF Entities

LEMMA RejectSpares ==
    ASSUME NEW d, Sound(d), NEW e \in Entities, NEW these, these \subseteq ProposalsOf(d, e)
    PROVE  Spares(d, Reject(d, e, these), e) /\ OrphansNone(d, Reject(d, e, these))
<1> USE LinkedRows
<1> DEFINE n == [d EXCEPT !.proposals = @ \ these]
<1>1. Sound(n)
  BY FewerProposalsSound
<1>2. n.mark = d.mark /\ n.links = d.links /\ n.proposals = d.proposals \ these
  <2> DEFINE S == d.proposals \ these
  <2>1. n = [d EXCEPT !.proposals = S]
    BY DEF Sound, SoundBut, Db
  <2> HIDE DEF n, S
  <2>2. n = [mark |-> d.mark, kind |-> d.kind, links |-> d.links, proposals |-> S]
    BY <2>1, OneTable DEF Sound, SoundBut
  <2> QED BY <2>2 DEF S
<1>3. Reject(d, e, these) = IF e \in Publications THEN Collect(n)
                           ELSE IF e \in Works THEN CollectPeople(n) ELSE n
  BY DEF Reject
<1> HIDE DEF n
<1>4. \A a \in Parents, x \in Entities :
        <<a, x>> \in References(d) => <<a, x>> \in References(n) \/ a = e
  BY <1>2 DEF References, ProposalsOf
<1>5. Spares(d, n, e)
  BY <1>2, <1>4, LosingReferencesSpares
<1>6. /\ Spares(d, Collect(n), e) /\ OrphansNone(d, Collect(n))
      /\ Spares(d, CollectPeople(n), e)
  BY <1>1, <1>5, CollectSpares, CollectOrphansNone DEF Sound, SoundBut
<1>7. ASSUME e \in Works
      PROVE  OrphansNone(d, CollectPeople(n))
  <2>1. \A a \in Parents, w \in Works : <<a, w>> \in References(d) => <<a, w>> \in References(n)
    <3>1. e \notin Publications
      BY <1>7, IdsAreDistinct
    <3>2. \A a, w : <<a, w>> \in d.proposals /\ w \in Works => a \in Publications
      BY DEF Sound, SoundBut, Proposed
    <3> QED BY <1>2, <3>1, <3>2 DEF References, ProposalsOf
  <2>2. NeedsAreKept(d, n, Works)
    BY <1>2, <2>1 DEF NeedsAreKept, IsNeeded, References, IsLive
  <2> QED BY <2>2, KeptNeedsOrphanNone, CollectPeopleOrphansNone
<1>8. ASSUME e \in People
      PROVE  OrphansNone(d, n)
  <2>1. \A a \in Parents : a # e
    BY <1>8
  <2>2. NeedsAreKept(d, n, Works \union People)
    BY <1>2, <1>4, <2>1 DEF NeedsAreKept, IsNeeded, References, IsLive
  <2> QED BY <2>2, KeptNeedsOrphanNone
<1>9. e \in Publications \/ e \in Works \/ e \in People
  BY DEF Entities
<1> QED BY <1>3, <1>5, <1>6, <1>7, <1>8, <1>9, IdsAreDistinct

(* A proposal more is a reference more; one that a reviewer accepted goes without a look at what
   it leaves. *)
LEMMA ProposeSpares ==
    ASSUME NEW d \in Db, NEW a, NEW e
    PROVE  /\ Propose(d, a, e).mark = d.mark /\ Propose(d, a, e).links = d.links
           /\ Propose(d, a, e).proposals = d.proposals \union {<<a, e>>}
           /\ Grows(d, Propose(d, a, e))
           /\ Spares(d, Discard(d, a, e), a)
<1> DEFINE n == Propose(d, a, e)
           m == Discard(d, a, e)
<1>1. n.mark = d.mark /\ n.links = d.links /\ n.proposals = d.proposals \union {<<a, e>>}
  BY DEF Propose, Db
<1>2. m.mark = d.mark /\ m.links = d.links /\ m.proposals = d.proposals \ {<<a, e>>}
  BY DEF Discard, Db
<1> HIDE DEF n, m
<1>3. Grows(d, n)
  BY <1>1 DEF Grows, References, IsLive
<1>4. \A b \in Parents, x \in Entities :
        <<b, x>> \in References(d) => <<b, x>> \in References(m) \/ b = a
  BY <1>2 DEF References
<1>5. Spares(d, m, a)
  BY <1>2, <1>4, LosingReferencesSpares
<1> QED BY <1>1, <1>3, <1>5 DEF n, m

(* A new row is referred to by what it is made for. *)
LEMMA InsertGrows ==
    ASSUME NEW d, Sound(d), NEW e \in Entities, ~IsLive(d, e),
           NEW mark \in {"draft", "committed"}
    PROVE  /\ Insert(d, e, mark).mark = [d.mark EXCEPT ![e] = mark]
           /\ Insert(d, e, mark) \in Db
           /\ \A x \in Entities : IsLive(Insert(d, e, mark), x) <=> IsLive(d, x) \/ x = e
           /\ References(Insert(d, e, mark)) = References(d)
           /\ Insert(d, e, mark).links = d.links
           /\ Insert(d, e, mark).proposals = d.proposals
<1> DEFINE n == Insert(d, e, mark)
<1>1. /\ n \in Db /\ n.mark = [d.mark EXCEPT ![e] = mark]
      /\ n.links = d.links /\ n.proposals = d.proposals
  BY InsertSound DEF Sound, SoundBut
<1> HIDE DEF n
<1>2. \A x \in Entities : n.mark[x] = IF x = e THEN mark ELSE d.mark[x]
  BY <1>1, Tables DEF Sound, SoundBut
<1>3. \A x \in Entities : IsLive(n, x) <=> IsLive(d, x) \/ x = e
  BY <1>2 DEF IsLive
<1> QED BY <1>1, <1>3 DEF References, n

(* Tables with what Insert makes of the marks and one reference more orphan nothing. *)
LEMMA NewRowGrows ==
    ASSUME NEW d, Sound(d), NEW e \in Entities, ~IsLive(d, e),
           NEW mark \in {"draft", "committed"}, NEW n,
           n.mark = Insert(d, e, mark).mark,
           d.links \subseteq n.links, d.proposals \subseteq n.proposals,
           e \in Publications \/ IsNeeded(n, e)
    PROVE  (\A actor : Spares(d, n, actor)) /\ OrphansNone(d, n)
<1> USE LinkedRows
<1>1. \A x \in Entities : IsLive(n, x) <=> IsLive(d, x) \/ x = e
  <2>1. n.mark = [d.mark EXCEPT ![e] = mark]
    BY InsertGrows
  <2>2. \A x \in Entities : n.mark[x] = IF x = e THEN mark ELSE d.mark[x]
    BY <2>1, Tables DEF Sound, SoundBut
  <2> QED BY <2>2 DEF IsLive
<1>2. Grows(d, n)
  BY <1>1 DEF Grows, References
<1>3. NewIsNeeded(d, n)
  BY <1>1, IdsAreDistinct DEF NewIsNeeded
<1> QED BY <1>2, <1>3, GrowingSpares

-----------------------------------------------------------------------------
(* No edit takes what others keep or leaves an orphan, ... *)
LEMMA EditSpares ==
    ASSUME Inv, Edit
    PROVE  (\E actor \in Entities : Spares(db, db', actor)) /\ OrphansNone(db, db')
<1> USE LinkedRows
<1>1. Sound(db) /\ db \in Db
  BY DEF Inv, Sound, SoundBut
<1>2. ASSUME NEW d, NEW actor \in Entities, Spares(db, d, actor), OrphansNone(db, d), Edits(d)
      PROVE  (\E x \in Entities : Spares(db, db', x)) /\ OrphansNone(db, db')
  BY <1>2 DEF Edits, Write
<1>3. ASSUME NEW d, d.mark = db.mark, d.links = db.links, d.proposals = db.proposals
      PROVE  (\A actor : Spares(db, d, actor)) /\ OrphansNone(db, d)
  <2>1. Spares(db, db, Value) /\ OrphansNone(db, db) /\ \A actor : Spares(db, db, actor)
    BY DEF Spares, OrphansNone
  <2> QED BY <1>3, <2>1, KindsOrphanNone
<1>4. CASE Import
  <2>1. PICK p \in Publications : ~IsLive(db, p) /\ Edits(Insert(db, p, "draft"))
    BY <1>4 DEF Import, Fresh
  <2> DEFINE n == Insert(db, p, "draft")
  <2>2. n.links = db.links /\ n.proposals = db.proposals /\ n.mark = Insert(db, p, "draft").mark
    BY <1>1, <2>1, InsertGrows
  <2> HIDE DEF n
  <2>3. (\A actor : Spares(db, n, actor)) /\ OrphansNone(db, n)
    BY <1>1, <2>1, <2>2, NewRowGrows
  <2> QED BY <1>2, <2>1, <2>3 DEF n
<1>5. CASE Classify \/ ClassifyIfUnset
  <2>1. PICK p \in Publications, k \in Kinds : Edits(Inherit([db EXCEPT !.kind[p] = k], p, k))
    BY <1>5 DEF Classify, ClassifyIfUnset, Live
  <2> DEFINE m == [db EXCEPT !.kind[p] = k]
             n == Inherit(m, p, k)
  <2>2. m \in Db /\ m.mark = db.mark /\ m.links = db.links /\ m.proposals = db.proposals
    BY <1>1, KindTables
  <2> HIDE DEF m
  <2>3. n.mark = db.mark /\ n.links = db.links /\ n.proposals = db.proposals
    BY <2>2, InheritTables, InheritKeepsLinks
  <2>4. Edits(n) /\ p \in Entities
    BY <2>1 DEF m
  <2> HIDE DEF n
  <2> QED BY <1>2, <1>3, <2>3, <2>4
<1>6. CASE ClassifyWork
  <2>1. PICK w \in Works, k \in Kinds : Edits([db EXCEPT !.kind[w] = k])
    BY <1>6 DEF ClassifyWork, Live
  <2> DEFINE n == [db EXCEPT !.kind[w] = k]
  <2>2. n.mark = db.mark /\ n.links = db.links /\ n.proposals = db.proposals
    BY <1>1, KindTables
  <2>3. Edits(n) /\ w \in Entities
    BY <2>1
  <2> HIDE DEF n
  <2> QED BY <1>2, <1>3, <2>2, <2>3
<1>7. ASSUME NEW a \in Parents, IsLive(db, a), NEW e \in Works \union People, ~IsLive(db, e),
             e \in Works => a \in Publications
      PROVE  LET linked == Link(Insert(db, e, db.mark[a]), a, e)
                 n == [linked EXCEPT !.kind[e] = db.kind[a]]
             IN /\ Spares(db, linked, a) /\ OrphansNone(db, linked)
                /\ e \in Works => Spares(db, n, a) /\ OrphansNone(db, n)
  <2> DEFINE m == db.mark[a]
             inserted == Insert(db, e, m)
             linked == Link(inserted, a, e)
             n == [linked EXCEPT !.kind[e] = db.kind[a]]
  <2>1. m \in {"draft", "committed"} /\ e \in Entities /\ a # e
    BY <1>1, <1>7, Tables DEF IsLive, Marks
  <2> HIDE DEF m
  <2>2. /\ Sound(inserted) /\ inserted.links = db.links /\ inserted.proposals = db.proposals
        /\ inserted.mark = Insert(db, e, m).mark
    BY <1>1, <1>7, <2>1, InsertSound
  <2>3. IsLive(inserted, a) /\ IsLive(inserted, e)
    BY <1>1, <1>7, <2>1, InsertGrows
  <2> HIDE DEF inserted
  <2>4. /\ linked \in Db /\ linked.mark = inserted.mark
        /\ inserted.links \subseteq linked.links /\ <<a, e>> \in linked.links
        /\ inserted.proposals = linked.proposals
    BY <1>7, <2>2, <2>3, LinkGrows, ZenonT(60)
  <2> HIDE DEF linked
  <2>5. Spares(db, linked, a) /\ OrphansNone(db, linked)
    <3>1. IsNeeded(linked, e)
      BY <2>4 DEF IsNeeded
    <3>2. /\ linked.mark = Insert(db, e, m).mark
          /\ db.links \subseteq linked.links /\ db.proposals \subseteq linked.proposals
      BY <2>2, <2>4
    <3> QED BY <1>1, <1>7, <2>1, <3>1, <3>2, NewRowGrows
  <2>6. ASSUME e \in Works
        PROVE  Spares(db, n, a) /\ OrphansNone(db, n)
    <3>1. e \in Parents /\ db.kind[a] \in Kinds \union {Unclassified}
      BY <1>1, <2>6, Tables
    <3>2. n.mark = linked.mark /\ n.links = linked.links /\ n.proposals = linked.proposals
      BY <2>4, <3>1, KindTables
    <3> HIDE DEF n
    <3> QED BY <2>5, <3>2, KindsOrphanNone
  <2> QED BY <2>5, <2>6 DEF m, inserted, linked
<1>8. CASE CreateWork
  <2>1. PICK p \in Publications, w \in Works :
          /\ IsLive(db, p) /\ ~IsLive(db, w)
          /\ Edits([Link(Insert(db, w, db.mark[p]), p, w) EXCEPT !.kind[w] = db.kind[p]])
    BY <1>8 DEF CreateWork, Live, Fresh
  <2> QED BY <1>2, <1>7, <2>1
<1>9. CASE CreateContributor
  <2>1. PICK a \in Parents, x \in People :
          /\ IsLive(db, a) /\ ~IsLive(db, x)
          /\ Edits(Link(Insert(db, x, db.mark[a]), a, x))
    BY <1>9 DEF CreateContributor, Live, Fresh
  <2>2. x \notin Works
    BY IdsAreDistinct
  <2> QED BY <1>2, <1>7, <2>1, <2>2
<1>10. CASE AddsWork
  <2>1. PICK p \in Publications, w \in Works :
          IsLive(db, p) /\ IsLive(db, w) /\ Edits(AddWork(db, p, w))
    BY <1>10 DEF AddsWork, Live
  <2> QED BY <1>1, <1>2, <2>1, AddWorkSpares
<1>11. CASE RemovesWork
  <2>1. PICK p \in Publications, w \in Works : Edits(RemoveWork(db, p, w))
    BY <1>11 DEF RemovesWork, Live
  <2> QED BY <1>1, <1>2, <2>1, RemovesSpares
<1>12. CASE RemovesContributor
  <2>1. PICK a \in Parents, x \in People : Edits(RemoveContributor(db, a, x))
    BY <1>12 DEF RemovesContributor, Live
  <2> QED BY <1>1, <1>2, <2>1, RemovesSpares
<1>13. CASE AddsContributor
  <2>1. PICK a \in Parents, x \in People :
          IsLive(db, a) /\ IsLive(db, x) /\ Edits(AddContributor(db, a, x))
    BY <1>13 DEF AddsContributor, Live
  <2> QED BY <1>1, <1>2, <2>1, AddContributorSpares
<1>14. CASE ProposesLink \/ ProposesValue
  <2>1. PICK a \in Entities : \E e : Edits(Propose(db, a, e))
    BY <1>14, IdsAreDistinct DEF ProposesLink, ProposesValue, Live
  <2>2. PICK e : Edits(Propose(db, a, e))
    BY <2>1
  <2> DEFINE n == Propose(db, a, e)
  <2>3. n.mark = db.mark /\ Grows(db, n)
    BY <1>1, ProposeSpares
  <2>4. Edits(n)
    BY <2>2
  <2> HIDE DEF n
  <2>5. NewIsNeeded(db, n)
    BY <2>3 DEF NewIsNeeded, IsLive
  <2> QED BY <1>2, <2>3, <2>4, <2>5, GrowingSpares
<1>15. CASE ProposesNew
  <2>1. PICK a \in Parents, e \in Works \union People :
          ~IsLive(db, e) /\ Edits(Propose(Insert(db, e, "draft"), a, e))
    BY <1>15 DEF ProposesNew, Live, Fresh
  <2> DEFINE m == Insert(db, e, "draft")
             n == Propose(m, a, e)
  <2>2. m \in Db /\ m.links = db.links /\ m.proposals = db.proposals
    BY <1>1, <2>1, InsertGrows
  <2>3. n.mark = m.mark /\ n.links = m.links /\ n.proposals = m.proposals \union {<<a, e>>}
    <3> HIDE DEF m
    <3> QED BY <2>2, ProposeSpares
  <2>4. Edits(n)
    BY <2>1
  <2> HIDE DEF n
  <2>5. IsNeeded(n, e) /\ db.links \subseteq n.links /\ db.proposals \subseteq n.proposals
    <3> HIDE DEF m
    <3> QED BY <2>2, <2>3 DEF IsNeeded
  <2>6. Spares(db, n, a) /\ OrphansNone(db, n)
    BY <1>1, <2>1, <2>3, <2>5, NewRowGrows
  <2> QED BY <1>2, <2>4, <2>6
<1>16. CASE Rejects
  <2>1. PICK p \in db.proposals : Edits(Reject(db, p[1], {p}))
    BY <1>16 DEF Rejects
  <2>2. p[1] \in Entities /\ {p} \subseteq ProposalsOf(db, p[1])
    BY <1>1, Tables DEF ProposalsOf
  <2> QED BY <1>1, <1>2, <2>1, <2>2, RejectSpares
<1>17. CASE RejectsAll
  <2>1. PICK e \in Entities : Edits(Reject(db, e, ProposalsOf(db, e)))
    BY <1>17 DEF RejectsAll, Live
  <2> QED BY <1>1, <1>2, <2>1, RejectSpares
<1>18. CASE Commits
  BY <1>1, <1>2, <1>18, CommitSpares DEF Commits, Live
<1>19. CASE Deletes
  BY <1>1, <1>2, <1>19, DeleteSpares DEF Deletes, Live
<1> QED BY <1>4, <1>5, <1>6, <1>8, <1>9, <1>10, <1>11, <1>12, <1>13, <1>14, <1>15, <1>16,
           <1>17, <1>18, <1>19 DEF Edit

(* ... and no step of a review, but for the orphans of an accept's last transaction. *)
LEMMA ReviewSpares ==
    ASSUME Inv, NEW r \in Reviewers, Review(r)
    PROVE  /\ \E actor \in Entities : Spares(db, db', actor)
           /\ OrphansNone(db, db') \/ IsAcceptEnding(r)
<1> USE LinkedRows
<1>1. /\ Sound(db) /\ db \in Db /\ IsReview(review[r])
      /\ review = [q \in Reviewers |-> review[q]]
  BY DEF Inv, Sound, SoundBut
<1>2. OrphansNone(db, db) /\ \A actor : Spares(db, db, actor)
  BY DEF OrphansNone, Spares
<1>3. CASE ReadProposal(r) \/ ReloadDraft(r) \/ Interrupted(r)
  <2>1. db' = db
    BY <1>3 DEF ReadProposal, ReloadDraft, Interrupted
  <2>2. ReadProposal(r) => \E e : e \in Entities
    BY <1>1, Tables DEF ReadProposal
  <2>3. ReloadDraft(r) => \E e : e \in Entities
    BY DEF ReloadDraft, Live
  <2>4. Interrupted(r) => review[r].of \in Entities
    BY <1>1 DEF Interrupted, IsReview
  <2>5. \E e : e \in Entities
    BY <1>3, <2>2, <2>3, <2>4
  <2> QED BY <1>2, <2>1, <2>5
<1>4. CASE ApplyProposal(r)
  <2> DEFINE a == review[r].of
             about == review[r].about
  <2>1. /\ a \in Entities /\ about \in Works \union People \union {Value}
        /\ about # Value => a \in Parents
        /\ about \in Works => a \in Publications
    BY <1>1, <1>4 DEF IsReview, ApplyProposal
  <2>2. \/ db' = db
        \/ db' = Apply(db, a, about) /\ IsLive(db, a) /\ (about # Value => IsLive(db, about))
    BY <1>4 DEF ApplyProposal, Write
  <2> HIDE DEF a, about
  <2>3. CASE db' = db
    BY <1>2, <2>1, <2>3
  <2>4. CASE db' = Apply(db, a, about) /\ IsLive(db, a) /\ (about # Value => IsLive(db, about))
    <3>1. CASE about \in Works
      BY <1>1, <2>1, <2>4, <3>1, AddWorkSpares DEF Apply
    <3>2. CASE about \in People
      <4>1. db' = AddContributor(db, a, about)
        BY <2>4, <3>2, IdsAreDistinct DEF Apply
      <4> QED BY <1>1, <2>1, <2>4, <3>2, <4>1, AddContributorSpares
    <3>3. CASE about = Value
      <4>1. db' = db
        BY <2>4, <3>3 DEF Apply
      <4> QED BY <1>2, <2>1, <4>1
    <3> QED BY <2>1, <3>1, <3>2, <3>3
  <2> QED BY <2>2, <2>3, <2>4
<1>5. CASE DiscardProposal(r)
  <2>1. /\ review[r].step = "applied" /\ review[r].of \in Entities
    BY <1>1, <1>5 DEF IsReview, DiscardProposal
  <2>2. db' \in {db, Discard(db, review[r].of, review[r].about)}
    BY <1>5 DEF DiscardProposal, Write
  <2>3. review'[r].step = "idle"
    <3>1. [review EXCEPT ![r] = NotReviewing][r] = NotReviewing
      BY <1>1
    <3>2. review'[r].step = [review EXCEPT ![r] = NotReviewing][r].step
      <4> DEFINE reviews == [review EXCEPT ![r] = NotReviewing]
      <4>1. \E d : Write(d, reviews)
        BY <1>5 DEF DiscardProposal
      <4> HIDE DEF reviews
      <4>2. reviews[r].step = NotReviewing.step /\ reviews[r] = NotReviewing
        BY <3>1 DEF reviews
      <4>3. PICK d : Write(d, reviews)
        BY <4>1
      <4>4. review'[r] = [reviews[r] EXCEPT
                !.there = @ /\ <<reviews[r].of, reviews[r].about>> \in d.proposals]
        BY <4>3 DEF Write
      <4> QED BY <4>2, <4>4 DEF reviews, NotReviewing
    <3> QED BY <3>1, <3>2 DEF NotReviewing
  <2>4. IsAcceptEnding(r)
    BY <2>1, <2>3 DEF IsAcceptEnding
  <2>5. Spares(db, Discard(db, review[r].of, review[r].about), review[r].of)
    BY <1>1, ProposeSpares
  <2> QED BY <1>2, <2>1, <2>2, <2>4, <2>5
<1>6. CASE DeleteReloaded(r)
  <2>1. review[r].of \in Entities
    BY <1>1, <1>6 DEF IsReview, DeleteReloaded
  <2>2. db' \in {db, Delete(db, review[r].of)}
    BY <1>6 DEF DeleteReloaded, Write
  <2> QED BY <1>1, <1>2, <2>1, <2>2, DeleteSpares
<1> QED BY <1>3, <1>4, <1>5, <1>6 DEF Review

(* So does no step. *)
LEMMA StepSpares ==
    ASSUME Inv, [Next]_vars
    PROVE  /\ UNCHANGED vars \/ \E actor \in Entities : Spares(db, db', actor)
           /\ OrphansNone(db, db') \/ \E r \in Reviewers : IsAcceptEnding(r)
<1>1. CASE Edit
  BY <1>1, EditSpares
<1>2. ASSUME NEW r \in Reviewers, Review(r)
      PROVE  /\ \E actor \in Entities : Spares(db, db', actor)
             /\ OrphansNone(db, db') \/ \E q \in Reviewers : IsAcceptEnding(q)
  BY <1>2, ReviewSpares
<1>3. CASE UNCHANGED vars
  BY <1>3 DEF vars, OrphansNone, Orphans, OrphanWorks, OrphanPeople, IsLive, IsNeeded
<1> QED BY <1>1, <1>2, <1>3 DEF Next

(* No step leaves an orphan, but an accept's last transaction. *)
THEOREM CollectionsLeaveNoOrphans == Spec => OnlyAcceptOrphans
<1>1. ASSUME Inv, [Next]_vars
      PROVE  Orphans(db') \subseteq Orphans(db) \/ \E r \in Reviewers : IsAcceptEnding(r)
  BY <1>1, StepSpares DEF OrphansNone
<1> QED BY <1>1, InvHolds, PTL DEF Spec, OnlyAcceptOrphans

(* A step that writes deletes, besides the entity it is about, only what that entity, and what
   goes with it, alone needed. *)
THEOREM OnlyTheNotNeededGoes == Spec => OthersKeepWhatTheyNeed
<1> DEFINE Keeps ==
       \E actor \in Entities : \A e \in Entities :
          IsLive(db, e) /\ ~IsLive(db', e) =>
            \/ e = actor
            \/ /\ e \notin Publications
               /\ \A a \in Parents : <<a, e>> \in db.links \union db.proposals =>
                    \/ a = actor
                    \/ ~IsLive(db', a)
                    \/ <<a, e>> \notin db.links /\ IsDraft(db, a) /\ IsCommitted(db', a)
<1>1. ASSUME Inv, [Next]_vars
      PROVE  Keeps \/ UNCHANGED vars
  <2>1. CASE \E actor \in Entities : Spares(db, db', actor)
    BY <2>1 DEF Spares, References, Releases
  <2> QED BY <1>1, <2>1, StepSpares
<1> QED BY <1>1, InvHolds, PTL DEF Spec, OthersKeepWhatTheyNeed

-----------------------------------------------------------------------------
(***************************************************************************)
(* The shell's selection                                                   *)
(***************************************************************************)
ShellFields == {"step", "lib", "kind", "ref", "on", "seen", "new", "text", "other", "todo",
                "alone", "sound", "outcome"}
IsShell(s) == s = [f \in ShellFields |-> s[f]]

\* What a command is at and in, and who deleted which library.
SelectionInv ==
    /\ IsShell(sh)
    /\ libraries = [l \in Libraries |-> libraries[l]]
    /\ deletedBy = [l \in Libraries |-> deletedBy[l]]
    /\ selected \in Libraries \union {NoText}
    /\ selected # NoText => deletedBy[selected] # "us"
    /\ \A l \in Libraries : deletedBy[l] = "us" => ~Exists(l)
    /\ sh.step \in {"resolved", "deleted"} => sh.lib \in Libraries
    /\ sh.step = "resolved" => deletedBy[sh.lib] # "us"
    /\ sh.step = "deleted" => ~Exists(sh.lib)

\* A command goes on to nothing that names a library, and most to nothing that is about
\* to look a reference up.
GoesOn(n) == IsShell(n) /\ n.step \notin {"resolved", "deleted"}
GoesBeyond(n) == GoesOn(n) /\ n.step \notin {"subject", "linking", "creating"}

(* The fields of a command. *)
LEMMA ShellChanges ==
    ASSUME NEW s, IsShell(s)
    PROVE  /\ \A v : IsShell([s EXCEPT !.todo = v]) /\ [s EXCEPT !.todo = v].step = s.step
           /\ \A v : IsShell([s EXCEPT !.step = v]) /\ [s EXCEPT !.step = v].step = v
BY DEF IsShell, ShellFields

(* Nor does one that ends. *)
LEMMA EndsGoesBeyond ==
    ASSUME NEW outcome, Ends(outcome)
    PROVE  GoesBeyond(sh')
<1>1. AtPrompt = [f \in ShellFields |-> AtPrompt[f]]
  BY DEF AtPrompt, ShellFields
<1> QED BY <1>1 DEF Ends, GoesBeyond, GoesOn, IsShell, ShellFields, AtPrompt

(* A command keeps to its library, and leaves the selection alone. *)
LEMMA CommandGoesOn ==
    ASSUME IsShell(sh), Command
    PROVE  /\ GoesOn(sh') /\ UNCHANGED <<libraries, selected, deletedBy>>
           /\ ChoosesTarget \/ GoesBeyond(sh')
<1> SUFFICES /\ UNCHANGED <<libraries, selected, deletedBy>>
             /\ GoesBeyond(sh') \/ (ChoosesTarget /\ GoesOn(sh'))
  BY DEF GoesBeyond
<1>1. IsShell(sh)
  OBVIOUS
<1>2. \A outcome : Ends(outcome) => GoesBeyond(sh')
  BY EndsGoesBeyond
<1>3. ASSUME NEW v, sh' = [sh EXCEPT !.todo = v],
             sh.step \in {"removing", "accepting", "rejecting", "discarding"}
      PROVE  GoesBeyond(sh')
  BY <1>1, <1>3, ShellChanges DEF GoesOn, GoesBeyond
<1>4. ASSUME sh' = sh, sh.step \in {"removing", "accepting", "rejecting", "discarding"}
      PROVE  GoesBeyond(sh')
  BY <1>1, <1>4 DEF GoesOn, GoesBeyond
<1>5. CASE Renames \/ Classifies \/ Touches \/ CommitsIt \/ DeletesIt \/ RejectsAllOfIt
           \/ RemovesTheWork
  <2>1. /\ UNCHANGED <<libraries, selected, deletedBy>>
        /\ Ends("ok") \/ Ends("failed")
    BY <1>5 DEF Renames, Classifies, Touches, CommitsIt, DeletesIt, RejectsAllOfIt,
                RemovesTheWork, Does, Stays
  <2> QED BY <1>2, <2>1
<1>6. CASE ChoosesTarget
  <2>1. UNCHANGED <<libraries, selected, deletedBy>>
    BY <1>6 DEF ChoosesTarget, Reads, Stays
  <2>2. PICK kind, ref, new :
          LET chosen == [sh EXCEPT !.kind = kind, !.text = ref, !.new = new]
          IN \/ sh' = [chosen EXCEPT !.step = "linking", !.other = ref]
             \/ sh' = [chosen EXCEPT !.step = "creating"]
             \/ Ends("failed")
    BY <1>6 DEF ChoosesTarget
  <2> DEFINE chosen == [sh EXCEPT !.kind = kind, !.text = ref, !.new = new]
  <2>3. IsShell(chosen)
    BY <1>1 DEF IsShell
  <2>4. CASE sh' = [chosen EXCEPT !.step = "linking", !.other = ref]
    <3> HIDE DEF chosen
    <3>1. IsShell(sh') /\ sh'.step = "linking"
      BY <2>3, <2>4 DEF IsShell, ShellFields
    <3> QED BY <1>6, <2>1, <3>1 DEF GoesOn
  <2>5. CASE sh' = [chosen EXCEPT !.step = "creating"]
    <3> HIDE DEF chosen
    <3>1. IsShell(sh') /\ sh'.step = "creating"
      BY <2>3, <2>5, ShellChanges
    <3> QED BY <1>6, <2>1, <3>1 DEF GoesOn
  <2> QED BY <1>2, <2>1, <2>2, <2>4, <2>5
<1>7. CASE LinksTarget \/ CreatesTarget
  <2>1. /\ UNCHANGED <<libraries, selected, deletedBy>>
        /\ Ends("ok") \/ Ends("failed")
    BY <1>7 DEF LinksTarget, CreatesTarget, Stays
  <2> QED BY <1>2, <2>1
<1>8. CASE ChoosesLink
  <2>1. UNCHANGED <<libraries, selected, deletedBy>>
    BY <1>8 DEF ChoosesLink, Reads, Stays
  <2>2. PICK e, v :
          \/ sh' = [sh EXCEPT !.step = "unlinking", !.other = e]
          \/ sh' = [sh EXCEPT !.step = "removing", !.other = e, !.sound = TRUE, !.todo = v]
          \/ sh' = [sh EXCEPT !.step = "removing", !.other = e, !.todo = v]
          \/ Ends("failed")
    BY <1>8 DEF ChoosesLink
  <2>3. CASE sh' = [sh EXCEPT !.step = "unlinking", !.other = e]
    BY <1>1, <2>1, <2>3 DEF IsShell, ShellFields, GoesOn, GoesBeyond
  <2>4. CASE sh' = [sh EXCEPT !.step = "removing", !.other = e, !.sound = TRUE, !.todo = v]
    BY <1>1, <2>1, <2>4 DEF IsShell, ShellFields, GoesOn, GoesBeyond
  <2>5. CASE sh' = [sh EXCEPT !.step = "removing", !.other = e, !.todo = v]
    BY <1>1, <2>1, <2>5 DEF IsShell, ShellFields, GoesOn, GoesBeyond
  <2> QED BY <1>2, <2>1, <2>2, <2>3, <2>4, <2>5
<1>9. CASE RemovesARole
  <2>1. UNCHANGED <<libraries, selected, deletedBy>> /\ sh.step = "removing"
    BY <1>9 DEF RemovesARole, Stays, IsAt
  <2>2. Ends("ok") \/ Ends("failed") \/ \E v : sh' = [sh EXCEPT !.todo = v]
    BY <1>9 DEF RemovesARole
  <2> QED BY <1>2, <1>3, <2>1, <2>2
<1>10. CASE ListsProposals
  <2>1. UNCHANGED <<libraries, selected, deletedBy>>
    BY <1>10 DEF ListsProposals, Reads, Stays
  <2>2. PICK step \in {"accepting", "rejecting"} :
          \E v, sound : sh' = [sh EXCEPT !.step = step, !.todo = v, !.sound = sound]
    BY <1>10 DEF ListsProposals
  <2>3. PICK v, sound : sh' = [sh EXCEPT !.step = step, !.todo = v, !.sound = sound]
    BY <2>2
  <2>4. IsShell(sh') /\ sh'.step = step
    BY <1>1, <2>3 DEF IsShell, ShellFields
  <2> QED BY <2>1, <2>4 DEF GoesOn, GoesBeyond
<1>11. CASE AcceptsNext \/ AppliesNext \/ MissesImage \/ DiscardsNext \/ RejectsNext
  <2>1. /\ UNCHANGED <<libraries, selected, deletedBy>>
        /\ sh.step \in {"accepting", "rejecting"}
    BY <1>11 DEF AcceptsNext, AppliesNext, MissesImage, DiscardsNext, RejectsNext, Stays, IsAt
  <2>2. \/ Ends("ok") \/ Ends("failed") \/ sh' = sh
        \/ \E v : sh' = [sh EXCEPT !.todo = v]
    BY <1>11 DEF AcceptsNext, AppliesNext, MissesImage, DiscardsNext, RejectsNext
  <2> QED BY <1>2, <1>3, <1>4, <2>1, <2>2
<1>12. CASE DiscardsChanges \/ ReloadsIt \/ DeletesReloaded
  <2>1. UNCHANGED <<libraries, selected, deletedBy>>
    BY <1>12 DEF DiscardsChanges, ReloadsIt, DeletesReloaded, Reads, Stays
  <2>2. \/ Ends("ok") \/ Ends("failed") \/ (sh' = sh /\ sh.step = "discarding")
        \/ sh' = [sh EXCEPT !.step = "discarding"]
    BY <1>12 DEF DiscardsChanges, ReloadsIt, DeletesReloaded, Goes, IsAt
  <2>3. sh' = [sh EXCEPT !.step = "discarding"] => GoesBeyond(sh')
    BY <1>1, ShellChanges DEF GoesOn, GoesBeyond
  <2> QED BY <1>2, <1>4, <2>1, <2>2, <2>3
<1> QED BY <1>5, <1>6, <1>7, <1>8, <1>9, <1>10, <1>11, <1>12 DEF Command

(* Lines that name, select, rename, create or delete a library. *)
LEMMA LineKeepsSelection ==
    ASSUME SelectionInv, Line
    PROVE  SelectionInv'
<1> USE DEF SelectionInv
<1>1. NoText \notin Libraries
  BY ShellIsTyped
<1>2. ASSUME UNCHANGED <<libraries, selected, deletedBy>>, GoesOn(sh')
      PROVE  SelectionInv'
  BY <1>2 DEF GoesOn, Exists
<1>3. \A outcome : Ends(outcome) => GoesOn(sh')
  BY EndsGoesBeyond DEF GoesBeyond
<1>4. \A ref : InLibrary(ref) => GoesOn(sh')
  <2>1. \A ref : LET n == [AtPrompt EXCEPT !.step = "library", !.ref = ref]
                 IN IsShell(n) /\ n.step = "library"
    BY DEF IsShell, ShellFields, AtPrompt
  <2>2. ASSUME NEW ref, InLibrary(ref)
        PROVE  GoesOn(sh')
    <3>1. sh' = [AtPrompt EXCEPT !.step = "library", !.ref = ref]
      BY <2>2 DEF InLibrary
    <3> QED BY <2>1, <3>1 DEF GoesOn
  <2> QED BY <2>2
<1>5. CASE NamesLibrary
  BY <1>2, <1>4, <1>5 DEF NamesLibrary
<1>6. CASE ResolvesSubject
  <2>1. PICK kind, ref, e :
          \/ Ends("failed")
          \/ sh' = [sh EXCEPT !.step = "subject", !.kind = kind, !.ref = ref, !.on = e,
                              !.seen = SeenOf(e), !.alone = TRUE]
    BY <1>6 DEF ResolvesSubject
  <2> DEFINE found == [sh EXCEPT !.step = "subject", !.kind = kind, !.ref = ref]
             seen == SeenOf(e)
  <2>2. ASSUME sh' = [sh EXCEPT !.step = "subject", !.kind = kind, !.ref = ref, !.on = e,
                                !.seen = SeenOf(e), !.alone = TRUE]
        PROVE  GoesOn(sh')
    <3>1. IsShell(found) /\ found.step = "subject"
      BY DEF IsShell, ShellFields
    <3>2. sh' = [found EXCEPT !.on = e, !.seen = seen, !.alone = TRUE]
      BY <2>2
    <3> HIDE DEF found, seen
    <3>3. IsShell(sh') /\ sh'.step = "subject"
      BY <3>1, <3>2 DEF IsShell, ShellFields
    <3> QED BY <3>3 DEF GoesOn
  <2>3. GoesOn(sh')
    BY <1>3, <2>1, <2>2
  <2> QED BY <1>2, <1>6, <2>3 DEF ResolvesSubject, Reads, Stays
<1>7. CASE Imports
  BY <1>2, <1>3, <1>7 DEF Imports, Stays
<1>8. CASE UsesSelection \/ Deselects \/ Selects
  <2>1. GoesOn(sh') /\ UNCHANGED <<libraries, deletedBy>>
    BY <1>3, <1>4, <1>8 DEF UsesSelection, Deselects, Selects
  <2>2. selected' \in {selected, NoText} \/ (selected' = sh.lib /\ sh.step = "resolved")
    BY <1>8 DEF UsesSelection, Deselects, Selects, IsAt
  <2> QED BY <2>1, <2>2 DEF GoesOn, Exists
<1>9. CASE CreatesLibrary
  <2>1. PICK l \in Libraries, text \in Names :
          deletedBy[l] = "none" /\ libraries' = [libraries EXCEPT ![l] = text]
    BY <1>9 DEF CreatesLibrary
  <2>2. GoesOn(sh') /\ UNCHANGED <<selected, deletedBy>>
    BY <1>3, <1>9 DEF CreatesLibrary
  <2> QED BY <2>1, <2>2 DEF GoesOn, Exists
<1>10. CASE ResolvesLibrary
  <2>1. \/ Ends("failed")
        \/ \E l \in Libraries : Exists(l) /\ sh' = [sh EXCEPT !.step = "resolved", !.lib = l]
    BY <1>10 DEF ResolvesLibrary
  <2>2. UNCHANGED <<libraries, selected, deletedBy>>
    BY <1>10 DEF ResolvesLibrary, Reads, Stays
  <2>3. \A l : LET n == [sh EXCEPT !.step = "resolved", !.lib = l]
               IN IsShell(n) /\ n.step = "resolved" /\ n.lib = l
    BY DEF IsShell, ShellFields
  <2>4. ASSUME NEW l \in Libraries, Exists(l), sh' = [sh EXCEPT !.step = "resolved", !.lib = l]
        PROVE  SelectionInv'
    <3>1. IsShell(sh') /\ sh'.step = "resolved" /\ sh'.lib = l
      BY <2>3, <2>4
    <3> QED BY <2>2, <2>4, <3>1 DEF Exists
  <2> QED BY <1>2, <1>3, <2>1, <2>2, <2>4
<1>11. CASE SetsName
  <2>1. \/ libraries' = libraries
        \/ Exists(sh.lib) /\ \E text : libraries' = [libraries EXCEPT ![sh.lib] = text]
    BY <1>11 DEF SetsName
  <2>2. GoesOn(sh') /\ UNCHANGED <<selected, deletedBy>> /\ sh.step = "resolved"
    BY <1>3, <1>11 DEF SetsName, IsAt
  <2> QED BY <2>1, <2>2 DEF GoesOn, Exists
<1>12. CASE DeletesLibrary
  <2>1. CASE Exists(sh.lib)
    <3>1. /\ libraries' = [libraries EXCEPT ![sh.lib] = NoText]
          /\ deletedBy' = [deletedBy EXCEPT ![sh.lib] = "cut off"]
          /\ sh' = [sh EXCEPT !.step = "deleted"] /\ selected' = selected
          /\ sh.step = "resolved"
      BY <1>12, <2>1 DEF DeletesLibrary, DropLibrary, Goes, IsAt
    <3>2. IsShell(sh') /\ sh'.step = "deleted" /\ sh'.lib = sh.lib
      BY <3>1 DEF IsShell, ShellFields
    <3> QED BY <3>1, <3>2 DEF Exists
  <2>2. CASE ~Exists(sh.lib)
    BY <1>2, <1>3, <1>12, <2>2 DEF DeletesLibrary
  <2> QED BY <2>1, <2>2
<1>13. CASE LooksAfterSelection
  <2>1. /\ selected' = IF selected # NoText /\ ~Exists(selected) THEN NoText ELSE selected
        /\ deletedBy' = [deletedBy EXCEPT ![sh.lib] = "us"]
        /\ GoesOn(sh') /\ libraries' = libraries /\ sh.step = "deleted"
    BY <1>3, <1>13 DEF LooksAfterSelection, ForgetsSelection, IsAt
  <2> QED BY <2>1 DEF GoesOn, Exists
<1> QED BY <1>5, <1>6, <1>7, <1>8, <1>9, <1>10, <1>11, <1>12, <1>13 DEF Line

(* What others do to libraries is not the shell's doing. *)
LEMMA OthersKeepSelection ==
    ASSUME SelectionInv, OthersEdit \/ OthersRename \/ OthersDeleteLibrary \/ CtrlC
    PROVE  SelectionInv'
<1> USE DEF SelectionInv
<1>1. NoText \notin Libraries
  BY ShellIsTyped
<1>2. CASE CtrlC
  <2>1. GoesOn(sh') /\ UNCHANGED <<libraries, selected, deletedBy>>
    BY <1>2, EndsGoesBeyond DEF GoesBeyond, CtrlC, Stays
  <2> QED BY <2>1 DEF GoesOn, Exists
<1>3. ASSUME Acts
      PROVE  IsShell(sh') /\ sh'.step = sh.step /\ sh'.lib = sh.lib /\ selected' = selected
  <2>1. \E v : sh' = [sh EXCEPT !.alone = FALSE, !.todo = v]
    BY <1>3 DEF Acts
  <2>2. \A v : LET n == [sh EXCEPT !.alone = FALSE, !.todo = v]
               IN IsShell(n) /\ n.step = sh.step /\ n.lib = sh.lib
    BY DEF IsShell, ShellFields
  <2>3. selected' = selected
    BY <1>3 DEF Acts
  <2> QED BY <2>1, <2>2, <2>3
<1>4. CASE OthersEdit
  BY <1>3, <1>4 DEF OthersEdit, Exists
<1>5. CASE OthersRename
  <2>1. /\ \/ libraries' = libraries
           \/ \E l \in Libraries : Exists(l) /\ \E text : libraries' = [libraries EXCEPT ![l] = text]
        /\ deletedBy' = deletedBy
    BY <1>5 DEF OthersRename
  <2> QED BY <1>3, <1>5, <2>1 DEF OthersRename, Exists
<1>6. CASE OthersDeleteLibrary
  <2>1. PICK l \in Libraries : /\ Exists(l) /\ libraries' = [libraries EXCEPT ![l] = NoText]
                               /\ deletedBy' = [deletedBy EXCEPT ![l] = "others"]
    BY <1>6 DEF OthersDeleteLibrary, DropLibrary
  <2> QED BY <1>3, <1>6, <2>1 DEF OthersDeleteLibrary, Exists
<1> QED BY <1>2, <1>4, <1>5, <1>6

(* The shell's own deletions clear the selection: one that is gone was deleted by others, or by
   a command that was cut off. *)
THEOREM SelectionStaysThere == ShellSpec => []SelectionIsThere
<1>1. ShellInit => SelectionInv
  <2> SUFFICES ASSUME ShellInit PROVE SelectionInv
    OBVIOUS
  <2>1. \E there : libraries = [l \in Libraries |-> IF l \in there THEN libraries[l] ELSE NoText]
    BY DEF ShellInit
  <2>2. IsShell(AtPrompt) /\ AtPrompt.step = "prompt"
    BY DEF IsShell, ShellFields, AtPrompt
  <2> QED BY <2>1, <2>2, ShellIsTyped DEF ShellInit, SelectionInv
<1>2. SelectionInv /\ [ShellNext]_shellVars => SelectionInv'
  <2> SUFFICES ASSUME SelectionInv, [ShellNext]_shellVars PROVE SelectionInv'
    OBVIOUS
  <2>1. CASE Line
    BY <2>1, LineKeepsSelection
  <2>2. CASE Command
    BY <2>2, CommandGoesOn DEF SelectionInv, GoesOn, Exists
  <2>3. CASE UNCHANGED shellVars
    BY <2>3 DEF shellVars, SelectionInv, Exists, IsShell
  <2> QED BY <2>1, <2>2, <2>3, OthersKeepSelection DEF ShellNext
<1>3. SelectionInv => SelectionIsThere
  BY DEF SelectionInv, SelectionIsThere
<1> QED BY <1>1, <1>2, <1>3, PTL DEF ShellSpec

-----------------------------------------------------------------------------
(***************************************************************************)
(* The shell's references                                                  *)
(***************************************************************************)
NamesTheSubject == Bearing(Candidates(sh.lib, sh.kind), name, sh.ref) = {sh.on}
IsTheOnlyOne == \A e \in Candidates(sh.lib, sh.kind) : name[e] # sh.text

\* What publications and works can be linked with
MayRefer(a, e) ==
    a \in Parents /\ e \in Works \union People /\ (e \in Works => a \in Publications)

(* As long as no one else has written, what was found is what the text names still. *)
ReferencesInv ==
    /\ IsShell(sh)
    /\ IsAt("subject") => sh.lib = Home /\ sh.kind \in Kinded /\ sh.on \in RowsOf(sh.kind)
    /\ IsAt("subject") /\ sh.alone => NamesTheSubject
    /\ IsAt("linking") => sh.other = sh.text /\ MayRefer(sh.on, sh.other)
    /\ IsAt("creating") => sh.lib = Home /\ \A e \in RowsOf(sh.kind) : MayRefer(sh.on, e)
    /\ IsAt("creating") /\ sh.alone /\ ~sh.new => IsTheOnlyOne

(* What goes beyond the references has none to keep. *)
LEMMA BeyondReferences ==
    ASSUME GoesBeyond(sh')
    PROVE  ReferencesInv'
BY DEF GoesBeyond, GoesOn, ReferencesInv, IsAt

(* A subject is found in the library that holds the rows, as the only one that its
   reference names. *)
LEMMA ResolvingNamesTheSubject ==
    ASSUME IsShell(sh), ResolvesSubject
    PROVE  ReferencesInv'
<1>1. /\ name' = name /\ db' = db
      /\ \E kind \in Kinded, ref \in Texts :
           \/ Ends("failed")
           \/ \E e \in Candidates(sh.lib, kind) :
                /\ Bearing(Candidates(sh.lib, kind), name, ref) = {e}
                /\ sh' = [sh EXCEPT !.step = "subject", !.kind = kind, !.ref = ref, !.on = e,
                                    !.seen = SeenOf(e), !.alone = TRUE]
  BY DEF ResolvesSubject, Resolves, Reads, SameRows
<1>2. CASE Ends("failed")
  BY <1>2, EndsGoesBeyond, BeyondReferences
<1>3. ASSUME NEW kind \in Kinded, NEW ref \in Texts, NEW e \in Candidates(sh.lib, kind),
             Bearing(Candidates(sh.lib, kind), name, ref) = {e},
             sh' = [sh EXCEPT !.step = "subject", !.kind = kind, !.ref = ref, !.on = e,
                              !.seen = SeenOf(e), !.alone = TRUE]
      PROVE  ReferencesInv'
  <2> DEFINE found == [sh EXCEPT !.step = "subject", !.kind = kind, !.ref = ref]
             seen == SeenOf(e)
  <2>1. IsShell(found) /\ found.step = "subject" /\ found.kind = kind /\ found.ref = ref
        /\ found.lib = sh.lib
    BY DEF IsShell, ShellFields
  <2>2. sh' = [found EXCEPT !.on = e, !.seen = seen, !.alone = TRUE]
    BY <1>3
  <2> HIDE DEF found, seen
  <2>3. /\ IsShell(sh') /\ sh'.step = "subject" /\ sh'.kind = kind /\ sh'.ref = ref
        /\ sh'.lib = sh.lib /\ sh'.on = e
    BY <2>1, <2>2 DEF IsShell, ShellFields
  <2>4. sh.lib = Home /\ e \in RowsOf(kind)
    BY <1>3 DEF Candidates, Live
  <2>6. NamesTheSubject'
    <3>1. Candidates(sh.lib, sh.kind)' = Candidates(sh.lib, kind)
      BY <1>1, <2>3 DEF Candidates, Live, IsLive
    <3> QED BY <1>1, <1>3, <2>3, <3>1 DEF NamesTheSubject, Bearing
  <2> QED BY <2>3, <2>4, <2>6 DEF ReferencesInv, IsAt, RowsOf
<1> QED BY <1>1, <1>2, <1>3

(* A target that is linked is one whose id was typed, and one that is made has a name
   of its own, unless it is to be a new one. *)
LEMMA ChoosingKeepsReferences ==
    ASSUME ReferencesInv, ChoosesTarget
    PROVE  ReferencesInv'
<1>1. name' = name /\ db' = db /\ sh.lib = Home /\ IsShell(sh)
  BY DEF ChoosesTarget, Reads, SameRows, ReferencesInv
<1>2. PICK kind \in Targets(sh.kind), ref \in Texts, new \in BOOLEAN :
        LET candidates == Candidates(sh.lib, kind)
            chosen == [sh EXCEPT !.kind = kind, !.text = ref, !.new = new]
        IN \/ /\ LinksExisting(candidates, ref, new)
              /\ sh' = [chosen EXCEPT !.step = "linking", !.other = ref]
           \/ /\ CreatesNew(candidates, ref, new)
              /\ sh' = [chosen EXCEPT !.step = "creating"]
           \/ /\ ~LinksExisting(candidates, ref, new) /\ ~CreatesNew(candidates, ref, new)
              /\ Ends("failed")
  BY DEF ChoosesTarget
<1> DEFINE chosen == [sh EXCEPT !.kind = kind, !.text = ref, !.new = new]
<1>3. /\ IsShell(chosen) /\ chosen.lib = Home /\ chosen.kind = kind /\ chosen.text = ref
      /\ chosen.new = new /\ chosen.on = sh.on
  BY <1>1 DEF IsShell, ShellFields
<1>4. \A e \in RowsOf(kind) : MayRefer(sh.on, e)
  <2>1. sh.kind \in Kinded /\ sh.on \in RowsOf(sh.kind)
    BY DEF ChoosesTarget, ReferencesInv
  <2> QED BY <2>1, LinkedRows, IdsAreDistinct DEF MayRefer, Targets, RowsOf, Kinded, Parents
<1>5. \/ /\ ref \in RowsOf(kind)
         /\ sh' = [chosen EXCEPT !.step = "linking", !.other = ref]
      \/ /\ CreatesNew(Candidates(sh.lib, kind), ref, new)
         /\ sh' = [chosen EXCEPT !.step = "creating"]
      \/ Ends("failed")
  BY <1>2 DEF LinksExisting, Candidates, Live
<1> HIDE DEF chosen
<1>6. CASE ref \in RowsOf(kind) /\ sh' = [chosen EXCEPT !.step = "linking", !.other = ref]
  <2>1. /\ IsShell(sh') /\ sh'.step = "linking" /\ sh'.other = ref /\ sh'.text = ref
        /\ sh'.on = sh.on
    BY <1>3, <1>6 DEF IsShell, ShellFields
  <2> QED BY <1>6, <1>4, <2>1 DEF MayRefer, ReferencesInv, IsAt
<1>7. CASE /\ CreatesNew(Candidates(sh.lib, kind), ref, new)
           /\ sh' = [chosen EXCEPT !.step = "creating"]
  <2>1. /\ IsShell(sh') /\ sh'.step = "creating" /\ sh'.lib = Home /\ sh'.kind = kind
        /\ sh'.text = ref /\ sh'.new = new /\ sh'.on = sh.on
    BY <1>3, <1>7 DEF IsShell, ShellFields
  <2>2. ~new => \A e \in Candidates(Home, kind) : name[e] # ref
    BY <1>1, <1>7 DEF CreatesNew
  <2>3. ~new => IsTheOnlyOne'
    BY <1>1, <2>1, <2>2 DEF IsTheOnlyOne, Candidates, Live, IsLive
  <2> QED BY <1>4, <2>1, <2>3 DEF ReferencesInv, IsAt, MayRefer, RowsOf
<1>8. CASE Ends("failed")
  BY <1>8, EndsGoesBeyond, BeyondReferences
<1> QED BY <1>5, <1>6, <1>7, <1>8

(* Lines come before the references of their commands. *)
LEMMA LineKeepsReferences ==
    ASSUME ReferencesInv, Line
    PROVE  ReferencesInv'
<1>1. IsShell(sh)
  BY DEF ReferencesInv
<1>2. \A outcome : Ends(outcome) => ReferencesInv'
  BY EndsGoesBeyond, BeyondReferences
<1>3. ASSUME NEW ref, InLibrary(ref)
      PROVE  ReferencesInv'
  <2>1. /\ IsShell([AtPrompt EXCEPT !.step = "library", !.ref = ref])
        /\ [AtPrompt EXCEPT !.step = "library", !.ref = ref].step = "library"
    BY DEF IsShell, ShellFields, AtPrompt
  <2>2. GoesBeyond(sh')
    BY <1>3, <2>1 DEF InLibrary, GoesBeyond, GoesOn
  <2> QED BY <2>2, BeyondReferences
<1>4. ASSUME NEW step \in {"resolved", "deleted"},
             \/ sh' = [sh EXCEPT !.step = step]
             \/ \E l : sh' = [sh EXCEPT !.step = step, !.lib = l]
      PROVE  ReferencesInv'
  <2>1. IsShell(sh') /\ sh'.step = step
    BY <1>1, <1>4 DEF IsShell, ShellFields
  <2> QED BY <2>1 DEF ReferencesInv, IsAt
<1>5. CASE NamesLibrary \/ UsesSelection \/ Deselects \/ CreatesLibrary
  BY <1>2, <1>3, <1>5 DEF NamesLibrary, UsesSelection, Deselects, CreatesLibrary
<1>6. CASE ResolvesLibrary \/ DeletesLibrary
  <2>1. Ends("failed") \/ (\E l : sh' = [sh EXCEPT !.step = "resolved", !.lib = l])
        \/ sh' = [sh EXCEPT !.step = "deleted"]
    BY <1>6 DEF ResolvesLibrary, DeletesLibrary, Goes
  <2> QED BY <1>2, <1>4, <2>1
<1>7. CASE SetsName \/ Selects \/ LooksAfterSelection \/ Imports
  BY <1>2, <1>7 DEF SetsName, Selects, LooksAfterSelection, Imports
<1> QED BY <1>1, <1>5, <1>6, <1>7, ResolvingNamesTheSubject DEF Line

(* From when others have written on, a command is alone no more. *)
LEMMA OthersKeepReferences ==
    ASSUME ReferencesInv, Acts
    PROVE  ReferencesInv'
<1>1. PICK v : sh' = [sh EXCEPT !.alone = FALSE, !.todo = v]
  BY DEF Acts
<1>2. /\ IsShell(sh') /\ ~sh'.alone /\ sh'.step = sh.step /\ sh'.lib = sh.lib
      /\ sh'.other = sh.other /\ sh'.text = sh.text /\ sh'.kind = sh.kind /\ sh'.on = sh.on
  BY <1>1 DEF ReferencesInv, IsShell, ShellFields
<1> QED BY <1>2 DEF ReferencesInv, IsAt, RowsOf, MayRefer

(* Every step of a session keeps its references. *)
LEMMA StepKeepsReferences ==
    ASSUME ReferencesInv, [ShellNext]_shellVars
    PROVE  ReferencesInv'
<1>1. CASE Command
  <2>1. IsShell(sh)
    BY DEF ReferencesInv
  <2> QED BY <1>1, <2>1, CommandGoesOn, BeyondReferences, ChoosingKeepsReferences
<1>2. CASE CtrlC
  BY <1>2, EndsGoesBeyond, BeyondReferences DEF CtrlC
<1>3. CASE OthersEdit \/ OthersRename \/ OthersDeleteLibrary
  BY <1>3, OthersKeepReferences DEF OthersEdit, OthersRename, OthersDeleteLibrary
<1>4. CASE UNCHANGED shellVars
  BY <1>4 DEF shellVars, ReferencesInv, IsShell, IsAt, NamesTheSubject, IsTheOnlyOne,
              RowsOf, MayRefer, Candidates, Live, IsLive, Bearing
<1> QED BY <1>1, <1>2, <1>3, <1>4, LineKeepsReferences DEF ShellNext

(* "A name match is never linked implicitly": what the shell writes to is the one
   entity that the text names, what it links was given by its id, and what it makes
   is the only one of its name. *)
THEOREM NamesAreUnique == ShellSpec => NamesAreNotGuessed
<1>1. ShellInit => ReferencesInv
  <2>1. IsShell(AtPrompt) /\ AtPrompt.step = "prompt"
    BY DEF IsShell, ShellFields, AtPrompt
  <2> QED BY <2>1 DEF ShellInit, ReferencesInv, IsAt
<1>2. ReferencesInv /\ [ShellNext]_shellVars => ReferencesInv'
  BY StepKeepsReferences
<1>3. ReferencesInv => [sh.alone /\ (db' # db \/ name' # name) /\ used'.acts = used.acts =>
        /\ sh.step = "subject" => Bearing(Candidates(sh.lib, sh.kind), name, sh.ref) = {sh.on}
        /\ sh.step = "linking" => sh.other = sh.text
        /\ sh.step = "creating" /\ ~sh.new =>
             \A e \in Live(RowsOf(sh.kind)) : name[e] # sh.text]_shellVars
  BY DEF ReferencesInv, IsAt, NamesTheSubject, IsTheOnlyOne, Candidates
<1> QED BY <1>1, <1>2, <1>3, PTL DEF ShellSpec, NamesAreNotGuessed

-----------------------------------------------------------------------------
(***************************************************************************)
(* The shell's commands on the tables                                      *)
(***************************************************************************)
(* What is written to rows that are there is sound. *)
LEMMA DoesKeepsInv ==
    ASSUME Inv, NEW d, IsThere => Sound(d), NEW names, Does(d, names)
    PROVE  Inv'
<1>1. CASE IsThere
  <2>1. Write(d, review)
    BY <1>1 DEF Does, Edits
  <2> QED BY <1>1, <2>1, WriteKeepsInv DEF Inv
<1>2. CASE ~IsThere
  <2>1. UNCHANGED <<db, review>>
    BY <1>2 DEF Does, SameRows
  <2> QED BY <2>1, SameTablesKeepInv
<1> QED BY <1>1, <1>2

(* A command of one transaction. *)
LEMMA SmallCommandsKeepInv ==
    ASSUME Inv, ReferencesInv,
           \/ Renames \/ Classifies \/ Touches \/ CommitsIt \/ DeletesIt \/ RejectsAllOfIt
           \/ RemovesTheWork
    PROVE  Inv'
<1>1. Sound(db)
  BY DEF Inv
<1>2. CASE Renames \/ Touches
  <2>1. \E names : Does(db, names)
    BY <1>2 DEF Renames, Touches
  <2> QED BY <1>1, <2>1, DoesKeepsInv
<1>3. CASE Classifies
  <2>1. PICK k \in Kinds :
          LET d == [db EXCEPT !.kind[sh.on] = k] IN
          Does(IF sh.on \in Publications /\ db.kind[sh.on] # k THEN Inherit(d, sh.on, k)
               ELSE d, name)
    BY <1>3 DEF Classifies
  <2> DEFINE d == [db EXCEPT !.kind[sh.on] = k]
             n == IF sh.on \in Publications /\ db.kind[sh.on] # k THEN Inherit(d, sh.on, k)
                  ELSE d
  <2>2. sh.on \in Parents
    BY <1>3 DEF Classifies
  <2>3. SoundBut(d, {sh.on}) /\ (sh.on \in Works => Sound(d))
    BY <1>1, <2>2, ClassifySound
  <2>4. Sound(n)
    <3>1. CASE sh.on \in Publications /\ db.kind[sh.on] # k
      <4>1. d.kind[sh.on] = k /\ k # Unclassified
        BY <1>1, <2>2, Tables, IdsAreDistinct DEF Sound, SoundBut, Db
      <4> HIDE DEF d
      <4> QED BY <2>3, <3>1, <4>1, InheritSound
    <3>2. CASE sh.on \in Publications /\ db.kind[sh.on] = k
      <4>1. d = db
        BY <1>1, <2>2, <3>2, Tables DEF Sound, SoundBut, Db
      <4> QED BY <1>1, <3>2, <4>1
    <3>3. CASE sh.on \in Works
      BY <2>3, <3>3, LinkedRows
    <3> QED BY <2>2, <3>1, <3>2, <3>3 DEF Parents
  <2> HIDE DEF n
  <2> QED BY <2>1, <2>4, DoesKeepsInv DEF n
<1>4. CASE CommitsIt
  <2>1. sh.on \in Entities /\ Does(Commit(db, sh.on), name)
    BY <1>4 DEF CommitsIt, ReferencesInv, Kinded, RowsOf, Entities
  <2> QED BY <1>1, <2>1, CommitSound, DoesKeepsInv
<1>5. CASE DeletesIt \/ RejectsAllOfIt \/ RemovesTheWork
  <2>1. \E d : Sound(d) /\ Does(d, name)
    BY <1>1, <1>5, LesserOperationsSound DEF DeletesIt, RejectsAllOfIt, RemovesTheWork
  <2> QED BY <2>1, DoesKeepsInv
<1> QED BY <1>2, <1>3, <1>4, <1>5

(* A link, to what was there or is made for it, and one less. *)
LEMMA LinkingKeepsInv ==
    ASSUME Inv, ReferencesInv, LinksTarget \/ CreatesTarget \/ RemovesARole
    PROVE  Inv'
<1> DEFINE a == sh.on
           e == sh.other
<1>1. Sound(db)
  BY DEF Inv
<1>2. ASSUME NEW d, Sound(d), Edits(d)
      PROVE  Inv'
  BY <1>2, WriteKeepsInv DEF Inv, Edits
<1>3. SameRows => Inv'
  BY SameTablesKeepInv DEF SameRows
<1>4. CASE LinksTarget
  <2>1. MayRefer(a, e)
    BY <1>4 DEF LinksTarget, ReferencesInv
  <2>2. \/ SameRows
        \/ /\ IsLive(db, a) /\ IsLive(db, e)
           /\ IF e \in Works THEN Edits(AddWork(db, a, e)) ELSE Edits(AddContributor(db, a, e))
    BY <1>4 DEF LinksTarget, IsThere, Credit
  <2> HIDE DEF a, e
  <2> QED BY <1>1, <1>2, <1>3, <2>1, <2>2, AddWorkSound, AddContributorSound DEF MayRefer
<1>5. CASE CreatesTarget
  <2>1. CASE IsThere
    <3>1. PICK x \in Fresh(RowsOf(sh.kind)) :
            Edits(IF x \in Works
                  THEN [Link(Insert(db, x, db.mark[a]), a, x) EXCEPT !.kind[x] = db.kind[a]]
                  ELSE Link(Insert(db, x, db.mark[a]), a, x))
      BY <1>5, <2>1 DEF CreatesTarget
    <3>2. MayRefer(a, x) /\ ~IsLive(db, x) /\ IsLive(db, a)
      BY <1>5, <2>1, <3>1 DEF CreatesTarget, ReferencesInv, Fresh, IsThere
    <3> HIDE DEF a
    <3>3. /\ x \in People => Sound(Link(Insert(db, x, db.mark[a]), a, x))
          /\ x \in Works => Sound([Link(Insert(db, x, db.mark[a]), a, x)
                                     EXCEPT !.kind[x] = db.kind[a]])
      BY <1>1, <3>2, CreateSound DEF MayRefer
    <3>4. CASE x \in Works
      BY <1>2, <3>1, <3>3, <3>4
    <3>5. CASE x \notin Works
      BY <1>2, <3>1, <3>2, <3>3, <3>5 DEF MayRefer
    <3> QED BY <3>4, <3>5
  <2>2. CASE ~IsThere
    BY <1>3, <1>5, <2>2 DEF CreatesTarget
  <2> QED BY <2>1, <2>2
<1>6. CASE RemovesARole
  <2>1. \/ SameRows
        \/ Edits(RemoveContributor(db, a, e)) \/ Edits(CollectPeople(db))
    BY <1>6 DEF RemovesARole, Uncredit
  <2>2. Sound(RemoveContributor(db, a, e)) /\ Sound(CollectPeople(db))
    BY <1>1, LesserOperationsSound, CollectSound DEF Sound
  <2> QED BY <1>2, <1>3, <2>1, <2>2
<1> QED BY <1>4, <1>5, <1>6

(* What the shell accepts, rejects or discards it does as a reviewer. *)
LEMMA ShellReviewsKeepInv ==
    ASSUME Inv, \/ AcceptsNext \/ AppliesNext \/ MissesImage \/ DiscardsNext
                \/ RejectsNext \/ ReloadsIt \/ DeletesReloaded \/ CtrlC
    PROVE  Inv'
<1>1. Sound(db) /\ Session \in Reviewers
  BY ShellIsTyped DEF Inv
<1>2. Review(Session) => Inv'
  BY <1>1, ReviewKeepsInv
<1>3. ASSUME NEW these, Edits(Reject(db, sh.on, these))
      PROVE  Inv'
  BY <1>1, <1>3, LesserOperationsSound, WriteKeepsInv DEF Inv, Edits
<1>4. UNCHANGED <<db, review>> => Inv'
  BY SameTablesKeepInv
<1>5. CASE AcceptsNext \/ AppliesNext \/ MissesImage \/ DiscardsNext \/ DeletesReloaded
  BY <1>2, <1>4, <1>5 DEF AcceptsNext, AppliesNext, MissesImage, DiscardsNext,
                          DeletesReloaded, Review
<1>6. CASE RejectsNext \/ ReloadsIt
  BY <1>2, <1>3, <1>4, <1>6 DEF RejectsNext, ReloadsIt, SameRows, Review
<1>7. CASE CtrlC
  <2>1. db' = db /\ review' = [review EXCEPT ![Session] = NotReviewing]
    BY <1>7 DEF CtrlC
  <2>2. review[Session] = NotReviewing => review' = review
    BY <1>1, <2>1 DEF Inv
  <2>3. review[Session] # NotReviewing => Interrupted(Session)
    BY <2>1 DEF Interrupted
  <2> QED BY <1>2, <1>4, <2>1, <2>2, <2>3 DEF Review
<1> QED BY <1>5, <1>6, <1>7

(* So every step of a session, and everything that others do beside it, keeps the
   tables sound. *)
LEMMA ShellKeepsInv ==
    ASSUME Inv, ReferencesInv, [ShellNext]_shellVars
    PROVE  Inv'
<1>1. UNCHANGED <<db, review>> => Inv'
  BY SameTablesKeepInv
<1>2. ASSUME NEW l, DropLibrary(l)
      PROVE  Inv'
  <2>1. Sound(db) /\ Sound(Remove(db, Entities))
    BY RemoveSound DEF Inv, Sound
  <2>2. \E d : Sound(d) /\ Edits(d)
    BY <1>2, <2>1 DEF DropLibrary
  <2> QED BY <2>2, WriteKeepsInv DEF Inv, Edits
<1>3. Edit => Inv'
  BY EditKeepsInv
<1>4. CASE Line
  <2>1. CASE Imports
    <3>1. Import \/ SameRows
      BY <2>1 DEF Imports, Import
    <3> QED BY <1>1, <1>3, <3>1 DEF SameRows, Edit
  <2>2. CASE DeletesLibrary
    BY <1>1, <1>2, <2>2 DEF DeletesLibrary, SameRows
  <2> QED BY <1>1, <1>4, <2>1, <2>2 DEF Line, NamesLibrary, UsesSelection, Deselects,
        CreatesLibrary, ResolvesLibrary, ResolvesSubject, SetsName, Selects,
        LooksAfterSelection, Reads, SameRows
<1>5. CASE Command
  <2>1. CASE ChoosesTarget \/ ChoosesLink \/ ListsProposals \/ DiscardsChanges
    BY <1>1, <2>1 DEF ChoosesTarget, ChoosesLink, ListsProposals, DiscardsChanges, Reads, SameRows
  <2> QED BY <1>5, <2>1, SmallCommandsKeepInv, LinkingKeepsInv, ShellReviewsKeepInv DEF Command
<1>6. CASE OthersEdit \/ OthersRename \/ OthersDeleteLibrary
  BY <1>1, <1>2, <1>3, <1>6 DEF OthersEdit, OthersRename, OthersDeleteLibrary
<1>7. CASE UNCHANGED shellVars
  BY <1>1, <1>7 DEF shellVars
<1> QED BY <1>4, <1>5, <1>6, <1>7, ShellReviewsKeepInv DEF ShellNext

(* A session opens on sound tables. *)
LEMMA ShellInitSound == ShellInit => Inv
<1> USE LinkedRows
<1> SUFFICES ASSUME ShellInit PROVE Inv
  OBVIOUS
<1>1. PICK p \in Publications, x \in People, mark \in {"draft", "committed"},
           proposed \in {{}, Works \union People \union {Value}} :
        db = [mark |-> [e \in Entities |-> IF e \in {p, x} THEN mark
                                           ELSE IF e \in proposed THEN "draft" ELSE "absent"],
              kind |-> [a \in Parents |-> Unclassified],
              links |-> {<<p, x>>},
              proposals |-> {p} \X (proposed \ {x})]
  BY DEF ShellInit
<1>2. /\ db.mark = [e \in Entities |-> IF e \in {p, x} THEN mark
                                       ELSE IF e \in proposed THEN "draft" ELSE "absent"]
      /\ db.kind = [a \in Parents |-> Unclassified]
      /\ db.links = {<<p, x>>}
      /\ db.proposals = {p} \X (proposed \ {x})
  BY <1>1
<1>3. p \in Entities /\ x \in Entities /\ p \in Parents
  OBVIOUS
<1>4. db \in Db
  <2>1. db.mark \in [Entities -> Marks]
    BY <1>2 DEF Marks
  <2>2. db.kind \in [Parents -> Kinds \union {Unclassified}]
    BY <1>2
  <2>3. db.links \subseteq Parents \X (Works \union People)
    BY <1>2, <1>3
  <2>4. db.proposals \subseteq Entities \X (Works \union People \union {Value})
    BY <1>2, <1>3
  <2>5. db = [mark |-> db.mark, kind |-> db.kind, links |-> db.links,
              proposals |-> db.proposals]
    BY <1>1
  <2> QED BY <2>1, <2>2, <2>3, <2>4, <2>5 DEF Db
<1>5. IsLive(db, p) /\ IsLive(db, x) /\ (IsCommitted(db, p) => IsCommitted(db, x))
  BY <1>2, <1>3 DEF IsLive, IsCommitted
<1>6. Linked(db) /\ Marked(db) /\ ClassifiedBut(db, {})
  BY <1>2, <1>3, <1>5 DEF Linked, Marked, ClassifiedBut
<1>7. Proposed(db)
  <2>1. ASSUME NEW e \in proposed \ {x}, e # Value
        PROVE  IsLive(db, e)
    BY <1>2, <2>1 DEF IsLive
  <2> QED BY <1>2, <1>3, <1>5, <2>1 DEF Proposed
<1>8. /\ review = [r \in Reviewers |-> review[r]]
      /\ \A r \in Reviewers : IsReview(review[r])
  BY DEF ShellInit, IsReview, NotReviewing, Steps
<1> QED BY <1>4, <1>6, <1>7, <1>8 DEF Inv, Sound, SoundBut

-----------------------------------------------------------------------------
(***************************************************************************)
(* The shell's lists of proposals                                          *)
(***************************************************************************)
About == Works \union People \union {Value}

(* What an entity that is not collected itself proposes is needed, so it stays. *)
LEMMA CollectingKeepsPending ==
    ASSUME NEW d \in Db, NEW a \in Parents, NEW t, <<a, t>> \in d.proposals
    PROVE  /\ <<a, t>> \in CollectPeople(d).proposals
           /\ a \in Publications => <<a, t>> \in Collect(d).proposals
<1> USE LinkedRows
<1>1. ASSUME NEW n, <<a, t>> \in n.proposals
      PROVE  t \notin OrphanWorks(n) /\ t \notin OrphanPeople(n)
  BY <1>1 DEF OrphanWorks, OrphanPeople, IsNeeded
<1>2. ASSUME NEW n, <<a, t>> \in n.proposals, NEW gone, a \notin gone, t \notin gone
      PROVE  <<a, t>> \in Remove(n, gone).proposals
  BY <1>2 DEF Remove
<1>3. \A n : a \notin OrphanPeople(n)
  BY DEF OrphanPeople
<1>4. \A n : <<a, t>> \in n.proposals => <<a, t>> \in CollectPeople(n).proposals
  BY <1>1, <1>2, <1>3 DEF CollectPeople
<1>5. ASSUME a \in Publications
      PROVE  <<a, t>> \in Collect(d).proposals
  <2>1. a \notin OrphanWorks(d)
    BY <1>5, IdsAreDistinct DEF OrphanWorks
  <2>2. <<a, t>> \in Remove(d, OrphanWorks(d)).proposals
    BY <1>1, <1>2, <2>1
  <2> QED BY <1>4, <2>2 DEF Collect
<1> QED BY <1>4, <1>5

(* Rejecting one proposal of an entity leaves its others, ... *)
LEMMA RejectingKeepsPending ==
    ASSUME NEW d, Sound(d), NEW a \in Entities, NEW about, NEW t, t # about,
           <<a, t>> \in d.proposals
    PROVE  <<a, t>> \in Reject(d, a, {<<a, about>>}).proposals
<1> DEFINE rejected == {<<a, about>>}
           S == d.proposals \ rejected
           n == [d EXCEPT !.proposals = @ \ rejected]
<1>1. Sound(n)
  <2> HIDE DEF rejected
  <2> QED BY FewerProposalsSound
<1>2. <<a, t>> \in n.proposals
  <2>1. n = [d EXCEPT !.proposals = S]
    BY DEF Sound, SoundBut, Db
  <2>2. <<a, t>> \in S
    OBVIOUS
  <2> HIDE DEF n, S
  <2>3. n = [mark |-> d.mark, kind |-> d.kind, links |-> d.links, proposals |-> S]
    BY <2>1, OneTable DEF Sound, SoundBut
  <2> QED BY <2>2, <2>3
<1>3. Reject(d, a, rejected) = IF a \in Publications THEN Collect(n)
                               ELSE IF a \in Works THEN CollectPeople(n) ELSE n
  BY DEF Reject
<1> HIDE DEF n
<1> QED BY <1>1, <1>2, <1>3, CollectingKeepsPending, LinkedRows DEF Sound, SoundBut

(* ... and so does applying one. *)
LEMMA ApplyingKeepsPending ==
    ASSUME NEW d, Sound(d), NEW a \in Entities, NEW about \in About, NEW t,
           <<a, about>> \in d.proposals, <<a, t>> \in d.proposals
    PROVE  <<a, t>> \in Apply(d, a, about).proposals
<1> USE LinkedRows, IdsAreDistinct
<1>1. d \in Db /\ IsLive(d, a) /\ (about # Value => IsLive(d, about) /\ a \in Parents)
      /\ (about \in Works => a \in Publications)
  BY DEF Sound, SoundBut, Proposed
<1> DEFINE linked == Link(d, a, about)
<1>2. ASSUME about # Value
      PROVE  /\ linked \in Db /\ linked.mark = d.mark /\ linked.kind = d.kind
             /\ linked.proposals = d.proposals
  <2>1. about \in Works \union People
    BY <1>2 DEF About
  <2>2. linked \in Db /\ linked.mark = d.mark /\ linked.kind = d.kind
    BY <1>1, <1>2, <2>1, LinkTables, ZenonT(60)
  <2>3. linked.proposals = d.proposals
    <3> DEFINE S == d.links \union {<<a, about>>}
    <3>1. linked = [d EXCEPT !.links = S]
      BY <1>1 DEF Link, Db
    <3> HIDE DEF linked, S
    <3> QED BY <1>1, <3>1, OneTable
  <2> QED BY <2>2, <2>3
<1> HIDE DEF linked
<1>3. ASSUME NEW these, ~IsDraft(d, a) \/ a \notin these, about # Value
      PROVE  /\ <<a, t>> \in CommitRows(linked, these).proposals
             /\ CommitRows(linked, these) \in Db
  <2> DEFINE committed == {e \in these : IsDraft(linked, e)}
  <2>1. linked \in Db /\ linked.mark = d.mark /\ <<a, t>> \in linked.proposals
    BY <1>2, <1>3
  <2>2. /\ CommitRows(linked, these) \in Db
        /\ CommitRows(linked, these).proposals = {p \in linked.proposals : p[1] \notin committed}
    BY <2>1, CommitRowsTyped
  <2>3. a \notin committed
    BY <1>3, <2>1 DEF IsDraft
  <2> HIDE DEF committed
  <2> QED BY <2>1, <2>2, <2>3
<1>4. CASE about \in Works
  <2> DEFINE commits == IF IsCommitted(d, a)
                        THEN {e \in ContentsOf(linked, a) \union ContributorsOf(d, about)
                                : IsDraft(d, e)}
                        ELSE {}
             committed == CommitRows(linked, commits)
             collected == IF commits = {} THEN committed ELSE CollectPeople(committed)
  <2>1. AddWork(d, a, about) = IF <<a, about>> \in d.links THEN d
                               ELSE Inherit(collected, a, d.kind[a])
    BY DEF AddWork, linked
  <2>2. ~IsDraft(d, a) \/ a \notin commits
    BY DEF IsDraft, IsCommitted
  <2> HIDE DEF commits
  <2>3. <<a, t>> \in committed.proposals /\ committed \in Db
    BY <1>3, <1>4, <2>2
  <2> HIDE DEF committed
  <2>4. <<a, t>> \in collected.proposals /\ collected \in Db
    BY <1>1, <1>4, <2>3, CollectingKeepsPending, RemoveTyped DEF CollectPeople
  <2> HIDE DEF collected
  <2>5. <<a, t>> \in Inherit(collected, a, d.kind[a]).proposals
    BY <2>4, InheritTables
  <2> QED BY <1>4, <2>1, <2>5 DEF Apply
<1>5. CASE about \in People
  <2> DEFINE those == ContributorsOf(linked, a)
  <2>1. a \notin those
    BY <1>1, <1>5 DEF ContributorsOf
  <2>2. AddContributor(d, a, about) \in {d, linked, CommitRows(linked, those)}
    BY DEF AddContributor, linked
  <2> HIDE DEF those
  <2>3. <<a, t>> \in CommitRows(linked, those).proposals
    BY <1>3, <1>5, <2>1
  <2> QED BY <1>2, <1>5, <2>2, <2>3 DEF Apply
<1>6. CASE about = Value
  BY <1>6 DEF Apply, Entities
<1> QED BY <1>4, <1>5, <1>6 DEF About

-----------------------------------------------------------------------------
IsListing == sh.step \in {"accepting", "rejecting"} /\ sh.sound /\ sh.alone

\* The proposals that a line has yet to come to are different and pending still, ...
ListIsPending ==
    /\ sh.todo \in Seq(About)
    /\ \A i, j \in 1..Len(sh.todo) : sh.todo[i] = sh.todo[j] => i = j
    /\ \A i \in 1..Len(sh.todo) : IsPending(db, sh.todo[i])

\* ... and so is the one that it is accepting, until it is applied.
AcceptsAnother(v) ==
    \/ v = NotReviewing
    \/ /\ v.step \in {"read", "applied"} /\ v.of = sh.on
       /\ v.step = "read" => IsPending(db, v.about)
       /\ \A i \in 1..Len(sh.todo) : sh.todo[i] # v.about

(* Commands that list no proposals leave the reviewer that the shell is alone. *)
ListInv ==
    /\ IsShell(sh)
    /\ ~IsAt("prompt") => sh.outcome = "none"
    /\ sh.step \notin {"accepting", "discarding"} => review[Session] = NotReviewing
    /\ IsListing => ListIsPending
    /\ IsListing /\ IsAt("accepting") => AcceptsAnother(review[Session])

(* Any write leaves a reviewer who is not reviewing so. *)
LEMMA WritesKeepNotReviewing ==
    ASSUME NEW d, NEW reviews, Write(d, reviews)
    PROVE  reviews[Session] = NotReviewing => review'[Session] = NotReviewing
<1> DEFINE v == reviews[Session]
           there == v.there /\ <<v.of, v.about>> \in d.proposals
<1>1. review'[Session] = [v EXCEPT !.there = there]
  BY ShellIsTyped DEF Write
<1>2. v = NotReviewing => there = NotReviewing.there
  BY DEF NotReviewing
<1> HIDE DEF v, there
<1>3. v = NotReviewing => [v EXCEPT !.there = there] = NotReviewing
  BY <1>2 DEF NotReviewing
<1> QED BY <1>1, <1>3 DEF v

(* Every edit is one write. *)
LEMMA EditWrites == Edit => \E d : Edits(d)
BY DEF Edit, Import, Classify, ClassifyIfUnset, ClassifyWork, CreateWork, CreateContributor,
       AddsWork, RemovesWork, AddsContributor, RemovesContributor, ProposesLink,
       ProposesValue, ProposesNew, Rejects, RejectsAll, Commits, Deletes

(* A command that lists nothing, and that reviews nothing either. *)
LEMMA NoListKeepsListInv ==
    ASSUME IsShell(sh'), sh'.step \notin {"accepting", "rejecting"},
           sh'.step # "prompt" => sh'.outcome = "none",
           review'[Session] = NotReviewing
    PROVE  ListInv'
BY DEF ListInv, IsListing, IsAt

LEMMA EndsKeepsListInv ==
    ASSUME NEW outcome, Ends(outcome), review'[Session] = NotReviewing
    PROVE  ListInv'
<1>1. AtPrompt = [f \in ShellFields |-> AtPrompt[f]]
  BY DEF AtPrompt, ShellFields
<1>2. IsShell(sh') /\ sh'.step = "prompt"
  BY <1>1 DEF Ends, IsShell, ShellFields, AtPrompt
<1> QED BY <1>2, NoListKeepsListInv

(* Lines review nothing and list nothing yet. *)
LEMMA LineKeepsListInv ==
    ASSUME ListInv, Line
    PROVE  ListInv'
<1>1. IsShell(sh) /\ (sh.step # "prompt" => sh.outcome = "none")
  BY DEF ListInv, IsAt
<1>2. sh.step \in {"prompt", "library", "resolved", "deleted"}
  BY DEF Line, NamesLibrary, UsesSelection, Deselects, CreatesLibrary, ResolvesLibrary,
         ResolvesSubject, SetsName, Selects, DeletesLibrary, LooksAfterSelection, Imports, IsAt
<1>3. review[Session] = NotReviewing
  BY <1>2 DEF ListInv
<1>4. review' = review \/ \E d : Edits(d)
  BY DEF Line, NamesLibrary, UsesSelection, Deselects, CreatesLibrary, ResolvesLibrary,
         ResolvesSubject, SetsName, Selects, DeletesLibrary, LooksAfterSelection, Imports,
         Reads, SameRows, DropLibrary
<1>5. review'[Session] = NotReviewing
  BY <1>3, <1>4, WritesKeepNotReviewing DEF Edits
<1>6. \A outcome : Ends(outcome) => ListInv'
  BY <1>5, EndsKeepsListInv
<1>7. ASSUME NEW ref, InLibrary(ref)
      PROVE  ListInv'
  <2>1. LET n == [AtPrompt EXCEPT !.step = "library", !.ref = ref] IN
        IsShell(n) /\ n.step = "library" /\ n.outcome = "none"
    BY DEF IsShell, ShellFields, AtPrompt
  <2>2. IsShell(sh') /\ sh'.step = "library" /\ sh'.outcome = "none"
    BY <1>7, <2>1 DEF InLibrary
  <2> QED BY <1>5, <2>2, NoListKeepsListInv
<1>8. CASE NamesLibrary \/ UsesSelection \/ Deselects \/ CreatesLibrary
  BY <1>6, <1>7, <1>8 DEF NamesLibrary, UsesSelection, Deselects, CreatesLibrary
<1>9. CASE ResolvesLibrary \/ DeletesLibrary
  <2>1. Ends("failed") \/ (\E l : sh' = [sh EXCEPT !.step = "resolved", !.lib = l])
        \/ sh' = [sh EXCEPT !.step = "deleted"]
    BY <1>9 DEF ResolvesLibrary, DeletesLibrary, Goes
  <2>2. sh.step # "prompt"
    BY <1>9 DEF ResolvesLibrary, DeletesLibrary, IsAt
  <2>3. Ends("failed") \/ (/\ IsShell(sh') /\ sh'.step \in {"resolved", "deleted"}
                           /\ sh'.outcome = "none")
    BY <1>1, <2>1, <2>2 DEF IsShell, ShellFields
  <2> QED BY <1>5, <1>6, <2>3, NoListKeepsListInv
<1>10. CASE ResolvesSubject
  <2>1. PICK kind, ref, e :
          \/ Ends("failed")
          \/ sh' = [sh EXCEPT !.step = "subject", !.kind = kind, !.ref = ref, !.on = e,
                              !.seen = SeenOf(e), !.alone = TRUE]
    BY <1>10 DEF ResolvesSubject
  <2>2. ASSUME sh' = [sh EXCEPT !.step = "subject", !.kind = kind, !.ref = ref, !.on = e,
                                !.seen = SeenOf(e), !.alone = TRUE]
        PROVE  IsShell(sh') /\ sh'.step = "subject" /\ sh'.outcome = sh.outcome
    <3> DEFINE at == [sh EXCEPT !.step = "subject"]
               found == [at EXCEPT !.kind = kind, !.ref = ref]
               seen == SeenOf(e)
    <3>1. sh' = [found EXCEPT !.on = e, !.seen = seen, !.alone = TRUE]
      BY <2>2
    <3>2. IsShell(at) /\ at.step = "subject" /\ at.outcome = sh.outcome
      BY <1>1 DEF IsShell, ShellFields
    <3> HIDE DEF at, seen
    <3>3. IsShell(found) /\ found.step = "subject" /\ found.outcome = sh.outcome
      BY <3>2 DEF IsShell, ShellFields
    <3> HIDE DEF found
    <3> QED BY <3>1, <3>3 DEF IsShell, ShellFields
  <2>3. sh.step # "prompt"
    BY <1>10 DEF ResolvesSubject, IsAt
  <2> QED BY <1>1, <1>5, <1>6, <2>1, <2>2, <2>3, NoListKeepsListInv
<1>11. CASE SetsName \/ Selects \/ LooksAfterSelection \/ Imports
  BY <1>6, <1>11 DEF SetsName, Selects, LooksAfterSelection, Imports
<1> QED BY <1>8, <1>9, <1>10, <1>11 DEF Line

(* Commands on an entity that list nothing. *)
LEMMA SmallCommandsKeepListInv ==
    ASSUME ListInv,
           \/ Renames \/ Classifies \/ Touches \/ CommitsIt \/ DeletesIt \/ RejectsAllOfIt
           \/ RemovesTheWork \/ LinksTarget \/ CreatesTarget \/ RemovesARole
           \/ ChoosesTarget \/ ChoosesLink \/ DiscardsChanges
    PROVE  ListInv'
<1>1. sh.step \in {"subject", "unlinking", "linking", "creating", "removing"}
  BY DEF Renames, Classifies, Touches, CommitsIt, DeletesIt, RejectsAllOfIt, RemovesTheWork,
         LinksTarget, CreatesTarget, RemovesARole, ChoosesTarget, ChoosesLink,
         DiscardsChanges, IsAt
<1>2. IsShell(sh) /\ sh.outcome = "none" /\ review[Session] = NotReviewing
  BY <1>1 DEF ListInv, IsAt
<1>3. review' = review \/ \E d : Edits(d)
  BY DEF Renames, Classifies, Touches, CommitsIt, DeletesIt, RejectsAllOfIt, RemovesTheWork,
         LinksTarget, CreatesTarget, RemovesARole, ChoosesTarget, ChoosesLink,
         DiscardsChanges, Does, Reads, SameRows, Credit, Uncredit
<1>4. review'[Session] = NotReviewing
  BY <1>2, <1>3, WritesKeepNotReviewing DEF Edits
<1>5. \A outcome : Ends(outcome) => ListInv'
  BY <1>4, EndsKeepsListInv
<1>6. CASE \/ Renames \/ Classifies \/ Touches \/ CommitsIt \/ DeletesIt \/ RejectsAllOfIt
           \/ RemovesTheWork \/ LinksTarget \/ CreatesTarget
  <2>1. Ends("ok") \/ Ends("failed")
    BY <1>6 DEF Renames, Classifies, Touches, CommitsIt, DeletesIt, RejectsAllOfIt,
                RemovesTheWork, Does, LinksTarget, CreatesTarget
  <2> QED BY <1>5, <2>1
<1>7. CASE RemovesARole
  <2>1. Ends("ok") \/ Ends("failed") \/ \E todo : sh' = [sh EXCEPT !.todo = todo]
    BY <1>7 DEF RemovesARole
  <2>2. sh.step = "removing"
    BY <1>7 DEF RemovesARole, IsAt
  <2>3. Ends("ok") \/ Ends("failed")
        \/ (IsShell(sh') /\ sh'.step = "removing" /\ sh'.outcome = "none")
    BY <1>2, <2>1, <2>2 DEF IsShell, ShellFields
  <2> QED BY <1>4, <1>5, <2>3, NoListKeepsListInv
<1>8. CASE ChoosesTarget
  <2>1. PICK kind, ref, new :
          LET chosen == [sh EXCEPT !.kind = kind, !.text = ref, !.new = new]
          IN \/ sh' = [chosen EXCEPT !.step = "linking", !.other = ref]
             \/ sh' = [chosen EXCEPT !.step = "creating"]
             \/ Ends("failed")
    BY <1>8 DEF ChoosesTarget
  <2> DEFINE chosen == [sh EXCEPT !.kind = kind, !.text = ref, !.new = new]
  <2>2. IsShell(chosen) /\ chosen.outcome = "none"
    BY <1>2 DEF IsShell, ShellFields
  <2>3. \/ sh' = [chosen EXCEPT !.step = "linking", !.other = ref]
        \/ sh' = [chosen EXCEPT !.step = "creating"]
        \/ Ends("failed")
    BY <2>1
  <2> HIDE DEF chosen
  <2>4. Ends("failed") \/ (/\ IsShell(sh') /\ sh'.step \in {"linking", "creating"}
                           /\ sh'.outcome = "none")
    BY <2>2, <2>3 DEF IsShell, ShellFields
  <2> QED BY <1>4, <1>5, <2>4, NoListKeepsListInv
<1>9. CASE ChoosesLink
  <2>1. PICK e, todo :
          \/ sh' = [sh EXCEPT !.step = "unlinking", !.other = e]
          \/ sh' = [sh EXCEPT !.step = "removing", !.other = e, !.sound = TRUE, !.todo = todo]
          \/ sh' = [sh EXCEPT !.step = "removing", !.other = e, !.todo = todo]
          \/ Ends("failed")
    BY <1>9 DEF ChoosesLink
  <2> DEFINE at == [sh EXCEPT !.step = "removing", !.other = e]
  <2>2. IsShell(at) /\ at.step = "removing" /\ at.outcome = "none"
    BY <1>2 DEF IsShell, ShellFields
  <2>3. \/ sh' = [sh EXCEPT !.step = "unlinking", !.other = e]
        \/ sh' = [at EXCEPT !.sound = TRUE, !.todo = todo]
        \/ sh' = [at EXCEPT !.todo = todo]
        \/ Ends("failed")
    BY <2>1
  <2> HIDE DEF at
  <2>4. Ends("failed") \/ (/\ IsShell(sh') /\ sh'.step \in {"unlinking", "removing"}
                           /\ sh'.outcome = "none")
    BY <1>2, <2>2, <2>3 DEF IsShell, ShellFields
  <2> QED BY <1>4, <1>5, <2>4, NoListKeepsListInv
<1>10. CASE DiscardsChanges
  <2>1. Ends("failed") \/ sh' = [sh EXCEPT !.step = "discarding"]
    BY <1>10 DEF DiscardsChanges, Goes
  <2>2. Ends("failed") \/ (IsShell(sh') /\ sh'.step = "discarding" /\ sh'.outcome = "none")
    BY <1>2, <2>1 DEF IsShell, ShellFields
  <2> QED BY <1>4, <1>5, <2>2, NoListKeepsListInv
<1> QED BY <1>6, <1>7, <1>8, <1>9, <1>10

(* A line that lists different proposals lists what is pending. *)
LEMMA ListingKeepsListInv ==
    ASSUME ListInv, ListsProposals
    PROVE  ListInv'
<1> DEFINE pending == {e \in About : IsPending(db, e)}
<1>1. PICK todo \in Seqs!SeqOf(pending \union {NoText}, 2), step \in {"accepting", "rejecting"} :
        sh' = [sh EXCEPT !.step = step, !.todo = todo,
                         !.sound = Seqs!IsInjective(todo) /\ ~Seqs!Contains(todo, NoText)]
  BY DEF ListsProposals, About
<1> DEFINE sound == Seqs!IsInjective(todo) /\ ~Seqs!Contains(todo, NoText)
<1>2. /\ IsShell(sh) /\ sh.outcome = "none" /\ review[Session] = NotReviewing
      /\ db' = db /\ review' = review
  BY DEF ListsProposals, ListInv, IsAt, Reads, SameRows
<1>3. PICK m \in 0..2 : todo \in [1..m -> pending \union {NoText}]
  BY DEF Seqs!SeqOf
<1>4. todo \in Seq(pending \union {NoText}) /\ Len(todo) = m
  BY <1>3
<1>5. ASSUME sound
      PROVE  /\ todo \in Seq(About)
             /\ \A i, j \in 1..Len(todo) : todo[i] = todo[j] => i = j
             /\ \A i \in 1..Len(todo) : IsPending(db, todo[i])
  <2>1. \A i, j \in 1..m : todo[i] = todo[j] => i = j
    BY <1>3, <1>5 DEF Seqs!IsInjective
  <2>2. \A i \in 1..m : todo[i] # NoText
    BY <1>4, <1>5 DEF Seqs!Contains
  <2>3. todo \in [1..m -> pending]
    BY <1>3, <2>2
  <2>4. todo \in Seq(pending)
    BY <1>3, <2>3
  <2>5. pending \subseteq About
    OBVIOUS
  <2>6. todo \in Seq(About)
    BY <1>3, <2>3, <2>5
  <2> QED BY <1>3, <1>4, <2>1, <2>3, <2>6
<1> HIDE DEF sound
<1>6. /\ IsShell(sh') /\ sh'.step = step /\ sh'.todo = todo /\ sh'.outcome = "none"
      /\ sh'.on = sh.on /\ (sh'.sound <=> sound)
  <2>1. sh' = [sh EXCEPT !.step = step, !.todo = todo, !.sound = sound]
    BY <1>1 DEF sound
  <2> QED BY <1>2, <2>1 DEF IsShell, ShellFields
<1>7. IsListing' => ListIsPending'
  BY <1>2, <1>5, <1>6 DEF IsListing, ListIsPending, IsPending
<1> QED BY <1>2, <1>6, <1>7 DEF ListInv, AcceptsAnother, IsAt

(* The tail of a list that is pending. *)
LEMMA NextOfTheList ==
    ASSUME ListIsPending, sh.todo # <<>>, sh' = [sh EXCEPT !.todo = Tail(@)], IsShell(sh)
    PROVE  /\ Head(sh.todo) \in About /\ IsPending(db, Head(sh.todo))
           /\ IsShell(sh') /\ sh'.step = sh.step /\ sh'.on = sh.on /\ sh'.outcome = sh.outcome
           /\ sh'.sound = sh.sound /\ sh'.alone = sh.alone
           /\ sh'.todo \in Seq(About)
           /\ \A i, j \in 1..Len(sh'.todo) : sh'.todo[i] = sh'.todo[j] => i = j
           /\ \A i \in 1..Len(sh'.todo) : /\ <<sh.on, sh'.todo[i]>> \in db.proposals
                                          /\ sh'.todo[i] # Head(sh.todo)
<1> DEFINE todo == sh.todo
           rest == Tail(sh.todo)
<1>1. /\ todo \in Seq(About) /\ todo # <<>>
      /\ \A i, j \in 1..Len(todo) : todo[i] = todo[j] => i = j
      /\ \A i \in 1..Len(todo) : <<sh.on, todo[i]>> \in db.proposals
  BY DEF ListIsPending, IsPending
<1>2. /\ IsShell(sh') /\ sh'.step = sh.step /\ sh'.on = sh.on /\ sh'.outcome = sh.outcome
      /\ sh'.sound = sh.sound /\ sh'.alone = sh.alone /\ sh'.todo = rest
  <2> HIDE DEF rest
  <2>1. sh' = [sh EXCEPT !.todo = rest]
    BY DEF rest
  <2> QED BY <2>1 DEF IsShell, ShellFields
<1> HIDE DEF todo
<1>3. /\ Head(todo) = todo[1] /\ 1 \in 1..Len(todo) /\ todo[1] \in About
      /\ Tail(todo) \in Seq(About) /\ Len(Tail(todo)) = Len(todo) - 1
      /\ \A i \in 1..Len(Tail(todo)) : Tail(todo)[i] = todo[i + 1]
      /\ Len(todo) \in Nat
  BY <1>1
<1>4. \A i \in 1..Len(Tail(todo)) : i + 1 \in 1..Len(todo) /\ i + 1 # 1
  BY <1>3
<1>5. \A i, j \in 1..Len(Tail(todo)) : Tail(todo)[i] = Tail(todo)[j] => i = j
  <2> TAKE i, j \in 1..Len(Tail(todo))
  <2>1. Tail(todo)[i] = todo[i + 1] /\ Tail(todo)[j] = todo[j + 1]
    BY <1>3
  <2>2. todo[i + 1] = todo[j + 1] => i + 1 = j + 1
    BY <1>1, <1>4
  <2> QED BY <1>3, <2>1, <2>2
<1>6. \A i \in 1..Len(Tail(todo)) : /\ <<sh.on, Tail(todo)[i]>> \in db.proposals
                                    /\ Tail(todo)[i] # Head(todo)
  <2> TAKE i \in 1..Len(Tail(todo))
  <2>1. Tail(todo)[i] = todo[i + 1] /\ i + 1 \in 1..Len(todo) /\ i + 1 # 1
    BY <1>3, <1>4
  <2> QED BY <1>1, <1>3, <2>1
<1>7. IsPending(db, Head(todo)) /\ Head(todo) \in About
  BY <1>1, <1>3 DEF IsPending
<1> QED BY <1>2, <1>3, <1>5, <1>6, <1>7 DEF todo

(* Reading the next proposal of a list, which is there to be read. *)
LEMMA AcceptsKeepsListInv ==
    ASSUME Inv, ListInv, AcceptsNext
    PROVE  ListInv' /\ (IsListing => sh'.outcome # "failed")
<1>1. /\ IsShell(sh) /\ sh.step = "accepting" /\ sh.outcome = "none"
      /\ review[Session] = NotReviewing /\ IsAt("accepting")
  BY DEF AcceptsNext, ListInv, IsAt
<1>2. \A outcome : Ends(outcome) /\ review' = review => ListInv'
  BY <1>1, EndsKeepsListInv
<1>3. CASE sh.todo = <<>>
  <2>1. Ends("ok") /\ review' = review
    BY <1>3 DEF AcceptsNext
  <2>2. sh'.outcome = "ok"
    BY <2>1 DEF Ends, AtPrompt
  <2> QED BY <1>2, <2>1, <2>2
<1>4. CASE sh.todo # <<>> /\ ~IsPending(db, Head(sh.todo))
  <2>1. Ends("failed") /\ review' = review
    BY <1>4 DEF AcceptsNext
  <2>2. ~IsListing
    <3> SUFFICES ASSUME IsListing PROVE FALSE
      OBVIOUS
    <3>1. ListIsPending
      BY DEF ListInv
    <3>2. 1 \in 1..Len(sh.todo) /\ Head(sh.todo) = sh.todo[1]
      BY <1>4, <3>1 DEF ListIsPending
    <3> QED BY <1>4, <3>1, <3>2 DEF ListIsPending
  <2> QED BY <1>2, <2>1, <2>2
<1>5. CASE sh.todo # <<>> /\ IsPending(db, Head(sh.todo))
  <2> DEFINE v == review'[Session]
  <2>1. /\ ReadProposal(Session) /\ v.of = sh.on /\ v.about = Head(sh.todo)
        /\ sh' = [sh EXCEPT !.todo = Tail(@)] /\ db' = db
    BY <1>5 DEF AcceptsNext, ReadProposal
  <2>2. v.step = "read"
    BY <2>1, ShellIsTyped DEF ReadProposal, Inv
  <2> HIDE DEF v
  <2>3. /\ IsShell(sh') /\ sh'.step = "accepting" /\ sh'.outcome = "none" /\ sh'.on = sh.on
        /\ sh'.sound = sh.sound /\ sh'.alone = sh.alone
    <3> DEFINE rest == Tail(sh.todo)
    <3>1. sh' = [sh EXCEPT !.todo = rest]
      BY <2>1
    <3> HIDE DEF rest
    <3> QED BY <1>1, <3>1 DEF IsShell, ShellFields
  <2>4. ASSUME IsListing
        PROVE  ListIsPending' /\ AcceptsAnother(review[Session])'
    <3>1. ListIsPending
      BY <2>4 DEF ListInv
    <3>2. /\ IsPending(db, Head(sh.todo))
          /\ sh'.todo \in Seq(About)
          /\ \A i, j \in 1..Len(sh'.todo) : sh'.todo[i] = sh'.todo[j] => i = j
          /\ \A i \in 1..Len(sh'.todo) : /\ <<sh.on, sh'.todo[i]>> \in db.proposals
                                         /\ sh'.todo[i] # Head(sh.todo)
      BY <1>1, <1>5, <2>1, <3>1, NextOfTheList
    <3>3. ListIsPending'
      BY <2>1, <2>3, <3>2 DEF ListIsPending, IsPending
    <3>4. AcceptsAnother(review[Session])'
      BY <2>1, <2>2, <2>3, <3>2 DEF AcceptsAnother, IsPending, v
    <3> QED BY <3>3, <3>4
  <2>5. IsListing' => IsListing
    BY <1>1, <2>3 DEF IsListing
  <2> QED BY <1>1, <2>3, <2>4, <2>5 DEF ListInv, IsAt
<1> QED BY <1>3, <1>4, <1>5

(* What it is about is there to be linked, and applying it leaves the others pending. *)
LEMMA AppliesKeepsListInv ==
    ASSUME Inv, ListInv, AppliesNext
    PROVE  ListInv' /\ (IsListing => sh' = sh)
<1> DEFINE v == review[Session]
           w == review'[Session]
<1>1. /\ IsShell(sh) /\ sh.step = "accepting" /\ sh.outcome = "none" /\ IsAt("accepting")
      /\ v.step = "read" /\ ApplyProposal(Session)
  BY DEF AppliesNext, ApplyProposal, ListInv, IsAt
<1>2. Session \in Reviewers /\ Sound(db) /\ IsReview(v)
  BY ShellIsTyped DEF Inv
<1>3. w = NotReviewing \/ (sh' = sh /\ w # NotReviewing)
  BY DEF AppliesNext
<1>4. CASE w = NotReviewing /\ ~IsListing
  <2>1. Ends("failed")
    BY <1>4 DEF AppliesNext
  <2> QED BY <1>4, <2>1, EndsKeepsListInv
<1>5. ASSUME IsListing
      PROVE  /\ w.step = "applied" /\ w.of = sh.on /\ w.about = v.about
             /\ \A t : IsPending(db, t) => IsPending(db', t)
             /\ \A i \in 1..Len(sh.todo) : sh.todo[i] # v.about
  <2>1. /\ v.of = sh.on /\ IsPending(db, v.about)
        /\ \A i \in 1..Len(sh.todo) : sh.todo[i] # v.about
    BY <1>1, <1>5 DEF ListInv, AcceptsAnother, NotReviewing
  <2>2. /\ sh.on \in Entities /\ v.about \in About /\ <<sh.on, v.about>> \in db.proposals
        /\ IsLive(db, sh.on) /\ (v.about # Value => IsLive(db, v.about))
    BY <1>2, <2>1, Tables DEF Sound, SoundBut, Proposed, IsPending, About
  <2> HIDE DEF v
  <2>3. Write(Apply(db, sh.on, v.about), [review EXCEPT ![Session].step = "applied"])
    BY <1>1, <2>1, <2>2 DEF ApplyProposal, v
  <2>4. db' = Apply(db, sh.on, v.about)
    BY <2>3 DEF Write
  <2>5. ASSUME NEW t, IsPending(db, t)
        PROVE  IsPending(db', t)
    BY <1>2, <2>2, <2>4, <2>5, ApplyingKeepsPending DEF IsPending
  <2>6. w.step = "applied" /\ w.of = v.of /\ w.about = v.about
    BY <1>2, <2>3 DEF Write, v, IsReview, Inv
  <2> QED BY <2>1, <2>5, <2>6
<1>6. CASE w # NotReviewing \/ IsListing
  <2>1. IsListing => w # NotReviewing
    BY <1>5 DEF NotReviewing
  <2>2. sh' = sh
    BY <1>3, <1>6, <2>1
  <2> HIDE DEF v, w
  <2>3. IsShell(sh') /\ sh'.outcome = "none" /\ (IsListing' <=> IsListing)
    BY <1>1, <2>2 DEF IsListing, IsShell
  <2>4. ASSUME IsListing
        PROVE  ListIsPending' /\ AcceptsAnother(review[Session])'
    <3>1. ListIsPending
      BY <2>4 DEF ListInv
    <3>2. ListIsPending'
      BY <1>5, <2>2, <2>4, <3>1 DEF ListIsPending, IsPending
    <3>3. AcceptsAnother(review[Session])'
      BY <1>5, <2>2, <2>4 DEF AcceptsAnother, w
    <3> QED BY <3>2, <3>3
  <2> QED BY <1>1, <2>2, <2>3, <2>4 DEF ListInv, IsAt
<1> QED BY <1>4, <1>6

(* A cover or profile that cannot be had ends the command at its proposal, which is
   pending still. *)
LEMMA MissingKeepsListInv ==
    ASSUME Inv, ListInv, MissesImage
    PROVE  /\ ListInv' /\ db' = db
           /\ IsListing => AcceptsImage /\ IsPending(db, Value)
<1>1. /\ Ends("failed") /\ AcceptsImage /\ IsAt("accepting") /\ db' = db
      /\ review' = [review EXCEPT ![Session] = NotReviewing]
  BY DEF MissesImage, Interrupted
<1>2. review'[Session] = NotReviewing
  BY <1>1, ShellIsTyped DEF Inv
<1>3. IsListing => AcceptsAnother(review[Session])
  BY <1>1 DEF ListInv
<1>4. IsListing => IsPending(db, Value)
  BY <1>1, <1>3 DEF AcceptsAnother, AcceptsImage, NotReviewing
<1>5. ListInv'
  BY <1>1, <1>2, EndsKeepsListInv
<1> QED BY <1>1, <1>4, <1>5

(* Discarding the accepted proposal, which is none of those left. *)
LEMMA DiscardsKeepsListInv ==
    ASSUME Inv, ListInv, DiscardsNext
    PROVE  ListInv' /\ sh' = sh /\ sh.outcome = "none"
<1> DEFINE v == review[Session]
<1>1. /\ IsShell(sh) /\ sh.step = "accepting" /\ sh.outcome = "none" /\ IsAt("accepting")
      /\ v.step = "applied" /\ DiscardProposal(Session) /\ sh' = sh
  BY DEF DiscardsNext, DiscardProposal, ListInv, IsAt
<1>2. Session \in Reviewers /\ db \in Db
  BY ShellIsTyped DEF Inv, Sound, SoundBut
<1>3. review'[Session] = NotReviewing
  <2>1. [review EXCEPT ![Session] = NotReviewing][Session] = NotReviewing
    BY <1>2 DEF Inv
  <2>2. \E d : Write(d, [review EXCEPT ![Session] = NotReviewing])
    BY <1>1 DEF DiscardProposal
  <2> QED BY <2>1, <2>2, WritesKeepNotReviewing
<1>4. db' = db \/ db' = Discard(db, v.of, v.about)
  BY <1>1 DEF DiscardProposal, Write
<1> HIDE DEF v
<1>5. ASSUME NEW a, NEW t, <<a, t>> \in db.proposals, t # v.about
      PROVE  <<a, t>> \in db'.proposals
  <2>1. <<a, t>> \in Discard(db, v.of, v.about).proposals
    <3> DEFINE S == db.proposals \ {<<v.of, v.about>>}
    <3>1. Discard(db, v.of, v.about) = [db EXCEPT !.proposals = S]
      BY <1>2 DEF Discard, Db
    <3>2. <<a, t>> \in S
      BY <1>5
    <3> HIDE DEF S
    <3> QED BY <1>2, <3>1, <3>2, OneTable
  <2> QED BY <1>4, <1>5, <2>1
<1>6. ASSUME IsListing
      PROVE  ListIsPending'
  <2>1. ListIsPending /\ \A i \in 1..Len(sh.todo) : sh.todo[i] # v.about
    BY <1>1, <1>6 DEF ListInv, AcceptsAnother, NotReviewing, v
  <2> QED BY <1>1, <1>5, <2>1 DEF ListIsPending, IsPending
<1>7. IsShell(sh') /\ (IsListing' <=> IsListing)
  BY <1>1 DEF IsShell, IsListing
<1> QED BY <1>1, <1>3, <1>6, <1>7 DEF ListInv, AcceptsAnother, IsAt

(* Rejecting the next one, which is pending, leaves the others so. *)
LEMMA RejectsKeepsListInv ==
    ASSUME Inv, ListInv, RejectsNext
    PROVE  /\ ListInv'
           /\ IsListing => sh'.outcome # "failed" /\ (sh'.step = "prompt" => db' = db)
<1>1. /\ IsShell(sh) /\ sh.step = "rejecting" /\ sh.outcome = "none" /\ IsAt("rejecting")
      /\ review[Session] = NotReviewing
  BY DEF RejectsNext, ListInv, IsAt
<1>2. review' = review \/ \E d : Edits(d)
  BY DEF RejectsNext, SameRows
<1>3. review'[Session] = NotReviewing
  BY <1>1, <1>2, WritesKeepNotReviewing DEF Edits
<1>4. \A outcome : Ends(outcome) => ListInv'
  BY <1>3, EndsKeepsListInv
<1>5. CASE sh.todo = <<>>
  <2>1. Ends("ok")
    BY <1>5 DEF RejectsNext
  <2>2. sh'.outcome = "ok" /\ db' = db
    BY <1>5, <2>1 DEF Ends, AtPrompt, RejectsNext, SameRows
  <2> QED BY <1>4, <2>1, <2>2
<1>6. CASE sh.todo # <<>> /\ ~IsPending(db, Head(sh.todo))
  <2>1. Ends("failed")
    BY <1>6 DEF RejectsNext
  <2>2. ~IsListing
    <3> SUFFICES ASSUME IsListing PROVE FALSE
      OBVIOUS
    <3>1. ListIsPending
      BY DEF ListInv
    <3>2. 1 \in 1..Len(sh.todo) /\ Head(sh.todo) = sh.todo[1]
      BY <1>6, <3>1 DEF ListIsPending
    <3> QED BY <1>6, <3>1, <3>2 DEF ListIsPending
  <2> QED BY <1>4, <2>1, <2>2
<1>7. CASE sh.todo # <<>> /\ IsPending(db, Head(sh.todo))
  <2>1. /\ sh' = [sh EXCEPT !.todo = Tail(@)]
        /\ db' = Reject(db, sh.on, {<<sh.on, Head(sh.todo)>>})
    BY <1>7 DEF RejectsNext, Edits, Write
  <2>2. /\ IsShell(sh') /\ sh'.step = "rejecting" /\ sh'.outcome = "none" /\ sh'.on = sh.on
        /\ sh'.sound = sh.sound /\ sh'.alone = sh.alone
    <3> DEFINE rest == Tail(sh.todo)
    <3>1. sh' = [sh EXCEPT !.todo = rest]
      BY <2>1
    <3> HIDE DEF rest
    <3> QED BY <1>1, <3>1 DEF IsShell, ShellFields
  <2>3. Sound(db) /\ sh.on \in Entities
    BY <1>7, Tables DEF Inv, Sound, SoundBut, IsPending
  <2>4. ASSUME IsListing
        PROVE  ListIsPending'
    <3>1. ListIsPending
      BY <2>4 DEF ListInv
    <3>2. /\ sh'.todo \in Seq(About)
          /\ \A i, j \in 1..Len(sh'.todo) : sh'.todo[i] = sh'.todo[j] => i = j
          /\ \A i \in 1..Len(sh'.todo) : /\ <<sh.on, sh'.todo[i]>> \in db.proposals
                                         /\ sh'.todo[i] # Head(sh.todo)
      BY <1>1, <1>7, <2>1, <3>1, NextOfTheList
    <3>3. \A i \in 1..Len(sh'.todo) : <<sh.on, sh'.todo[i]>> \in db'.proposals
      BY <2>1, <2>3, <3>2, RejectingKeepsPending
    <3> QED BY <2>2, <3>2, <3>3 DEF ListIsPending, IsPending
  <2>5. IsListing' => IsListing
    BY <1>1, <2>2 DEF IsListing
  <2> QED BY <1>1, <1>3, <2>2, <2>4, <2>5 DEF ListInv, AcceptsAnother, IsAt
<1> QED BY <1>5, <1>6, <1>7

(* Discarding an item, and a ctrl-c, end with nothing under way. *)
LEMMA DiscardingKeepsListInv ==
    ASSUME Inv, ListInv, ReloadsIt \/ DeletesReloaded \/ CtrlC
    PROVE  ListInv'
<1>1. Session \in Reviewers /\ review = [r \in Reviewers |-> review[r]]
  BY ShellIsTyped DEF Inv
<1>2. [review EXCEPT ![Session] = NotReviewing][Session] = NotReviewing
  BY <1>1
<1>3. \A outcome : Ends(outcome) /\ review'[Session] = NotReviewing => ListInv'
  BY EndsKeepsListInv
<1>4. CASE CtrlC
  BY <1>2, <1>3, <1>4 DEF CtrlC
<1>5. CASE DeletesReloaded
  <2>1. \E d : Write(d, [review EXCEPT ![Session] = NotReviewing])
    BY <1>5 DEF DeletesReloaded, DeleteReloaded
  <2>2. review'[Session] = NotReviewing
    BY <1>2, <2>1, WritesKeepNotReviewing
  <2>3. Ends("ok") \/ Ends("failed")
    BY <1>5 DEF DeletesReloaded
  <2> QED BY <1>3, <2>2, <2>3
<1>6. CASE ReloadsIt
  <2>1. sh.step = "discarding" /\ review[Session] = NotReviewing /\ IsShell(sh)
        /\ sh.outcome = "none"
    BY <1>6 DEF ReloadsIt, ListInv, IsAt
  <2>2. CASE sh' = sh
    BY <2>1, <2>2 DEF ListInv, IsListing, IsAt, IsShell
  <2>3. CASE sh' # sh
    <3>1. /\ Ends("ok") \/ Ends("failed")
          /\ review' = review \/ \E d : Edits(d)
      BY <1>6, <2>3 DEF ReloadsIt, SameRows
    <3>2. review'[Session] = NotReviewing
      BY <2>1, <3>1, WritesKeepNotReviewing DEF Edits
    <3> QED BY <1>3, <3>1, <3>2
  <2> QED BY <2>2, <2>3
<1> QED BY <1>4, <1>5, <1>6

(* A command that others wrote beside is listing alone no more. *)
LEMMA OthersKeepListInv ==
    ASSUME ListInv, OthersEdit \/ OthersRename \/ OthersDeleteLibrary
    PROVE  ListInv' /\ sh'.outcome = sh.outcome /\ sh'.step = sh.step
<1>1. PICK todo : sh' = [sh EXCEPT !.alone = FALSE, !.todo = todo]
  BY DEF OthersEdit, OthersRename, OthersDeleteLibrary, Acts
<1>2. /\ IsShell(sh') /\ ~sh'.alone /\ sh'.step = sh.step /\ sh'.outcome = sh.outcome
  BY <1>1 DEF ListInv, IsShell, ShellFields
<1>3. review' = review \/ \E d : Edits(d)
  BY EditWrites DEF OthersEdit, OthersRename, OthersDeleteLibrary, DropLibrary
<1>4. review[Session] = NotReviewing => review'[Session] = NotReviewing
  BY <1>3, WritesKeepNotReviewing DEF Edits
<1> QED BY <1>2, <1>4 DEF ListInv, IsListing, IsAt

(* The inductive invariant: sound tables, what each reference is for, and a list that is
   pending. *)
SessionInv == Inv /\ ReferencesInv /\ ListInv

LEMMA StepKeepsListInv ==
    ASSUME SessionInv, [ShellNext]_shellVars
    PROVE  ListInv'
<1>1. Inv /\ ListInv
  BY DEF SessionInv
<1>2. CASE Command
  BY <1>1, <1>2, SmallCommandsKeepListInv, ListingKeepsListInv, AcceptsKeepsListInv,
     AppliesKeepsListInv, MissingKeepsListInv, DiscardsKeepsListInv, RejectsKeepsListInv,
     DiscardingKeepsListInv
     DEF Command
<1>3. CASE UNCHANGED shellVars
  BY <1>1, <1>3 DEF shellVars, ListInv, IsListing, ListIsPending, AcceptsAnother, IsPending,
                    IsShell, IsAt
<1> QED BY <1>1, <1>2, <1>3, LineKeepsListInv, DiscardingKeepsListInv, OthersKeepListInv
        DEF ShellNext

(* A session keeps the tables as sound as every other writer does, and its commands'
   references and lists in order. *)
THEOREM SessionsAreSound == ShellSpec => []SessionInv
<1>1. ShellInit => SessionInv
  <2> SUFFICES ASSUME ShellInit PROVE SessionInv
    OBVIOUS
  <2>1. IsShell(AtPrompt) /\ AtPrompt.step = "prompt"
    BY DEF IsShell, ShellFields, AtPrompt
  <2>2. ReferencesInv
    BY <2>1 DEF ShellInit, ReferencesInv, IsAt
  <2>3. review[Session] = NotReviewing
    BY ShellIsTyped DEF ShellInit
  <2>4. ListInv
    BY <2>1, <2>3 DEF ShellInit, ListInv, IsListing, IsAt
  <2> QED BY <2>2, <2>4, ShellInitSound DEF SessionInv
<1>2. SessionInv /\ [ShellNext]_shellVars => SessionInv'
  BY ShellKeepsInv, StepKeepsReferences, StepKeepsListInv DEF SessionInv
<1> QED BY <1>1, <1>2, PTL DEF ShellSpec

(* What one accept commits, drops or collects, and what one rejection does, never takes away
   the next proposal of the line: a command alone that lists different proposals of its
   entity ends with those pending that it has not come to, and fails only at a cover or
   profile that it cannot get, which is pending still. *)
THEOREM ListsGoThrough == ShellSpec => ListedProposalsStay
<1>1. SessionInv /\ [ShellNext]_shellVars =>
        [sh.step \in {"accepting", "rejecting"} /\ sh.sound /\ sh.alone /\ sh'.step = "prompt" =>
           /\ \A i \in DOMAIN sh.todo : IsPending(db', sh.todo[i])
           /\ sh'.outcome = "failed" => AcceptsImage /\ IsPending(db', Value)]_shellVars
  <2> SUFFICES ASSUME SessionInv, ShellNext, IsListing, sh'.step = "prompt"
               PROVE  /\ \A i \in DOMAIN sh.todo : IsPending(db', sh.todo[i])
                      /\ sh'.outcome = "failed" => AcceptsImage /\ IsPending(db', Value)
    BY DEF IsListing
  <2>1. Inv /\ ListInv /\ sh.outcome = "none" /\ sh.step \in {"accepting", "rejecting"}
    BY DEF SessionInv, ListInv, IsListing, IsAt
  <2>2. \A i \in DOMAIN sh.todo : IsPending(db, sh.todo[i])
    BY <2>1 DEF ListInv, ListIsPending
  <2>3. ~Line
    BY <2>1 DEF Line, NamesLibrary, UsesSelection, Deselects, CreatesLibrary,
        ResolvesLibrary, ResolvesSubject, SetsName, Selects, DeletesLibrary,
        LooksAfterSelection, Imports, IsAt
  <2>4. db' = db /\ (sh'.outcome = "failed" => AcceptsImage /\ IsPending(db, Value))
    <3>1. CASE Command
      <4>1. AcceptsNext \/ AppliesNext \/ MissesImage \/ DiscardsNext \/ RejectsNext
        BY <2>1, <3>1 DEF Command, Renames, Classifies, Touches, CommitsIt, DeletesIt,
            RejectsAllOfIt, RemovesTheWork, LinksTarget, CreatesTarget, RemovesARole,
            ChoosesTarget, ChoosesLink, ListsProposals, DiscardsChanges, ReloadsIt,
            DeletesReloaded, IsAt
      <4>2. ~AppliesNext /\ ~DiscardsNext
        BY <2>1, AppliesKeepsListInv, DiscardsKeepsListInv
      <4>3. AcceptsNext => db' = db
        BY DEF AcceptsNext, ReadProposal
      <4> QED BY <2>1, <4>1, <4>2, <4>3, AcceptsKeepsListInv, MissingKeepsListInv,
                 RejectsKeepsListInv
    <3>2. CASE CtrlC
      BY <3>2 DEF CtrlC, Ends, AtPrompt
    <3>3. ~(OthersEdit \/ OthersRename \/ OthersDeleteLibrary)
      BY <2>1, OthersKeepListInv
    <3> QED BY <2>3, <3>1, <3>2, <3>3 DEF ShellNext
  <2> QED BY <2>2, <2>4 DEF IsPending
<1> QED BY <1>1, SessionsAreSound, PTL DEF ShellSpec, ListedProposalsStay

(* "A committed entity never references a draft", whatever a session does and whatever others
   do beside it. *)
THEOREM SessionsKeepCommittedClosed == ShellSpec => []CommittedNeverReferencesDraft
<1>1. SessionInv => CommittedNeverReferencesDraft
  BY DEF SessionInv, Inv, Sound, SoundBut, Marked, CommittedNeverReferencesDraft
<1> QED BY <1>1, SessionsAreSound, PTL

-----------------------------------------------------------------------------
(***************************************************************************)
(* What the log tells of rows                                              *)
(***************************************************************************)
Events == [source : {"user", "enrichment", "orphan_cleanup"},
           action : {"created", "updated", "committed", "deleted"},
           subject : Entities \union {Library},
           field : Fields \union {NoField}]

IsOfLife(event, e) ==
    \/ event.subject = e /\ event.action \in {"created", "committed", "deleted"}
    \/ event.subject = Library /\ event.action = "deleted"

IsRight(event, n, e) ==
    /\ event.action = "created" => IsLive(n, e)
    /\ event.action = "committed" => IsCommitted(n, e)
    /\ event.action = "deleted" => ~IsLive(n, e)

IsUntold(events, e) == \A i \in 1..Len(events) : ~IsOfLife(events[i], e)

\* The last of these events that tells of a row is right.
EndsRight(events, n) ==
    \A e \in Entities, i \in 1..Len(events) :
        IsOfLife(events[i], e) /\ (\A j \in (i + 1)..Len(events) : ~IsOfLife(events[j], e))
            => IsRight(events[i], n, e)

\* What no event has told would be as right of `n` as it was of `d`.
Untouched(d, n, e) ==
    /\ IsLive(n, e) <=> IsLive(d, e)
    /\ IsCommitted(d, e) => IsCommitted(n, e)

\* The events account for what became of the rows between `d` and `n`.
Account(d, events, n) ==
    /\ events \in Seq(Events)
    /\ EndsRight(events, n)
    /\ \A e \in Entities : IsUntold(events, e) => Untouched(d, n, e)

(* Events that are all right, and tell of all that changed, account for it. *)
LEMMA AllRightAccount ==
    ASSUME NEW d, NEW n, NEW events \in Seq(Events),
           \A e \in Entities, i \in 1..Len(events) :
              IsOfLife(events[i], e) => IsRight(events[i], n, e),
           \A e \in Entities : IsUntold(events, e) => Untouched(d, n, e)
    PROVE  Account(d, events, n)
BY DEF Account, EndsRight

(* Events after events. *)
LEMMA Appended ==
    ASSUME NEW s \in Seq(Events), NEW t \in Seq(Events)
    PROVE  /\ s \o t \in Seq(Events) /\ Len(s \o t) = Len(s) + Len(t)
           /\ \A i \in 1..Len(s) : (s \o t)[i] = s[i]
           /\ \A i \in 1..Len(t) : (s \o t)[Len(s) + i] = t[i]
           /\ \A i \in 1..Len(s \o t) : i \in 1..Len(s) \/ \E k \in 1..Len(t) : i = Len(s) + k
           /\ Len(s) \in Nat /\ Len(t) \in Nat
<1>1. Len(s) \in Nat /\ Len(t) \in Nat /\ Len(s \o t) = Len(s) + Len(t)
  OBVIOUS
<1>2. \A i \in 1..Len(s \o t) : i \in 1..Len(s) \/ \E k \in 1..Len(t) : i = Len(s) + k
  <2> DEFINE m == Len(s)
             n == Len(t)
             all == Len(s \o t)
  <2>1. m \in Nat /\ n \in Nat /\ all = m + n
    BY <1>1
  <2> HIDE DEF m, n, all
  <2>2. ASSUME NEW i \in 1..all, i > m
        PROVE  i - m \in 1..n /\ i = m + (i - m)
    BY <2>1, <2>2
  <2>3. \A i \in 1..all : i \in 1..m \/ \E k \in 1..n : i = m + k
    BY <2>1, <2>2
  <2> QED BY <2>3 DEF m, n, all
<1>3. s \o t \in Seq(Events)
  OBVIOUS
<1>4. \A i \in 1..Len(s) : (s \o t)[i] = s[i]
  OBVIOUS
<1>5. \A i \in 1..Len(t) : (s \o t)[Len(s) + i] = t[i]
  OBVIOUS
<1> QED BY <1>1, <1>2, <1>3, <1>4, <1>5

(* A log that is right of some rows, with an account of what became of them. *)
LEMMA LogFollows ==
    ASSUME NEW m, NEW n, NEW s \in Seq(Events), EndsRight(s, m), NEW t, Account(m, t, n)
    PROVE  /\ s \o t \in Seq(Events) /\ EndsRight(s \o t, n)
           /\ \A e : IsUntold(s \o t, e) => IsUntold(s, e) /\ IsUntold(t, e)
<1> DEFINE st == s \o t
<1>1. t \in Seq(Events)
  BY DEF Account
<1>2. /\ st \in Seq(Events) /\ Len(st) = Len(s) + Len(t)
      /\ \A i \in 1..Len(s) : st[i] = s[i]
      /\ \A i \in 1..Len(t) : st[Len(s) + i] = t[i]
      /\ \A i \in 1..Len(st) : i \in 1..Len(s) \/ \E k \in 1..Len(t) : i = Len(s) + k
      /\ Len(s) \in Nat /\ Len(t) \in Nat
  BY <1>1, Appended
<1> HIDE DEF st
<1>3. ASSUME NEW e \in Entities, NEW i \in 1..Len(st), IsOfLife(st[i], e),
             \A j \in (i + 1)..Len(st) : ~IsOfLife(st[j], e)
      PROVE  IsRight(st[i], n, e)
  <2>1. CASE i \in 1..Len(s)
    <3>1. ASSUME NEW j \in (i + 1)..Len(s)
          PROVE  ~IsOfLife(s[j], e)
      BY <1>2, <1>3, <2>1
    <3>2. IsRight(s[i], m, e)
      BY <1>2, <1>3, <2>1, <3>1 DEF EndsRight
    <3>3. ASSUME NEW k \in 1..Len(t)
          PROVE  ~IsOfLife(t[k], e)
      <4>1. Len(s) + k \in (i + 1)..Len(st)
        BY <1>2, <2>1
      <4> QED BY <1>2, <1>3, <4>1
    <3>4. Untouched(m, n, e)
      BY <3>3 DEF Account, IsUntold
    <3> QED BY <1>2, <2>1, <3>2, <3>4 DEF IsRight, Untouched
  <2>2. ASSUME NEW k \in 1..Len(t), i = Len(s) + k
        PROVE  IsRight(st[i], n, e)
    <3>1. ASSUME NEW j \in (k + 1)..Len(t)
          PROVE  ~IsOfLife(t[j], e)
      <4>1. Len(s) + j \in (i + 1)..Len(st) /\ j \in 1..Len(t)
        BY <1>2, <2>2
      <4> QED BY <1>2, <1>3, <4>1
    <3> QED BY <1>2, <1>3, <2>2, <3>1 DEF Account, EndsRight
  <2> QED BY <1>2, <2>1, <2>2
<1>4. ASSUME NEW e, IsUntold(st, e)
      PROVE  IsUntold(s, e) /\ IsUntold(t, e)
  <2>1. IsUntold(s, e)
    BY <1>2, <1>4 DEF IsUntold
  <2>2. \A k \in 1..Len(t) : Len(s) + k \in 1..Len(st)
    BY <1>2
  <2> QED BY <1>2, <1>4, <2>1, <2>2 DEF IsUntold
<1> QED BY <1>2, <1>3, <1>4 DEF EndsRight, st

(* Two accounts, one after the other, are one. *)
LEMMA AccountsFollow ==
    ASSUME NEW d, NEW m, NEW n, NEW s, NEW t, Account(d, s, m), Account(m, t, n)
    PROVE  Account(d, s \o t, n)
<1>1. /\ s \o t \in Seq(Events) /\ EndsRight(s \o t, n)
      /\ \A e : IsUntold(s \o t, e) => IsUntold(s, e) /\ IsUntold(t, e)
  BY LogFollows DEF Account
<1> DEFINE st == s \o t
<1> HIDE DEF st
<1>2. ASSUME NEW e \in Entities, IsUntold(st, e)
      PROVE  Untouched(d, n, e)
  BY <1>1, <1>2 DEF Account, Untouched, st
<1> QED BY <1>1, <1>2 DEF Account, st

(* Forgetting the oldest events spoils nothing. *)
LEMMA TrimmedEndsRight ==
    ASSUME NEW n, NEW s \in Seq(Events), EndsRight(s, n), Len(s) > MaxEvents
    PROVE  Trimmed(s) \in Seq(Events) /\ EndsRight(Trimmed(s), n)
<1> DEFINE q == Trimmed(s)
           k == Len(s) - MaxEvents
<1>1. MaxEvents \in Nat /\ Len(s) \in Nat /\ k \in Nat
  BY LogIsBounded
<1>2. /\ q \in Seq(Events) /\ Len(q) = MaxEvents
      /\ \A i \in 1..Len(q) : q[i] = s[k + i] /\ k + i \in 1..Len(s)
  BY <1>1 DEF Trimmed
<1>3. Len(s) = k + Len(q)
  BY <1>1, <1>2
<1> HIDE DEF q, k
<1>4. ASSUME NEW e \in Entities, NEW i \in 1..Len(q), IsOfLife(q[i], e),
             \A j \in (i + 1)..Len(q) : ~IsOfLife(q[j], e)
      PROVE  IsRight(q[i], n, e)
  <2>1. ASSUME NEW j \in ((k + i) + 1)..Len(s)
        PROVE  ~IsOfLife(s[j], e)
    <3>1. j - k \in (i + 1)..Len(q) /\ j - k \in 1..Len(q) /\ k + (j - k) = j
      BY <1>1, <1>2, <1>3
    <3> QED BY <1>2, <1>4, <3>1
  <2> QED BY <1>2, <1>4, <2>1 DEF EndsRight
<1> QED BY <1>2, <1>4 DEF EndsRight, q

-----------------------------------------------------------------------------
(* A set in some order. *)
LEMMA InSomeOrder ==
    ASSUME NEW S, IsFiniteSet(S)
    PROVE  /\ Lists!SetToSeq(S) \in Seq(S)
           /\ \A x \in S : \E i \in 1..Len(Lists!SetToSeq(S)) : Lists!SetToSeq(S)[i] = x
<1> DEFINE c == Cardinality(S)
           q == Lists!SetToSeq(S)
<1>1. c \in Nat /\ IsFiniteSet(1..c) /\ Cardinality(1..c) = c
  BY FS_CardinalityType, FS_Interval
<1>2. \E f \in [1..c -> S] : \A i, j \in 1..c : f[i] = f[j] => i = j
  BY FS_CardinalityType DEF ExistsBijection, Bijection, Injection, IsInjective
<1>3. \E f \in [1..c -> S] : Lists!IsInjective(f)
  BY <1>2 DEF Lists!IsInjective
<1>4. q \in [1..c -> S] /\ IsInjective(q)
  <2>1. Lists!Cardinality(S) = c
    BY DEF Lists!Cardinality, Cardinality
  <2>2. q = CHOOSE f \in [1..c -> S] : Lists!IsInjective(f)
    <3> HIDE DEF c
    <3> QED BY <2>1 DEF Lists!SetToSeq
  <2>3. q \in [1..c -> S] /\ Lists!IsInjective(q)
    <3> HIDE DEF q
    <3> QED BY <1>3, <2>2
  <2> HIDE DEF q
  <2> QED BY <2>3 DEF Lists!IsInjective, IsInjective
<1> HIDE DEF q, c
<1>5. q \in Injection(1..c, S)
  BY <1>4 DEF Injection
<1>6. q \in Surjection(1..c, S)
  BY <1>1, <1>5, FS_Injection DEF c
<1>7. q \in Seq(S) /\ Len(q) = c
  BY <1>1, <1>4
<1> QED BY <1>6, <1>7 DEF Surjection, q

\* Of each of `S`, and of nothing else.
Tells(events, action, S) ==
    /\ events \in Seq(Events)
    /\ \A i \in 1..Len(events) : events[i].action = action /\ events[i].subject \in S
    /\ \A e \in S : \E i \in 1..Len(events) : events[i].subject = e

(* Events about a set: one about each of it, and none about anything else. *)
LEMMA EachIsTold ==
    ASSUME NEW source \in {"user", "enrichment", "orphan_cleanup"},
           NEW action \in {"created", "updated", "committed", "deleted"},
           NEW S \in SUBSET Entities, NEW field \in Fields \union {NoField}
    PROVE  Tells(Each(source, action, S, field), action, S)
<1> DEFINE order == Lists!SetToSeq(S)
           events == Each(source, action, S, field)
<1>1. IsFiniteSet(S)
  BY LogIsBounded, FS_Subset
<1>2. /\ order \in Seq(S) /\ Len(order) \in Nat
      /\ \A i \in 1..Len(order) : order[i] \in S
      /\ \A e \in S : \E i \in 1..Len(order) : order[i] = e
  BY <1>1, InSomeOrder
<1>3. events = [i \in 1..Len(order) |-> Event(source, action, order[i], field)]
  BY DEF Each
<1> HIDE DEF order, events
<1>4. \A e \in S : /\ Event(source, action, e, field) \in Events
                   /\ Event(source, action, e, field).action = action
                   /\ Event(source, action, e, field).subject = e
  BY DEF Event, Events
<1>5. /\ events \in Seq(Events) /\ Len(events) = Len(order)
      /\ \A i \in 1..Len(order) : events[i] = Event(source, action, order[i], field)
  BY <1>2, <1>3, <1>4
<1> QED BY <1>2, <1>4, <1>5 DEF events, Tells

-----------------------------------------------------------------------------
(***************************************************************************)
(* What each transaction records accounts for what it does                 *)
(***************************************************************************)

(* Events that only update account for what changes no mark. *)
LEMMA UpdatesAccount ==
    ASSUME NEW d, NEW n, n.mark = d.mark, NEW events \in Seq(Events),
           \A i \in 1..Len(events) : events[i].action = "updated"
    PROVE  Account(d, events, n)
<1>1. \A e \in Entities : Untouched(d, n, e)
  BY DEF Untouched, IsLive, IsCommitted
<1>2. \A e \in Entities, i \in 1..Len(events) : ~IsOfLife(events[i], e)
  BY DEF IsOfLife
<1> QED BY <1>1, <1>2 DEF Account, EndsRight

(* No event accounts for no change of a mark. *)
LEMMA NothingAccounts ==
    ASSUME NEW d, NEW n, n.mark = d.mark
    PROVE  Account(d, <<>>, n)
<1>1. <<>> \in Seq(Events) /\ \A i \in 1..Len(<<>>) : <<>>[i].action = "updated"
  OBVIOUS
<1> QED BY <1>1, UpdatesAccount

(* One event, as a list. *)
LEMMA OneEvent ==
    ASSUME NEW source \in {"user", "enrichment", "orphan_cleanup"},
           NEW action \in {"created", "updated", "committed", "deleted"},
           NEW e \in Entities \union {Library}, NEW field \in Fields \union {NoField}
    PROVE  LET event == Event(source, action, e, field) IN
           /\ <<event>> \in Seq(Events) /\ Len(<<event>>) = 1 /\ <<event>>[1] = event
           /\ event.action = action /\ event.subject = e
<1>1. Event(source, action, e, field) \in Events
  BY DEF Event, Events
<1> QED BY <1>1 DEF Event

(* The update of a field. *)
LEMMA UpdatedAccounts ==
    ASSUME NEW d, NEW n, n.mark = d.mark, NEW source \in {"user", "enrichment"},
           NEW e \in Entities \union {Library}, NEW field \in Fields
    PROVE  Account(d, <<Event(source, "updated", e, field)>>, n)
<1> DEFINE event == Event(source, "updated", e, field)
<1>1. /\ <<event>> \in Seq(Events) /\ Len(<<event>>) = 1 /\ <<event>>[1] = event
      /\ event.action = "updated"
  BY OneEvent
<1> HIDE DEF event
<1>2. \A i \in 1..Len(<<event>>) : <<event>>[i].action = "updated"
  BY <1>1
<1>3. Account(d, <<event>>, n)
  BY <1>1, <1>2, UpdatesAccount
<1> QED BY <1>3 DEF event

(* The works that inherited a classification. *)
LEMMA ClassifiedAccounts ==
    ASSUME NEW d, NEW n, n.mark = d.mark, NEW m, NEW p, NEW source \in {"user", "enrichment"}
    PROVE  Account(d, EachClassified(m, p, source), n)
<1> DEFINE S == {w \in ContentsOf(m, p) : m.kind[w] = Unclassified}
           events == Each(source, "updated", S, "classification")
<1>1. S \subseteq Entities /\ "classification" \in Fields
  BY DEF ContentsOf, Entities, Fields
<1>2. Tells(events, "updated", S)
  <2> HIDE DEF S
  <2>1. /\ source \in {"user", "enrichment", "orphan_cleanup"}
        /\ "updated" \in {"created", "updated", "committed", "deleted"}
        /\ S \in SUBSET Entities /\ "classification" \in Fields \union {NoField}
    BY <1>1
  <2> QED BY <2>1, EachIsTold
<1> HIDE DEF S
<1>3. Account(d, events, n)
  <2> HIDE DEF events
  <2> QED BY <1>2, UpdatesAccount DEF Tells
<1> QED BY <1>3 DEF S, EachClassified

(* A row that is made. *)
LEMMA CreatedAccounts ==
    ASSUME NEW d, NEW n, NEW e \in Entities, NEW mark \in {"draft", "committed"},
           n.mark = [d.mark EXCEPT ![e] = mark], d.mark \in [Entities -> Marks],
           NEW source \in {"user", "enrichment"}
    PROVE  Account(d, <<Event(source, "created", e, NoField)>>, n)
<1> DEFINE event == Event(source, "created", e, NoField)
<1>1. /\ <<event>> \in Seq(Events) /\ Len(<<event>>) = 1 /\ <<event>>[1] = event
      /\ event.action = "created" /\ event.subject = e
  BY OneEvent
<1> HIDE DEF event
<1>2. IsLive(n, e) /\ \A x \in Entities : x # e => Untouched(d, n, x)
  BY DEF Untouched, IsLive, IsCommitted
<1>3. ASSUME NEW x \in Entities, NEW i \in 1..Len(<<event>>), IsOfLife(<<event>>[i], x)
      PROVE  IsRight(<<event>>[i], n, x)
  BY <1>1, <1>2, <1>3 DEF IsOfLife, IsRight
<1>4. ASSUME NEW x \in Entities, IsUntold(<<event>>, x)
      PROVE  Untouched(d, n, x)
  BY <1>1, <1>2, <1>4 DEF IsOfLife, IsUntold
<1>5. Account(d, <<event>>, n)
  BY <1>1, <1>3, <1>4, AllRightAccount
<1> QED BY <1>5 DEF event

(* Rows that are deleted, each told of. *)
LEMMA RemovedAccounts ==
    ASSUME NEW d, NEW gone \in SUBSET Entities, NEW events,
           Tells(events, "deleted", gone)
    PROVE  Account(d, events, Remove(d, gone))
<1> DEFINE n == Remove(d, gone)
<1>1. \A e \in Entities : /\ IsLive(n, e) <=> IsLive(d, e) /\ e \notin gone
                          /\ IsCommitted(n, e) <=> IsCommitted(d, e) /\ e \notin gone
  BY RemoveTables
<1> HIDE DEF n
<1>2. ASSUME NEW e \in Entities, NEW i \in 1..Len(events), IsOfLife(events[i], e)
      PROVE  IsRight(events[i], n, e)
  BY <1>1, <1>2, LogIsBounded DEF IsOfLife, IsRight, Tells
<1>3. ASSUME NEW e \in Entities, IsUntold(events, e)
      PROVE  Untouched(d, n, e)
  <2>1. e \notin gone
    BY <1>3 DEF IsOfLife, IsUntold, Tells
  <2> QED BY <1>1, <2>1 DEF Untouched
<1>4. Account(d, events, n)
  BY <1>2, <1>3, AllRightAccount DEF Tells
<1> QED BY <1>4 DEF n

(* The one that a delete is about, ... *)
LEMMA DeletedAccounts ==
    ASSUME NEW d, NEW e \in Entities
    PROVE  Account(d, Deleted(e), Remove(d, {e}))
<1> DEFINE event == Event("user", "deleted", e, NoField)
<1>1. /\ <<event>> \in Seq(Events) /\ Len(<<event>>) = 1 /\ <<event>>[1] = event
      /\ event.action = "deleted" /\ event.subject = e
  BY OneEvent
<1> HIDE DEF event
<1>2. {e} \in SUBSET Entities /\ Tells(<<event>>, "deleted", {e})
  BY <1>1 DEF Tells
<1>3. Account(d, <<event>>, Remove(d, {e}))
  BY <1>2, RemovedAccounts
<1> QED BY <1>3 DEF event, Deleted

(* ... and the orphans it leaves. *)
LEMMA CleanedUpAccounts ==
    ASSUME NEW d, NEW orphans \in SUBSET Entities
    PROVE  Account(d, CleanedUp(orphans), Remove(d, orphans))
<1> DEFINE events == CleanedUp(orphans)
<1>1. Tells(events, "deleted", orphans)
  <2>1. /\ "orphan_cleanup" \in {"user", "enrichment", "orphan_cleanup"}
        /\ "deleted" \in {"created", "updated", "committed", "deleted"}
        /\ NoField \in Fields \union {NoField}
    OBVIOUS
  <2> QED BY <2>1, EachIsTold DEF CleanedUp
<1> HIDE DEF events
<1>2. Account(d, events, Remove(d, orphans))
  BY <1>1, RemovedAccounts
<1> QED BY <1>2 DEF events

LEMMA OrphanedPeopleAccounts ==
    ASSUME NEW d
    PROVE  Account(d, OrphanedPeople(d), CollectPeople(d))
<1>1. OrphanPeople(d) \in SUBSET Entities
  BY DEF OrphanPeople, Entities
<1> QED BY <1>1, CleanedUpAccounts DEF OrphanedPeople, CollectPeople

LEMMA OrphanedAccounts ==
    ASSUME NEW d
    PROVE  Account(d, Orphaned(d), Collect(d))
<1> DEFINE rest == Remove(d, OrphanWorks(d))
<1>1. OrphanWorks(d) \in SUBSET Entities
  BY DEF OrphanWorks, Entities
<1>2. Account(d, CleanedUp(OrphanWorks(d)), rest)
  BY <1>1, CleanedUpAccounts
<1> HIDE DEF rest
<1>3. Account(rest, CleanedUp(OrphanPeople(rest)), CollectPeople(rest))
  BY OrphanedPeopleAccounts DEF OrphanedPeople
<1>4. Account(d, CleanedUp(OrphanWorks(d)) \o CleanedUp(OrphanPeople(rest)), CollectPeople(rest))
  BY <1>2, <1>3, AccountsFollow
<1> QED BY <1>4 DEF Orphaned, Collect, rest

(* Rows that are committed, each told of. *)
LEMMA CommitRowsAccounts ==
    ASSUME NEW d \in Db, NEW these, NEW events,
           Drafts(d, these) \subseteq Entities,
           Tells(events, "committed", Drafts(d, these))
    PROVE  Account(d, events, CommitRows(d, these))
<1> DEFINE n == CommitRows(d, these)
           committed == Drafts(d, these)
<1>1. n.mark = [e \in Entities |-> IF e \in committed THEN "committed" ELSE d.mark[e]]
  BY CommitRowsTyped DEF Drafts
<1>2. \A e \in committed : IsDraft(d, e)
  BY DEF Drafts
<1> HIDE DEF n, committed
<1>3. \A e \in Entities : /\ IsLive(n, e) <=> IsLive(d, e)
                          /\ IsCommitted(n, e) <=> IsCommitted(d, e) \/ e \in committed
  BY <1>1, <1>2 DEF IsLive, IsCommitted, IsDraft
<1>4. \A e \in Entities : Untouched(d, n, e)
  BY <1>3 DEF Untouched
<1>5. ASSUME NEW e \in Entities, NEW i \in 1..Len(events), IsOfLife(events[i], e)
      PROVE  IsRight(events[i], n, e)
  <2>1. events[i].action = "committed" /\ events[i].subject \in committed
    BY DEF committed, Tells
  <2>2. events[i].subject = e
    BY <1>5, <2>1 DEF IsOfLife
  <2> QED BY <1>3, <2>1, <2>2 DEF IsRight
<1>6. Account(d, events, n)
  BY <1>4, <1>5, AllRightAccount DEF Tells
<1> QED BY <1>6 DEF n

LEMMA EachCommittedAccounts ==
    ASSUME NEW d \in Db, NEW these, Drafts(d, these) \subseteq Entities
    PROVE  Account(d, EachCommitted(Drafts(d, these)), CommitRows(d, these))
<1> DEFINE S == Drafts(d, these)
           events == EachCommitted(S)
<1>1. Tells(events, "committed", S)
  <2> HIDE DEF S
  <2>1. S \in SUBSET Entities
    BY DEF S
  <2> QED BY <2>1, EachIsTold DEF EachCommitted
<1> HIDE DEF events
<1>2. Account(d, events, CommitRows(d, these))
  BY <1>1, CommitRowsAccounts
<1> QED BY <1>2 DEF events

-----------------------------------------------------------------------------
(***************************************************************************)
(* The operations whose events and effects have several parts              *)
(***************************************************************************)
LEMMA AddWorkAccounts ==
    ASSUME NEW d, Sound(d), NEW p \in Publications, NEW w \in Works, IsLive(d, p), IsLive(d, w)
    PROVE  Account(d, EventsOfAddWork(d, p, w), AddWork(d, p, w))
<1> USE LinkedRows
<1> DEFINE linked == Link(d, p, w)
           reached == ContentsOf(linked, p) \union ContributorsOf(d, w)
           commits == IF IsDraft(d, p) THEN {} ELSE Drafts(d, reached)
           committed == CommitRows(linked, commits)
           collected == IF commits = {} THEN committed ELSE CollectPeople(committed)
           after == Inherit(collected, p, d.kind[p])
           orphaned == IF commits = {} THEN <<>> ELSE OrphanedPeople(committed)
           classified == IF d.kind[p] = Unclassified THEN <<>> ELSE EachClassified(linked, p, "user")
<1>1. linked \in Db /\ linked.mark = d.mark /\ d \in Db
  <2>1. d \in Db
    BY DEF Sound, SoundBut
  <2>2. linked \in Db /\ linked.mark = d.mark
    BY LinkTables, ZenonT(60)
  <2> QED BY <2>1, <2>2
<1>2. CASE <<p, w>> \in d.links
  BY <1>2, NothingAccounts DEF EventsOfAddWork, AddWork
<1>3. CASE <<p, w>> \notin d.links
  <2>1. IsCommitted(d, p) <=> ~IsDraft(d, p)
    BY <1>1, Tables DEF IsLive, IsDraft, IsCommitted, Marks
  <2>2. AddWork(d, p, w) = after
    BY <1>3, <2>1 DEF AddWork, Drafts
  <2>3. EventsOfAddWork(d, p, w)
          = ((Updated(p, "contents") \o EachCommitted(commits)) \o orphaned) \o classified
    BY <1>3 DEF EventsOfAddWork
  <2>4. commits \subseteq Entities /\ Drafts(linked, commits) = commits
    BY <1>1 DEF Drafts, IsDraft, ContentsOf, ContributorsOf, Entities
  <2>5. Account(d, Updated(p, "contents"), linked)
    <3>1. "contents" \in Fields /\ "user" \in {"user", "enrichment"} /\ p \in Entities \union {Library}
      BY DEF Fields
    <3> HIDE DEF linked
    <3> QED BY <1>1, <3>1, UpdatedAccounts DEF Updated
  <2> HIDE DEF commits, linked
  <2>6. committed \in Db /\ Account(linked, EachCommitted(commits), committed)
    BY <1>1, <2>4, EachCommittedAccounts, CommitRowsTyped
  <2> HIDE DEF committed
  <2>7. Account(committed, orphaned, collected)
    BY NothingAccounts, OrphanedPeopleAccounts
  <2>8. collected \in Db
    BY <2>6, RemoveTyped DEF CollectPeople
  <2> HIDE DEF collected, orphaned
  <2>9. Account(collected, classified, after)
    <3>1. after.mark = collected.mark
      BY <2>8, InheritTables
    <3> HIDE DEF after
    <3> QED BY <3>1, NothingAccounts, ClassifiedAccounts
  <2> HIDE DEF after, classified
  <2>10. Account(d, Updated(p, "contents") \o EachCommitted(commits), committed)
    BY <2>5, <2>6, AccountsFollow
  <2>11. Account(d, (Updated(p, "contents") \o EachCommitted(commits)) \o orphaned, collected)
    BY <2>7, <2>10, AccountsFollow
  <2>12. Account(d, ((Updated(p, "contents") \o EachCommitted(commits)) \o orphaned) \o classified,
                 after)
    BY <2>9, <2>11, AccountsFollow
  <2> QED BY <2>2, <2>3, <2>12
<1> QED BY <1>2, <1>3

LEMMA AddContributorAccounts ==
    ASSUME NEW d, Sound(d), NEW a \in Parents, NEW x \in People, IsLive(d, a), IsLive(d, x)
    PROVE  Account(d, EventsOfAddContributor(d, a, x), AddContributor(d, a, x))
<1> USE LinkedRows
<1> DEFINE linked == Link(d, a, x)
           these == ContributorsOf(d, a) \union {x}
           after == CommitRows(linked, these)
<1>1. d \in Db /\ linked \in Db /\ linked.mark = d.mark
      /\ linked.links = d.links \union {<<a, x>>}
  <2>1. d \in Db
    BY DEF Sound, SoundBut
  <2>2. /\ linked \in Db /\ linked.mark = d.mark
        /\ linked.links = d.links \union {<<a, x>>}
    BY LinkTables, IdsAreDistinct, ZenonT(60)
  <2> QED BY <2>1, <2>2
<1>2. CASE <<a, x>> \in d.links
  BY <1>2, NothingAccounts DEF EventsOfAddContributor, AddContributor
<1>3. Account(d, Updated(a, "contributors"), linked)
  <2>1. /\ "contributors" \in Fields /\ "user" \in {"user", "enrichment"}
        /\ a \in Entities \union {Library}
    BY DEF Fields
  <2> HIDE DEF linked
  <2> QED BY <1>1, <2>1, UpdatedAccounts DEF Updated
<1>4. IsCommitted(d, a) <=> ~IsDraft(d, a)
  BY <1>1, Tables DEF IsLive, IsDraft, IsCommitted, Marks
<1>5. CASE <<a, x>> \notin d.links /\ IsDraft(d, a)
  <2>1. AddContributor(d, a, x) = linked
    BY <1>4, <1>5 DEF AddContributor
  <2>2. EventsOfAddContributor(d, a, x) = Updated(a, "contributors") \o EachCommitted({})
    BY <1>5 DEF EventsOfAddContributor
  <2>3. Tells(EachCommitted({}), "committed", {})
    <3>1. {} \in SUBSET Entities
      OBVIOUS
    <3> QED BY <3>1, EachIsTold DEF EachCommitted
  <2>4. Account(linked, EachCommitted({}), linked)
    <3>1. \A i \in 1..Len(EachCommitted({})) : EachCommitted({})[i].action = "updated"
      BY <2>3 DEF Tells
    <3> HIDE DEF linked
    <3> QED BY <2>3, <3>1, UpdatesAccount DEF Tells
  <2> HIDE DEF linked
  <2> QED BY <1>3, <2>1, <2>2, <2>4, AccountsFollow
<1>6. CASE <<a, x>> \notin d.links /\ ~IsDraft(d, a)
  <2>1. ContributorsOf(linked, a) = these
    BY <1>1 DEF ContributorsOf
  <2>2. AddContributor(d, a, x) = after
    BY <1>4, <1>6, <2>1 DEF AddContributor
  <2>3. EventsOfAddContributor(d, a, x)
          = Updated(a, "contributors") \o EachCommitted(Drafts(d, these))
    BY <1>6 DEF EventsOfAddContributor
  <2>4. Drafts(linked, these) = Drafts(d, these) /\ Drafts(d, these) \subseteq Entities
    BY <1>1 DEF Drafts, IsDraft, ContributorsOf, Entities
  <2> HIDE DEF linked, these
  <2>5. Account(linked, EachCommitted(Drafts(d, these)), after)
    BY <1>1, <2>4, EachCommittedAccounts
  <2> HIDE DEF after
  <2> QED BY <1>3, <2>2, <2>3, <2>5, AccountsFollow
<1> QED BY <1>2, <1>5, <1>6

LEMMA RemovesAccount ==
    ASSUME NEW d, Sound(d), NEW a \in Parents, NEW e
    PROVE  /\ Account(d, EventsOfRemoveWork(d, a, e), RemoveWork(d, a, e))
           /\ Account(d, EventsOfRemoveContributor(d, a, e), RemoveContributor(d, a, e))
<1> DEFINE unlinked == Unlink(d, a, e)
<1>1. unlinked.mark = d.mark
  <2>1. d \in Db /\ unlinked = [d EXCEPT !.links = d.links \ {<<a, e>>}]
    BY DEF Sound, SoundBut, Unlink, Db
  <2> QED BY <2>1, OneTable
<1>2. CASE <<a, e>> \notin d.links
  BY <1>2, NothingAccounts DEF EventsOfRemoveWork, EventsOfRemoveContributor, RemoveWork,
                               RemoveContributor
<1>3. CASE <<a, e>> \in d.links
  <2> HIDE DEF unlinked
  <2>1. ASSUME NEW field \in {"contents", "contributors"}
        PROVE  Account(d, Updated(a, field), unlinked)
    <3>1. field \in Fields /\ "user" \in {"user", "enrichment"} /\ a \in Entities \union {Library}
      BY LinkedRows DEF Fields
    <3> QED BY <1>1, <3>1, UpdatedAccounts DEF Updated
  <2>2. /\ Account(d, Updated(a, "contents") \o Orphaned(unlinked), Collect(unlinked))
        /\ Account(d, Updated(a, "contributors") \o OrphanedPeople(unlinked),
                   CollectPeople(unlinked))
    BY <2>1, OrphanedAccounts, OrphanedPeopleAccounts, AccountsFollow
  <2> QED BY <1>3, <2>2 DEF EventsOfRemoveWork, EventsOfRemoveContributor, RemoveWork,
                            RemoveContributor, unlinked
<1> QED BY <1>2, <1>3

LEMMA DeleteAccounts ==
    ASSUME NEW d, NEW e \in Entities
    PROVE  Account(d, EventsOfDelete(d, e), Delete(d, e))
<1> DEFINE gone == Remove(d, {e})
<1>1. Account(d, Deleted(e), gone)
  BY DeletedAccounts
<1>2. Account(gone, <<>>, gone)
  BY NothingAccounts
<1> HIDE DEF gone
<1>3. /\ Account(d, Deleted(e) \o Orphaned(gone), Collect(gone))
      /\ Account(d, Deleted(e) \o OrphanedPeople(gone), CollectPeople(gone))
      /\ Account(d, Deleted(e) \o <<>>, gone)
  BY <1>1, <1>2, OrphanedAccounts, OrphanedPeopleAccounts, AccountsFollow
<1> QED BY <1>3 DEF EventsOfDelete, Delete, gone

LEMMA RejectAccounts ==
    ASSUME NEW d \in Db, NEW e, NEW rejected
    PROVE  Account(d, EventsOfReject(d, e, rejected), Reject(d, e, rejected))
<1> DEFINE rest == [d EXCEPT !.proposals = @ \ rejected]
<1>1. rest.mark = d.mark
  <2>1. rest = [d EXCEPT !.proposals = d.proposals \ rejected]
    BY DEF Db
  <2> QED BY <2>1, OneTable
<1> HIDE DEF rest
<1>2. /\ Account(rest, Orphaned(rest), Collect(rest))
      /\ Account(rest, OrphanedPeople(rest), CollectPeople(rest))
  BY OrphanedAccounts, OrphanedPeopleAccounts
<1>3. Account(d, <<>>, rest)
  BY <1>1, NothingAccounts
<1>4. ASSUME NEW events, NEW n, Account(rest, events, n)
      PROVE  Account(d, events, n)
  <2>1. \A c \in Entities : Untouched(rest, n, c) => Untouched(d, n, c)
    BY <1>1 DEF Untouched, IsLive, IsCommitted
  <2> QED BY <1>4, <2>1 DEF Account
<1> QED BY <1>2, <1>3, <1>4 DEF EventsOfReject, Reject, rest

LEMMA BothTell ==
    ASSUME NEW action, NEW s, NEW S, Tells(s, action, S), NEW t, NEW T, Tells(t, action, T)
    PROVE  Tells(s \o t, action, S \union T)
<1> DEFINE st == s \o t
<1>1. s \in Seq(Events) /\ t \in Seq(Events)
  BY DEF Tells
<1>2. /\ st \in Seq(Events) /\ Len(st) = Len(s) + Len(t)
      /\ \A i \in 1..Len(s) : st[i] = s[i]
      /\ \A i \in 1..Len(t) : st[Len(s) + i] = t[i]
      /\ \A i \in 1..Len(st) : i \in 1..Len(s) \/ \E k \in 1..Len(t) : i = Len(s) + k
      /\ Len(s) \in Nat /\ Len(t) \in Nat
  BY <1>1, Appended
<1> HIDE DEF st
<1>3. ASSUME NEW i \in 1..Len(st)
      PROVE  st[i].action = action /\ st[i].subject \in S \union T
  <2>1. CASE i \in 1..Len(s)
    BY <1>2, <2>1 DEF Tells
  <2>2. ASSUME NEW k \in 1..Len(t), i = Len(s) + k
        PROVE  st[i].action = action /\ st[i].subject \in T
    BY <1>2, <2>2 DEF Tells
  <2> QED BY <1>2, <2>1, <2>2
<1>4. ASSUME NEW e \in S \union T
      PROVE  \E i \in 1..Len(st) : st[i].subject = e
  <2>1. CASE e \in S
    <3>1. PICK i \in 1..Len(s) : s[i].subject = e
      BY <2>1 DEF Tells
    <3>2. i \in 1..Len(st)
      BY <1>2
    <3> QED BY <1>2, <3>1, <3>2
  <2>2. CASE e \in T
    <3>1. PICK i \in 1..Len(t) : t[i].subject = e
      BY <2>2 DEF Tells
    <3>2. Len(s) + i \in 1..Len(st)
      BY <1>2
    <3> QED BY <1>2, <3>1, <3>2
  <2> QED BY <2>1, <2>2
<1> QED BY <1>2, <1>3, <1>4 DEF Tells, st

LEMMA CommitAccounts ==
    ASSUME NEW d \in Db, NEW e \in Entities
    PROVE  Account(d, EventsOfCommit(d, e), Commit(d, e))
<1> DEFINE closure == CommitClosure(d, e)
           with == Drafts(d, closure \ {e})
           committed == CommitRows(d, closure)
           events == Committed(e) \o EachCommitted(with)
<1>1. CASE ~IsDraft(d, e)
  BY <1>1, NothingAccounts DEF EventsOfCommit, Commit
<1>2. CASE IsDraft(d, e)
  <2>1. closure \subseteq Entities /\ e \in closure
    BY DEF CommitClosure, ContentsOf, ContributorsOf, Entities
  <2> HIDE DEF closure
  <2>2. with \in SUBSET Entities /\ Drafts(d, closure) = {e} \union with
    BY <1>2, <2>1 DEF Drafts
  <2> HIDE DEF with
  <2>3. Tells(EachCommitted(with), "committed", with)
    <3>1. /\ "committed" \in {"created", "updated", "committed", "deleted"}
          /\ "user" \in {"user", "enrichment", "orphan_cleanup"}
          /\ NoField \in Fields \union {NoField}
      OBVIOUS
    <3> QED BY <2>2, <3>1, EachIsTold DEF EachCommitted
  <2>4. Tells(Committed(e), "committed", {e})
    <3> DEFINE event == Event("user", "committed", e, NoField)
    <3>1. /\ <<event>> \in Seq(Events) /\ Len(<<event>>) = 1 /\ <<event>>[1] = event
          /\ event.action = "committed" /\ event.subject = e
      BY OneEvent
    <3> HIDE DEF event
    <3>2. Tells(<<event>>, "committed", {e})
      BY <3>1 DEF Tells
    <3> QED BY <3>2 DEF event, Committed
  <2>5. Tells(events, "committed", Drafts(d, closure))
    BY <2>2, <2>3, <2>4, BothTell
  <2> HIDE DEF events
  <2>6. Account(d, events, committed)
    BY <2>1, <2>2, <2>5, CommitRowsAccounts DEF Drafts
  <2> HIDE DEF committed
  <2>7. Account(committed, <<>>, committed)
    BY NothingAccounts
  <2>8. /\ Account(d, events \o Orphaned(committed), Collect(committed))
        /\ Account(d, events \o OrphanedPeople(committed), CollectPeople(committed))
        /\ Account(d, events \o <<>>, committed)
    BY <2>6, <2>7, OrphanedAccounts, OrphanedPeopleAccounts, AccountsFollow
  <2>9. EventsOfCommit(d, e)
          = events \o (IF e \in Publications THEN Orphaned(committed)
                       ELSE IF e \in Works THEN OrphanedPeople(committed) ELSE <<>>)
    BY <1>2 DEF EventsOfCommit, events, committed, with, closure
  <2>10. Commit(d, e) = IF e \in Publications THEN Collect(committed)
                        ELSE IF e \in Works THEN CollectPeople(committed) ELSE committed
    BY <1>2 DEF Commit, committed, closure
  <2> QED BY <2>8, <2>9, <2>10
<1> QED BY <1>1, <1>2

(* A new row in a parent: two events. *)
LEMMA CreatesAccount ==
    ASSUME NEW d, Sound(d), NEW a \in Parents, IsLive(d, a),
           NEW e \in Works \union People, ~IsLive(d, e), NEW n,
           n.mark = Insert(d, e, d.mark[a]).mark, NEW field \in {"contents", "contributors"}
    PROVE  Account(d, Created(e) \o Updated(a, field), n)
<1> DEFINE mark == d.mark[a]
           m == Insert(d, e, mark)
<1>1. /\ d \in Db /\ d.mark \in [Entities -> Marks] /\ e \in Entities /\ a \in Entities
      /\ mark \in {"draft", "committed"}
  BY LinkedRows, Tables DEF Sound, SoundBut, IsLive, Marks
<1> HIDE DEF mark
<1>2. m.mark = [d.mark EXCEPT ![e] = mark]
  <2>1. m = [d EXCEPT !.mark = [d.mark EXCEPT ![e] = mark]]
    BY <1>1 DEF Insert, Db
  <2> QED BY <1>1, <2>1 DEF Db
<1> HIDE DEF m
<1>3. Account(d, Created(e), m)
  BY <1>1, <1>2, CreatedAccounts DEF Created
<1>4. Account(m, Updated(a, field), n)
  <2>1. field \in Fields /\ "user" \in {"user", "enrichment"} /\ a \in Entities \union {Library}
    BY <1>1 DEF Fields
  <2>2. n.mark = m.mark
    BY DEF m, mark
  <2> QED BY <2>1, <2>2, UpdatedAccounts DEF Updated
<1> QED BY <1>3, <1>4, AccountsFollow

-----------------------------------------------------------------------------
(***************************************************************************)
(* The log                                                                 *)
(***************************************************************************)
LogIsRight == log \in Seq(Events) /\ EndsRight(log, db)

(* The inductive invariant: the catalog's, and a log that ends right. *)
AuditInv == Inv /\ LogIsRight

(* What is recorded follows what the log told before, trimmed or not. *)
LEMMA RecordFollows ==
    ASSUME LogIsRight, NEW events, NEW n, Account(db, events, n), Record(events), db' = n
    PROVE  LogIsRight'
<1> DEFINE all == log \o events
<1>1. all \in Seq(Events) /\ EndsRight(all, n)
  BY LogFollows DEF LogIsRight
<1>2. log' = IF Len(all) <= MaxEvents THEN all ELSE Trimmed(all)
  BY DEF Record
<1> HIDE DEF all
<1>3. Len(all) \in Nat /\ MaxEvents \in Nat
  BY <1>1, LogIsBounded
<1>4. CASE Len(all) <= MaxEvents
  BY <1>1, <1>2, <1>4 DEF LogIsRight
<1>5. CASE Len(all) > MaxEvents
  <2>1. Trimmed(all) \in Seq(Events) /\ EndsRight(Trimmed(all), n)
    BY <1>1, <1>5, TrimmedEndsRight
  <2>2. log' = Trimmed(all)
    BY <1>2, <1>3, <1>5
  <2> QED BY <2>1, <2>2 DEF LogIsRight
<1> QED BY <1>3, <1>4, <1>5

LEMMA TransactionFollows ==
    ASSUME LogIsRight, NEW d, NEW events, Transacts(d, events), Account(db, events, d)
    PROVE  LogIsRight'
BY RecordFollows DEF Transacts, Write

(* An operation of the audited engine is one of the catalog's, ... *)
LEMMA AuditedEdits ==
    /\ AuditedImport => Import
    /\ AuditedClassify => Classify
    /\ AuditedClassifyIfUnset => ClassifyIfUnset
    /\ AuditedClassifyWork => ClassifyWork
    /\ AuditedCreateWork => CreateWork
    /\ AuditedCreateContributor => CreateContributor
    /\ AuditedAddWork => AddsWork
    /\ AuditedRemoveWork => RemovesWork
    /\ AuditedAddContributor => AddsContributor
    /\ AuditedRemoveContributor => RemovesContributor
    /\ AuditedProposeNew => ProposesNew
    /\ AuditedReject => Rejects
    /\ AuditedRejectAll => RejectsAll
    /\ AuditedCommit => Commits
    /\ AuditedDelete => Deletes
<1>1. \A d, events : Transacts(d, events) => Edits(d)
  BY DEF Transacts, Edits
<1>2. AuditedImport => Import
  BY <1>1 DEF AuditedImport, Import
<1>3. AuditedClassify => Classify
  BY <1>1 DEF AuditedClassify, Classify, WriteClassification
<1>4. AuditedClassifyIfUnset => ClassifyIfUnset
  BY <1>1 DEF AuditedClassifyIfUnset, ClassifyIfUnset, WriteClassification
<1>5. AuditedClassifyWork => ClassifyWork
  BY <1>1 DEF AuditedClassifyWork, ClassifyWork
<1>6. AuditedCreateWork => CreateWork
  BY <1>1 DEF AuditedCreateWork, CreateWork
<1>7. AuditedCreateContributor => CreateContributor
  BY <1>1 DEF AuditedCreateContributor, CreateContributor
<1>8. /\ AuditedAddWork => AddsWork
      /\ AuditedRemoveWork => RemovesWork
  BY <1>1 DEF AuditedAddWork, AddsWork, AuditedRemoveWork, RemovesWork
<1>9. /\ AuditedAddContributor => AddsContributor
      /\ AuditedRemoveContributor => RemovesContributor
  BY <1>1 DEF AuditedAddContributor, AddsContributor, AuditedRemoveContributor,
              RemovesContributor
<1>10. AuditedProposeNew => ProposesNew
  BY <1>1 DEF AuditedProposeNew, ProposesNew
<1>11. /\ AuditedReject => Rejects
       /\ AuditedRejectAll => RejectsAll
  BY <1>1 DEF AuditedReject, Rejects, AuditedRejectAll, RejectsAll, Rejected
<1>12. /\ AuditedCommit => Commits
       /\ AuditedDelete => Deletes
  BY <1>1 DEF AuditedCommit, Commits, AuditedDelete, Deletes
<1> QED BY <1>2, <1>3, <1>4, <1>5, <1>6, <1>7, <1>8, <1>9, <1>10, <1>11, <1>12

(* ... and what it records accounts for what that does. *)
LEMMA AuditedEditsFollow ==
    ASSUME Inv, LogIsRight,
           \/ AuditedImport \/ AuditedClassify \/ AuditedClassifyIfUnset \/ AuditedClassifyWork
           \/ AuditedCreateWork \/ AuditedCreateContributor
           \/ AuditedAddWork \/ AuditedRemoveWork
           \/ AuditedAddContributor \/ AuditedRemoveContributor
           \/ AuditedProposeNew \/ AuditedReject \/ AuditedRejectAll
           \/ AuditedCommit \/ AuditedDelete
    PROVE  LogIsRight'
<1> USE LinkedRows
<1>1. Sound(db) /\ db \in Db /\ db.mark \in [Entities -> Marks]
  BY Tables DEF Inv, Sound, SoundBut
<1>2. CASE AuditedImport
  <2>1. PICK p \in Publications : ~IsLive(db, p) /\ Transacts(Insert(db, p, "draft"), Created(p))
    BY <1>2 DEF AuditedImport, Fresh
  <2>2. Insert(db, p, "draft").mark = [db.mark EXCEPT ![p] = "draft"]
    BY <1>1, <2>1, InsertSound
  <2>3. Account(db, Created(p), Insert(db, p, "draft"))
    BY <1>1, <2>2, CreatedAccounts DEF Created
  <2> QED BY <2>1, <2>3, TransactionFollows
<1>3. CASE AuditedClassify \/ AuditedClassifyIfUnset
  <2>1. PICK p \in Publications, k \in Kinds, source \in {"user", "enrichment"} :
            WriteClassification(p, k, source)
    BY <1>3 DEF AuditedClassify, AuditedClassifyIfUnset, Live
  <2> DEFINE m == [db EXCEPT !.kind[p] = k]
             n == Inherit(m, p, k)
             events == <<Event(source, "updated", p, "classification")>>
                         \o EachClassified(db, p, source)
  <2>2. m \in Db /\ m.mark = db.mark
    BY <1>1, KindTables
  <2>3. Transacts(n, events)
    BY <2>1 DEF WriteClassification
  <2> HIDE DEF m
  <2>4. n.mark = db.mark
    BY <2>2, InheritTables
  <2> HIDE DEF n
  <2>5. Account(db, <<Event(source, "updated", p, "classification")>>, n)
    <3>1. "classification" \in Fields /\ p \in Entities \union {Library}
      BY DEF Fields
    <3> QED BY <2>4, <3>1, UpdatedAccounts
  <2>6. Account(n, EachClassified(db, p, source), n)
    BY ClassifiedAccounts
  <2> QED BY <2>3, <2>5, <2>6, AccountsFollow, TransactionFollows
<1>4. CASE AuditedClassifyWork
  <2>1. PICK w \in Works, k \in Kinds :
            Transacts([db EXCEPT !.kind[w] = k], Updated(w, "classification"))
    BY <1>4 DEF AuditedClassifyWork, Live
  <2> DEFINE n == [db EXCEPT !.kind[w] = k]
  <2>2. n.mark = db.mark
    BY <1>1, KindTables
  <2> HIDE DEF n
  <2>3. /\ "classification" \in Fields /\ "user" \in {"user", "enrichment"}
        /\ w \in Entities \union {Library}
    BY DEF Fields
  <2>4. Account(db, Updated(w, "classification"), n)
    BY <2>2, <2>3, UpdatedAccounts DEF Updated
  <2> QED BY <2>1, <2>4, TransactionFollows DEF n
<1>5. CASE AuditedCreateWork
  <2>1. PICK p \in Publications, w \in Works :
            /\ IsLive(db, p) /\ ~IsLive(db, w)
            /\ Transacts([Link(Insert(db, w, db.mark[p]), p, w) EXCEPT !.kind[w] = db.kind[p]],
                         Created(w) \o Updated(p, "contents"))
    BY <1>5 DEF AuditedCreateWork, Live, Fresh
  <2> DEFINE inserted == Insert(db, w, db.mark[p])
             linked == Link(inserted, p, w)
             n == [linked EXCEPT !.kind[w] = db.kind[p]]
  <2>2. n.mark = inserted.mark
    <3>1. DOMAIN inserted = DOMAIN db
      BY DEF Insert
    <3>2. DOMAIN linked = DOMAIN inserted /\ linked.mark = inserted.mark
      BY DEF Link
    <3> HIDE DEF linked
    <3>3. n.mark = linked.mark
      OBVIOUS
    <3> QED BY <3>2, <3>3
  <2>3. Account(db, Created(w) \o Updated(p, "contents"), n)
    <3> HIDE DEF n
    <3> QED BY <1>1, <2>1, <2>2, CreatesAccount
  <2> QED BY <2>1, <2>3, TransactionFollows
<1>6. CASE AuditedCreateContributor
  <2>1. PICK a \in Parents, x \in People :
            /\ IsLive(db, a) /\ ~IsLive(db, x)
            /\ Transacts(Link(Insert(db, x, db.mark[a]), a, x),
                         Created(x) \o Updated(a, "contributors"))
    BY <1>6 DEF AuditedCreateContributor, Live, Fresh
  <2> DEFINE inserted == Insert(db, x, db.mark[a])
             n == Link(inserted, a, x)
  <2>2. n.mark = inserted.mark
    BY DEF Link
  <2>3. Account(db, Created(x) \o Updated(a, "contributors"), n)
    <3> HIDE DEF n
    <3> QED BY <1>1, <2>1, <2>2, CreatesAccount
  <2> QED BY <2>1, <2>3, TransactionFollows
<1>7. CASE AuditedAddWork
  <2>1. PICK p \in Publications, w \in Works :
            /\ IsLive(db, p) /\ IsLive(db, w)
            /\ Transacts(AddWork(db, p, w), EventsOfAddWork(db, p, w))
    BY <1>7 DEF AuditedAddWork, Live
  <2> QED BY <1>1, <2>1, AddWorkAccounts, TransactionFollows
<1>8. CASE AuditedAddContributor
  <2>1. PICK a \in Parents, x \in People :
            /\ IsLive(db, a) /\ IsLive(db, x)
            /\ Transacts(AddContributor(db, a, x), EventsOfAddContributor(db, a, x))
    BY <1>8 DEF AuditedAddContributor, Live
  <2> QED BY <1>1, <2>1, AddContributorAccounts, TransactionFollows
<1>9. CASE AuditedRemoveWork
  <2>1. PICK p \in Publications, w \in Works :
            Transacts(RemoveWork(db, p, w), EventsOfRemoveWork(db, p, w))
    BY <1>9 DEF AuditedRemoveWork, Live
  <2> QED BY <1>1, <2>1, RemovesAccount, TransactionFollows
<1>10. CASE AuditedRemoveContributor
  <2>1. PICK a \in Parents, x \in People :
            Transacts(RemoveContributor(db, a, x), EventsOfRemoveContributor(db, a, x))
    BY <1>10 DEF AuditedRemoveContributor, Live
  <2> QED BY <1>1, <2>1, RemovesAccount, TransactionFollows
<1>11. CASE AuditedProposeNew
  <2>1. PICK a \in Parents, e \in Works \union People :
            /\ ~IsLive(db, e)
            /\ Transacts(Propose(Insert(db, e, "draft"), a, e),
                         <<Event("enrichment", "created", e, NoField)>>)
    BY <1>11 DEF AuditedProposeNew, Live, Fresh
  <2> DEFINE inserted == Insert(db, e, "draft")
             n == Propose(inserted, a, e)
  <2>2. inserted.mark = [db.mark EXCEPT ![e] = "draft"]
    BY <1>1, <2>1, InsertSound
  <2>3. n.mark = inserted.mark
    BY DEF Propose
  <2> HIDE DEF inserted, n
  <2>4. Account(db, <<Event("enrichment", "created", e, NoField)>>, n)
    BY <1>1, <2>2, <2>3, CreatedAccounts
  <2> QED BY <2>1, <2>4, TransactionFollows DEF n, inserted
<1>12. CASE AuditedReject \/ AuditedRejectAll
  <2>1. PICK e, rejected : Transacts(Reject(db, e, rejected), EventsOfReject(db, e, rejected))
    BY <1>12 DEF AuditedReject, AuditedRejectAll, Rejected
  <2> QED BY <1>1, <2>1, RejectAccounts, TransactionFollows
<1>13. CASE AuditedCommit
  <2>1. PICK e \in Entities : Transacts(Commit(db, e), EventsOfCommit(db, e))
    BY <1>13 DEF AuditedCommit, Live
  <2> QED BY <1>1, <2>1, CommitAccounts, TransactionFollows
<1>14. CASE AuditedDelete
  <2>1. PICK e \in Entities : Transacts(Delete(db, e), EventsOfDelete(db, e))
    BY <1>14 DEF AuditedDelete, Live
  <2> QED BY <2>1, DeleteAccounts, TransactionFollows
<1> QED BY <1>2, <1>3, <1>4, <1>5, <1>6, <1>7, <1>8, <1>9, <1>10, <1>11, <1>12, <1>13, <1>14

(* Editing a field touches no row. *)
LEMMA FieldEditsFollow ==
    ASSUME LogIsRight, NEW e \in Entities \union {Library}, NEW field \in Fields, NEW same,
           Record(IF same THEN <<>> ELSE Updated(e, field)), UNCHANGED db
    PROVE  LogIsRight'
<1>1. Account(db, <<>>, db)
  BY NothingAccounts
<1>2. Account(db, Updated(e, field), db)
  <2>1. "user" \in {"user", "enrichment"}
    OBVIOUS
  <2> QED BY <2>1, UpdatedAccounts DEF Updated
<1>3. CASE same
  BY <1>1, <1>3, RecordFollows
<1>4. CASE ~same
  BY <1>2, <1>4, RecordFollows
<1> QED BY <1>3, <1>4

LEMMA ToFieldFollows ==
    ASSUME LogIsRight, NEW e \in Entities \union {Library}, NEW v, UNCHANGED db,
           ToValue(e, v) \/ ToItems(e, v)
    PROVE  LogIsRight'
<1>1. "value" \in Fields /\ "items" \in Fields
  BY DEF Fields
<1>2. CASE ToValue(e, v)
  BY <1>1, <1>2, FieldEditsFollow DEF ToValue
<1>3. CASE ToItems(e, v)
  BY <1>1, <1>3, FieldEditsFollow DEF ToItems
<1> QED BY <1>2, <1>3

LEMMA FieldsFollow ==
    ASSUME LogIsRight,
           \/ SetsPublicationField \/ SetsWorkField \/ RenamesPerson \/ SetsLibraryField
           \/ EditsPublicationItems \/ EditsWorkItems \/ EditsPersonItems
    PROVE  UNCHANGED <<db, review>> /\ LogIsRight'
<1>1. CASE SetsPublicationField \/ SetsWorkField \/ RenamesPerson \/ SetsLibraryField
  <2>1. PICK e \in Entities \union {Library}, v \in Values : SetValue(e, v)
    BY <1>1, IdsAreDistinct DEF SetsPublicationField, SetsWorkField, RenamesPerson,
                                SetsLibraryField, Live
  <2> QED BY <2>1, ToFieldFollows DEF SetValue
<1>2. CASE EditsPublicationItems \/ EditsWorkItems \/ EditsPersonItems
  <2>1. PICK e \in Entities : AddsOrRemoves(e)
    BY <1>2, IdsAreDistinct DEF EditsPublicationItems, EditsWorkItems, EditsPersonItems, Live
  <2>2. PICK i \in Items : SetItems(e, items[e] \union {i}) \/ SetItems(e, items[e] \ {i})
    BY <2>1 DEF AddsOrRemoves
  <2> QED BY <2>2, ToFieldFollows DEF SetItems
<1> QED BY <1>1, <1>2

(* The deletion of a library is told of once, for every row it held. *)
LEMMA LibraryFollows ==
    ASSUME LogIsRight, AuditedCreateLibrary \/ AuditedDeleteLibrary
    PROVE  LogIsRight'
<1>1. ASSUME NEW action \in {"created", "deleted"}
      PROVE  LET event == Event("user", action, Library, NoField) IN
             /\ <<event>> \in Seq(Events) /\ Len(<<event>>) = 1 /\ <<event>>[1] = event
             /\ event.action = action /\ event.subject = Library
  BY OneEvent
<1>2. CASE AuditedCreateLibrary
  <2> DEFINE event == Event("user", "created", Library, NoField)
  <2>1. /\ <<event>> \in Seq(Events) /\ Len(<<event>>) = 1 /\ <<event>>[1] = event
        /\ event.action = "created" /\ event.subject = Library
    BY <1>1
  <2> HIDE DEF event
  <2>2. \A e \in Entities, i \in 1..Len(<<event>>) : ~IsOfLife(<<event>>[i], e)
    BY <2>1, LogIsBounded DEF IsOfLife
  <2>3. Account(db, <<event>>, db)
    BY <2>1, <2>2 DEF Account, EndsRight, Untouched
  <2> QED BY <1>2, <2>3, RecordFollows DEF AuditedCreateLibrary, Created, event
<1>3. CASE AuditedDeleteLibrary
  <2> DEFINE event == Event("user", "deleted", Library, NoField)
             n == Remove(db, Entities)
  <2>1. /\ <<event>> \in Seq(Events) /\ Len(<<event>>) = 1 /\ <<event>>[1] = event
        /\ event.action = "deleted" /\ event.subject = Library
    BY <1>1
  <2>2. \A e \in Entities : ~IsLive(n, e)
    BY RemoveTables
  <2> HIDE DEF event, n
  <2>3. ASSUME NEW e \in Entities, NEW i \in 1..Len(<<event>>)
        PROVE  IsOfLife(<<event>>[i], e) /\ IsRight(<<event>>[i], n, e)
    BY <2>1, <2>2 DEF IsOfLife, IsRight
  <2>4. \A e \in Entities : ~IsUntold(<<event>>, e)
    BY <2>1, <2>3 DEF IsUntold
  <2>5. Account(db, <<event>>, n)
    BY <2>1, <2>3, <2>4, AllRightAccount
  <2> QED BY <1>3, <2>5, RecordFollows DEF AuditedDeleteLibrary, Write, Deleted, event, n
<1> QED BY <1>2, <1>3

(* A reviewer's accept is audited as the edit that it is, and its discard as the
   deletion that it makes. *)
LEMMA ReviewersFollow ==
    ASSUME Inv, LogIsRight, NEW r \in Reviewers, AuditedApply(r) \/ AuditedDeleteReloaded(r)
    PROVE  Review(r) /\ LogIsRight'
<1> DEFINE a == review[r].of
           about == review[r].about
<1>1. Sound(db) /\ IsReview(review[r])
  BY DEF Inv
<1>2. CASE AuditedApply(r)
  <2>1. review[r].step = "read" /\ IsLive(db, a)
    BY <1>2 DEF AuditedApply
  <2>2. /\ a \in Entities /\ about \in Works \union People \union {Value}
        /\ about # Value => a \in Parents
        /\ about \in Works => a \in Publications
    BY <1>1, <2>1 DEF IsReview
  <2>3. CASE about # Value
    <3>1. /\ IsLive(db, about) /\ Write(Apply(db, a, about), Accepted(r))
          /\ Record(IF about \in Works THEN EventsOfAddWork(db, a, about)
                    ELSE EventsOfAddContributor(db, a, about))
      BY <1>2, <2>3 DEF AuditedApply
    <3>2. ApplyProposal(r)
      BY <2>1, <3>1 DEF ApplyProposal, Accepted
    <3>3. db' = Apply(db, a, about)
      BY <3>1 DEF Write
    <3> HIDE DEF a, about
    <3>4. CASE about \in Works
      <4>1. Account(db, EventsOfAddWork(db, a, about), AddWork(db, a, about))
        BY <1>1, <2>1, <2>2, <3>1, <3>4, AddWorkAccounts DEF a, about
      <4> QED BY <3>1, <3>2, <3>3, <3>4, <4>1, RecordFollows DEF Apply, Review
    <3>5. CASE about \notin Works
      <4>1. about \in People
        BY <2>2, <2>3, <3>5
      <4>2. Account(db, EventsOfAddContributor(db, a, about), AddContributor(db, a, about))
        BY <1>1, <2>1, <2>2, <2>3, <3>1, <4>1, AddContributorAccounts DEF a, about
      <4> QED BY <3>1, <3>2, <3>3, <3>5, <4>1, <4>2, RecordFollows DEF Apply, Review
    <3> QED BY <3>4, <3>5
  <2>4. CASE about = Value
    <3>1. /\ Write(db, Accepted(r))
          /\ \/ \E v \in Values : ToValue(a, v)
             \/ \E i \in Items : ToItems(a, items[a] \union {i})
      BY <1>2, <2>4 DEF AuditedApply
    <3>2. Apply(db, a, about) = db
      BY <2>4, IdsAreDistinct DEF Apply, Entities
    <3>3. ApplyProposal(r)
      BY <2>1, <2>4, <3>1, <3>2 DEF ApplyProposal, Accepted
    <3>4. UNCHANGED db /\ a \in Entities \union {Library}
      BY <2>2, <3>1 DEF Write
    <3>5. LogIsRight'
      <4> HIDE DEF a
      <4> QED BY <3>1, <3>4, ToFieldFollows
    <3> QED BY <3>3, <3>5 DEF Review
  <2> QED BY <2>3, <2>4
<1>3. CASE AuditedDeleteReloaded(r)
  <2>1. /\ DeleteReloaded(r) /\ a \in Entities
        /\ db' = IF IsLive(db, a) THEN Delete(db, a) ELSE db
        /\ Record(IF IsLive(db, a) THEN EventsOfDelete(db, a) ELSE <<>>)
    BY <1>1, <1>3 DEF AuditedDeleteReloaded, DeleteReloaded, Write, IsReview
  <2> HIDE DEF a
  <2>2. Account(db, EventsOfDelete(db, a), Delete(db, a)) /\ Account(db, <<>>, db)
    BY <2>1, DeleteAccounts, NothingAccounts
  <2>3. LogIsRight'
    BY <2>1, <2>2, RecordFollows
  <2> QED BY <2>1, <2>3 DEF Review
<1> QED BY <1>2, <1>3

(* Every step keeps the invariant. *)
LEMMA AuditStepKeepsInv ==
    ASSUME AuditInv, [AuditNext]_auditVars
    PROVE  AuditInv'
<1>1. Inv /\ LogIsRight
  BY DEF AuditInv
<1>2. Edit => Inv'
  BY <1>1, EditKeepsInv
<1>3. \A r \in Reviewers : Review(r) => Inv'
  BY <1>1, ReviewKeepsInv
<1>4. ASSUME UNCHANGED <<db, review>>
      PROVE  Inv'
  BY <1>1, <1>4, SameTablesKeepInv
<1>5. ASSUME UNCHANGED log, UNCHANGED db
      PROVE  LogIsRight'
  BY <1>1, <1>5 DEF LogIsRight
<1>6. CASE \/ AuditedImport \/ AuditedClassify \/ AuditedClassifyIfUnset \/ AuditedClassifyWork
           \/ AuditedCreateWork \/ AuditedCreateContributor
           \/ AuditedAddWork \/ AuditedRemoveWork
           \/ AuditedAddContributor \/ AuditedRemoveContributor
           \/ AuditedProposeNew \/ AuditedReject \/ AuditedRejectAll
           \/ AuditedCommit \/ AuditedDelete
  <2>1. LogIsRight'
    BY <1>1, <1>6, AuditedEditsFollow
  <2>2. Edit
    BY <1>6, AuditedEdits DEF Edit
  <2> QED BY <1>2, <2>1, <2>2 DEF AuditInv
<1>7. CASE \/ SetsPublicationField \/ SetsWorkField \/ RenamesPerson \/ SetsLibraryField
           \/ EditsPublicationItems \/ EditsWorkItems \/ EditsPersonItems
  BY <1>1, <1>4, <1>7, FieldsFollow DEF AuditInv
<1>8. CASE AuditedCreateLibrary
  BY <1>1, <1>4, <1>8, LibraryFollows DEF AuditInv, AuditedCreateLibrary
<1>9. CASE AuditedDeleteLibrary
  <2>1. Sound(Remove(db, Entities)) /\ \A r \in Reviewers : IsReview(review[r])
    BY <1>1, RemoveSound DEF Inv, Sound
  <2>2. Write(Remove(db, Entities), review)
    BY <1>9 DEF AuditedDeleteLibrary
  <2>3. Inv'
    BY <2>1, <2>2, WriteKeepsInv
  <2> QED BY <1>1, <1>9, <2>3, LibraryFollows DEF AuditInv
<1>10. CASE (ProposesLink \/ ProposesValue) /\ Unaudited
  <2>1. Edit /\ UNCHANGED log
    BY <1>10 DEF Edit, Unaudited
  <2>2. LogIsRight'
    <3>1. PICK a, about : Edits(Propose(db, a, about))
      BY <1>10 DEF ProposesLink, ProposesValue
    <3>2. db'.mark = db.mark
      BY <3>1 DEF Edits, Write, Propose
    <3>3. \A e \in Entities : /\ IsLive(db', e) <=> IsLive(db, e)
                              /\ IsCommitted(db', e) <=> IsCommitted(db, e)
      BY <3>2 DEF IsLive, IsCommitted
    <3> QED BY <1>1, <2>1, <3>3 DEF LogIsRight, EndsRight, IsRight
  <2> QED BY <1>2, <2>1, <2>2 DEF AuditInv
<1>11. ASSUME NEW r \in Reviewers, AuditedApply(r) \/ AuditedDeleteReloaded(r)
       PROVE  AuditInv'
  BY <1>1, <1>3, <1>11, ReviewersFollow DEF AuditInv
<1>12. ASSUME NEW r \in Reviewers, UnauditedDiscard(r)
       PROVE  AuditInv'
  <2>1. Review(r) /\ UNCHANGED log
    BY <1>12 DEF UnauditedDiscard, Review, Unaudited
  <2>2. LogIsRight'
    <3>1. db' = db \/ db' = Discard(db, review[r].of, review[r].about)
      BY <1>12 DEF UnauditedDiscard, DiscardProposal, Write
    <3>2. db'.mark = db.mark
      <4>1. \A a, about : Discard(db, a, about).mark = db.mark
        BY DEF Discard
      <4> QED BY <3>1, <4>1
    <3>3. \A e \in Entities : /\ IsLive(db', e) <=> IsLive(db, e)
                              /\ IsCommitted(db', e) <=> IsCommitted(db, e)
      BY <3>2 DEF IsLive, IsCommitted
    <3> QED BY <1>1, <2>1, <3>3 DEF LogIsRight, EndsRight, IsRight
  <2> QED BY <1>3, <2>1, <2>2 DEF AuditInv
<1>13. ASSUME NEW r \in Reviewers, ReviewReads(r)
       PROVE  AuditInv'
  <2>1. Review(r) /\ UNCHANGED log /\ UNCHANGED db
    BY <1>13 DEF ReviewReads, Review, Unaudited, ReadProposal, ReloadDraft, Interrupted
  <2> QED BY <1>3, <1>5, <2>1 DEF AuditInv
<1>14. CASE UNCHANGED auditVars
  BY <1>4, <1>5, <1>14 DEF auditVars, AuditInv
<1>15. CASE AuditStep
  BY <1>6, <1>7, <1>8, <1>9, <1>10, <1>11, <1>12, <1>15 DEF AuditStep
<1> QED BY <1>13, <1>14, <1>15 DEF AuditNext

(* The first event is of the library, and tells of no row. *)
LEMMA AuditInitInv == AuditInit => AuditInv
<1> SUFFICES ASSUME AuditInit PROVE AuditInv
  OBVIOUS
<1> DEFINE event == Event("user", "created", Library, NoField)
<1>1. Init /\ log = <<event>>
  BY DEF AuditInit, Created
<1>2. /\ <<event>> \in Seq(Events) /\ Len(<<event>>) = 1 /\ <<event>>[1] = event
      /\ event.action = "created" /\ event.subject = Library
  BY OneEvent
<1> HIDE DEF event
<1>3. \A e \in Entities, i \in 1..Len(<<event>>) : ~IsOfLife(<<event>>[i], e)
  BY <1>2, LogIsBounded DEF IsOfLife
<1> QED BY <1>1, <1>2, <1>3, InitInv DEF AuditInv, LogIsRight, EndsRight

(* "The log and the catalog never disagree": what the log last tells of a row, by
   any edit, cascade, collection or accepted proposal, and after any trimming, is
   how the row is. *)
THEOREM LogTellsTheTruth == AuditSpec => []LogTellsWhoIsThere
<1>1. AuditInv => LogTellsWhoIsThere
  <2> SUFFICES ASSUME AuditInv, NEW e \in Entities, NEW i \in 1..Len(log), IsLastWord(i, e)
               PROVE  CASE log[i].action = "created" -> IsLive(db, e)
                        [] log[i].action = "committed" -> IsCommitted(db, e)
                        [] log[i].action = "deleted" -> ~IsLive(db, e)
    BY DEF LogTellsWhoIsThere
  <2>1. IsOfLife(log[i], e) /\ \A j \in (i + 1)..Len(log) : ~IsOfLife(log[j], e)
    BY DEF IsLastWord, TellsOfLife, IsOfLife
  <2>2. IsRight(log[i], db, e)
    BY <2>1 DEF AuditInv, LogIsRight, EndsRight
  <2>3. log[i].action \in {"created", "committed", "deleted"}
    BY <2>1 DEF IsOfLife
  <2> QED BY <2>2, <2>3 DEF IsRight
<1>2. AuditInv /\ [AuditNext]_auditVars => AuditInv'
  BY AuditStepKeepsInv
<1> QED BY <1>1, <1>2, AuditInitInv, PTL DEF AuditSpec

-----------------------------------------------------------------------------
(***************************************************************************)
(* What a transaction records is what it changes                           *)
(***************************************************************************)

\* What events tell: pairs of a topic and of what they are about.
Topic(event) == IF event.action = "updated" THEN event.field ELSE event.action
Says(events) == {<<Topic(events[i]), events[i].subject>> : i \in 1..Len(events)}

Topics == {"created", "committed", "deleted"} \union Fields
IsSilent(events, e) == \A topic \in Topics : <<topic, e>> \notin Says(events)

\* What a transaction from `d` to `n` has to tell of `e`, and may not tell otherwise.
Remains(d, n, e) == IsLive(d, e) /\ IsLive(n, e)
IsRelinked(d, n, e, t) == ~(<<e, t>> \in d.links <=> <<e, t>> \in n.links)

LifeIsTold(d, said, n, e) ==
    /\ <<"created", e>> \in said <=> ~IsLive(d, e) /\ IsLive(n, e)
    /\ <<"committed", e>> \in said <=> IsDraft(d, e) /\ IsCommitted(n, e)
    /\ <<"deleted", e>> \in said <=> IsLive(d, e) /\ ~IsLive(n, e)
LinksAreTold(d, said, n, e, field, S) ==
    /\ <<field, e>> \in said => Remains(d, n, e) /\ \E t \in S : IsRelinked(d, n, e, t)
    /\ Remains(d, n, e) /\ (\E t \in S : IsRelinked(d, n, e, t) /\ IsLive(n, t))
         => <<field, e>> \in said
KindIsTold(d, said, n, e) ==
    /\ <<"classification", e>> \in said => e \in Parents
    /\ e \in Parents =>
         (<<"classification", e>> \in said <=> Remains(d, n, e) /\ d.kind[e] # n.kind[e])

\* Rows, their links and kinds, but not the other fields
Explains(d, said, n) ==
    /\ <<"deleted", Library>> \notin said
    /\ \A e \in Entities :
         /\ LifeIsTold(d, said, n, e)
         /\ LinksAreTold(d, said, n, e, "contents", Works)
         /\ LinksAreTold(d, said, n, e, "contributors", People)
         /\ KindIsTold(d, said, n, e)
         /\ <<"value", e>> \notin said /\ <<"items", e>> \notin said

Tallies(d, events, n) == events \in Seq(Events) /\ Explains(d, Says(events), n)

(* Nothing says nothing, ... *)
LEMMA NothingSays == <<>> \in Seq(Events) /\ Says(<<>>) = {}
<1>1. <<>> \in Seq(Events) /\ Len(<<>>) = 0
  OBVIOUS
<1>2. 1..0 = {}
  OBVIOUS
<1> QED BY <1>1, <1>2 DEF Says

(* ... one event what it is of, ... *)
LEMMA OneSays ==
    ASSUME NEW source \in {"user", "enrichment", "orphan_cleanup"},
           NEW action \in {"created", "updated", "committed", "deleted"},
           NEW e \in Entities \union {Library}, NEW field \in Fields \union {NoField}
    PROVE  /\ <<Event(source, action, e, field)>> \in Seq(Events)
           /\ Says(<<Event(source, action, e, field)>>)
                = {<<IF action = "updated" THEN field ELSE action, e>>}
<1> DEFINE event == Event(source, action, e, field)
           topic == IF action = "updated" THEN field ELSE action
<1>1. /\ <<event>> \in Seq(Events) /\ Len(<<event>>) = 1 /\ <<event>>[1] = event
      /\ event.action = action /\ event.subject = e
  BY OneEvent
<1>2. event.field = field
  BY DEF Event
<1> HIDE DEF event
<1>3. Topic(event) = topic
  BY <1>1, <1>2 DEF Topic
<1>4. Says(<<event>>) = {<<topic, e>>}
  <2>1. 1..1 = {1}
    OBVIOUS
  <2> HIDE DEF topic
  <2> QED BY <1>1, <1>3, <2>1 DEF Says
<1> QED BY <1>1, <1>4 DEF event

(* ... events after events what both say, ... *)
LEMMA BothSay ==
    ASSUME NEW s \in Seq(Events), NEW t \in Seq(Events)
    PROVE  s \o t \in Seq(Events) /\ Says(s \o t) = Says(s) \union Says(t)
<1> DEFINE st == s \o t
<1>1. /\ st \in Seq(Events) /\ Len(st) = Len(s) + Len(t)
      /\ \A i \in 1..Len(s) : st[i] = s[i]
      /\ \A i \in 1..Len(t) : st[Len(s) + i] = t[i]
      /\ \A i \in 1..Len(st) : i \in 1..Len(s) \/ \E k \in 1..Len(t) : i = Len(s) + k
      /\ Len(s) \in Nat /\ Len(t) \in Nat
  BY Appended
<1> HIDE DEF st
<1>2. \A i \in 1..Len(s) : i \in 1..Len(st)
  BY <1>1
<1>3. \A i \in 1..Len(t) : Len(s) + i \in 1..Len(st)
  BY <1>1
<1>4. ASSUME NEW x \in Says(st)
      PROVE  x \in Says(s) \union Says(t)
  <2>1. PICK i \in 1..Len(st) : x = <<Topic(st[i]), st[i].subject>>
    BY DEF Says
  <2>2. CASE i \in 1..Len(s)
    BY <1>1, <2>1, <2>2 DEF Says
  <2>3. ASSUME NEW k \in 1..Len(t), i = Len(s) + k
        PROVE  x \in Says(t)
    <3>1. st[i] = t[k]
      BY <1>1, <2>3
    <3> QED BY <2>1, <3>1 DEF Says
  <2> QED BY <1>1, <2>2, <2>3
<1>5. ASSUME NEW x \in Says(s)
      PROVE  x \in Says(st)
  <2>1. PICK i \in 1..Len(s) : x = <<Topic(s[i]), s[i].subject>>
    BY DEF Says
  <2>2. st[i] = s[i]
    BY <1>1
  <2> QED BY <1>2, <2>1, <2>2 DEF Says
<1>6. ASSUME NEW x \in Says(t)
      PROVE  x \in Says(st)
  <2>1. PICK i \in 1..Len(t) : x = <<Topic(t[i]), t[i].subject>>
    BY DEF Says
  <2>2. st[Len(s) + i] = t[i]
    BY <1>1
  <2> QED BY <1>3, <2>1, <2>2 DEF Says
<1>7. Says(st) = Says(s) \union Says(t)
  BY <1>4, <1>5, <1>6
<1> QED BY <1>1, <1>7 DEF st

\* Of each of `S` the same, and of nothing else.
SayOfEach(events, topic, S) == events \in Seq(Events) /\ Says(events) = {topic} \X S

(* ... and those about a set the same of each of it. *)
LEMMA EachSays ==
    ASSUME NEW source \in {"user", "enrichment", "orphan_cleanup"},
           NEW action \in {"created", "updated", "committed", "deleted"},
           NEW S \in SUBSET Entities, NEW field \in Fields \union {NoField}
    PROVE  SayOfEach(Each(source, action, S, field),
                     IF action = "updated" THEN field ELSE action, S)
<1> DEFINE order == Lists!SetToSeq(S)
           events == Each(source, action, S, field)
           topic == IF action = "updated" THEN field ELSE action
<1>1. IsFiniteSet(S)
  BY LogIsBounded, FS_Subset
<1>2. /\ order \in Seq(S) /\ Len(order) \in Nat
      /\ \A i \in 1..Len(order) : order[i] \in S
      /\ \A e \in S : \E i \in 1..Len(order) : order[i] = e
  BY <1>1, InSomeOrder
<1>3. events = [i \in 1..Len(order) |-> Event(source, action, order[i], field)]
  BY DEF Each
<1>4. events \in Seq(Events)
  BY EachIsTold DEF Tells
<1> HIDE DEF order, events
<1>5. \A e \in S : /\ Topic(Event(source, action, e, field)) = topic
                   /\ Event(source, action, e, field).subject = e
  BY DEF Event, Topic
<1>6. /\ Len(events) = Len(order)
      /\ \A i \in 1..Len(order) : events[i] = Event(source, action, order[i], field)
  BY <1>2, <1>3
<1> HIDE DEF topic
<1>7. \A i \in 1..Len(order) :
          /\ order[i] \in S
          /\ <<Topic(events[i]), events[i].subject>> = <<topic, order[i]>>
  BY <1>2, <1>5, <1>6
<1>8. Says(events) = {<<topic, order[i]>> : i \in 1..Len(order)}
  BY <1>6, <1>7 DEF Says
<1>9. Says(events) = {topic} \X S
  <2>1. {topic} \X S = {<<topic, e>> : e \in S}
    OBVIOUS
  <2>2. {<<topic, order[i]>> : i \in 1..Len(order)} = {<<topic, e>> : e \in S}
    BY <1>2
  <2> QED BY <1>8, <2>1, <2>2
<1> QED BY <1>4, <1>9 DEF events, topic, SayOfEach

-----------------------------------------------------------------------------
(***************************************************************************)
(* What a transaction changes first, as what it records first tells        *)
(***************************************************************************)

(* What is the same rows, links and kinds needs no event. *)
LEMMA NothingToTell ==
    ASSUME NEW d, NEW n, n.mark = d.mark, n.kind = d.kind, n.links = d.links
    PROVE  Explains(d, {}, n) /\ Tallies(d, <<>>, n)
<1>1. \A e \in Entities : (IsLive(d, e) <=> IsLive(n, e)) /\ ~(IsDraft(d, e) /\ IsCommitted(n, e))
  BY DEF IsLive, IsDraft, IsCommitted
<1>2. \A e, t : ~IsRelinked(d, n, e, t)
  BY DEF IsRelinked
<1>3. Explains(d, {}, n)
  BY <1>1, <1>2 DEF Explains, LifeIsTold, LinksAreTold, KindIsTold
<1> QED BY <1>3, NothingSays DEF Tallies

(* One link more or less. *)
LEMMA OneLinkTallies ==
    ASSUME NEW d, NEW n, n.mark = d.mark, n.kind = d.kind,
           NEW a \in Parents, IsLive(d, a), NEW e,
           \/ n.links = d.links \union {<<a, e>>} /\ <<a, e>> \notin d.links
           \/ n.links = d.links \ {<<a, e>>} /\ <<a, e>> \in d.links
    PROVE  /\ e \in Works => Tallies(d, Updated(a, "contents"), n)
           /\ e \in People => Tallies(d, Updated(a, "contributors"), n)
<1> USE LinkedRows
<1>1. \A c \in Entities : (IsLive(d, c) <=> IsLive(n, c)) /\ ~(IsDraft(d, c) /\ IsCommitted(n, c))
  BY DEF IsLive, IsDraft, IsCommitted
<1>2. \A c, t : IsRelinked(d, n, c, t) <=> c = a /\ t = e
  BY DEF IsRelinked
<1>3. ASSUME NEW field \in {"contents", "contributors"}
      PROVE  Updated(a, field) \in Seq(Events) /\ Says(Updated(a, field)) = {<<field, a>>}
  BY OneSays DEF Updated, Fields
<1>4. ASSUME e \in Works
      PROVE  Explains(d, {<<"contents", a>>}, n)
  BY <1>1, <1>2, <1>4, IdsAreDistinct
     DEF Explains, LifeIsTold, LinksAreTold, KindIsTold, Remains
<1>5. ASSUME e \in People
      PROVE  Explains(d, {<<"contributors", a>>}, n)
  BY <1>1, <1>2, <1>5, IdsAreDistinct
     DEF Explains, LifeIsTold, LinksAreTold, KindIsTold, Remains
<1> QED BY <1>3, <1>4, <1>5 DEF Tallies

(* One kind set to another. *)
LEMMA OneKindTallies ==
    ASSUME NEW d \in Db, NEW p \in Parents, IsLive(d, p), NEW k, d.kind[p] # k,
           NEW source \in {"user", "enrichment"}
    PROVE  Tallies(d, <<Event(source, "updated", p, "classification")>>,
                   [d EXCEPT !.kind[p] = k])
<1> USE LinkedRows
<1> DEFINE kinds == [d.kind EXCEPT ![p] = k]
           n == [d EXCEPT !.kind = kinds]
           events == <<Event(source, "updated", p, "classification")>>
<1>1. [d EXCEPT !.kind[p] = k] = n
  BY DEF Db
<1>2. n.mark = d.mark /\ n.kind = kinds /\ n.links = d.links
  <2> HIDE DEF kinds
  <2>1. n = [mark |-> d.mark, kind |-> kinds, links |-> d.links, proposals |-> d.proposals]
    BY OneTable
  <2> QED BY <2>1
<1>3. \A e \in Parents : d.kind[e] # kinds[e] <=> e = p
  BY Tables
<1>4. events \in Seq(Events) /\ Says(events) = {<<"classification", p>>}
  <2>1. "classification" \in Fields \union {NoField} /\ p \in Entities \union {Library}
    BY DEF Fields
  <2>2. "updated" \in {"created", "updated", "committed", "deleted"}
    OBVIOUS
  <2>3. source \in {"user", "enrichment", "orphan_cleanup"}
    OBVIOUS
  <2> QED BY <2>1, <2>2, <2>3, OneSays
<1> HIDE DEF kinds, n, events
<1>5. \A e \in Entities : (IsLive(d, e) <=> IsLive(n, e)) /\ ~(IsDraft(d, e) /\ IsCommitted(n, e))
  BY <1>2 DEF IsLive, IsDraft, IsCommitted
<1>6. \A e, t : ~IsRelinked(d, n, e, t)
  BY <1>2 DEF IsRelinked
<1>7. Explains(d, {<<"classification", p>>}, n)
  BY <1>2, <1>3, <1>5, <1>6 DEF Explains, LifeIsTold, LinksAreTold, KindIsTold, Remains
<1> QED BY <1>1, <1>4, <1>7 DEF Tallies, events

(* One row less, with all that refers to it. *)
LEMMA OneDeletedTallies ==
    ASSUME NEW d \in Db, NEW e \in Entities, IsLive(d, e)
    PROVE  Tallies(d, Deleted(e), Remove(d, {e}))
<1> DEFINE n == Remove(d, {e})
<1>1. \A c \in Entities : /\ IsLive(n, c) <=> IsLive(d, c) /\ c # e
                          /\ IsCommitted(n, c) <=> IsCommitted(d, c) /\ c # e
  BY RemoveTables
<1>2. /\ \A a, t : a # e /\ t # e => ~IsRelinked(d, n, a, t)
      /\ \A c \in Parents : c # e => n.kind[c] = d.kind[c]
  BY DEF Remove, IsRelinked
<1> HIDE DEF n
<1>3. \A c \in Entities : ~(IsDraft(d, c) /\ IsCommitted(n, c))
  BY <1>1 DEF IsDraft, IsCommitted
<1>4. \A c \in Entities, t \in Entities :
          Remains(d, n, c) /\ IsRelinked(d, n, c, t) => ~IsLive(n, t)
  BY <1>1, <1>2 DEF Remains
<1>5. Explains(d, {<<"deleted", e>>}, n)
  BY <1>1, <1>2, <1>3, <1>4, LogIsBounded
     DEF Explains, LifeIsTold, LinksAreTold, KindIsTold, Remains, Entities
<1>6. Deleted(e) \in Seq(Events) /\ Says(Deleted(e)) = {<<"deleted", e>>}
  BY OneSays DEF Deleted
<1> QED BY <1>5, <1>6 DEF Tallies, n

(* One row more. *)
LEMMA OneCreatedTallies ==
    ASSUME NEW d \in Db, NEW e \in Entities, ~IsLive(d, e), NEW mark \in {"draft", "committed"},
           NEW n, n.mark = [d.mark EXCEPT ![e] = mark], n.kind = d.kind, n.links = d.links,
           NEW source \in {"user", "enrichment"}
    PROVE  Tallies(d, <<Event(source, "created", e, NoField)>>, n)
<1>1. /\ \A c \in Entities : IsLive(n, c) <=> IsLive(d, c) \/ c = e
      /\ \A c \in Entities : ~(IsDraft(d, c) /\ IsCommitted(n, c))
  BY Tables DEF IsLive, IsDraft, IsCommitted
<1>2. \A c, t : ~IsRelinked(d, n, c, t)
  BY DEF IsRelinked
<1>3. Explains(d, {<<"created", e>>}, n)
  BY <1>1, <1>2 DEF Explains, LifeIsTold, LinksAreTold, KindIsTold, Remains
<1>4. /\ <<Event(source, "created", e, NoField)>> \in Seq(Events)
      /\ Says(<<Event(source, "created", e, NoField)>>) = {<<"created", e>>}
  BY OneSays
<1> QED BY <1>3, <1>4 DEF Tallies

(* One row more, in a parent that was there. *)
LEMMA CreatesTallies ==
    ASSUME NEW d \in Db, Linked(d), NEW a \in Parents, IsLive(d, a),
           NEW e \in Works \union People, ~IsLive(d, e),
           NEW mark \in {"draft", "committed"},
           NEW n, n.mark = [d.mark EXCEPT ![e] = mark], n.links = d.links \union {<<a, e>>},
           \A c \in Parents : c # e => n.kind[c] = d.kind[c]
    PROVE  /\ e \in Works => Tallies(d, Created(e) \o Updated(a, "contents"), n)
           /\ e \in People => Tallies(d, Created(e) \o Updated(a, "contributors"), n)
<1> USE LinkedRows
<1>1. /\ \A c \in Entities : IsLive(n, c) <=> IsLive(d, c) \/ c = e
      /\ \A c \in Entities : ~(IsDraft(d, c) /\ IsCommitted(n, c))
  BY Tables DEF IsLive, IsDraft, IsCommitted
<1>2. \A c, t : IsRelinked(d, n, c, t) <=> c = a /\ t = e
  <2>1. <<a, e>> \notin d.links
    BY DEF Linked
  <2> QED BY <2>1 DEF IsRelinked
<1>3. \A c \in Parents : Remains(d, n, c) => n.kind[c] = d.kind[c]
  BY DEF Remains
<1>4. Remains(d, n, a)
  BY <1>1 DEF Remains
<1>5. ASSUME NEW field \in {"contents", "contributors"}
      PROVE  /\ Created(e) \o Updated(a, field) \in Seq(Events)
             /\ Says(Created(e) \o Updated(a, field)) = {<<"created", e>>, <<field, a>>}
  <2>1. Created(e) \in Seq(Events) /\ Says(Created(e)) = {<<"created", e>>}
    BY OneSays DEF Created
  <2>2. Updated(a, field) \in Seq(Events) /\ Says(Updated(a, field)) = {<<field, a>>}
    BY OneSays DEF Updated, Fields
  <2> QED BY <2>1, <2>2, BothSay
<1>6. ASSUME e \in Works
      PROVE  Explains(d, {<<"created", e>>, <<"contents", a>>}, n)
  BY <1>1, <1>2, <1>3, <1>4, <1>6, IdsAreDistinct
     DEF Explains, LifeIsTold, LinksAreTold, KindIsTold
<1>7. ASSUME e \in People
      PROVE  Explains(d, {<<"created", e>>, <<"contributors", a>>}, n)
  BY <1>1, <1>2, <1>3, <1>4, <1>7, IdsAreDistinct
     DEF Explains, LifeIsTold, LinksAreTold, KindIsTold
<1> QED BY <1>5, <1>6, <1>7 DEF Tallies

-----------------------------------------------------------------------------
(***************************************************************************)
(* What a transaction changes then, as what it records then tells          *)
(***************************************************************************)

(* Rows committed after changes that touched no mark. *)
LEMMA CommittingTallies ==
    ASSUME NEW d, NEW s, NEW m \in Db, Tallies(d, s, m), m.mark = d.mark, NEW these,
           NEW t \in Seq(Events), Says(t) = {"committed"} \X Drafts(m, these),
           Drafts(m, these) \subseteq Entities
    PROVE  Tallies(d, s \o t, CommitRows(m, these))
<1> DEFINE n == CommitRows(m, these)
           C == Drafts(m, these)
           said == Says(s) \union ({"committed"} \X C)
<1>1. n.mark = [e \in Entities |-> IF e \in C THEN "committed" ELSE m.mark[e]]
  BY CommitRowsTyped DEF Drafts
<1>2. n.kind = m.kind /\ n.links = m.links
  BY DEF CommitRows, Db
<1>3. \A e \in C : IsDraft(m, e)
  BY DEF Drafts
<1> HIDE DEF n, C
<1>4. \A e \in Entities : /\ IsLive(n, e) <=> IsLive(m, e)
                          /\ IsCommitted(n, e) <=> IsCommitted(m, e) \/ e \in C
                          /\ IsDraft(d, e) <=> IsDraft(m, e)
  BY <1>1, <1>3 DEF IsLive, IsCommitted, IsDraft
<1>5. \A e, x : IsRelinked(d, n, e, x) <=> IsRelinked(d, m, e, x)
  BY <1>2 DEF IsRelinked
<1>6. \A e \in Entities : Remains(d, n, e) <=> Remains(d, m, e)
  BY <1>4 DEF Remains
<1>7. /\ \A e : <<"committed", e>> \in said <=> <<"committed", e>> \in Says(s) \/ e \in C
      /\ \A topic \in Topics \ {"committed"} : \A e :
             <<topic, e>> \in said <=> <<topic, e>> \in Says(s)
  OBVIOUS
<1>8. {"created", "deleted"} \union Fields \subseteq Topics \ {"committed"}
  BY DEF Topics, Fields
<1> HIDE DEF said
<1>9. Explains(d, Says(s), m)
  BY DEF Tallies
<1>10. <<"deleted", Library>> \notin said
  BY <1>7, <1>8, <1>9 DEF Explains
<1>11. ASSUME NEW e \in Entities
       PROVE  LifeIsTold(d, said, n, e) /\ KindIsTold(d, said, n, e)
  BY <1>2, <1>3, <1>4, <1>6, <1>7, <1>8, <1>9 DEF Explains, LifeIsTold, KindIsTold, Fields
<1>12. ASSUME NEW e \in Entities
       PROVE  /\ LinksAreTold(d, said, n, e, "contents", Works)
              /\ LinksAreTold(d, said, n, e, "contributors", People)
  <2>1. Works \subseteq Entities /\ People \subseteq Entities
    BY DEF Entities
  <2> QED BY <1>4, <1>5, <1>6, <1>7, <1>8, <1>9, <2>1 DEF Explains, LinksAreTold, Fields
<1>13. ASSUME NEW e \in Entities
       PROVE  <<"value", e>> \notin said /\ <<"items", e>> \notin said
  BY <1>7, <1>8, <1>9 DEF Explains, Fields
<1>14. Explains(d, said, n)
  BY <1>10, <1>11, <1>12, <1>13 DEF Explains
<1>15. s \o t \in Seq(Events) /\ Says(s \o t) = Says(s) \union Says(t)
  BY BothSay DEF Tallies
<1> QED BY <1>14, <1>15 DEF Tallies, said, n, C

(* What is told of rows that are collected, ... *)
LEMMA CleanedUpSays ==
    ASSUME NEW gone \in SUBSET Entities
    PROVE  SayOfEach(CleanedUp(gone), "deleted", gone)
<1>1. /\ "orphan_cleanup" \in {"user", "enrichment", "orphan_cleanup"}
      /\ "deleted" \in {"created", "updated", "committed", "deleted"}
      /\ NoField \in Fields \union {NoField}
  OBVIOUS
<1> QED BY <1>1, EachSays DEF CleanedUp

(* ... and of rows that are committed. *)
LEMMA EachCommittedSays ==
    ASSUME NEW these \in SUBSET Entities
    PROVE  SayOfEach(EachCommitted(these), "committed", these)
<1>1. /\ "user" \in {"user", "enrichment", "orphan_cleanup"}
      /\ "committed" \in {"created", "updated", "committed", "deleted"}
      /\ NoField \in Fields \union {NoField}
  OBVIOUS
<1> QED BY <1>1, EachSays DEF EachCommitted

(* Rows collected that no link is to, and that nothing was told of. *)
LEMMA CollectingTallies ==
    ASSUME NEW d, NEW s, NEW m, Tallies(d, s, m), NEW gone \in SUBSET Entities,
           \A e \in gone : IsLive(m, e) /\ IsSilent(s, e),
           \A l \in m.links : l[2] \notin gone
    PROVE  Tallies(d, s \o CleanedUp(gone), Remove(m, gone))
<1> USE LinkedRows
<1> DEFINE n == Remove(m, gone)
           said == Says(s) \union ({"deleted"} \X gone)
<1>1. /\ \A e \in Entities : IsLive(n, e) <=> IsLive(m, e) /\ e \notin gone
      /\ \A e \in Entities : IsCommitted(n, e) <=> IsCommitted(m, e) /\ e \notin gone
  BY RemoveTables
<1>2. /\ \A e, t : e \notin gone => (IsRelinked(d, n, e, t) <=> IsRelinked(d, m, e, t))
      /\ \A e \in Parents : e \notin gone => n.kind[e] = m.kind[e]
  BY DEF Remove, IsRelinked
<1> HIDE DEF n
<1>3. /\ \A e : <<"deleted", e>> \in said <=> <<"deleted", e>> \in Says(s) \/ e \in gone
      /\ \A topic \in Topics \ {"deleted"} : \A e :
             <<topic, e>> \in said <=> <<topic, e>> \in Says(s)
  OBVIOUS
<1>4. {"created", "committed"} \union Fields \subseteq Topics \ {"deleted"}
  BY DEF Topics, Fields
<1> HIDE DEF said
<1>5. Explains(d, Says(s), m)
  BY DEF Tallies
<1>6. \A e \in gone, topic \in Topics : <<topic, e>> \notin Says(s)
  BY DEF IsSilent
<1>7. \A e \in gone : IsLive(d, e) /\ ~(IsDraft(d, e) /\ IsCommitted(m, e))
  BY <1>4, <1>5, <1>6 DEF Explains, LifeIsTold
<1>8. \A e \in Entities : Remains(d, n, e) <=> Remains(d, m, e) /\ e \notin gone
  BY <1>1 DEF Remains
<1>9. <<"deleted", Library>> \notin said
  BY <1>3, <1>5, LogIsBounded DEF Explains
<1>10. ASSUME NEW e \in Entities
       PROVE  LifeIsTold(d, said, n, e) /\ KindIsTold(d, said, n, e)
  <2>1. CASE e \in gone
    <3>1. \A topic \in {"created", "committed", "classification"} : <<topic, e>> \notin said
      BY <1>3, <1>4, <1>6, <2>1 DEF Fields, Topics
    <3>2. <<"deleted", e>> \in said
      BY <1>3, <2>1
    <3> QED BY <1>1, <1>7, <1>8, <2>1, <3>1, <3>2 DEF LifeIsTold, KindIsTold
  <2>2. CASE e \notin gone
    BY <1>1, <1>2, <1>3, <1>4, <1>5, <1>8, <2>2 DEF Explains, LifeIsTold, KindIsTold, Fields
  <2> QED BY <2>1, <2>2
<1>11. ASSUME NEW e \in Entities
       PROVE  /\ LinksAreTold(d, said, n, e, "contents", Works)
              /\ LinksAreTold(d, said, n, e, "contributors", People)
  <2>1. Works \subseteq Entities /\ People \subseteq Entities
    BY DEF Entities
  <2>2. CASE e \in gone
    <3>1. \A topic \in {"contents", "contributors"} : <<topic, e>> \notin said
      BY <1>3, <1>4, <1>6, <2>2 DEF Fields, Topics
    <3> QED BY <1>8, <2>2, <3>1 DEF LinksAreTold
  <2>3. CASE e \notin gone
    BY <1>1, <1>2, <1>3, <1>4, <1>5, <1>8, <2>1, <2>3 DEF Explains, LinksAreTold, Fields
  <2> QED BY <2>2, <2>3
<1>12. ASSUME NEW e \in Entities
       PROVE  <<"value", e>> \notin said /\ <<"items", e>> \notin said
  BY <1>3, <1>4, <1>5 DEF Explains, Fields
<1>13. Explains(d, said, n)
  BY <1>9, <1>10, <1>11, <1>12 DEF Explains
<1>14. /\ CleanedUp(gone) \in Seq(Events)
       /\ Says(CleanedUp(gone)) = {"deleted"} \X gone
  BY CleanedUpSays DEF SayOfEach
<1>15. /\ s \o CleanedUp(gone) \in Seq(Events)
       /\ Says(s \o CleanedUp(gone)) = Says(s) \union Says(CleanedUp(gone))
  BY <1>14, BothSay DEF Tallies
<1> QED BY <1>13, <1>14, <1>15 DEF Tallies, said, n

(* Works that inherit a kind, having had none: what is told ... *)
LEMMA ClassifiedSays ==
    ASSUME NEW S \in SUBSET Entities, NEW source \in {"user", "enrichment"}
    PROVE  SayOfEach(Each(source, "updated", S, "classification"), "classification", S)
<1> DEFINE action == "updated"
           field == "classification"
           topic == IF action = "updated" THEN field ELSE action
<1>1. source \in {"user", "enrichment", "orphan_cleanup"}
  OBVIOUS
<1>2. action \in {"created", "updated", "committed", "deleted"}
  OBVIOUS
<1>3. field \in Fields \union {NoField}
  BY DEF Fields
<1>4. topic = "classification"
  OBVIOUS
<1> HIDE DEF action, field
<1>5. SayOfEach(Each(source, action, S, field), topic, S)
  BY <1>1, <1>2, <1>3, EachSays
<1> HIDE DEF topic
<1> QED BY <1>4, <1>5 DEF action, field

(* ... and that it is what changes. *)
LEMMA InheritingTallies ==
    ASSUME NEW d, NEW s, NEW m \in Db, Tallies(d, s, m), NEW p, NEW k \in Kinds,
           NEW S, S = {w \in ContentsOf(m, p) : m.kind[w] = Unclassified},
           \A w \in S : Remains(d, m, w) /\ d.kind[w] = m.kind[w],
           NEW source \in {"user", "enrichment"}
    PROVE  Tallies(d, s \o Each(source, "updated", S, "classification"), Inherit(m, p, k))
<1> USE LinkedRows
<1> DEFINE kinds == [e \in Parents |->
                       IF e \in ContentsOf(m, p) /\ m.kind[e] = Unclassified THEN k
                       ELSE m.kind[e]]
           n == Inherit(m, p, k)
           said == Says(s) \union ({"classification"} \X S)
<1>1. n = [m EXCEPT !.kind = kinds]
  BY IdsAreDistinct DEF Inherit
<1>2. n.mark = m.mark /\ n.links = m.links /\ n.kind = kinds
  <2> HIDE DEF kinds, n
  <2>1. n = [mark |-> m.mark, kind |-> kinds, links |-> m.links, proposals |-> m.proposals]
    BY <1>1, OneTable
  <2> QED BY <2>1
<1>3. /\ S \subseteq Works
      /\ \A e \in Parents : n.kind[e] = IF e \in S THEN k ELSE m.kind[e]
      /\ \A e \in S : m.kind[e] # k
  BY <1>2, IdsAreDistinct DEF ContentsOf
<1> HIDE DEF n, kinds
<1>4. \A e \in Entities : /\ IsLive(n, e) <=> IsLive(m, e)
                          /\ IsCommitted(n, e) <=> IsCommitted(m, e)
  BY <1>2 DEF IsLive, IsCommitted
<1>5. \A e, x : IsRelinked(d, n, e, x) <=> IsRelinked(d, m, e, x)
  BY <1>2 DEF IsRelinked
<1>6. \A e \in Entities : Remains(d, n, e) <=> Remains(d, m, e)
  BY <1>4 DEF Remains
<1>7. /\ \A e : <<"classification", e>> \in said
                  <=> <<"classification", e>> \in Says(s) \/ e \in S
      /\ \A topic \in Topics \ {"classification"} : \A e :
             <<topic, e>> \in said <=> <<topic, e>> \in Says(s)
  OBVIOUS
<1>8. {"created", "committed", "deleted", "contents", "contributors", "value", "items"}
        \subseteq Topics \ {"classification"}
  BY DEF Topics, Fields
<1> HIDE DEF said
<1>9. Explains(d, Says(s), m)
  BY DEF Tallies
<1>10. <<"deleted", Library>> \notin said
  BY <1>7, <1>8, <1>9 DEF Explains
<1>11. ASSUME NEW e \in Entities
       PROVE  LifeIsTold(d, said, n, e)
  BY <1>4, <1>7, <1>8, <1>9 DEF Explains, LifeIsTold
<1>12. ASSUME NEW e \in Entities
       PROVE  KindIsTold(d, said, n, e)
  BY <1>3, <1>6, <1>7, <1>9 DEF Explains, KindIsTold
<1>13. ASSUME NEW e \in Entities
       PROVE  /\ LinksAreTold(d, said, n, e, "contents", Works)
              /\ LinksAreTold(d, said, n, e, "contributors", People)
  <2>1. Works \subseteq Entities /\ People \subseteq Entities
    BY DEF Entities
  <2> QED BY <1>4, <1>5, <1>6, <1>7, <1>8, <1>9, <2>1 DEF Explains, LinksAreTold
<1>14. ASSUME NEW e \in Entities
       PROVE  <<"value", e>> \notin said /\ <<"items", e>> \notin said
  BY <1>7, <1>8, <1>9 DEF Explains
<1>15. Explains(d, said, n)
  BY <1>10, <1>11, <1>12, <1>13, <1>14 DEF Explains
<1> DEFINE t == Each(source, "updated", S, "classification")
<1>16. t \in Seq(Events) /\ Says(t) = {"classification"} \X S
  <2>1. S \in SUBSET Entities
    BY <1>3
  <2> QED BY <2>1, ClassifiedSays DEF SayOfEach
<1> HIDE DEF t
<1>17. s \o t \in Seq(Events) /\ Says(s \o t) = Says(s) \union Says(t)
  BY <1>16, BothSay DEF Tallies
<1> QED BY <1>15, <1>16, <1>17 DEF Tallies, said, n, t

-----------------------------------------------------------------------------
(***************************************************************************)
(* The operations, with all that they record                               *)
(***************************************************************************)

(* No link is to an orphan. *)
LEMMA OrphansAreUnlinked ==
    ASSUME NEW m \in Db
    PROVE  \A l \in m.links : l[2] \notin OrphanWorks(m) /\ l[2] \notin OrphanPeople(m)
<1>1. \A l \in m.links : l = <<l[1], l[2]>> /\ l[1] \in Parents
  BY Tables
<1> QED BY <1>1 DEF OrphanWorks, OrphanPeople, IsNeeded

(* Orphaned people collected, if nothing was told of them. *)
LEMMA OrphanedPeopleTallies ==
    ASSUME NEW d, NEW s, NEW m \in Db, Tallies(d, s, m),
           \A x \in OrphanPeople(m) : IsSilent(s, x)
    PROVE  Tallies(d, s \o OrphanedPeople(m), CollectPeople(m))
<1> DEFINE gone == OrphanPeople(m)
<1>1. gone \in SUBSET Entities /\ \A x \in gone : IsLive(m, x)
  BY DEF OrphanPeople, Entities
<1>2. \A l \in m.links : l[2] \notin gone
  BY OrphansAreUnlinked
<1> HIDE DEF gone
<1>3. \A e \in gone : IsLive(m, e) /\ IsSilent(s, e)
  BY <1>1 DEF gone
<1>4. Tallies(d, s \o CleanedUp(gone), Remove(m, gone))
  BY <1>1, <1>2, <1>3, CollectingTallies
<1> QED BY <1>4 DEF OrphanedPeople, CollectPeople, gone

(* Orphaned works collected, and then the people whom that orphans. *)
LEMMA OrphanedTallies ==
    ASSUME NEW d, NEW s, NEW m \in Db, Tallies(d, s, m),
           \A w \in OrphanWorks(m) : IsSilent(s, w),
           \A x \in OrphanPeople(Remove(m, OrphanWorks(m))) : IsSilent(s, x)
    PROVE  Tallies(d, s \o Orphaned(m), Collect(m))
<1> DEFINE gone == OrphanWorks(m)
           rest == Remove(m, gone)
           works == CleanedUp(gone)
           people == OrphanedPeople(rest)
<1>1. gone \in SUBSET Entities /\ gone \subseteq Works /\ \A x \in gone : IsLive(m, x)
  BY DEF OrphanWorks, Entities
<1>2. \A l \in m.links : l[2] \notin gone
  BY OrphansAreUnlinked
<1>3. \A e \in gone : IsSilent(s, e)
  OBVIOUS
<1>4. Orphaned(m) = works \o people /\ Collect(m) = CollectPeople(rest)
  BY DEF Orphaned, OrphanedPeople, Collect
<1>5. \A x \in OrphanPeople(rest) : IsSilent(s, x)
  OBVIOUS
<1>6. rest \in Db
  BY RemoveTyped
<1> HIDE DEF gone
<1>7. \A e \in gone : IsLive(m, e) /\ IsSilent(s, e)
  BY <1>1, <1>3
<1>8. Tallies(d, s \o works, rest)
  BY <1>1, <1>2, <1>7, CollectingTallies
<1>9. /\ works \in Seq(Events) /\ Says(works) = {"deleted"} \X gone
      /\ people \in Seq(Events)
  <2>1. OrphanPeople(rest) \in SUBSET Entities
    BY DEF OrphanPeople, Entities
  <2> QED BY <1>1, <2>1, CleanedUpSays DEF SayOfEach, OrphanedPeople
<1> HIDE DEF rest, works, people
<1>10. s \in Seq(Events) /\ s \o works \in Seq(Events)
       /\ Says(s \o works) = Says(s) \union Says(works)
  BY <1>9, BothSay DEF Tallies
<1>11. ASSUME NEW x \in OrphanPeople(rest)
       PROVE  IsSilent(s \o works, x)
  <2>1. x \notin gone
    BY <1>1, IdsAreDistinct DEF OrphanPeople
  <2> QED BY <1>5, <1>9, <1>10, <2>1 DEF IsSilent
<1>12. Tallies(d, (s \o works) \o people, CollectPeople(rest))
  BY <1>6, <1>8, <1>11, OrphanedPeopleTallies DEF people
<1>13. /\ (s \o works) \o people \in Seq(Events) /\ s \o (works \o people) \in Seq(Events)
       /\ Says((s \o works) \o people) = (Says(s) \union Says(works)) \union Says(people)
       /\ Says(s \o (works \o people)) = Says(s) \union (Says(works) \union Says(people))
  <2> DEFINE sw == s \o works
             wp == works \o people
  <2>1. wp \in Seq(Events) /\ Says(wp) = Says(works) \union Says(people)
    BY <1>9, BothSay
  <2>2. sw \in Seq(Events) /\ Says(sw) = Says(s) \union Says(works)
    BY <1>10
  <2> HIDE DEF sw, wp
  <2>3. sw \o people \in Seq(Events) /\ Says(sw \o people) = Says(sw) \union Says(people)
    BY <1>9, <2>2, BothSay
  <2>4. s \o wp \in Seq(Events) /\ Says(s \o wp) = Says(s) \union Says(wp)
    BY <1>10, <2>1, BothSay
  <2>5. /\ Says(sw \o people) = (Says(s) \union Says(works)) \union Says(people)
        /\ Says(s \o wp) = Says(s) \union (Says(works) \union Says(people))
    BY <2>1, <2>2, <2>3, <2>4
  <2> QED BY <2>3, <2>4, <2>5 DEF sw, wp
<1>14. Says((s \o works) \o people) = Says(s \o (works \o people))
  BY <1>13
<1>15. Tallies(d, s \o (works \o people), CollectPeople(rest))
  BY <1>12, <1>13, <1>14 DEF Tallies
<1> QED BY <1>4, <1>15

(* Only what an event is about is told of by it. *)
LEMMA OneIsSilent ==
    ASSUME NEW a \in Entities, NEW x, x # a, NEW field \in {"contents", "contributors"}
    PROVE  IsSilent(Updated(a, field), x) /\ IsSilent(Deleted(a), x) /\ IsSilent(<<>>, x)
<1>1. Says(Updated(a, field)) = {<<field, a>>}
  BY OneSays DEF Updated, Fields
<1>2. Says(Deleted(a)) = {<<"deleted", a>>}
  BY OneSays DEF Deleted
<1> QED BY <1>1, <1>2, NothingSays DEF IsSilent

(* Removing tallies: the link that goes, and whoever is collected after it. *)
LEMMA RemovesTallies ==
    ASSUME NEW d, Sound(d), NEW a \in Parents, IsLive(d, a), NEW e
    PROVE  /\ a \in Publications /\ e \in Works
                => Tallies(d, EventsOfRemoveWork(d, a, e), RemoveWork(d, a, e))
           /\ e \in People
                => Tallies(d, EventsOfRemoveContributor(d, a, e), RemoveContributor(d, a, e))
<1> USE LinkedRows
<1> DEFINE unlinked == Unlink(d, a, e)
<1>1. d \in Db
  BY DEF Sound, SoundBut
<1>2. /\ unlinked \in Db /\ unlinked.mark = d.mark /\ unlinked.kind = d.kind
      /\ unlinked.links = d.links \ {<<a, e>>}
  <2> DEFINE S == d.links \ {<<a, e>>}
  <2>1. unlinked = [d EXCEPT !.links = S] /\ S \in SUBSET (Parents \X (Works \union People))
    BY <1>1, Tables DEF Unlink, Db
  <2> HIDE DEF unlinked, S
  <2>2. unlinked = [mark |-> d.mark, kind |-> d.kind, links |-> S, proposals |-> d.proposals]
    BY <1>1, <2>1, OneTable
  <2>3. unlinked \in Db
    BY <1>1, <2>1, <2>2, Tables DEF Db
  <2> QED BY <2>2, <2>3 DEF S
<1>3. CASE <<a, e>> \notin d.links
  <2>1. Tallies(d, <<>>, d)
    BY NothingToTell
  <2> QED BY <1>3, <2>1 DEF EventsOfRemoveWork, EventsOfRemoveContributor, RemoveWork,
                            RemoveContributor
<1>4. CASE <<a, e>> \in d.links
  <2>1. /\ EventsOfRemoveWork(d, a, e) = Updated(a, "contents") \o Orphaned(unlinked)
        /\ RemoveWork(d, a, e) = Collect(unlinked)
        /\ EventsOfRemoveContributor(d, a, e)
             = Updated(a, "contributors") \o OrphanedPeople(unlinked)
        /\ RemoveContributor(d, a, e) = CollectPeople(unlinked)
    BY <1>4 DEF EventsOfRemoveWork, EventsOfRemoveContributor, RemoveWork, RemoveContributor
  <2> HIDE DEF unlinked
  <2>2. /\ e \in Works => Tallies(d, Updated(a, "contents"), unlinked)
        /\ e \in People => Tallies(d, Updated(a, "contributors"), unlinked)
    BY <1>2, <1>4, OneLinkTallies
  <2>3. \A x \in People : IsSilent(Updated(a, "contents"), x) /\ IsSilent(Updated(a, "contributors"), x)
    BY OneIsSilent
  <2>4. /\ OrphanWorks(unlinked) \subseteq Works
        /\ \A m : OrphanPeople(m) \subseteq People
    BY DEF OrphanWorks, OrphanPeople
  <2>5. ASSUME e \in Works, a \in Publications
        PROVE  Tallies(d, Updated(a, "contents") \o Orphaned(unlinked), Collect(unlinked))
    <3>1. \A w \in Works : IsSilent(Updated(a, "contents"), w)
      BY <2>5, OneIsSilent
    <3> QED BY <1>2, <2>2, <2>3, <2>4, <2>5, <3>1, OrphanedTallies
  <2>6. ASSUME e \in People
        PROVE  Tallies(d, Updated(a, "contributors") \o OrphanedPeople(unlinked),
                       CollectPeople(unlinked))
    BY <1>2, <2>2, <2>3, <2>4, <2>6, OrphanedPeopleTallies
  <2> QED BY <2>1, <2>5, <2>6
<1> QED BY <1>3, <1>4

(* Deleting tallies: the row, its links, and whoever is collected after it. *)
LEMMA DeleteTallies ==
    ASSUME NEW d \in Db, NEW e \in Entities, IsLive(d, e)
    PROVE  Tallies(d, EventsOfDelete(d, e), Delete(d, e))
<1> DEFINE gone == Remove(d, {e})
<1>1. Tallies(d, Deleted(e), gone) /\ gone \in Db
  BY OneDeletedTallies, RemoveTyped
<1>2. ~IsLive(gone, e)
  BY RemoveTables
<1>3. /\ EventsOfDelete(d, e) = Deleted(e) \o (IF e \in Publications THEN Orphaned(gone)
                                               ELSE IF e \in Works THEN OrphanedPeople(gone)
                                               ELSE <<>>)
      /\ Delete(d, e) = IF e \in Publications THEN Collect(gone)
                        ELSE IF e \in Works THEN CollectPeople(gone)
                        ELSE gone
  BY DEF EventsOfDelete, Delete
<1> HIDE DEF gone
<1>4. \A x \in Entities : IsLive(gone, x) => IsSilent(Deleted(e), x)
  BY <1>2, OneIsSilent
<1>5. \A w \in OrphanWorks(gone) : w \in Entities /\ IsLive(gone, w)
  BY DEF OrphanWorks, Entities
<1>6. \A x \in OrphanPeople(gone) : x \in Entities /\ IsLive(gone, x)
  BY DEF OrphanPeople, Entities
<1>7. \A x \in OrphanPeople(Remove(gone, OrphanWorks(gone))) : x \in Entities /\ IsLive(gone, x)
  BY RemoveTables DEF OrphanPeople, Entities
<1>8. Tallies(d, Deleted(e) \o Orphaned(gone), Collect(gone))
  BY <1>1, <1>4, <1>5, <1>7, OrphanedTallies
<1>9. Tallies(d, Deleted(e) \o OrphanedPeople(gone), CollectPeople(gone))
  BY <1>1, <1>4, <1>6, OrphanedPeopleTallies
<1>10. Tallies(d, Deleted(e) \o <<>>, gone)
  <2>1. /\ Deleted(e) \o <<>> \in Seq(Events)
        /\ Says(Deleted(e) \o <<>>) = Says(Deleted(e)) \union {}
    BY <1>1, BothSay, NothingSays DEF Tallies
  <2>2. Says(Deleted(e) \o <<>>) = Says(Deleted(e))
    BY <2>1
  <2> QED BY <1>1, <2>1, <2>2 DEF Tallies
<1> QED BY <1>3, <1>8, <1>9, <1>10

(* Rejecting tallies: what only the rejected proposals kept is collected. *)
LEMMA RejectTallies ==
    ASSUME NEW d \in Db, NEW e, NEW rejected
    PROVE  Tallies(d, EventsOfReject(d, e, rejected), Reject(d, e, rejected))
<1> DEFINE S == d.proposals \ rejected
           rest == [d EXCEPT !.proposals = S]
<1>1. /\ EventsOfReject(d, e, rejected) = IF e \in Publications THEN Orphaned(rest)
                                          ELSE IF e \in Works THEN OrphanedPeople(rest)
                                          ELSE <<>>
      /\ Reject(d, e, rejected) = IF e \in Publications THEN Collect(rest)
                                  ELSE IF e \in Works THEN CollectPeople(rest)
                                  ELSE rest
  BY DEF EventsOfReject, Reject, Db
<1>2. S \subseteq Entities \X (Works \union People \union {Value})
  BY Tables
<1> HIDE DEF S
<1>3. rest = [mark |-> d.mark, kind |-> d.kind, links |-> d.links, proposals |-> S]
  BY OneTable
<1> HIDE DEF rest
<1>4. rest \in Db /\ rest.mark = d.mark /\ rest.kind = d.kind /\ rest.links = d.links
  BY <1>2, <1>3, Tables DEF Db
<1>5. Tallies(d, <<>>, rest)
  BY <1>4, NothingToTell
<1>6. \A x : IsSilent(<<>>, x)
  BY NothingSays DEF IsSilent
<1>7. /\ Tallies(d, <<>> \o Orphaned(rest), Collect(rest))
      /\ Tallies(d, <<>> \o OrphanedPeople(rest), CollectPeople(rest))
  BY <1>4, <1>5, <1>6, OrphanedTallies, OrphanedPeopleTallies
<1>8. /\ <<>> \o Orphaned(rest) = Orphaned(rest)
      /\ <<>> \o OrphanedPeople(rest) = OrphanedPeople(rest)
  <2>1. Account(rest, Orphaned(rest), Collect(rest))
    BY OrphanedAccounts
  <2>2. Account(rest, OrphanedPeople(rest), CollectPeople(rest))
    BY OrphanedPeopleAccounts
  <2>3. Orphaned(rest) \in Seq(Events) /\ OrphanedPeople(rest) \in Seq(Events)
    BY <2>1, <2>2 DEF Account
  <2> QED BY <2>3
<1> QED BY <1>1, <1>5, <1>7, <1>8

(* A commit: what it commits is linked, and so is not collected by it. *)
LEMMA CommitTallies ==
    ASSUME NEW d \in Db, NEW e \in Entities
    PROVE  Tallies(d, EventsOfCommit(d, e), Commit(d, e))
<1> USE LinkedRows
<1> DEFINE closure == CommitClosure(d, e)
           with == Drafts(d, closure \ {e})
           committed == CommitRows(d, closure)
           events == Committed(e) \o EachCommitted(with)
           C == Drafts(d, closure)
<1>1. CASE ~IsDraft(d, e)
  <2>1. Tallies(d, <<>>, d)
    BY NothingToTell
  <2> QED BY <1>1, <2>1 DEF EventsOfCommit, Commit
<1>2. CASE IsDraft(d, e)
  <2>1. closure \subseteq Entities /\ e \in closure
    BY DEF CommitClosure, ContentsOf, ContributorsOf, Entities
  <2>2. \A x \in closure \intersect Works : x # e => <<e, x>> \in d.links
    BY IdsAreDistinct DEF CommitClosure, ContentsOf, ContributorsOf
  <2>3. \A x \in (closure \intersect People) \ {e} :
            \/ <<e, x>> \in d.links
            \/ \E w \in Works : <<e, w>> \in d.links /\ <<w, x>> \in d.links
    BY IdsAreDistinct DEF CommitClosure, ContentsOf, ContributorsOf
  <2> HIDE DEF closure
  <2>4. with \in SUBSET Entities /\ C = {e} \union with /\ C \subseteq closure /\ C \subseteq Entities
    BY <1>2, <2>1 DEF Drafts
  <2>5. Tallies(d, events, committed) /\ Says(events) = {"committed"} \X C
    <3>1. EachCommitted(with) \in Seq(Events) /\ Says(EachCommitted(with)) = {"committed"} \X with
      BY <2>4, EachCommittedSays DEF SayOfEach
    <3>2. Committed(e) \in Seq(Events) /\ Says(Committed(e)) = {<<"committed", e>>}
      BY OneSays DEF Committed
    <3>3. events \in Seq(Events) /\ Says(events) = Says(Committed(e)) \union Says(EachCommitted(with))
      <4> HIDE DEF with
      <4> QED BY <3>1, <3>2, BothSay
    <3> HIDE DEF events, with
    <3>4. Says(events) = {"committed"} \X C
      <4> HIDE DEF C
      <4> QED BY <2>4, <3>1, <3>2, <3>3
    <3>5. Tallies(d, <<>>, d)
      BY NothingToTell
    <3>6. Tallies(d, <<>> \o events, committed)
      BY <2>4, <3>3, <3>4, <3>5, CommittingTallies
    <3>7. <<>> \o events = events
      BY <3>3
    <3> QED BY <3>4, <3>6, <3>7
  <2>6. committed \in Db /\ committed.links = d.links
    BY CommitRowsTyped DEF CommitRows, Db
  <2>7. EventsOfCommit(d, e)
          = events \o (IF e \in Publications THEN Orphaned(committed)
                       ELSE IF e \in Works THEN OrphanedPeople(committed) ELSE <<>>)
    BY <1>2 DEF EventsOfCommit, closure
  <2>8. Commit(d, e) = IF e \in Publications THEN Collect(committed)
                        ELSE IF e \in Works THEN CollectPeople(committed) ELSE committed
    BY <1>2 DEF Commit, closure
  <2>9. \A x : x \notin C => IsSilent(events, x)
    BY <2>5 DEF IsSilent
  <2> HIDE DEF committed, events, C
  <2>10. ASSUME e \in Works
         PROVE  \A x \in OrphanPeople(committed) : x \notin C
    BY <2>3, <2>4, <2>6, <2>10, IdsAreDistinct DEF OrphanPeople, IsNeeded
  <2>11. ASSUME e \in Publications
         PROVE  /\ \A w \in OrphanWorks(committed) : w \notin C
                /\ \A x \in OrphanPeople(Remove(committed, OrphanWorks(committed))) : x \notin C
    <3> DEFINE gone == OrphanWorks(committed)
               rest == Remove(committed, gone)
    <3>1. gone \subseteq Works /\ \A l \in d.links : l[2] \notin gone
      BY <2>6, OrphansAreUnlinked DEF OrphanWorks
    <3>2. \A a, x : <<a, x>> \in d.links /\ a \notin gone /\ x \notin gone => <<a, x>> \in rest.links
      BY <2>6 DEF Remove
    <3> HIDE DEF gone, rest
    <3>3. ASSUME NEW w \in gone
          PROVE  w \notin C
      <4>1. <<e, w>> \notin d.links
        BY <3>1
      <4>2. w \in Works /\ w # e
        BY <2>11, <3>1, IdsAreDistinct
      <4> QED BY <2>2, <2>4, <4>1, <4>2
    <3>4. ASSUME NEW x \in OrphanPeople(rest)
          PROVE  x \notin C
      <4>1. x \in People /\ ~\E a \in Parents : <<a, x>> \in rest.links
        BY DEF OrphanPeople, IsNeeded
      <4>2. x \notin gone /\ e \notin gone /\ x # e
        BY <2>11, <3>1, <4>1, IdsAreDistinct
      <4>3. <<e, x>> \notin d.links
        BY <2>11, <3>2, <4>1, <4>2
      <4>4. ASSUME NEW w \in Works, <<e, w>> \in d.links
            PROVE  <<w, x>> \notin d.links
        <5>1. w \notin gone
          BY <3>1, <4>4
        <5> QED BY <3>2, <4>1, <4>2, <5>1
      <4> QED BY <2>3, <2>4, <4>1, <4>2, <4>3, <4>4
    <3> QED BY <3>3, <3>4 DEF rest, gone
  <2>12. CASE e \in Publications
    <3>1. Tallies(d, events \o Orphaned(committed), Collect(committed))
      BY <2>5, <2>6, <2>9, <2>11, <2>12, OrphanedTallies
    <3> QED BY <2>7, <2>8, <2>12, <3>1
  <2>13. CASE e \in Works
    <3>1. Tallies(d, events \o OrphanedPeople(committed), CollectPeople(committed))
      BY <2>5, <2>6, <2>9, <2>10, <2>13, OrphanedPeopleTallies
    <3> QED BY <2>7, <2>8, <2>13, <3>1, IdsAreDistinct
  <2>14. CASE e \notin Publications /\ e \notin Works
    <3>1. events \o <<>> = events
      BY <2>5 DEF Tallies
    <3> QED BY <2>5, <2>7, <2>8, <2>14, <3>1
  <2> QED BY <2>12, <2>13, <2>14
<1> QED BY <1>1, <1>2

(* A link to a contributor, whom it commits with those that were left. *)
LEMMA AddContributorTallies ==
    ASSUME NEW d, Sound(d), NEW a \in Parents, NEW x \in People, IsLive(d, a), IsLive(d, x)
    PROVE  Tallies(d, EventsOfAddContributor(d, a, x), AddContributor(d, a, x))
<1> USE LinkedRows
<1> DEFINE linked == Link(d, a, x)
           these == ContributorsOf(d, a) \union {x}
           commits == IF IsDraft(d, a) THEN {} ELSE Drafts(d, these)
           told == EachCommitted(commits)
<1>1. /\ d \in Db /\ linked \in Db /\ linked.mark = d.mark /\ linked.kind = d.kind
      /\ linked.links = d.links \union {<<a, x>>}
  <2>1. d \in Db
    BY DEF Sound, SoundBut
  <2>2. /\ linked \in Db /\ linked.mark = d.mark /\ linked.kind = d.kind
        /\ linked.links = d.links \union {<<a, x>>}
    BY LinkTables, IdsAreDistinct, ZenonT(60)
  <2> QED BY <2>1, <2>2
<1>2. CASE <<a, x>> \in d.links
  <2>1. Tallies(d, <<>>, d)
    BY NothingToTell
  <2> QED BY <1>2, <2>1 DEF EventsOfAddContributor, AddContributor
<1>3. CASE <<a, x>> \notin d.links
  <2>1. EventsOfAddContributor(d, a, x) = Updated(a, "contributors") \o told
    BY <1>3 DEF EventsOfAddContributor
  <2>2. ContributorsOf(linked, a) = these
    BY <1>1 DEF ContributorsOf
  <2>3. IsCommitted(d, a) <=> ~IsDraft(d, a)
    BY <1>1, Tables DEF IsLive, IsDraft, IsCommitted, Marks
  <2>4. AddContributor(d, a, x) = IF IsDraft(d, a) THEN linked ELSE CommitRows(linked, these)
    BY <1>3, <2>2, <2>3 DEF AddContributor
  <2>5. /\ Drafts(linked, these) = Drafts(d, these) /\ Drafts(d, these) \subseteq Entities
        /\ Drafts(d, these) \in SUBSET Entities
    BY <1>1 DEF Drafts, IsDraft, ContributorsOf, Entities
  <2>6. Tallies(d, Updated(a, "contributors"), linked)
    <3> HIDE DEF linked
    <3> QED BY <1>1, <1>3, OneLinkTallies
  <2> HIDE DEF linked, these
  <2>7. told \in Seq(Events) /\ Says(told) = {"committed"} \X commits
    <3>1. commits \in SUBSET Entities
      BY <2>5
    <3> HIDE DEF commits
    <3> QED BY <3>1, EachCommittedSays DEF SayOfEach
  <2> HIDE DEF told
  <2>8. CASE IsDraft(d, a)
    <3> DEFINE first == Updated(a, "contributors")
    <3>1. Says(told) = {}
      BY <2>7, <2>8
    <3>2. first \in Seq(Events)
      BY <2>6 DEF Tallies
    <3> HIDE DEF first
    <3>3. first \o told \in Seq(Events) /\ Says(first \o told) = Says(first) \union {}
      BY <2>7, <3>1, <3>2, BothSay
    <3>4. Says(first \o told) = Says(first)
      BY <3>3
    <3>5. Tallies(d, first \o told, linked)
      BY <2>6, <3>3, <3>4 DEF Tallies, first
    <3> QED BY <2>1, <2>4, <2>8, <3>5 DEF first
  <2>9. CASE ~IsDraft(d, a)
    <3>1. Tallies(d, Updated(a, "contributors") \o told, CommitRows(linked, these))
      BY <1>1, <2>5, <2>6, <2>7, <2>9, CommittingTallies
    <3> QED BY <2>1, <2>4, <2>9, <3>1
  <2> QED BY <2>8, <2>9
<1> QED BY <1>2, <1>3

(* A link to a work, with the draft rows that it commits, the people whom that
   leaves with no proposal, and the classifications that it passes on. *)
LEMMA AddWorkTallies ==
    ASSUME NEW d, Sound(d), NEW p \in Publications, NEW w \in Works, IsLive(d, p), IsLive(d, w)
    PROVE  Tallies(d, EventsOfAddWork(d, p, w), AddWork(d, p, w))
<1> USE LinkedRows
<1> DEFINE linked == Link(d, p, w)
           reached == ContentsOf(linked, p) \union ContributorsOf(d, w)
           commits == IF IsDraft(d, p) THEN {} ELSE Drafts(d, reached)
           committed == CommitRows(linked, commits)
           collected == IF commits = {} THEN committed ELSE CollectPeople(committed)
           after == Inherit(collected, p, d.kind[p])
           first == Updated(p, "contents")
           told == EachCommitted(commits)
           orphaned == IF commits = {} THEN <<>> ELSE OrphanedPeople(committed)
           S == {v \in ContentsOf(linked, p) : linked.kind[v] = Unclassified}
           classified == IF d.kind[p] = Unclassified THEN <<>>
                         ELSE Each("user", "updated", S, "classification")
<1>1. /\ d \in Db /\ linked \in Db /\ linked.mark = d.mark /\ linked.kind = d.kind
      /\ linked.links = d.links \union {<<p, w>>} /\ Linked(linked)
  <2>1. d \in Db
    BY DEF Sound, SoundBut
  <2>2. linked \in Db /\ linked.mark = d.mark /\ linked.kind = d.kind
    BY LinkTables, ZenonT(60)
  <2>3. linked.links = d.links \union {<<p, w>>}
    BY <2>1 DEF Link, Db
  <2>4. Linked(linked)
    BY LinkTables, ZenonT(60)
  <2> QED BY <2>1, <2>2, <2>3, <2>4
<1>2. CASE <<p, w>> \in d.links
  <2>1. Tallies(d, <<>>, d)
    BY NothingToTell
  <2> QED BY <1>2, <2>1 DEF EventsOfAddWork, AddWork
<1>3. CASE <<p, w>> \notin d.links
  <2>1. IsCommitted(d, p) <=> ~IsDraft(d, p)
    BY <1>1, Tables DEF IsLive, IsDraft, IsCommitted, Marks
  <2>2. AddWork(d, p, w) = after
    BY <1>3, <2>1 DEF AddWork, Drafts
  <2>3. EventsOfAddWork(d, p, w) = ((first \o told) \o orphaned) \o classified
    BY <1>3 DEF EventsOfAddWork, EachClassified
  <2>4. /\ commits \in SUBSET Entities /\ Drafts(linked, commits) = commits
        /\ \A x \in commits \intersect People : <<w, x>> \in linked.links
        /\ \A e \in commits : IsDraft(linked, e)
    BY <1>1, IdsAreDistinct DEF Drafts, IsDraft, ContentsOf, ContributorsOf, Entities
  <2>5. /\ S \subseteq Works
        /\ \A v \in S : <<p, v>> \in linked.links /\ linked.kind[v] = Unclassified
    BY DEF ContentsOf
  <2>6. Tallies(d, first, linked) /\ Says(first) = {<<"contents", p>>}
    <3>1. Says(first) = {<<"contents", p>>}
      BY OneSays DEF Updated, Fields
    <3> HIDE DEF linked
    <3> QED BY <1>1, <1>3, <3>1, OneLinkTallies
  <2>7. told \in Seq(Events) /\ Says(told) = {"committed"} \X commits
    <3> HIDE DEF commits
    <3> QED BY <2>4, EachCommittedSays DEF SayOfEach
  <2>8. S = {v \in ContentsOf(linked, p) : linked.kind[v] = Unclassified}
    OBVIOUS
  <2> HIDE DEF linked, commits, told, S
  <2>9. Tallies(d, first \o told, committed)
    BY <1>1, <2>4, <2>6, <2>7, CommittingTallies
  <2>10. /\ committed \in Db /\ committed.links = linked.links /\ committed.kind = linked.kind
         /\ \A e \in Entities : IsLive(committed, e) <=> IsLive(linked, e)
    <3>1. /\ committed \in Db
          /\ committed.mark
               = [e \in Entities |-> IF e \in commits THEN "committed" ELSE linked.mark[e]]
      BY <1>1, <2>4, CommitRowsTyped DEF Drafts
    <3>2. committed.links = linked.links /\ committed.kind = linked.kind
      BY <1>1 DEF CommitRows, Db
    <3>3. \A e \in Entities : IsLive(committed, e) <=> IsLive(linked, e)
      <4> HIDE DEF committed
      <4> QED BY <2>4, <3>1 DEF IsLive, IsDraft
    <3> QED BY <3>1, <3>2, <3>3
  <2> HIDE DEF committed
  <2>11. ASSUME NEW x \in OrphanPeople(committed)
         PROVE  IsSilent(first \o told, x)
    <3>1. x \in People /\ <<w, x>> \notin linked.links
      BY <2>10 DEF OrphanPeople, IsNeeded
    <3>2. x \notin commits /\ x # p
      BY <2>4, <3>1, IdsAreDistinct
    <3>3. Says(first \o told) = Says(first) \union Says(told)
      BY <2>6, <2>7, BothSay DEF Tallies
    <3> HIDE DEF first
    <3> QED BY <2>6, <2>7, <3>2, <3>3 DEF IsSilent
  <2> DEFINE before == first \o told
  <2> HIDE DEF before, first
  <2>12. Tallies(d, before \o orphaned, collected)
    <3>1. CASE commits = {}
      <4>1. before \in Seq(Events) /\ before \o <<>> = before
        BY <2>9 DEF Tallies, before
      <4> QED BY <2>9, <3>1, <4>1 DEF before
    <3>2. CASE commits # {}
      <4>1. Tallies(d, before \o OrphanedPeople(committed), CollectPeople(committed))
        BY <2>9, <2>10, <2>11, OrphanedPeopleTallies DEF before
      <4> QED BY <3>2, <4>1
    <3> QED BY <3>1, <3>2
  <2>13. /\ collected \in Db
         /\ \A e \in Entities \ People : IsLive(collected, e) <=> IsLive(linked, e)
         /\ \A e \in Works : collected.kind[e] = linked.kind[e]
         /\ ContentsOf(collected, p) = ContentsOf(linked, p)
    <3> DEFINE gone == OrphanPeople(committed)
               less == Remove(committed, gone)
    <3>1. gone \subseteq People
      BY DEF OrphanPeople
    <3>2. less \in Db
      BY <2>10, RemoveTyped
    <3>3. /\ \A e \in Entities : IsLive(less, e) <=> IsLive(committed, e) /\ e \notin gone
      BY RemoveTables
    <3>4. /\ \A e \in Parents : e \notin gone => less.kind[e] = committed.kind[e]
          /\ \A v : <<p, v>> \in less.links
                      <=> <<p, v>> \in committed.links /\ p \notin gone /\ v \notin gone
      BY DEF Remove
    <3>5. CollectPeople(committed) = less
      BY DEF CollectPeople
    <3> HIDE DEF gone, less
    <3>6. ContentsOf(less, p) = ContentsOf(linked, p)
      BY <2>10, <3>1, <3>4, IdsAreDistinct DEF ContentsOf
    <3>7. ContentsOf(committed, p) = ContentsOf(linked, p)
      BY <2>10 DEF ContentsOf
    <3>8. \A e \in Works : less.kind[e] = linked.kind[e]
      BY <2>10, <3>1, <3>4, IdsAreDistinct
    <3> QED BY <2>10, <3>1, <3>2, <3>3, <3>5, <3>6, <3>7, <3>8
  <2> HIDE DEF collected
  <2> DEFINE so == before \o orphaned
  <2>14. so \in Seq(Events)
    BY <2>12 DEF Tallies
  <2> HIDE DEF so, orphaned
  <2>15. Tallies(d, so \o classified, after)
    <3>1. CASE d.kind[p] = Unclassified
      <4>1. after = collected /\ so \o classified = so
        BY <2>14, <3>1 DEF Inherit
      <4> QED BY <2>12, <4>1 DEF so
    <3>2. CASE d.kind[p] # Unclassified
      <4>1. d.kind[p] \in Kinds
        BY <1>1, <3>2, Tables
      <4>2. S = {v \in ContentsOf(collected, p) : collected.kind[v] = Unclassified}
        BY <2>8, <2>13 DEF ContentsOf
      <4>3. ASSUME NEW v \in S
            PROVE  Remains(d, collected, v) /\ d.kind[v] = collected.kind[v]
        <5>1. v \in Works /\ <<p, v>> \in linked.links
          BY <2>5
        <5>2. IsLive(linked, v)
          BY <1>1, <5>1 DEF Linked
        <5>3. IsLive(d, v)
          BY <1>1, <5>2 DEF IsLive
        <5> QED BY <1>1, <2>13, <5>1, <5>2, <5>3, IdsAreDistinct DEF Remains
      <4>4. Tallies(d, so, collected)
        BY <2>12 DEF so
      <4>5. "user" \in {"user", "enrichment"}
        OBVIOUS
      <4> DEFINE k == d.kind[p]
      <4> HIDE DEF k
      <4>6. Tallies(d, so \o Each("user", "updated", S, "classification"), Inherit(collected, p, k))
        BY <2>13, <4>1, <4>2, <4>3, <4>4, <4>5, InheritingTallies DEF k
      <4> QED BY <3>2, <4>6 DEF k
    <3> QED BY <3>1, <3>2
  <2> QED BY <2>2, <2>3, <2>15 DEF so, before
<1> QED BY <1>2, <1>3

(* A classification set, and passed on. *)
LEMMA ClassifyTallies ==
    ASSUME NEW d, Sound(d), NEW p \in Publications, IsLive(d, p),
           NEW k \in Kinds, d.kind[p] # k, NEW source \in {"user", "enrichment"}
    PROVE  Tallies(d, <<Event(source, "updated", p, "classification")>> \o EachClassified(d, p, source),
                   Inherit([d EXCEPT !.kind[p] = k], p, k))
<1> USE LinkedRows
<1> DEFINE kinds == [d.kind EXCEPT ![p] = k]
           m == [d EXCEPT !.kind[p] = k]
           S == {w \in ContentsOf(d, p) : d.kind[w] = Unclassified}
           first == <<Event(source, "updated", p, "classification")>>
<1>1. d \in Db
  BY DEF Sound, SoundBut
<1>2. m.mark = d.mark /\ m.kind = kinds /\ m.links = d.links /\ m \in Db
  <2>1. m = [d EXCEPT !.kind = kinds] /\ kinds \in [Parents -> Kinds \union {Unclassified}]
    BY <1>1, Tables DEF Db
  <2> HIDE DEF m, kinds
  <2>2. m = [mark |-> d.mark, kind |-> kinds, links |-> d.links, proposals |-> d.proposals]
    BY <1>1, <2>1, OneTable
  <2>3. m \in Db
    BY <1>1, <2>1, <2>2, Tables DEF Db
  <2> QED BY <2>2, <2>3
<1>3. Tallies(d, first, m)
  BY <1>1, OneKindTallies
<1> HIDE DEF m, first
<1>4. \A w \in Works : m.kind[w] = d.kind[w]
  BY <1>1, <1>2, Tables, IdsAreDistinct
<1>5. S = {w \in ContentsOf(m, p) : m.kind[w] = Unclassified}
  BY <1>2, <1>4 DEF ContentsOf
<1>6. \A w \in S : Remains(d, m, w) /\ d.kind[w] = m.kind[w]
  BY <1>2, <1>4 DEF Sound, SoundBut, Linked, ContentsOf, Remains, IsLive
<1> HIDE DEF S
<1>7. Tallies(d, first \o Each(source, "updated", S, "classification"), Inherit(m, p, k))
  BY <1>2, <1>3, <1>5, <1>6, InheritingTallies
<1> QED BY <1>7 DEF EachClassified, S, m, first

-----------------------------------------------------------------------------
(***************************************************************************)
(* What the log ends with                                                  *)
(***************************************************************************)

\* The fields are those of what has them.
FieldsInv ==
    /\ value = [e \in Subjects |-> value[e]]
    /\ items = [e \in Valued |-> items[e]]

\* What a step that records `said` changes of the other fields
FieldsAreTold(said) ==
    \A e \in Valued :
        /\ <<"value", e>> \in said <=> Survives(e) /\ value[e] # value'[e]
        /\ <<"items", e>> \in said <=> Survives(e) /\ items[e] # items'[e]

\* The property, of what a step records
IsWhatChanged(said) ==
    \A e \in Entities :
      /\ <<"created", e>> \in said <=> ~IsLive(db, e) /\ IsLive(db', e)
      /\ <<"committed", e>> \in said <=> IsDraft(db, e) /\ IsCommitted(db', e)
      /\ <<"deleted", e>> \in said \/ (IsLive(db, e) /\ <<"deleted", Library>> \in said)
           <=> IsLive(db, e) /\ ~IsLive(db', e)
      /\ <<"contents", e>> \in said =>
           Survives(e) /\ LinksIn(db, e, Works) # LinksIn(db', e, Works)
      /\ Survives(e) /\ LinksChange(e, Works) => <<"contents", e>> \in said
      /\ <<"contributors", e>> \in said =>
           Survives(e) /\ LinksIn(db, e, People) # LinksIn(db', e, People)
      /\ Survives(e) /\ LinksChange(e, People) => <<"contributors", e>> \in said
      /\ e \in Parents =>
           (<<"classification", e>> \in said <=> Survives(e) /\ db.kind[e] # db'.kind[e])
      /\ e \in Valued =>
           /\ <<"value", e>> \in said <=> Survives(e) /\ value[e] # value'[e]
           /\ <<"items", e>> \in said <=> Survives(e) /\ items[e] # items'[e]

\* What the newest events of the log say
News == {<<Topic(log'[i]), log'[i].subject>> : i \in (Len(log') - news' + 1)..Len(log')}

(* The log ends with what was recorded, if it can hold that. *)
LEMMA NewsAreSaid ==
    ASSUME log \in Seq(Events), NEW events \in Seq(Events), Record(events), news' <= MaxEvents
    PROVE  News = Says(events) /\ log' \in Seq(Events) /\ news' \in Nat /\ news' <= Len(log')
<1> DEFINE all == log \o events
           n == Len(events)
           q == log'
<1>1. /\ all \in Seq(Events) /\ Len(all) = Len(log) + n
      /\ \A i \in 1..n : all[Len(log) + i] = events[i]
      /\ Len(log) \in Nat /\ n \in Nat
  BY Appended
<1>2. /\ q = IF Len(all) <= MaxEvents THEN all ELSE Trimmed(all)
      /\ news' = n
  BY DEF Record
<1> HIDE DEF all
<1>3. MaxEvents \in Nat /\ Len(all) \in Nat
  BY <1>1, LogIsBounded
<1> HIDE DEF q, n
<1>4. q \in Seq(Events) /\ n <= Len(q) /\ Len(q) \in Nat
      /\ \A i \in 1..n : q[(Len(q) - n) + i] = events[i]
  <2>1. CASE Len(all) <= MaxEvents
    <3>1. q = all
      BY <1>2, <2>1
    <3>2. Len(all) - n = Len(log)
      BY <1>1, <1>3
    <3>3. Len(q) - n = Len(log) /\ n <= Len(q) /\ q \in Seq(Events) /\ Len(q) \in Nat
      BY <1>1, <1>3, <3>1, <3>2
    <3>4. \A i \in 1..n : q[(Len(q) - n) + i] = events[i]
      BY <1>1, <3>1, <3>3
    <3> QED BY <3>3, <3>4
  <2>2. CASE Len(all) > MaxEvents
    <3> DEFINE k == Len(all) - MaxEvents
    <3>1. q = Trimmed(all)
      BY <1>2, <1>3, <2>2
    <3>2. n <= MaxEvents
      BY <1>2
    <3>3. k \in Nat /\ Len(all) = k + MaxEvents
      BY <1>3, <2>2
    <3>4. /\ q \in Seq(Events) /\ Len(q) = MaxEvents
          /\ \A i \in 1..Len(q) : q[i] = all[k + i]
      BY <1>1, <1>3, <2>2, <3>1 DEF Trimmed
    <3>5. ASSUME NEW i \in 1..n
          PROVE  q[(Len(q) - n) + i] = events[i]
      <4>1. (MaxEvents - n) + i \in 1..MaxEvents /\ k + ((MaxEvents - n) + i) = Len(log) + i
        BY <1>1, <1>3, <3>2, <3>3
      <4> QED BY <1>1, <3>4, <4>1
    <3> QED BY <1>3, <3>2, <3>4, <3>5
  <2> QED BY <1>3, <2>1, <2>2
<1>5. News = {<<Topic(q[i]), q[i].subject>> : i \in (Len(q) - n + 1)..Len(q)}
  BY <1>2 DEF News, q
<1>6. \A i \in 1..n : (Len(q) - n) + i \in (Len(q) - n + 1)..Len(q)
  BY <1>1, <1>4
<1>7. \A i \in (Len(q) - n + 1)..Len(q) : \E j \in 1..n : i = (Len(q) - n) + j
  <2>1. \A i \in (Len(q) - n + 1)..Len(q) : i - (Len(q) - n) \in 1..n /\ i = (Len(q) - n) + (i - (Len(q) - n))
    BY <1>1, <1>4
  <2> QED BY <2>1
<1>8. ASSUME NEW x \in News
      PROVE  x \in Says(events)
  <2>1. PICK i \in (Len(q) - n + 1)..Len(q) : x = <<Topic(q[i]), q[i].subject>>
    BY <1>5
  <2>2. PICK j \in 1..n : i = (Len(q) - n) + j
    BY <1>7
  <2>3. q[i] = events[j]
    BY <1>4, <2>2
  <2> QED BY <2>1, <2>3 DEF Says, n
<1>9. ASSUME NEW x \in Says(events)
      PROVE  x \in News
  <2>1. PICK j \in 1..n : x = <<Topic(events[j]), events[j].subject>>
    BY DEF Says, n
  <2>2. q[(Len(q) - n) + j] = events[j] /\ (Len(q) - n) + j \in (Len(q) - n + 1)..Len(q)
    BY <1>4, <1>6
  <2> QED BY <1>5, <2>1, <2>2
<1>10. News = Says(events)
  BY <1>8, <1>9
<1>11. news' = n
  BY <1>2
<1> QED BY <1>1, <1>4, <1>10, <1>11 DEF q

(* What a step tells is what its newest events say. *)
LEMMA NewsTell ==
    ASSUME log' \in Seq(Events), news' \in Nat, news' <= Len(log')
    PROVE  /\ \A e : Told("created", e) <=> <<"created", e>> \in News
           /\ \A e : Told("committed", e) <=> <<"committed", e>> \in News
           /\ \A e : Told("deleted", e) <=> <<"deleted", e>> \in News
           /\ \A field \in Fields : \A e : ToldField(e, field) <=> <<field, e>> \in News
<1> DEFINE q == log'
           D == (Len(q) - news' + 1)..Len(q)
<1>1. News = {<<Topic(q[i]), q[i].subject>> : i \in D}
  BY DEF News
<1>2. /\ \A action, e : Told(action, e) <=> \E i \in D : q[i].action = action /\ q[i].subject = e
      /\ \A e, field : ToldField(e, field)
           <=> \E i \in D : q[i].action = "updated" /\ q[i].subject = e /\ q[i].field = field
  BY DEF Told, ToldField
<1>3. \A i \in D : i \in 1..Len(q)
  OBVIOUS
<1>4. \A i \in D : q[i] \in Events
  <2> HIDE DEF D
  <2> QED BY <1>3
<1> HIDE DEF q, D
<1>5. ASSUME NEW event \in Events
      PROVE  /\ \A action \in {"created", "committed", "deleted"} :
                   Topic(event) = action <=> event.action = action
             /\ \A field \in Fields :
                   Topic(event) = field <=> event.action = "updated" /\ event.field = field
  <2>1. /\ event.action \in {"created", "updated", "committed", "deleted"}
        /\ event.field \in Fields \union {NoField}
    BY DEF Events
  <2>2. CASE event.action = "updated"
    <3>1. Topic(event) = event.field
      BY <2>2 DEF Topic
    <3> QED BY <2>1, <2>2, <3>1 DEF Fields, NoField
  <2>3. CASE event.action # "updated"
    <3>1. Topic(event) = event.action
      BY <2>3 DEF Topic
    <3> QED BY <2>1, <2>3, <3>1 DEF Fields
  <2> QED BY <2>2, <2>3
<1>6. \A i \in D : /\ \A action \in {"created", "committed", "deleted"} :
                        Topic(q[i]) = action <=> q[i].action = action
                  /\ \A field \in Fields :
                        Topic(q[i]) = field <=> q[i].action = "updated" /\ q[i].field = field
  BY <1>4, <1>5
<1>7. \A action \in {"created", "committed", "deleted"} : \A e :
          Told(action, e) <=> <<action, e>> \in News
  BY <1>1, <1>2, <1>6
<1>8. \A field \in Fields : \A e : ToldField(e, field) <=> <<field, e>> \in News
  BY <1>1, <1>2, <1>6
<1> QED BY <1>7, <1>8

(* So a step that says what it changes is as the property wants it. *)
LEMMA SaysWhatChanged ==
    ASSUME log' \in Seq(Events), news' \in Nat, news' <= Len(log'), IsWhatChanged(News)
    PROVE  \A e \in Entities :
             /\ Told("created", e) <=> ~IsLive(db, e) /\ IsLive(db', e)
             /\ Told("committed", e) <=> IsDraft(db, e) /\ IsCommitted(db', e)
             /\ Told("deleted", e) \/ (IsLive(db, e) /\ Told("deleted", Library))
                  <=> IsLive(db, e) /\ ~IsLive(db', e)
             /\ ToldField(e, "contents") =>
                  Survives(e) /\ LinksIn(db, e, Works) # LinksIn(db', e, Works)
             /\ Survives(e) /\ LinksChange(e, Works) => ToldField(e, "contents")
             /\ ToldField(e, "contributors") =>
                  Survives(e) /\ LinksIn(db, e, People) # LinksIn(db', e, People)
             /\ Survives(e) /\ LinksChange(e, People) => ToldField(e, "contributors")
             /\ e \in Parents =>
                  (ToldField(e, "classification") <=> Survives(e) /\ db.kind[e] # db'.kind[e])
             /\ e \in Valued =>
                  /\ ToldField(e, "value") <=> Survives(e) /\ value[e] # value'[e]
                  /\ ToldField(e, "items") <=> Survives(e) /\ items[e] # items'[e]
<1>1. /\ \A e : Told("created", e) <=> <<"created", e>> \in News
      /\ \A e : Told("committed", e) <=> <<"committed", e>> \in News
      /\ \A e : Told("deleted", e) <=> <<"deleted", e>> \in News
      /\ \A e : ToldField(e, "contents") <=> <<"contents", e>> \in News
      /\ \A e : ToldField(e, "contributors") <=> <<"contributors", e>> \in News
      /\ \A e : ToldField(e, "classification") <=> <<"classification", e>> \in News
      /\ \A e : ToldField(e, "value") <=> <<"value", e>> \in News
      /\ \A e : ToldField(e, "items") <=> <<"items", e>> \in News
  BY NewsTell DEF Fields
<1> QED BY <1>1 DEF IsWhatChanged

(* What explains the rows, and tells of the fields, is what changed. *)
LEMMA ExplainedIsWhatChanged ==
    ASSUME NEW said, Explains(db, said, db'), FieldsAreTold(said)
    PROVE  IsWhatChanged(said)
<1> SUFFICES ASSUME NEW e \in Entities
             PROVE  /\ <<"created", e>> \in said <=> ~IsLive(db, e) /\ IsLive(db', e)
                    /\ <<"committed", e>> \in said <=> IsDraft(db, e) /\ IsCommitted(db', e)
                    /\ <<"deleted", e>> \in said
                         \/ (IsLive(db, e) /\ <<"deleted", Library>> \in said)
                         <=> IsLive(db, e) /\ ~IsLive(db', e)
                    /\ <<"contents", e>> \in said =>
                         Survives(e) /\ LinksIn(db, e, Works) # LinksIn(db', e, Works)
                    /\ Survives(e) /\ LinksChange(e, Works) => <<"contents", e>> \in said
                    /\ <<"contributors", e>> \in said =>
                         Survives(e) /\ LinksIn(db, e, People) # LinksIn(db', e, People)
                    /\ Survives(e) /\ LinksChange(e, People) => <<"contributors", e>> \in said
                    /\ e \in Parents =>
                         (<<"classification", e>> \in said
                            <=> Survives(e) /\ db.kind[e] # db'.kind[e])
                    /\ e \in Valued =>
                         /\ <<"value", e>> \in said <=> Survives(e) /\ value[e] # value'[e]
                         /\ <<"items", e>> \in said <=> Survives(e) /\ items[e] # items'[e]
  BY DEF IsWhatChanged
<1>1. /\ <<"deleted", Library>> \notin said
      /\ LifeIsTold(db, said, db', e) /\ KindIsTold(db, said, db', e)
      /\ LinksAreTold(db, said, db', e, "contents", Works)
      /\ LinksAreTold(db, said, db', e, "contributors", People)
  BY DEF Explains
<1>2. Survives(e) <=> Remains(db, db', e)
  BY DEF Survives, Remains
<1>3. ASSUME NEW S
      PROVE  /\ (\E t \in S : IsRelinked(db, db', e, t)) => LinksIn(db, e, S) # LinksIn(db', e, S)
             /\ LinksChange(e, S) => \E t \in S : IsRelinked(db, db', e, t) /\ IsLive(db', t)
  <2>1. ASSUME NEW t \in S, IsRelinked(db, db', e, t)
        PROVE  LinksIn(db, e, S) # LinksIn(db', e, S)
    <3>1. ~(t \in LinksIn(db, e, S) <=> t \in LinksIn(db', e, S))
      BY <2>1 DEF IsRelinked, LinksIn
    <3> QED BY <3>1
  <2>2. ASSUME NEW t \in S, (<<e, t>> \in db.links) # (<<e, t>> \in db'.links)
        PROVE  IsRelinked(db, db', e, t)
    BY <2>2 DEF IsRelinked
  <2> QED BY <2>1, <2>2 DEF LinksChange
<1>4. /\ <<"created", e>> \in said <=> ~IsLive(db, e) /\ IsLive(db', e)
      /\ <<"committed", e>> \in said <=> IsDraft(db, e) /\ IsCommitted(db', e)
      /\ <<"deleted", e>> \in said <=> IsLive(db, e) /\ ~IsLive(db', e)
  BY <1>1 DEF LifeIsTold
<1>5. ASSUME NEW field, NEW S, LinksAreTold(db, said, db', e, field, S)
      PROVE  /\ <<field, e>> \in said => Survives(e) /\ LinksIn(db, e, S) # LinksIn(db', e, S)
             /\ Survives(e) /\ LinksChange(e, S) => <<field, e>> \in said
  BY <1>2, <1>3, <1>5 DEF LinksAreTold
<1>6. e \in Parents =>
        (<<"classification", e>> \in said <=> Survives(e) /\ db.kind[e] # db'.kind[e])
  BY <1>1, <1>2 DEF KindIsTold
<1>7. e \in Valued =>
        /\ <<"value", e>> \in said <=> Survives(e) /\ value[e] # value'[e]
        /\ <<"items", e>> \in said <=> Survives(e) /\ items[e] # items'[e]
  BY DEF FieldsAreTold
<1> QED BY <1>1, <1>4, <1>5, <1>6, <1>7

\* That a step's newest events, if the log holds them all, are what it changed
TellsWhatChanged ==
    news' <= MaxEvents =>
        /\ log' \in Seq(Events) /\ news' \in Nat /\ news' <= Len(log')
        /\ IsWhatChanged(News)

(* A step on the rows resets the fields of those that go, and changes no other. *)
LEMMA RowsTellWhatChanged ==
    ASSUME log \in Seq(Events), FieldsInv, NEW events, NEW d, Tallies(db, events, d), db' = d,
           FieldsOf(d), Record(events)
    PROVE  TellsWhatChanged /\ FieldsInv'
<1>1. FieldsInv'
  BY DEF FieldsOf, FieldsInv
<1>2. Explains(db, Says(events), db') /\ events \in Seq(Events)
  BY DEF Tallies
<1>3. Valued \subseteq Entities /\ Valued \subseteq Subjects
  BY IdsAreDistinct DEF Subjects
<1>4. \A e \in Valued : Survives(e) => value'[e] = value[e] /\ items'[e] = items[e]
  BY <1>3 DEF FieldsOf, Survives
<1>5. FieldsAreTold(Says(events))
  BY <1>2, <1>3, <1>4 DEF FieldsAreTold, Explains
<1>6. IsWhatChanged(Says(events))
  BY <1>2, <1>5, ExplainedIsWhatChanged
<1>7. ASSUME news' <= MaxEvents
      PROVE  /\ News = Says(events) /\ log' \in Seq(Events) /\ news' \in Nat
             /\ news' <= Len(log')
  BY <1>2, <1>7, NewsAreSaid
<1> QED BY <1>1, <1>6, <1>7 DEF TellsWhatChanged

(* A field set, or items added or removed, is told of if that changes it. *)
LEMMA FieldTellsWhatChanged ==
    ASSUME log \in Seq(Events), FieldsInv, NEW a \in Entities \union {Library}, NEW v,
           a \in Entities => IsLive(db, a), ToValue(a, v) \/ ToItems(a, v),
           db'.mark = db.mark, db'.kind = db.kind, db'.links = db.links
    PROVE  TellsWhatChanged /\ FieldsInv'
<1>1. /\ \A e : IsLive(db', e) <=> IsLive(db, e)
      /\ \A e : ~(IsDraft(db, e) /\ IsCommitted(db', e))
      /\ \A e, S : LinksIn(db', e, S) = LinksIn(db, e, S) /\ ~LinksChange(e, S)
  BY DEF IsLive, IsDraft, IsCommitted, LinksIn, LinksChange
<1>2. FieldsInv'
  BY DEF ToValue, ToItems, FieldsInv
<1>3. ASSUME NEW field \in {"value", "items"}
      PROVE  /\ Updated(a, field) \in Seq(Events) /\ Says(Updated(a, field)) = {<<field, a>>}
             /\ <<>> \in Seq(Events) /\ Says(<<>>) = {}
  BY OneSays, NothingSays DEF Updated, Fields
<1>4. ASSUME NEW said, \A topic \in Topics \ {"value", "items"} : \A e : <<topic, e>> \notin said,
             FieldsAreTold(said)
      PROVE  IsWhatChanged(said)
  <2>1. \A topic \in {"created", "committed", "deleted", "contents", "contributors",
                       "classification"} : \A e : <<topic, e>> \notin said
    BY <1>4 DEF Topics, Fields
  <2> QED BY <1>1, <1>4, <2>1 DEF IsWhatChanged, FieldsAreTold
<1>5. \A e \in Valued : Survives(e) <=> IsLive(db, e)
  BY <1>1 DEF Survives
<1>6. Valued \subseteq Subjects /\ Valued \subseteq Entities
  BY IdsAreDistinct DEF Subjects
<1>7. ASSUME NEW said, said = {} \/ said = {<<"value", a>>} \/ said = {<<"items", a>>}
      PROVE  \A topic \in Topics \ {"value", "items"} : \A e : <<topic, e>> \notin said
  BY <1>7
<1>8. ASSUME NEW events \in Seq(Events), Record(events),
             \/ Says(events) = {} \/ Says(events) = {<<"value", a>>}
             \/ Says(events) = {<<"items", a>>},
             FieldsAreTold(Says(events))
      PROVE  TellsWhatChanged
  <2>1. IsWhatChanged(Says(events))
    BY <1>4, <1>7, <1>8
  <2>2. ASSUME news' <= MaxEvents
        PROVE  /\ News = Says(events) /\ log' \in Seq(Events) /\ news' \in Nat
               /\ news' <= Len(log')
    BY <1>8, <2>2, NewsAreSaid
  <2> QED BY <2>1, <2>2 DEF TellsWhatChanged
<1>9. CASE ToValue(a, v)
  <2> DEFINE events == IF value[a] = v THEN <<>> ELSE Updated(a, "value")
  <2>1. Record(events) /\ value' = [value EXCEPT ![a] = v] /\ items' = items
    BY <1>9 DEF ToValue
  <2>2. /\ events \in Seq(Events)
        /\ Says(events) = IF value[a] = v THEN {} ELSE {<<"value", a>>}
    BY <1>3
  <2> HIDE DEF events
  <2>3. \A e \in Valued : value'[e] # value[e] <=> e = a /\ value[a] # v
    <3>1. \A e \in Valued : e \in DOMAIN value
      BY <1>6 DEF FieldsInv
    <3> QED BY <2>1, <3>1
  <2>4. FieldsAreTold(Says(events))
    BY <1>5, <1>6, <2>1, <2>2, <2>3 DEF FieldsAreTold
  <2> QED BY <1>2, <1>8, <2>1, <2>2, <2>4
<1>10. CASE ToItems(a, v)
  <2> DEFINE events == IF items[a] = v THEN <<>> ELSE Updated(a, "items")
  <2>1. Record(events) /\ items' = [items EXCEPT ![a] = v] /\ value' = value
    BY <1>10 DEF ToItems
  <2>2. /\ events \in Seq(Events)
        /\ Says(events) = IF items[a] = v THEN {} ELSE {<<"items", a>>}
    BY <1>3
  <2> HIDE DEF events
  <2>3. \A e \in Valued : items'[e] # items[e] <=> e = a /\ items[a] # v
    <3>1. \A e \in Valued : e \in DOMAIN items
      BY DEF FieldsInv
    <3> QED BY <2>1, <3>1
  <2>4. FieldsAreTold(Says(events))
    BY <1>5, <1>6, <2>1, <2>2, <2>3 DEF FieldsAreTold
  <2> QED BY <1>2, <1>8, <2>1, <2>2, <2>4
<1> QED BY <1>9, <1>10

-----------------------------------------------------------------------------
(***************************************************************************)
(* Every step tells what it changes                                        *)
(***************************************************************************)

(* A transaction, with the tally of what it records. *)
LEMMA TransactionTells ==
    ASSUME log \in Seq(Events), FieldsInv, NEW d, NEW events, Transacts(d, events),
           Tallies(db, events, d)
    PROVE  TellsWhatChanged /\ FieldsInv'
BY RowsTellWhatChanged DEF Transacts, Write

(* What is not audited changes nothing that the log tells of. *)
LEMMA UnauditedTells ==
    ASSUME log \in Seq(Events), FieldsInv, Unaudited,
           db'.mark = db.mark, db'.kind = db.kind, db'.links = db.links
    PROVE  TellsWhatChanged /\ FieldsInv'
<1>1. news' = 0 /\ log' = log /\ value' = value /\ items' = items
  BY DEF Unaudited
<1>2. Len(log') \in Nat /\ log' \in Seq(Events)
  BY <1>1
<1>3. News = {}
  <2>1. (Len(log') - news' + 1)..Len(log') = {}
    BY <1>1, <1>2
  <2> QED BY <2>1 DEF News
<1>4. Explains(db, {}, db')
  BY NothingToTell
<1>5. FieldsAreTold({})
  BY <1>1 DEF FieldsAreTold
<1>6. IsWhatChanged(News)
  BY <1>3, <1>4, <1>5, ExplainedIsWhatChanged
<1>7. FieldsInv'
  BY <1>1 DEF FieldsInv
<1> QED BY <1>1, <1>2, <1>6, <1>7 DEF TellsWhatChanged

(* The tables with a new row linked from a parent. *)
LEMMA CreateTables ==
    ASSUME NEW d, Sound(d), NEW a, NEW e \in Works \union People, ~IsLive(d, e),
           NEW mark \in {"draft", "committed"},
           NEW n, n = Link(Insert(d, e, mark), a, e)
    PROVE  n = [mark |-> [d.mark EXCEPT ![e] = mark], kind |-> d.kind,
                links |-> d.links \union {<<a, e>>}, proposals |-> d.proposals]
<1> USE LinkedRows
<1> DEFINE inserted == Insert(d, e, mark)
           S == inserted.links \union {<<a, e>>}
<1>1. /\ Sound(inserted) /\ inserted.mark = [d.mark EXCEPT ![e] = mark]
      /\ inserted.kind = d.kind /\ inserted.links = d.links
      /\ inserted.proposals = d.proposals
  BY InsertSound
<1> HIDE DEF inserted
<1>2. inserted \in Db
  BY <1>1 DEF Sound, SoundBut
<1>3. n = [inserted EXCEPT !.links = S]
  BY <1>2 DEF Link, Db, inserted
<1>4. S = d.links \union {<<a, e>>}
  BY <1>1
<1> HIDE DEF S
<1>5. n = [mark |-> inserted.mark, kind |-> inserted.kind, links |-> S,
           proposals |-> inserted.proposals]
  BY <1>2, <1>3, OneTable
<1> QED BY <1>1, <1>4, <1>5

(* What each edit of the catalog records tallies with what it changes. *)
LEMMA AuditedEditsTell ==
    ASSUME Inv, log \in Seq(Events), FieldsInv,
           \/ AuditedImport \/ AuditedClassify \/ AuditedClassifyIfUnset \/ AuditedClassifyWork
           \/ AuditedCreateWork \/ AuditedCreateContributor
           \/ AuditedAddWork \/ AuditedRemoveWork
           \/ AuditedAddContributor \/ AuditedRemoveContributor
           \/ AuditedProposeNew \/ AuditedReject \/ AuditedRejectAll
           \/ AuditedCommit \/ AuditedDelete
    PROVE  TellsWhatChanged /\ FieldsInv'
<1> USE LinkedRows
<1>1. Sound(db) /\ db \in Db /\ Linked(db)
  BY DEF Inv, Sound, SoundBut
<1>2. CASE AuditedImport
  <2>1. PICK p \in Publications : ~IsLive(db, p) /\ Transacts(Insert(db, p, "draft"), Created(p))
    BY <1>2 DEF AuditedImport, Fresh
  <2> DEFINE n == Insert(db, p, "draft")
  <2>2. n.mark = [db.mark EXCEPT ![p] = "draft"] /\ n.kind = db.kind /\ n.links = db.links
    BY <1>1, <2>1, InsertSound
  <2> HIDE DEF n
  <2>3. Tallies(db, Created(p), n)
    BY <1>1, <2>1, <2>2, OneCreatedTallies DEF Created
  <2> QED BY <2>1, <2>3, TransactionTells DEF n
<1>3. CASE AuditedClassify \/ AuditedClassifyIfUnset
  <2>1. PICK p \in Publications, k \in Kinds, source \in {"user", "enrichment"} :
            IsLive(db, p) /\ db.kind[p] # k /\ WriteClassification(p, k, source)
    BY <1>3, IdsAreDistinct DEF AuditedClassify, AuditedClassifyIfUnset, Live
  <2>2. Tallies(db, <<Event(source, "updated", p, "classification")>>
                      \o EachClassified(db, p, source),
                Inherit([db EXCEPT !.kind[p] = k], p, k))
    BY <1>1, <2>1, ClassifyTallies
  <2> QED BY <2>1, <2>2, TransactionTells DEF WriteClassification
<1>4. CASE AuditedClassifyWork
  <2>1. PICK w \in Works, k \in Kinds :
            /\ IsLive(db, w) /\ db.kind[w] # k
            /\ Transacts([db EXCEPT !.kind[w] = k], Updated(w, "classification"))
    BY <1>4 DEF AuditedClassifyWork, Live
  <2>2. Tallies(db, Updated(w, "classification"), [db EXCEPT !.kind[w] = k])
    BY <1>1, <2>1, OneKindTallies DEF Updated
  <2> QED BY <2>1, <2>2, TransactionTells
<1>5. CASE AuditedCreateWork
  <2>1. PICK p \in Publications, w \in Works :
            /\ IsLive(db, p) /\ ~IsLive(db, w)
            /\ Transacts([Link(Insert(db, w, db.mark[p]), p, w) EXCEPT !.kind[w] = db.kind[p]],
                         Created(w) \o Updated(p, "contents"))
    BY <1>5 DEF AuditedCreateWork, Live, Fresh
  <2> DEFINE mark == db.mark[p]
             k == db.kind[p]
             linked == Link(Insert(db, w, mark), p, w)
             kinds == [db.kind EXCEPT ![w] = k]
             n == [linked EXCEPT !.kind[w] = k]
  <2>2. Transacts(n, Created(w) \o Updated(p, "contents"))
    BY <2>1
  <2>3. mark \in {"draft", "committed"}
    BY <1>1, <2>1, Tables DEF IsLive, Marks
  <2> HIDE DEF mark, k
  <2>4. linked = [mark |-> [db.mark EXCEPT ![w] = mark], kind |-> db.kind,
                  links |-> db.links \union {<<p, w>>}, proposals |-> db.proposals]
    BY <1>1, <2>1, <2>3, CreateTables
  <2> HIDE DEF linked
  <2>5. /\ n.mark = [db.mark EXCEPT ![w] = mark]
        /\ n.links = db.links \union {<<p, w>>}
        /\ \A c \in Parents : c # w => n.kind[c] = db.kind[c]
    <3>1. /\ n.mark = [db.mark EXCEPT ![w] = mark]
          /\ n.links = db.links \union {<<p, w>>} /\ n.kind = kinds
      BY <2>4
    <3> HIDE DEF n
    <3>2. \A c \in Parents : c # w => kinds[c] = db.kind[c]
      BY <1>1, Tables
    <3> HIDE DEF kinds
    <3> QED BY <3>1, <3>2
  <2> HIDE DEF n
  <2>6. Tallies(db, Created(w) \o Updated(p, "contents"), n)
    BY <1>1, <2>1, <2>3, <2>5, CreatesTallies
  <2> QED BY <2>2, <2>6, TransactionTells
<1>6. CASE AuditedCreateContributor
  <2>1. PICK a \in Parents, x \in People :
            /\ IsLive(db, a) /\ ~IsLive(db, x)
            /\ Transacts(Link(Insert(db, x, db.mark[a]), a, x),
                         Created(x) \o Updated(a, "contributors"))
    BY <1>6 DEF AuditedCreateContributor, Live, Fresh
  <2> DEFINE mark == db.mark[a]
             n == Link(Insert(db, x, mark), a, x)
  <2>2. mark \in {"draft", "committed"}
    BY <1>1, <2>1, Tables DEF IsLive, Marks
  <2> HIDE DEF mark
  <2>3. /\ n.mark = [db.mark EXCEPT ![x] = mark] /\ n.kind = db.kind
        /\ n.links = db.links \union {<<a, x>>}
    <3>1. n = [mark |-> [db.mark EXCEPT ![x] = mark], kind |-> db.kind,
               links |-> db.links \union {<<a, x>>}, proposals |-> db.proposals]
      BY <1>1, <2>1, <2>2, CreateTables
    <3> HIDE DEF n
    <3> QED BY <3>1
  <2> HIDE DEF n
  <2>4. Tallies(db, Created(x) \o Updated(a, "contributors"), n)
    BY <1>1, <2>1, <2>2, <2>3, CreatesTallies
  <2> QED BY <2>1, <2>4, TransactionTells DEF n, mark
<1>7. CASE AuditedAddWork
  <2>1. PICK p \in Publications, w \in Works :
            /\ IsLive(db, p) /\ IsLive(db, w)
            /\ Transacts(AddWork(db, p, w), EventsOfAddWork(db, p, w))
    BY <1>7 DEF AuditedAddWork, Live
  <2> QED BY <1>1, <2>1, AddWorkTallies, TransactionTells
<1>8. CASE AuditedAddContributor
  <2>1. PICK a \in Parents, x \in People :
            /\ IsLive(db, a) /\ IsLive(db, x)
            /\ Transacts(AddContributor(db, a, x), EventsOfAddContributor(db, a, x))
    BY <1>8 DEF AuditedAddContributor, Live
  <2> QED BY <1>1, <2>1, AddContributorTallies, TransactionTells
<1>9. CASE AuditedRemoveWork
  <2>1. PICK p \in Publications, w \in Works :
            IsLive(db, p) /\ Transacts(RemoveWork(db, p, w), EventsOfRemoveWork(db, p, w))
    BY <1>9 DEF AuditedRemoveWork, Live
  <2> QED BY <1>1, <2>1, RemovesTallies, TransactionTells
<1>10. CASE AuditedRemoveContributor
  <2>1. PICK a \in Parents, x \in People :
            /\ IsLive(db, a)
            /\ Transacts(RemoveContributor(db, a, x), EventsOfRemoveContributor(db, a, x))
    BY <1>10 DEF AuditedRemoveContributor, Live
  <2> QED BY <1>1, <2>1, RemovesTallies, TransactionTells
<1>11. CASE AuditedProposeNew
  <2>1. PICK a \in Parents, e \in Works \union People :
            /\ ~IsLive(db, e)
            /\ Transacts(Propose(Insert(db, e, "draft"), a, e),
                         <<Event("enrichment", "created", e, NoField)>>)
    BY <1>11 DEF AuditedProposeNew, Live, Fresh
  <2> DEFINE inserted == Insert(db, e, "draft")
             n == Propose(inserted, a, e)
  <2>2. /\ inserted.mark = [db.mark EXCEPT ![e] = "draft"]
        /\ inserted.kind = db.kind /\ inserted.links = db.links
    BY <1>1, <2>1, InsertSound
  <2> HIDE DEF inserted
  <2>3. n.mark = inserted.mark /\ n.kind = inserted.kind /\ n.links = inserted.links
    BY DEF Propose
  <2> HIDE DEF n
  <2>4. Tallies(db, <<Event("enrichment", "created", e, NoField)>>, n)
    BY <1>1, <2>1, <2>2, <2>3, OneCreatedTallies
  <2> QED BY <2>1, <2>4, TransactionTells DEF n, inserted
<1>12. CASE AuditedReject \/ AuditedRejectAll
  <2>1. PICK e, rejected : Transacts(Reject(db, e, rejected), EventsOfReject(db, e, rejected))
    BY <1>12 DEF AuditedReject, AuditedRejectAll, Rejected
  <2> QED BY <1>1, <2>1, RejectTallies, TransactionTells
<1>13. CASE AuditedCommit
  <2>1. PICK e \in Entities : Transacts(Commit(db, e), EventsOfCommit(db, e))
    BY <1>13 DEF AuditedCommit, Live
  <2> QED BY <1>1, <2>1, CommitTallies, TransactionTells
<1>14. CASE AuditedDelete
  <2>1. PICK e \in Entities :
            IsLive(db, e) /\ Transacts(Delete(db, e), EventsOfDelete(db, e))
    BY <1>14 DEF AuditedDelete, Live
  <2> QED BY <1>1, <2>1, DeleteTallies, TransactionTells
<1> QED BY <1>2, <1>3, <1>4, <1>5, <1>6, <1>7, <1>8, <1>9, <1>10, <1>11, <1>12, <1>13, <1>14

(* A field's edit, or an item's, is told of when it changes something. *)
LEMMA FieldEditsTell ==
    ASSUME log \in Seq(Events), FieldsInv,
           \/ SetsPublicationField \/ SetsWorkField \/ RenamesPerson \/ SetsLibraryField
           \/ EditsPublicationItems \/ EditsWorkItems \/ EditsPersonItems
    PROVE  TellsWhatChanged /\ FieldsInv'
<1>1. \E a \in Entities \union {Library} : \E v :
          /\ a \in Entities => IsLive(db, a)
          /\ SetValue(a, v) \/ SetItems(a, v)
  <2>1. CASE SetsPublicationField \/ SetsWorkField \/ RenamesPerson
    <3>1. PICK e \in Entities, v \in Values : IsLive(db, e) /\ SetValue(e, v)
      BY <2>1, IdsAreDistinct DEF SetsPublicationField, SetsWorkField, RenamesPerson, Live
    <3> QED BY <3>1
  <2>2. CASE SetsLibraryField
    <3>1. PICK v \in Values : SetValue(Library, v)
      BY <2>2 DEF SetsLibraryField
    <3> QED BY <3>1, LogIsBounded
  <2>3. CASE EditsPublicationItems \/ EditsWorkItems \/ EditsPersonItems
    <3>1. PICK e \in Entities : IsLive(db, e) /\ AddsOrRemoves(e)
      BY <2>3, IdsAreDistinct DEF EditsPublicationItems, EditsWorkItems, EditsPersonItems, Live
    <3>2. PICK i \in Items : SetItems(e, items[e] \union {i}) \/ SetItems(e, items[e] \ {i})
      BY <3>1 DEF AddsOrRemoves
    <3> QED BY <3>1, <3>2
  <2> QED BY <2>1, <2>2, <2>3
<1>2. PICK a \in Entities \union {Library} : \E v :
          /\ a \in Entities => IsLive(db, a)
          /\ SetValue(a, v) \/ SetItems(a, v)
  BY <1>1
<1>3. PICK v : SetValue(a, v) \/ SetItems(a, v)
  BY <1>2
<1>4. UNCHANGED db /\ (ToValue(a, v) \/ ToItems(a, v))
  BY <1>3 DEF SetValue, SetItems
<1> QED BY <1>2, <1>4, FieldTellsWhatChanged

(* The deletion of the library is told of as that of all its rows. *)
LEMMA LibraryTells ==
    ASSUME log \in Seq(Events), FieldsInv, AuditedCreateLibrary \/ AuditedDeleteLibrary
    PROVE  TellsWhatChanged /\ FieldsInv'
<1>1. /\ Created(Library) \in Seq(Events) /\ Says(Created(Library)) = {<<"created", Library>>}
      /\ Deleted(Library) \in Seq(Events) /\ Says(Deleted(Library)) = {<<"deleted", Library>>}
  BY OneSays DEF Created, Deleted
<1>2. Valued \subseteq Entities
  BY IdsAreDistinct
<1>3. ASSUME NEW events \in Seq(Events), Record(events), IsWhatChanged(Says(events))
      PROVE  TellsWhatChanged
  BY <1>3, NewsAreSaid DEF TellsWhatChanged
<1>4. CASE AuditedCreateLibrary
  <2>1. Record(Created(Library)) /\ UNCHANGED <<db, value, items>>
    BY <1>4 DEF AuditedCreateLibrary
  <2>2. \A e \in Entities : ~(IsDraft(db, e) /\ IsCommitted(db, e)) /\ e # Library
    BY LogIsBounded DEF IsDraft, IsCommitted
  <2>3. IsWhatChanged({<<"created", Library>>})
    BY <2>1, <2>2 DEF IsWhatChanged, LinksIn, LinksChange
  <2>4. FieldsInv'
    BY <2>1 DEF FieldsInv
  <2> QED BY <1>1, <1>3, <2>1, <2>3, <2>4
<1>5. CASE AuditedDeleteLibrary
  <2>1. /\ Record(Deleted(Library)) /\ db' = Remove(db, Entities)
        /\ value' = [e \in Subjects |-> Default] /\ items' = [e \in Valued |-> {}]
    BY <1>5 DEF AuditedDeleteLibrary, Write
  <2>2. \A e \in Entities : ~IsLive(db', e) /\ ~IsCommitted(db', e) /\ ~Survives(e) /\ e # Library
    BY <2>1, RemoveTables, LogIsBounded DEF Survives
  <2>3. IsWhatChanged({<<"deleted", Library>>})
    BY <2>2 DEF IsWhatChanged
  <2>4. FieldsInv'
    BY <2>1 DEF FieldsInv
  <2> QED BY <1>1, <1>3, <2>1, <2>3, <2>4
<1> QED BY <1>4, <1>5

(* What a reviewer's steps tell. *)
LEMMA ReviewersTell ==
    ASSUME Inv, log \in Seq(Events), FieldsInv, NEW r \in Reviewers,
           AuditedApply(r) \/ AuditedDeleteReloaded(r)
    PROVE  TellsWhatChanged /\ FieldsInv'
<1> DEFINE a == review[r].of
           about == review[r].about
<1>1. Sound(db) /\ db \in Db /\ IsReview(review[r])
  BY DEF Inv, Sound, SoundBut
<1>2. CASE AuditedApply(r)
  <2>1. review[r].step = "read" /\ IsLive(db, a)
    BY <1>2 DEF AuditedApply
  <2>2. /\ a \in Entities /\ about \in Works \union People \union {Value}
        /\ about # Value => a \in Parents
        /\ about \in Works => a \in Publications
    BY <1>1, <2>1 DEF IsReview
  <2>3. CASE about # Value
    <3>1. /\ IsLive(db, about) /\ Write(Apply(db, a, about), Accepted(r))
          /\ FieldsOf(Apply(db, a, about))
          /\ Record(IF about \in Works THEN EventsOfAddWork(db, a, about)
                    ELSE EventsOfAddContributor(db, a, about))
      BY <1>2, <2>3 DEF AuditedApply
    <3>2. db' = Apply(db, a, about)
      BY <3>1 DEF Write
    <3> HIDE DEF a, about
    <3>3. CASE about \in Works
      <4>1. Tallies(db, EventsOfAddWork(db, a, about), AddWork(db, a, about))
        BY <1>1, <2>1, <2>2, <3>1, <3>3, AddWorkTallies DEF a, about
      <4>2. Apply(db, a, about) = AddWork(db, a, about)
        BY <3>3 DEF Apply
      <4> QED BY <3>1, <3>2, <3>3, <4>1, <4>2, RowsTellWhatChanged
    <3>4. CASE about \notin Works
      <4>1. about \in People
        BY <2>2, <2>3, <3>4
      <4>2. Tallies(db, EventsOfAddContributor(db, a, about), AddContributor(db, a, about))
        BY <1>1, <2>1, <2>2, <2>3, <3>1, <4>1, AddContributorTallies DEF a, about
      <4>3. Apply(db, a, about) = AddContributor(db, a, about)
        BY <3>4, <4>1 DEF Apply
      <4> QED BY <3>1, <3>2, <3>4, <4>2, <4>3, RowsTellWhatChanged
    <3> QED BY <3>3, <3>4
  <2>4. CASE about = Value
    <3>1. /\ Write(db, Accepted(r))
          /\ \/ \E v \in Values : ToValue(a, v)
             \/ \E i \in Items : ToItems(a, items[a] \union {i})
      BY <1>2, <2>4 DEF AuditedApply
    <3>2. db' = db
      BY <3>1 DEF Write
    <3>3. PICK v : ToValue(a, v) \/ ToItems(a, v)
      BY <3>1
    <3> HIDE DEF a
    <3> QED BY <2>1, <2>2, <3>2, <3>3, FieldTellsWhatChanged DEF a
  <2> QED BY <2>3, <2>4
<1>3. CASE AuditedDeleteReloaded(r)
  <2>1. /\ a \in Entities /\ FieldsOf(db')
        /\ db' = IF IsLive(db, a) THEN Delete(db, a) ELSE db
        /\ Record(IF IsLive(db, a) THEN EventsOfDelete(db, a) ELSE <<>>)
    BY <1>1, <1>3 DEF AuditedDeleteReloaded, DeleteReloaded, Write, IsReview
  <2> HIDE DEF a
  <2>2. CASE IsLive(db, a)
    <3>1. Tallies(db, EventsOfDelete(db, a), Delete(db, a))
      BY <1>1, <2>1, <2>2, DeleteTallies
    <3> QED BY <2>1, <2>2, <3>1, RowsTellWhatChanged
  <2>3. CASE ~IsLive(db, a)
    <3>1. Tallies(db, <<>>, db)
      BY NothingToTell
    <3> QED BY <2>1, <2>3, <3>1, RowsTellWhatChanged
  <2> QED BY <2>2, <2>3
<1> QED BY <1>2, <1>3

(* Every step of the engine tells what it changes. *)
LEMMA AuditStepTells ==
    ASSUME AuditInv, FieldsInv, AuditNext
    PROVE  TellsWhatChanged /\ FieldsInv'
<1>1. Inv /\ log \in Seq(Events)
  BY DEF AuditInv, LogIsRight
<1>2. CASE \/ AuditedImport \/ AuditedClassify \/ AuditedClassifyIfUnset \/ AuditedClassifyWork
           \/ AuditedCreateWork \/ AuditedCreateContributor
           \/ AuditedAddWork \/ AuditedRemoveWork
           \/ AuditedAddContributor \/ AuditedRemoveContributor
           \/ AuditedProposeNew \/ AuditedReject \/ AuditedRejectAll
           \/ AuditedCommit \/ AuditedDelete
  BY <1>1, <1>2, AuditedEditsTell
<1>3. CASE \/ SetsPublicationField \/ SetsWorkField \/ RenamesPerson \/ SetsLibraryField
           \/ EditsPublicationItems \/ EditsWorkItems \/ EditsPersonItems
  BY <1>1, <1>3, FieldEditsTell
<1>4. CASE AuditedCreateLibrary \/ AuditedDeleteLibrary
  BY <1>1, <1>4, LibraryTells
<1>5. CASE (ProposesLink \/ ProposesValue) /\ Unaudited
  <2>1. PICK a, about : Edits(Propose(db, a, about))
    BY <1>5 DEF ProposesLink, ProposesValue
  <2>2. db'.mark = db.mark /\ db'.kind = db.kind /\ db'.links = db.links
    BY <2>1 DEF Edits, Write, Propose
  <2> QED BY <1>1, <1>5, <2>2, UnauditedTells
<1>6. ASSUME NEW r \in Reviewers, AuditedApply(r) \/ AuditedDeleteReloaded(r)
      PROVE  TellsWhatChanged /\ FieldsInv'
  BY <1>1, <1>6, ReviewersTell
<1>7. ASSUME NEW r \in Reviewers, UnauditedDiscard(r)
      PROVE  TellsWhatChanged /\ FieldsInv'
  <2>1. db' = db \/ db' = Discard(db, review[r].of, review[r].about)
    BY <1>7 DEF UnauditedDiscard, DiscardProposal, Write
  <2>2. db'.mark = db.mark /\ db'.kind = db.kind /\ db'.links = db.links
    <3>1. \A a, about : /\ Discard(db, a, about).mark = db.mark
                        /\ Discard(db, a, about).kind = db.kind
                        /\ Discard(db, a, about).links = db.links
      BY DEF Discard
    <3> QED BY <2>1, <3>1
  <2> QED BY <1>1, <1>7, <2>2, UnauditedTells DEF UnauditedDiscard
<1>8. ASSUME NEW r \in Reviewers, ReviewReads(r)
      PROVE  TellsWhatChanged /\ FieldsInv'
  <2>1. Unaudited /\ db' = db
    BY <1>8 DEF ReviewReads, ReadProposal, ReloadDraft, Interrupted
  <2> QED BY <1>1, <2>1, UnauditedTells
<1>9. CASE AuditStep
  BY <1>2, <1>3, <1>4, <1>5, <1>6, <1>7, <1>9 DEF AuditStep
<1> QED BY <1>8, <1>9 DEF AuditNext

(* "Every mutation runs in a transaction that records its audit entries": what a
   transaction records is all that it changes, and nothing else, over every
   cascade of a delete, a commit and a collection. *)
THEOREM TransactionsTellWhatChanges == AuditSpec => LogIsWhatChanged
<1> DEFINE Changes ==
             news' <= MaxEvents =>
               \A e \in Entities :
                 /\ Told("created", e) <=> ~IsLive(db, e) /\ IsLive(db', e)
                 /\ Told("committed", e) <=> IsDraft(db, e) /\ IsCommitted(db', e)
                 /\ Told("deleted", e) \/ (IsLive(db, e) /\ Told("deleted", Library))
                      <=> IsLive(db, e) /\ ~IsLive(db', e)
                 /\ ToldField(e, "contents") =>
                      Survives(e) /\ LinksIn(db, e, Works) # LinksIn(db', e, Works)
                 /\ Survives(e) /\ LinksChange(e, Works) => ToldField(e, "contents")
                 /\ ToldField(e, "contributors") =>
                      Survives(e) /\ LinksIn(db, e, People) # LinksIn(db', e, People)
                 /\ Survives(e) /\ LinksChange(e, People) => ToldField(e, "contributors")
                 /\ e \in Parents =>
                      (ToldField(e, "classification") <=> Survives(e) /\ db.kind[e] # db'.kind[e])
                 /\ e \in Valued =>
                      /\ ToldField(e, "value") <=> Survives(e) /\ value[e] # value'[e]
                      /\ ToldField(e, "items") <=> Survives(e) /\ items[e] # items'[e]
<1>1. AuditInit => AuditInv /\ FieldsInv
  <2>1. AuditInit => FieldsInv
    BY DEF AuditInit, FieldsInv
  <2> QED BY <2>1, AuditInitInv
<1>2. AuditInv /\ FieldsInv /\ [AuditNext]_auditVars
        => AuditInv' /\ FieldsInv' /\ [Changes]_auditVars
  <2> SUFFICES ASSUME AuditInv, FieldsInv, [AuditNext]_auditVars
               PROVE  AuditInv' /\ FieldsInv' /\ [Changes]_auditVars
    OBVIOUS
  <2>1. AuditInv'
    BY AuditStepKeepsInv
  <2>2. CASE AuditNext
    <3>1. TellsWhatChanged /\ FieldsInv'
      BY <2>2, AuditStepTells
    <3>2. Changes
      <4> SUFFICES ASSUME news' <= MaxEvents PROVE Changes
        OBVIOUS
      <4>1. /\ log' \in Seq(Events) /\ news' \in Nat /\ news' <= Len(log')
            /\ IsWhatChanged(News)
        BY <3>1 DEF TellsWhatChanged
      <4> QED BY <4>1, SaysWhatChanged
    <3> HIDE DEF Changes
    <3> QED BY <2>1, <3>1, <3>2
  <2>3. CASE UNCHANGED auditVars
    <3> HIDE DEF Changes
    <3>1. FieldsInv'
      BY <2>3 DEF auditVars, FieldsInv
    <3> QED BY <2>1, <2>3, <3>1
  <2> HIDE DEF Changes
  <2> QED BY <2>2, <2>3
<1> HIDE DEF Changes
<1>3. AuditSpec => [][Changes]_auditVars
  BY <1>1, <1>2, PTL DEF AuditSpec
<1> QED BY <1>3 DEF Changes, LogIsWhatChanged
=============================================================================
