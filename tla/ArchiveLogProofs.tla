--------------------------- MODULE ArchiveLogProofs ---------------------------
(***************************************************************************)
(* The links of the archive and its audit log, through every write of it:  *)
(* saves of whole forms, the calls of an ArchiveEdit, merges, and the      *)
(* recognition of links when the archive is opened by a newer binary.      *)
(*                                                                         *)
(* Of links the invariant is that an owner has a URL once and a record     *)
(* once, each record being the one its own address names, in the tables    *)
(* and in the transaction an open edit sees (IInv).  That it is kept is    *)
(* shown from the bottom up: lists of links, rows, each operation on a     *)
(* transaction (Sees: what it leaves still has such rows), forms, calls,   *)
(* and at last steps.  From it follow, with what is shown of addresses,    *)
(* that every record a link names has an address that names it, and that   *)
(* opening the archive never fails.                                        *)
(*                                                                         *)
(* Of the log it is that ids only grow, so that no row comes back under    *)
(* the id of one that went, and that at every moment of an open edit its   *)
(* entries account for all it did to the tables it began with (TInv).      *)
(* Each call adds to an edit no more than it tells of (Tracks), and so     *)
(* does the collection of orphans that ends it.  A save's writes lose no   *)
(* row untold (Later, IsCollected), and of its own row it tells what       *)
(* differs from what was loaded.                                           *)
(***************************************************************************)
EXTENDS ArchiveLog, SequenceTheorems, FiniteSetTheorems, WellFoundedInduction, TLAPS

-----------------------------------------------------------------------------
(***************************************************************************)
(* Naturals                                                                *)
(***************************************************************************)

(* A set of naturals has a least element. *)
LEMMA Smallest ==
  ASSUME NEW T \in SUBSET Nat, T # {}
  PROVE \E n \in T : \A m \in T : n <= m
<1> DEFINE R == OpToRel(<,Nat)
<1>1. IsWellFoundedOn(R, Nat)
  BY NatLessThanWellFounded
<1>2. \A x, y \in Nat : x < y => <<x, y>> \in R
  BY DEF OpToRel
<1> HIDE DEF R
<1>3. PICK n \in T : \A m \in T : ~ (<<m, n>> \in R)
  BY <1>1, WFMin
<1>4. ASSUME NEW m \in T PROVE n <= m
  <2>1. m \in Nat /\ n \in Nat
    OBVIOUS
  <2>2. <<m, n>> \notin R
    BY <1>3
  <2>3. ~(m < n)
    BY <1>2, <2>1, <2>2
  <2> QED BY <2>1, <2>3
<1> QED BY <1>4

(* What holds of 0 and goes from k - 1 to k holds up to n. *)
LEMMA Induction ==
  ASSUME NEW n \in Nat, NEW T, 0 \in T, \A k \in 1..n : k-1 \in T => k \in T
  PROVE \A k \in 0..n : k \in T
<1> SUFFICES ASSUME (0..n) \ T # {} PROVE FALSE
  OBVIOUS
<1> DEFINE U == (0..n) \ T
<1>1. U \in SUBSET Nat /\ U # {}
  OBVIOUS
<1> HIDE DEF U
<1>2. PICK k \in U : \A m \in U : k <= m
  BY <1>1, Smallest
<1>3. k # 0 /\ k - 1 \in 0..n /\ k \in 1..n
  BY <1>2 DEF U
<1>4. k - 1 \notin U
  BY <1>2, <1>3, <1>1
<1> QED BY <1>2, <1>3, <1>4 DEF U

(* The largest of 1 .. k + 1 is k + 1, and without it they are 1 .. k. *)
LEMMA MaxOf ==
  ASSUME NEW k \in Nat, NEW s \in SUBSET (1..(k+1)), k + 1 \in s
  PROVE Max(s) = k + 1 /\ s \ {k+1} \in SUBSET (1..k)
<1>1. \A x \in s : (\A y \in s : x >= y) <=> x = k + 1
  OBVIOUS
<1>2. Max(s) = k + 1
  BY <1>1 DEF Max
<1> QED BY <1>2

(* What a fold that takes the last position first is left with. *)
LEMMA Parts ==
  ASSUME NEW k \in Nat \ {0}, NEW s \in SUBSET (1..k)
  PROVE /\ k \in s => /\ Max(s) = k /\ k \notin s \ {k}
                     /\ s \ {k} \in SUBSET (1..k) /\ s \ {k} \in SUBSET (1..(k-1))
       /\ k \notin s => /\ s \in SUBSET (1..(k-1)) /\ k \notin s \ {Max(s)}
                        /\ s \ {Max(s)} \in SUBSET (1..k)
<1>1. k \in s => Max(s) = k /\ s \ {k} \in SUBSET (1..(k-1))
  <2>1. k - 1 \in Nat /\ (k-1) + 1 = k
    OBVIOUS
  <2> QED BY <2>1, MaxOf
<1>2. k \notin s => s \in SUBSET (1..(k-1))
  OBVIOUS
<1>3. \A x : s \ {x} \in SUBSET (1..k)
  OBVIOUS
<1> QED BY <1>1, <1>2, <1>3

(* The last of the positions up to one of them. *)
LEMMA LastOf ==
  ASSUME NEW k \in Nat, k > 0, NEW s \in SUBSET (1..k), k \in s
  PROVE Max(s) = k
<1>1. k - 1 \in Nat /\ (k - 1) + 1 = k
  OBVIOUS
<1>2. s \in SUBSET (1..((k - 1) + 1)) /\ (k - 1) + 1 \in s
  BY <1>1
<1>3. Max(s) = (k - 1) + 1
  BY <1>1, <1>2, MaxOf
<1> QED BY <1>1, <1>3

(* The last position of a prefix, and the prefix before it. *)
LEMMA Prefix ==
  ASSUME NEW n \in Nat, NEW k \in 1..n
  PROVE Max(1..k) = k /\ (1..k) \ {k} = 1..(k-1) /\ 1..k # {} /\ 1..k \in SUBSET (1..n)
<1>1. k - 1 \in Nat /\ (k-1)+1 = k /\ 1..k \in SUBSET (1..(k-1+1)) /\ (k-1)+1 \in 1..k
  OBVIOUS
<1>2. Max(1..k) = k
  BY <1>1, MaxOf
<1>3. \A x \in 1..k : x # k => x \in 1..(k-1)
  OBVIOUS
<1>4. (1..k) \ {k} = 1..(k-1)
  BY <1>3
<1> QED BY <1>2, <1>4

-----------------------------------------------------------------------------
(***************************************************************************)
(* Folds                                                                   *)
(***************************************************************************)

\* The steps that the model folds, with what each takes beside the list.
StepOf(fold, a, x) ==
    CASE fold[1] = "link"    -> AddLink(a, x)
      [] fold[1] = "without" -> IF IsSameLink(x, fold[2]) THEN a ELSE Append(a, x)
      [] fold[1] = "person"  -> CreateNewPerson(a, x)
      [] fold[1] = "add"     -> AddContent(a, fold[2], x)
      [] fold[1] = "write"   -> WriteContent(a, fold[2], fold[3], x)
      [] fold[1] = "set"     -> SetNext(a, x)

\* What the function that a fold chooses has at a set of positions.
Folded(fold, base, seq, g, s) ==
    IF s = {} THEN base ELSE StepOf(fold, g[s \ {Max(s)}], seq[Max(s)])

IsFold(fold, base, seq, n, g) ==
    \A s \in SUBSET (1..n) : g[s] = Folded(fold, base, seq, g, s)

(* The function that a fold chooses exists. *)
LEMMA FoldExists ==
  ASSUME NEW fold, NEW base, NEW seq, NEW n \in Nat
  PROVE \E g : /\ g = [s \in SUBSET (1..n) |-> g[s]]
               /\ \A s \in SUBSET (1..n) : g[s] = Folded(fold, base, seq, g, s)
<1> DEFINE F(g, s) == Folded(fold, base, seq, g, s)
           T == {k \in 0..n : \E g : \A s \in SUBSET (1..k) : g[s] = F(g, s)}
<1>0. 1..0 = {}
  OBVIOUS
<1>1. 0 \in T
  <2> DEFINE g == [s \in SUBSET (1..0) |-> base]
  <2>1. \A s \in SUBSET (1..0) : g[s] = F(g, s)
    BY <1>0 DEF Folded
  <2> HIDE DEF g, F
  <2>2. \E i : \A s \in SUBSET (1..0) : i[s] = F(i, s)
    BY <2>1
  <2> QED BY <2>2
<1>2. ASSUME NEW k \in 1..n, k-1 \in T PROVE k \in T
  <2>1. PICK g : \A s \in SUBSET (1..(k-1)) : g[s] = F(g, s)
    BY <1>2
  <2> DEFINE h == [s \in SUBSET (1..k) |->
                     IF k \in s THEN StepOf(fold, g[s \ {k}], seq[k]) ELSE g[s]]
  <2>2. ASSUME NEW s \in SUBSET (1..k) PROVE h[s] = F(h, s)
    <3>1. CASE k \in s
      <4>1. Max(s) = k
        BY <3>1, LastOf
      <4>2. h[s] = StepOf(fold, g[s \ {k}], seq[k])
        BY <3>1
      <4>3. h[s \ {k}] = g[s \ {k}]
        OBVIOUS
      <4> QED BY <3>1, <4>1, <4>2, <4>3 DEF Folded
    <3>2. CASE k \notin s
      <4>1. h[s] = g[s] /\ h[s \ {Max(s)}] = g[s \ {Max(s)}] /\ s \in SUBSET (1..(k-1))
        BY <3>2, Parts
      <4> QED BY <4>1, <2>1 DEF Folded
    <3> QED BY <3>1, <3>2
  <2> HIDE DEF h, F
  <2>3. \E i : \A s \in SUBSET (1..k) : i[s] = F(i, s)
    BY <2>2
  <2> QED BY <2>3
<1>3. PICK g : \A s \in SUBSET (1..n) : g[s] = F(g, s)
  <2> HIDE DEF T
  <2>1. n \in T
    BY <1>1, <1>2, Induction
  <2> QED BY <2>1 DEF T
<1> DEFINE i == [s \in SUBSET (1..n) |-> g[s]]
<1>4. /\ i = [s \in SUBSET (1..n) |-> i[s]]
      /\ \A s \in SUBSET (1..n) : i[s] = F(i, s)
  <2>1. \A s \in SUBSET (1..n) : s \ {Max(s)} \in SUBSET (1..n)
    OBVIOUS
  <2> QED BY <2>1, <1>3 DEF Folded
<1> HIDE DEF i
<1> QED BY <1>4

\* What a fold has after each of the first n of a list.
Trace(fold, base, seq, n, h) ==
    h[0] = base /\ \A k \in 1..n : h[k] = StepOf(fold, h[k-1], seq[k])

(* Along the prefixes, it is the trajectory of the step. *)
LEMMA FoldTrajectory ==
  ASSUME NEW fold, NEW base, NEW seq, NEW n \in Nat, NEW it,
         IsFold(fold, base, seq, n, it)
  PROVE /\ it[1..0] = base
        /\ \A k \in 1..n : it[1..k] = StepOf(fold, it[1..(k-1)], seq[k])
<1>1. it[1..0] = base
  <2>1. 1..0 = {}
    OBVIOUS
  <2> QED BY <2>1 DEF Folded, IsFold
<1>2. ASSUME NEW k \in 1..n PROVE it[1..k] = StepOf(fold, it[1..(k-1)], seq[k])
  <2>1. Max(1..k) = k /\ (1..k) \ {k} = 1..(k-1) /\ 1..k # {} /\ 1..k \in SUBSET (1..n)
    BY Prefix
  <2>2. it[1..k] = Folded(fold, base, seq, it, 1..k)
    BY <2>1 DEF IsFold
  <2> QED BY <2>1, <2>2 DEF Folded
<1> QED BY <1>1, <1>2

(* The links of two works are a fold, *)
LEMMA LinkFold ==
  ASSUME NEW base, NEW seq, NEW n \in Nat, DOMAIN seq = 1..n
  PROVE /\ \E h : Trace(<<"link">>, base, seq, n, h) /\ h[n] = AddLinks(base, seq)
        /\ \A a, x : StepOf(<<"link">>, a, x) = AddLink(a, x)
<1> DEFINE fold == <<"link">>
           it == CHOOSE i : i = [s \in SUBSET (1..n) |->
                                   IF s = {} THEN base ELSE AddLink(i[s \ {Max(s)}], seq[Max(s)])]
<1>1. \A a, x : StepOf(fold, a, x) = AddLink(a, x)
  BY DEF StepOf
<1>2. AddLinks(base, seq) = it[1..n]
  BY DEF AddLinks, FoldLeft, MapThenFoldSet
<1> HIDE DEF fold
<1>3. PICK g : /\ g = [s \in SUBSET (1..n) |-> g[s]]
               /\ \A s \in SUBSET (1..n) : g[s] = Folded(fold, base, seq, g, s)
  BY FoldExists
<1>4. g = [s \in SUBSET (1..n) |-> IF s = {} THEN base ELSE AddLink(g[s \ {Max(s)}], seq[Max(s)])]
  BY <1>1, <1>3 DEF Folded
<1>5. it = [s \in SUBSET (1..n) |-> IF s = {} THEN base ELSE AddLink(it[s \ {Max(s)}], seq[Max(s)])]
  BY <1>4
<1> HIDE DEF it
<1>6. IsFold(fold, base, seq, n, it)
  BY <1>1, <1>5 DEF Folded, IsFold
<1> DEFINE h == [k \in 0..n |-> it[1..k]]
<1>7. /\ it[1..0] = base
      /\ \A k \in 1..n : it[1..k] = StepOf(fold, it[1..(k-1)], seq[k])
  BY <1>6, FoldTrajectory
<1>8. Trace(fold, base, seq, n, h) /\ h[n] = AddLinks(base, seq)
  BY <1>2, <1>7 DEF Trace
<1> HIDE DEF h
<1> QED BY <1>1, <1>8 DEF fold

(* what is left of links without one, *)
LEMMA WithoutFold ==
  ASSUME NEW link, NEW seq, NEW n \in Nat, DOMAIN seq = 1..n
  PROVE /\ \E h : Trace(<<"without", link>>, <<>>, seq, n, h) /\ h[n] = RemoveLink(seq, link)
        /\ \A a, x : StepOf(<<"without", link>>, a, x) = (IF IsSameLink(x, link) THEN a ELSE Append(a, x))
<1> DEFINE fold == <<"without", link>>
           it == CHOOSE i : i = [s \in SUBSET (1..n) |->
                                   IF s = {} THEN <<>> ELSE (IF IsSameLink(seq[Max(s)], link) THEN i[s \ {Max(s)}] ELSE Append(i[s \ {Max(s)}], seq[Max(s)]))]
<1>1. \A a, x : StepOf(fold, a, x) = (IF IsSameLink(x, link) THEN a ELSE Append(a, x))
  BY DEF StepOf
<1>2. RemoveLink(seq, link) = it[1..n]
  BY DEF RemoveLink, FoldLeft, MapThenFoldSet
<1> HIDE DEF fold
<1>3. PICK g : /\ g = [s \in SUBSET (1..n) |-> g[s]]
               /\ \A s \in SUBSET (1..n) : g[s] = Folded(fold, <<>>, seq, g, s)
  BY FoldExists
<1>4. g = [s \in SUBSET (1..n) |-> IF s = {} THEN <<>> ELSE (IF IsSameLink(seq[Max(s)], link) THEN g[s \ {Max(s)}] ELSE Append(g[s \ {Max(s)}], seq[Max(s)]))]
  BY <1>1, <1>3 DEF Folded
<1>5. it = [s \in SUBSET (1..n) |-> IF s = {} THEN <<>> ELSE (IF IsSameLink(seq[Max(s)], link) THEN it[s \ {Max(s)}] ELSE Append(it[s \ {Max(s)}], seq[Max(s)]))]
  BY <1>4
<1> HIDE DEF it
<1>6. IsFold(fold, <<>>, seq, n, it)
  BY <1>1, <1>5 DEF Folded, IsFold
<1> DEFINE h == [k \in 0..n |-> it[1..k]]
<1>7. /\ it[1..0] = <<>>
      /\ \A k \in 1..n : it[1..k] = StepOf(fold, it[1..(k-1)], seq[k])
  BY <1>6, FoldTrajectory
<1>8. Trace(fold, <<>>, seq, n, h) /\ h[n] = RemoveLink(seq, link)
  BY <1>2, <1>7 DEF Trace
<1> HIDE DEF h
<1> QED BY <1>1, <1>8 DEF fold

(* the new people of a form, *)
LEMMA PersonFold ==
  ASSUME NEW base, NEW seq, NEW n \in Nat, DOMAIN seq = 1..n
  PROVE /\ \E h : Trace(<<"person">>, base, seq, n, h) /\ h[n] = CreateEach(base, seq)
        /\ \A a, x : StepOf(<<"person">>, a, x) = CreateNewPerson(a, x)
<1> DEFINE fold == <<"person">>
           it == CHOOSE i : i = [s \in SUBSET (1..n) |->
                                   IF s = {} THEN base ELSE CreateNewPerson(i[s \ {Max(s)}], seq[Max(s)])]
<1>1. \A a, x : StepOf(fold, a, x) = CreateNewPerson(a, x)
  BY DEF StepOf
<1>2. CreateEach(base, seq) = it[1..n]
  BY DEF CreateEach, FoldLeft, MapThenFoldSet
<1> HIDE DEF fold
<1>3. PICK g : /\ g = [s \in SUBSET (1..n) |-> g[s]]
               /\ \A s \in SUBSET (1..n) : g[s] = Folded(fold, base, seq, g, s)
  BY FoldExists
<1>4. g = [s \in SUBSET (1..n) |-> IF s = {} THEN base ELSE CreateNewPerson(g[s \ {Max(s)}], seq[Max(s)])]
  BY <1>1, <1>3 DEF Folded
<1>5. it = [s \in SUBSET (1..n) |-> IF s = {} THEN base ELSE CreateNewPerson(it[s \ {Max(s)}], seq[Max(s)])]
  BY <1>4
<1> HIDE DEF it
<1>6. IsFold(fold, base, seq, n, it)
  BY <1>1, <1>5 DEF Folded, IsFold
<1> DEFINE h == [k \in 0..n |-> it[1..k]]
<1>7. /\ it[1..0] = base
      /\ \A k \in 1..n : it[1..k] = StepOf(fold, it[1..(k-1)], seq[k])
  BY <1>6, FoldTrajectory
<1>8. Trace(fold, base, seq, n, h) /\ h[n] = CreateEach(base, seq)
  BY <1>2, <1>7 DEF Trace
<1> HIDE DEF h
<1> QED BY <1>1, <1>8 DEF fold

(* the contents of a new publication, *)
LEMMA AddFold ==
  ASSUME NEW base, NEW p, NEW seq, NEW n \in Nat, DOMAIN seq = 1..n
  PROVE /\ \E h : Trace(<<"add", p>>, base, seq, n, h) /\ h[n] = AddContents(base, p, seq)
        /\ \A a, x : StepOf(<<"add", p>>, a, x) = AddContent(a, p, x)
<1> DEFINE fold == <<"add", p>>
           it == CHOOSE i : i = [s \in SUBSET (1..n) |->
                                   IF s = {} THEN base ELSE AddContent(i[s \ {Max(s)}], p, seq[Max(s)])]
<1>1. \A a, x : StepOf(fold, a, x) = AddContent(a, p, x)
  BY DEF StepOf
<1>2. AddContents(base, p, seq) = it[1..n]
  BY DEF AddContents, FoldLeft, MapThenFoldSet
<1> HIDE DEF fold
<1>3. PICK g : /\ g = [s \in SUBSET (1..n) |-> g[s]]
               /\ \A s \in SUBSET (1..n) : g[s] = Folded(fold, base, seq, g, s)
  BY FoldExists
<1>4. g = [s \in SUBSET (1..n) |-> IF s = {} THEN base ELSE AddContent(g[s \ {Max(s)}], p, seq[Max(s)])]
  BY <1>1, <1>3 DEF Folded
<1>5. it = [s \in SUBSET (1..n) |-> IF s = {} THEN base ELSE AddContent(it[s \ {Max(s)}], p, seq[Max(s)])]
  BY <1>4
<1> HIDE DEF it
<1>6. IsFold(fold, base, seq, n, it)
  BY <1>1, <1>5 DEF Folded, IsFold
<1> DEFINE h == [k \in 0..n |-> it[1..k]]
<1>7. /\ it[1..0] = base
      /\ \A k \in 1..n : it[1..k] = StepOf(fold, it[1..(k-1)], seq[k])
  BY <1>6, FoldTrajectory
<1>8. Trace(fold, base, seq, n, h) /\ h[n] = AddContents(base, p, seq)
  BY <1>2, <1>7 DEF Trace
<1> HIDE DEF h
<1> QED BY <1>1, <1>8 DEF fold

(* those of an edited one, *)
LEMMA WriteFold ==
  ASSUME NEW base, NEW p, NEW before, NEW seq, NEW n \in Nat, DOMAIN seq = 1..n
  PROVE /\ \E h : Trace(<<"write", p, before>>, base, seq, n, h) /\ h[n] = WriteContents(base, p, before, seq)
        /\ \A a, x : StepOf(<<"write", p, before>>, a, x) = WriteContent(a, p, before, x)
<1> DEFINE fold == <<"write", p, before>>
           it == CHOOSE i : i = [s \in SUBSET (1..n) |->
                                   IF s = {} THEN base ELSE WriteContent(i[s \ {Max(s)}], p, before, seq[Max(s)])]
<1>1. \A a, x : StepOf(fold, a, x) = WriteContent(a, p, before, x)
  BY DEF StepOf
<1>2. WriteContents(base, p, before, seq) = it[1..n]
  BY DEF WriteContents, FoldLeft, MapThenFoldSet
<1> HIDE DEF fold
<1>3. PICK g : /\ g = [s \in SUBSET (1..n) |-> g[s]]
               /\ \A s \in SUBSET (1..n) : g[s] = Folded(fold, base, seq, g, s)
  BY FoldExists
<1>4. g = [s \in SUBSET (1..n) |-> IF s = {} THEN base ELSE WriteContent(g[s \ {Max(s)}], p, before, seq[Max(s)])]
  BY <1>1, <1>3 DEF Folded
<1>5. it = [s \in SUBSET (1..n) |-> IF s = {} THEN base ELSE WriteContent(it[s \ {Max(s)}], p, before, seq[Max(s)])]
  BY <1>4
<1> HIDE DEF it
<1>6. IsFold(fold, base, seq, n, it)
  BY <1>1, <1>5 DEF Folded, IsFold
<1> DEFINE h == [k \in 0..n |-> it[1..k]]
<1>7. /\ it[1..0] = base
      /\ \A k \in 1..n : it[1..k] = StepOf(fold, it[1..(k-1)], seq[k])
  BY <1>6, FoldTrajectory
<1>8. Trace(fold, base, seq, n, h) /\ h[n] = WriteContents(base, p, before, seq)
  BY <1>2, <1>7 DEF Trace
<1> HIDE DEF h
<1> QED BY <1>1, <1>8 DEF fold

(* and what is recognized of an owner's links. *)
LEMMA SetFold ==
  ASSUME NEW base, NEW seq, NEW n \in Nat, DOMAIN seq = 1..n
  PROVE /\ \E h : Trace(<<"set">>, base, seq, n, h) /\ h[n] = SetEach(base, seq)
        /\ \A a, x : StepOf(<<"set">>, a, x) = SetNext(a, x)
<1> DEFINE fold == <<"set">>
           it == CHOOSE i : i = [s \in SUBSET (1..n) |->
                                   IF s = {} THEN base ELSE SetNext(i[s \ {Max(s)}], seq[Max(s)])]
<1>1. \A a, x : StepOf(fold, a, x) = SetNext(a, x)
  BY DEF StepOf
<1>2. SetEach(base, seq) = it[1..n]
  BY DEF SetEach, FoldLeft, MapThenFoldSet
<1> HIDE DEF fold
<1>3. PICK g : /\ g = [s \in SUBSET (1..n) |-> g[s]]
               /\ \A s \in SUBSET (1..n) : g[s] = Folded(fold, base, seq, g, s)
  BY FoldExists
<1>4. g = [s \in SUBSET (1..n) |-> IF s = {} THEN base ELSE SetNext(g[s \ {Max(s)}], seq[Max(s)])]
  BY <1>1, <1>3 DEF Folded
<1>5. it = [s \in SUBSET (1..n) |-> IF s = {} THEN base ELSE SetNext(it[s \ {Max(s)}], seq[Max(s)])]
  BY <1>4
<1> HIDE DEF it
<1>6. IsFold(fold, base, seq, n, it)
  BY <1>1, <1>5 DEF Folded, IsFold
<1> DEFINE h == [k \in 0..n |-> it[1..k]]
<1>7. /\ it[1..0] = base
      /\ \A k \in 1..n : it[1..k] = StepOf(fold, it[1..(k-1)], seq[k])
  BY <1>6, FoldTrajectory
<1>8. Trace(fold, base, seq, n, h) /\ h[n] = SetEach(base, seq)
  BY <1>2, <1>7 DEF Trace
<1> HIDE DEF h
<1> QED BY <1>1, <1>8 DEF fold

-----------------------------------------------------------------------------
(***************************************************************************)
(* Lists of links                                                          *)
(***************************************************************************)

\* A link that an entity of a table may have.
IsStored(table, l) ==
    /\ Address(l.url) \in WebAddresses
    /\ l = [url |-> l.url, record |-> l.record]
    /\ l.record \in {Generic, Recognize(KindOf[table], Address(l.url))}

\* Links, one for each position.
IsList(table, links, n) ==
    /\ DOMAIN links = 1..n /\ links = [k \in 1..n |-> links[k]]
    /\ \A k \in 1..n : IsStored(table, links[k])
    /\ \A j, k \in 1..n : j # k => ~IsSameLink(links[j], links[k])

(* A sequence is a function on its positions. *)
LEMMA SequenceHas ==
  ASSUME NEW S, NEW s \in Seq(S)
  PROVE Len(s) \in Nat /\ DOMAIN s = 1..Len(s) /\ s = [k \in 1..Len(s) |-> s[k]]
  OBVIOUS

(* A sequence is what it has at its positions. *)
LEMMA SequenceIs ==
  ASSUME NEW s
  PROVE s \in Seq(ToSet(s)) <=> \E n \in Nat : DOMAIN s = 1..n /\ s = [k \in 1..n |-> s[k]]
<1>1. ASSUME s \in Seq(ToSet(s)) PROVE \E n \in Nat : DOMAIN s = 1..n /\ s = [k \in 1..n |-> s[k]]
  <2>1. Len(s) \in Nat /\ DOMAIN s = 1..Len(s) /\ s = [k \in 1..Len(s) |-> s[k]]
    BY <1>1
  <2> QED BY <2>1
<1>2. ASSUME NEW n \in Nat, DOMAIN s = 1..n, s = [k \in 1..n |-> s[k]] PROVE s \in Seq(ToSet(s))
  <2>1. s \in [1..n -> ToSet(s)]
    BY <1>2 DEF ToSet
  <2> QED BY <2>1
<1> QED BY <1>1, <1>2

(* What an owner may have, position by position. *)
LEMMA LinksAre ==
  ASSUME NEW table, NEW links
  PROVE AreLinks(table, links) <=> \E n \in Nat : IsList(table, links, n)
<1>1. ASSUME AreLinks(table, links) PROVE \E n \in Nat : IsList(table, links, n)
  <2>1. PICK n \in Nat : DOMAIN links = 1..n /\ links = [k \in 1..n |-> links[k]]
    BY <1>1, SequenceIs DEF AreLinks
  <2>2. \A k \in 1..n : IsStored(table, links[k])
    BY <1>1, <2>1 DEF AreLinks, IsStored, ToSet
  <2>3. \A j, k \in 1..n : j # k => ~IsSameLink(links[j], links[k])
    BY <1>1, <2>1 DEF AreLinks
  <2>4. IsList(table, links, n)
    BY <2>1, <2>2, <2>3 DEF IsList
  <2> QED BY <2>4
<1>2. ASSUME NEW n \in Nat, IsList(table, links, n) PROVE AreLinks(table, links)
  <2>1. links \in Seq(ToSet(links))
    BY <1>2, SequenceIs DEF IsList
  <2>2. \A l \in ToSet(links) : IsStored(table, l)
    BY <1>2 DEF IsList, ToSet
  <2>3. \A j, k \in DOMAIN links : j # k => ~IsSameLink(links[j], links[k])
    BY <1>2 DEF IsList
  <2> QED BY <2>1, <2>2, <2>3 DEF AreLinks, IsStored
<1> QED BY <1>1, <1>2

\* The positions of one list, and one more.
IsLonger(longer, links, n, l) ==
    longer[n + 1] = l /\ \A k \in 1..n : longer[k] = links[k]

(* One link more, unlike those that are there. *)
LEMMA LongerList ==
  ASSUME NEW table, NEW n \in Nat, NEW links, IsList(table, links, n),
         NEW l, IsStored(table, l), \A k \in 1..n : ~IsSameLink(links[k], l),
         NEW longer, longer = Append(links, l)
  PROVE IsList(table, longer, n + 1) /\ IsLonger(longer, links, n, l)
<1> DEFINE S == {links[k] : k \in 1..n} \union {l}
<1>1. links \in Seq(S) /\ Len(links) = n
  <2>1. links \in [1..n -> S]
    BY DEF IsList
  <2> QED BY <2>1
<1>2. /\ DOMAIN longer = 1 .. n + 1 /\ longer = [k \in 1 .. n + 1 |-> longer[k]]
      /\ longer[n + 1] = l /\ \A k \in 1..n : longer[k] = links[k]
  <2>1. l \in S
    OBVIOUS
  <2> HIDE DEF S
  <2>2. longer \in Seq(S) /\ Len(longer) = n + 1
    BY <1>1, <2>1
  <2>3. DOMAIN longer = 1 .. n + 1 /\ longer = [k \in 1 .. n + 1 |-> longer[k]]
    <3>1. DOMAIN longer = 1 .. Len(longer) /\ longer = [k \in 1 .. Len(longer) |-> longer[k]]
      BY <2>2, SequenceHas
    <3> QED BY <2>2, <3>1
  <2>4. longer[n + 1] = l /\ \A k \in 1..n : longer[k] = links[k]
    BY <1>1, <2>1
  <2> QED BY <2>3, <2>4
<1>3. \A k \in 1 .. n + 1 : k \in 1..n \/ k = n + 1
  OBVIOUS
<1>4. \A k \in 1 .. n + 1 : IsStored(table, longer[k])
  BY <1>2, <1>3 DEF IsList
<1>5. ASSUME NEW j \in 1 .. n + 1, NEW k \in 1 .. n + 1, j # k
      PROVE ~IsSameLink(longer[j], longer[k])
  <2>1. CASE j \in 1..n /\ k \in 1..n
    BY <1>2, <1>5, <2>1 DEF IsList
  <2>2. CASE j \in 1..n /\ k = n + 1
    BY <1>2, <2>2
  <2>3. CASE j = n + 1 /\ k \in 1..n
    <3>1. ~IsSameLink(longer[k], longer[j])
      BY <1>2, <2>3
    <3> QED BY <3>1 DEF IsSameLink
  <2> QED BY <1>3, <1>5, <2>1, <2>2, <2>3
<1>6. IsList(table, longer, n + 1)
  BY <1>2, <1>4, <1>5 DEF IsList
<1> QED BY <1>2, <1>6 DEF IsLonger

(* No link is a list of links. *)
LEMMA NoLinks == ASSUME NEW table PROVE IsList(table, <<>>, 0) /\ AreLinks(table, <<>>)
<1>1. IsList(table, <<>>, 0)
  BY DEF IsList
<1> QED BY <1>1, LinksAre

(* INSERT OR IGNORE. *)
LEMMA AddLinkSound ==
  ASSUME NEW table, NEW links, AreLinks(table, links), NEW l, IsStored(table, l)
  PROVE AreLinks(table, AddLink(links, l))
<1>1. PICK n \in Nat : IsList(table, links, n)
  BY LinksAre
<1>2. CASE \E m \in ToSet(links) : IsSameLink(m, l)
  BY <1>2 DEF AddLink
<1>3. CASE ~\E m \in ToSet(links) : IsSameLink(m, l)
  <2>1. AddLink(links, l) = Append(links, l)
    BY <1>3 DEF AddLink
  <2>2. \A k \in 1..n : ~IsSameLink(links[k], l)
    BY <1>1, <1>3 DEF IsList, ToSet
  <2>3. IsList(table, Append(links, l), n + 1)
    BY <1>1, <2>2, LongerList
  <2>4. n + 1 \in Nat
    OBVIOUS
  <2> QED BY <2>1, <2>3, <2>4, LinksAre
<1> QED BY <1>2, <1>3

(* What a survivor gains are links again (work::merge_works). *)
LEMMA AddLinksSound ==
  ASSUME NEW table, NEW links, AreLinks(table, links), NEW more, AreLinks(table, more)
  PROVE AreLinks(table, AddLinks(links, more))
<1>1. PICK n \in Nat : IsList(table, more, n)
  BY LinksAre
<1>2. DOMAIN more = 1..n /\ \A k \in 1..n : IsStored(table, more[k])
  BY <1>1 DEF IsList
<1>3. PICK h : Trace(<<"link">>, links, more, n, h) /\ h[n] = AddLinks(links, more)
  BY <1>2, LinkFold
<1>4. h[0] = links /\ \A k \in 1..n : h[k] = AddLink(h[k-1], more[k])
  <2>1. h[0] = links /\ \A k \in 1..n : h[k] = StepOf(<<"link">>, h[k-1], more[k])
    BY <1>3 DEF Trace
  <2>2. \A b, r : StepOf(<<"link">>, b, r) = AddLink(b, r)
    BY <1>2, LinkFold
  <2> QED BY ONLY <2>1, <2>2
<1> DEFINE T == {k \in 0..n : AreLinks(table, h[k])}
<1>5. 0 \in T /\ \A k \in 1..n : k - 1 \in T => k \in T
  BY <1>2, <1>4, AddLinkSound
<1> HIDE DEF T
<1>6. n \in T
  BY <1>5, Induction
<1> QED BY <1>3, <1>6 DEF T

(* The links that are left without one are links. *)
LEMMA RemoveLinkSound ==
  ASSUME NEW table, NEW links, AreLinks(table, links), NEW l
  PROVE AreLinks(table, RemoveLink(links, l))
<1>1. PICK n \in Nat : IsList(table, links, n)
  BY LinksAre
<1>2. /\ DOMAIN links = 1..n /\ \A k \in 1..n : IsStored(table, links[k])
      /\ \A j, k \in 1..n : j # k => ~IsSameLink(links[j], links[k])
  BY <1>1 DEF IsList
<1>3. PICK h : Trace(<<"without", l>>, <<>>, links, n, h) /\ h[n] = RemoveLink(links, l)
  BY <1>2, WithoutFold
<1>4. /\ h[0] = <<>>
      /\ \A k \in 1..n : h[k] = IF IsSameLink(links[k], l) THEN h[k-1] ELSE Append(h[k-1], links[k])
  <2>1. h[0] = <<>> /\ \A k \in 1..n : h[k] = StepOf(<<"without", l>>, h[k-1], links[k])
    BY <1>3 DEF Trace
  <2>2. \A a, x : StepOf(<<"without", l>>, a, x) = IF IsSameLink(x, l) THEN a ELSE Append(a, x)
    BY <1>2, WithoutFold
  <2> QED BY <2>1, <2>2
\* What is left of the first k comes from among them.
<1> DEFINE Left(k) == \E m \in Nat : /\ IsList(table, h[k], m)
                                     /\ \A i \in 1..m : \E j \in 1..k : h[k][i] = links[j]
           T == {k \in 0..n : Left(k)}
<1>5. 0 \in T
  <2>1. IsList(table, h[0], 0) /\ 1..0 = {} /\ 0 \in Nat
    BY <1>4, NoLinks
  <2> QED BY <2>1
<1>6. ASSUME NEW k \in 1..n, k - 1 \in T PROVE k \in T
  <2>1. PICK m \in Nat : /\ IsList(table, h[k-1], m)
                         /\ \A i \in 1..m : \E j \in 1 .. k-1 : h[k-1][i] = links[j]
    BY <1>6
  <2>2. \A j \in 1 .. k-1 : j \in 1..k /\ j \in 1..n /\ j # k
    OBVIOUS
  <2>3. CASE IsSameLink(links[k], l)
    <3>1. h[k] = h[k-1]
      BY <1>4, <2>3
    <3> QED BY <2>1, <2>2, <3>1
  <2>4. CASE ~IsSameLink(links[k], l)
    <3>1. h[k] = Append(h[k-1], links[k])
      BY <1>4, <2>4
    <3>2. \A i \in 1..m : ~IsSameLink(h[k-1][i], links[k])
      BY <1>2, <2>1, <2>2
    <3>3. IsStored(table, links[k])
      BY <1>2
    <3>4. /\ IsList(table, h[k], m + 1)
          /\ h[k][m + 1] = links[k] /\ \A i \in 1..m : h[k][i] = h[k-1][i]
      <4> DEFINE left == h[k-1]
                 link == links[k]
                 longer == h[k]
      <4>1. /\ IsList(table, left, m) /\ IsStored(table, link) /\ longer = Append(left, link)
            /\ \A i \in 1..m : ~IsSameLink(left[i], link)
        BY <2>1, <3>1, <3>2, <3>3
      <4> HIDE DEF left, link, longer
      <4>2. IsList(table, longer, m + 1) /\ IsLonger(longer, left, m, link)
        BY <4>1, LongerList
      <4> QED BY <4>2 DEF left, link, longer, IsLonger
    <3>5. ASSUME NEW i \in 1 .. m + 1 PROVE \E j \in 1..k : h[k][i] = links[j]
      <4>1. CASE i = m + 1
        <5>1. k \in 1..k
          OBVIOUS
        <5> QED BY <3>4, <4>1, <5>1
      <4>2. CASE i # m + 1
        <5>1. i \in 1..m
          BY <4>2
        <5> QED BY <2>1, <2>2, <3>4, <5>1
      <4> QED BY <4>1, <4>2
    <3>6. m + 1 \in Nat
      OBVIOUS
    <3> QED BY <3>4, <3>5, <3>6
  <2> QED BY <2>3, <2>4
<1> HIDE DEF T
<1>7. n \in T
  BY <1>5, <1>6, Induction
<1>8. PICK m \in Nat : IsList(table, RemoveLink(links, l), m)
  BY <1>3, <1>7 DEF T
<1> QED BY <1>8, LinksAre

-----------------------------------------------------------------------------
(***************************************************************************)
(* Tables and transactions                                                 *)
(***************************************************************************)

\* A row has links that its entity may have, and a transaction sees such rows.
HasLinks(table, row) == "links" \in DOMAIN row /\ AreLinks(table, row.links)
Sees(x) == "t" \in DOMAIN x /\ LinksAreStored(x.t)

(* Tables whose three tables have links as they may. *)
LEMMA TablesHave ==
  ASSUME NEW tables
  PROVE LinksAreStored(tables) <=>
          /\ "pubs" \in DOMAIN tables /\ "works" \in DOMAIN tables /\ "people" \in DOMAIN tables
          /\ \A p \in DOMAIN tables.pubs : HasLinks("pubs", tables.pubs[p])
          /\ \A w \in DOMAIN tables.works : HasLinks("works", tables.works[w])
          /\ \A who \in DOMAIN tables.people : HasLinks("people", tables.people[who])
<1>1. DOMAIN KindOf = {"pubs", "works", "people"}
  BY DEF KindOf
<1> QED BY <1>1 DEF LinksAreStored, HaveLinks, HasLinks

(* A transaction begins with the tables as they are. *)
LEMMA TransactionSees ==
  ASSUME NEW tables, LinksAreStored(tables)
  PROVE Sees(Transaction(tables))
BY DEF Sees, Transaction

(* What else a call makes of a transaction is no matter of the tables. *)
LEMMA StillSees ==
  ASSUME NEW x, Sees(x), NEW id, NEW source, NEW action, NEW on, NEW field
  PROVE /\ Sees(Returns(x, id)) /\ Returns(x, id).t = x.t
        /\ Sees(Fail(x)) /\ Fail(x).t = x.t
        /\ Sees(Record(x, source, action, on, field)) /\ Record(x, source, action, on, field).t = x.t
BY DEF Sees, Returns, Fail, Record

(* A transaction with other publications, works or people. *)
LEMMA SeesOther ==
  ASSUME NEW x, Sees(x), NEW y, "t" \in DOMAIN y, NEW pubs, NEW works, NEW people,
         \/ y.t = [x.t EXCEPT !.pubs = pubs]
         \/ y.t = [x.t EXCEPT !.works = works]
         \/ y.t = [x.t EXCEPT !.people = people]
         \/ y.t = [[x.t EXCEPT !.works = works] EXCEPT !.pubs = pubs],
         \A p \in DOMAIN pubs : HasLinks("pubs", pubs[p]),
         \A w \in DOMAIN works : HasLinks("works", works[w]),
         \A who \in DOMAIN people : HasLinks("people", people[who])
  PROVE Sees(y)
<1>1. /\ "pubs" \in DOMAIN x.t /\ "works" \in DOMAIN x.t /\ "people" \in DOMAIN x.t
      /\ \A p \in DOMAIN x.t.pubs : HasLinks("pubs", x.t.pubs[p])
      /\ \A w \in DOMAIN x.t.works : HasLinks("works", x.t.works[w])
      /\ \A who \in DOMAIN x.t.people : HasLinks("people", x.t.people[who])
  BY TablesHave DEF Sees
<1> DEFINE tables == y.t
<1>2. /\ "pubs" \in DOMAIN tables /\ "works" \in DOMAIN tables /\ "people" \in DOMAIN tables
      /\ tables.pubs \in {pubs, x.t.pubs} /\ tables.works \in {works, x.t.works}
      /\ tables.people \in {people, x.t.people}
  BY <1>1
<1> HIDE DEF tables
<1>3. LinksAreStored(tables)
  BY <1>1, <1>2, TablesHave
<1> QED BY <1>3 DEF Sees, tables

(* A row with another field, or with other links. *)
LEMMA RowHasLinks ==
  ASSUME NEW table, NEW row, HasLinks(table, row), NEW f, NEW v, f # "links" \/ AreLinks(table, v)
  PROVE HasLinks(table, [row EXCEPT ![f] = v]) /\ HasLinks(table, With(row, f, v))
BY DEF HasLinks, With

(* A survivor's row, after a merge. *)
LEMMA MergeSees ==
  ASSUME NEW x, Sees(x), NEW from \in DOMAIN x.t.works, NEW into
  PROVE Sees(MergeWorks(x, from, into))
<1> DEFINE y == MergeWorks(x, from, into)
           gains == [f \in DOMAIN x.t.works[into] |-> Gained(f, x.t.works[into][f], x.t.works[from][f])]
           works == [w \in DOMAIN x.t.works \ {from} |-> IF w = into THEN gains ELSE x.t.works[w]]
           pubs == [p \in DOMAIN x.t.pubs |-> MergeContents(x.t.pubs[p], from, into)]
           merges == Append(x.merges, [from |-> from, into |-> into])
<1>1. /\ "t" \in DOMAIN x /\ "works" \in DOMAIN x.t /\ "pubs" \in DOMAIN x.t
      /\ \A p \in DOMAIN x.t.pubs : HasLinks("pubs", x.t.pubs[p])
      /\ \A w \in DOMAIN x.t.works : HasLinks("works", x.t.works[w])
  BY TablesHave DEF Sees
<1>2. y = [[[x EXCEPT !.t.works = works] EXCEPT !.t.pubs = pubs] EXCEPT !.merges = merges]
  BY <1>1 DEF MergeWorks
<1> HIDE DEF y, works, pubs, merges
<1>3. "t" \in DOMAIN y /\ y.t = [[x.t EXCEPT !.works = works] EXCEPT !.pubs = pubs]
  BY <1>1, <1>2
<1>4. ASSUME NEW w \in DOMAIN works PROVE HasLinks("works", works[w])
  <2>1. CASE w = into
    <3>1. into \in DOMAIN x.t.works /\ works[w] = gains
      BY <1>4, <2>1 DEF works
    <3>2. HasLinks("works", x.t.works[into]) /\ HasLinks("works", x.t.works[from])
      BY <1>1, <3>1
    <3>3. "links" \in DOMAIN gains /\ gains.links = AddLinks(x.t.works[into].links, x.t.works[from].links)
      BY <3>2 DEF HasLinks, Gained
    <3> HIDE DEF gains
    <3> QED BY <3>1, <3>2, <3>3, AddLinksSound DEF HasLinks
  <2>2. CASE w # into
    BY <1>1, <2>2 DEF works
  <2> QED BY <2>1, <2>2
<1>5. ASSUME NEW p \in DOMAIN pubs PROVE HasLinks("pubs", pubs[p])
  BY <1>1 DEF pubs, MergeContents, HasLinks
<1>6. \A who \in DOMAIN x.t.people : HasLinks("people", x.t.people[who])
  BY TablesHave DEF Sees
<1>7. Sees(y)
  BY <1>3, <1>4, <1>5, <1>6, SeesOther
<1> QED BY <1>7 DEF y

(* A work that duplicates another becomes it (work::absorb_into_duplicate). *)
LEMMA AbsorbSees ==
  ASSUME NEW x, Sees(x), NEW w \in DOMAIN x.t.works
  PROVE Sees(AbsorbIntoDuplicate(x, w))
<1> DEFINE into == Min(Duplicates(x.t, w))
           merged == MergeWorks(x, w, into)
           recorded == Record(merged, "merge", "merged", <<"works", into>>, "none")
<1>1. AbsorbIntoDuplicate(x, w) \in {Returns(x, w), Returns(recorded, into)}
  BY DEF AbsorbIntoDuplicate
<1> HIDE DEF into
<1>2. Sees(merged)
  BY MergeSees
<1> HIDE DEF merged
<1>3. Sees(recorded)
  BY <1>2, StillSees
<1> HIDE DEF recorded
<1>4. Sees(Returns(x, w)) /\ Sees(Returns(recorded, into))
  BY <1>3, StillSees
<1> QED BY <1>1, <1>4

\* What a form writes to a work.
IsWorkRow(input) == "links" \in DOMAIN input /\ AreLinks("works", input.links)

(* All but which row it is. *)
LEMMA RowOfHasLinks ==
  ASSUME NEW input, IsWorkRow(input)
  PROVE HasLinks("works", RowOf(input))
BY DEF IsWorkRow, HasLinks, RowOf, Restrict

(* A row is written over. *)
LEMMA WriteWorkSees ==
  ASSUME NEW x, Sees(x), NEW w, NEW input, IsWorkRow(input)
  PROVE Sees(WriteWork(x, w, input))
<1> DEFINE row == RowOf(input)
           works == [x.t.works EXCEPT ![w] = row]
           y == [x EXCEPT !.t.works[w] = row]
<1>1. WriteWork(x, w, input) \in {x, Fail(x), y}
  BY DEF WriteWork
<1>2. HasLinks("works", row)
  BY RowOfHasLinks
<1> HIDE DEF row
<1>3. /\ "t" \in DOMAIN x
      /\ \A v \in DOMAIN x.t.works : HasLinks("works", x.t.works[v])
      /\ \A p \in DOMAIN x.t.pubs : HasLinks("pubs", x.t.pubs[p])
      /\ \A who \in DOMAIN x.t.people : HasLinks("people", x.t.people[who])
  BY TablesHave DEF Sees
<1>4. "t" \in DOMAIN y /\ y.t = [x.t EXCEPT !.works = works]
  BY <1>3
<1>5. \A v \in DOMAIN works : HasLinks("works", works[v])
  BY <1>2, <1>3
<1> HIDE DEF y, works
<1>6. Sees(y)
  BY <1>3, <1>4, <1>5, SeesOther
<1> QED BY <1>1, <1>6, StillSees

(* Writing a work, and recognising what it became. *)
LEMMA WriteLinkedWorkSees ==
  ASSUME NEW x, Sees(x), NEW w, NEW input, IsWorkRow(input)
  PROVE Sees(WriteLinkedWork(x, w, input))
<1> DEFINE written == WriteWork(x, w, input)
<1>1. Sees(written)
  BY WriteWorkSees
<1>2. WriteLinkedWork(x, w, input) =
        IF written.ok /\ HasWork(written.t, w) THEN AbsorbIntoDuplicate(written, w) ELSE Returns(written, w)
  BY DEF WriteLinkedWork
<1> HIDE DEF written
<1>3. HasWork(written.t, w) => Sees(AbsorbIntoDuplicate(written, w))
  BY <1>1, AbsorbSees DEF HasWork
<1>4. Sees(Returns(written, w))
  BY <1>1, StillSees
<1> QED BY <1>2, <1>3, <1>4

(* A publication's row, whatever its works. *)
LEMMA SetPubSees ==
  ASSUME NEW x, Sees(x), NEW p, NEW row, p \in DOMAIN x.t.pubs => HasLinks("pubs", row)
  PROVE Sees([x EXCEPT !.t.pubs[p] = row])
<1> DEFINE pubs == [x.t.pubs EXCEPT ![p] = row]
           y == [x EXCEPT !.t.pubs[p] = row]
<1>1. /\ "t" \in DOMAIN x
      /\ \A v \in DOMAIN x.t.works : HasLinks("works", x.t.works[v])
      /\ \A q \in DOMAIN x.t.pubs : HasLinks("pubs", x.t.pubs[q])
      /\ \A who \in DOMAIN x.t.people : HasLinks("people", x.t.people[who])
  BY TablesHave DEF Sees
<1>2. "t" \in DOMAIN y /\ y.t = [x.t EXCEPT !.pubs = pubs]
  BY <1>1
<1>3. \A q \in DOMAIN pubs : HasLinks("pubs", pubs[q])
  BY <1>1
<1> HIDE DEF y, pubs
<1>4. Sees(y)
  BY <1>1, <1>2, <1>3, SeesOther
<1> QED BY <1>4 DEF y

(* The links of a publication stay when its works change. *)
LEMMA WorksOfSees ==
  ASSUME NEW x, Sees(x), NEW p, NEW works
  PROVE Sees([x EXCEPT !.t.pubs[p] = With(x.t.pubs[p], "works", works)])
<1>1. p \in DOMAIN x.t.pubs => HasLinks("pubs", x.t.pubs[p])
  BY TablesHave DEF Sees
<1>2. p \in DOMAIN x.t.pubs => HasLinks("pubs", With(x.t.pubs[p], "works", works))
  BY <1>1, RowHasLinks
<1> QED BY <1>2, SetPubSees

(* A work is contained in one publication more (work::link_work_to_publication). *)
LEMMA LinkWorkSees ==
  ASSUME NEW x, Sees(x), NEW p, NEW w
  PROVE Sees(LinkWork(x, p, w))
<1> DEFINE works == x.t.pubs[p].works \union {w}
           y == [x EXCEPT !.t.pubs[p] = With(x.t.pubs[p], "works", works)]
<1>1. LinkWork(x, p, w) \in {Fail(x), y}
  BY DEF LinkWork, Sees
<1> HIDE DEF works
<1>2. Sees(y)
  BY WorksOfSees
<1> QED BY <1>1, <1>2, StillSees

(* A new row of a table has the links it was given. *)
LEMMA InsertSees ==
  ASSUME NEW x, Sees(x), NEW row
  PROVE /\ HasLinks("works", row) => Sees(InsertWork(x, row))
        /\ HasLinks("people", row) => Sees(CreatePerson(x, row))
        /\ HasLinks("pubs", row) => Sees(InsertPublication(x, row))
<1>1. /\ "t" \in DOMAIN x /\ "works" \in DOMAIN x.t /\ "pubs" \in DOMAIN x.t /\ "people" \in DOMAIN x.t
      /\ \A v \in DOMAIN x.t.works : HasLinks("works", x.t.works[v])
      /\ \A q \in DOMAIN x.t.pubs : HasLinks("pubs", x.t.pubs[q])
      /\ \A who \in DOMAIN x.t.people : HasLinks("people", x.t.people[who])
  BY TablesHave DEF Sees
<1>2. ASSUME HasLinks("works", row) PROVE Sees(InsertWork(x, row))
  <2> DEFINE id == x.t.last.works + 1
             works == With(x.t.works, id, row)
             y == InsertWork(x, row)
  <2>1. "t" \in DOMAIN y /\ "works" \in DOMAIN y.t /\ "pubs" \in DOMAIN y.t /\ "people" \in DOMAIN y.t
        /\ y.t.works = works /\ y.t.pubs = x.t.pubs /\ y.t.people = x.t.people
    BY <1>1 DEF InsertWork, Returns
  <2> HIDE DEF id, y
  <2>2. \A v \in DOMAIN works : HasLinks("works", works[v])
    BY <1>1, <1>2 DEF With
  <2> HIDE DEF works
  <2>3. LinksAreStored(y.t)
    BY <1>1, <2>1, <2>2, TablesHave
  <2> QED BY <2>1, <2>3 DEF Sees, y
<1>3. ASSUME HasLinks("people", row) PROVE Sees(CreatePerson(x, row))
  <2> DEFINE id == x.t.last.people + 1
             people == With(x.t.people, id, row)
             y == CreatePerson(x, row)
  <2>1. "t" \in DOMAIN y /\ "works" \in DOMAIN y.t /\ "pubs" \in DOMAIN y.t /\ "people" \in DOMAIN y.t
        /\ y.t.works = x.t.works /\ y.t.pubs = x.t.pubs /\ y.t.people = people
    BY <1>1 DEF CreatePerson, Returns
  <2> HIDE DEF id, y
  <2>2. \A v \in DOMAIN people : HasLinks("people", people[v])
    BY <1>1, <1>3 DEF With
  <2> HIDE DEF people
  <2>3. LinksAreStored(y.t)
    BY <1>1, <2>1, <2>2, TablesHave
  <2> QED BY <2>1, <2>3 DEF Sees, y
<1>4. ASSUME HasLinks("pubs", row) PROVE Sees(InsertPublication(x, row))
  <2> DEFINE id == x.t.last.pubs + 1
             new == With(row, "works", {})
             pubs == With(x.t.pubs, id, new)
             y == InsertPublication(x, row)
  <2>1. "t" \in DOMAIN y /\ "works" \in DOMAIN y.t /\ "pubs" \in DOMAIN y.t /\ "people" \in DOMAIN y.t
        /\ y.t.works = x.t.works /\ y.t.pubs = pubs /\ y.t.people = x.t.people
    BY <1>1 DEF InsertPublication, Returns
  <2> HIDE DEF id, y
  <2>2. HasLinks("pubs", new)
    BY <1>4, RowHasLinks
  <2> HIDE DEF new
  <2>3. \A q \in DOMAIN pubs : HasLinks("pubs", pubs[q])
    BY <1>1, <2>2 DEF With
  <2> HIDE DEF pubs
  <2>4. LinksAreStored(y.t)
    BY <1>1, <2>1, <2>3, TablesHave
  <2> QED BY <2>1, <2>4 DEF Sees, y
<1> QED BY <1>2, <1>3, <1>4

(* work::create_work_in_publication *)
LEMMA CreateWorkInSees ==
  ASSUME NEW x, Sees(x), NEW p, NEW input, IsWorkRow(input)
  PROVE Sees(CreateWorkIn(x, p, input))
<1> DEFINE created == InsertWork(x, RowOf(input))
           linked == LinkWork(created, p, created.id)
<1>1. Sees(created)
  BY InsertSees, RowOfHasLinks
<1>2. CreateWorkIn(x, p, input) = WriteLinkedWork(linked, created.id, input)
  BY DEF CreateWorkIn
<1> HIDE DEF created
<1>3. Sees(linked)
  BY <1>1, LinkWorkSees
<1> HIDE DEF linked
<1>4. Sees(WriteLinkedWork(linked, created.id, input))
  BY <1>3, WriteLinkedWorkSees
<1> QED BY <1>2, <1>4

(* work::link_or_create_work *)
LEMMA LinkOrCreateWorkSees ==
  ASSUME NEW x, Sees(x), NEW p, NEW input, IsWorkRow(input)
  PROVE Sees(LinkOrCreateWork(x, p, input))
<1> DEFINE w == input.ref[2]
           linked == LinkWork(x, p, w)
           written == WriteLinkedWork(linked, w, input)
<1>1. LinkOrCreateWork(x, p, input) \in {x, written, linked, CreateWorkIn(x, p, input)}
  BY DEF LinkOrCreateWork
<1>2. Sees(linked)
  BY LinkWorkSees
<1> HIDE DEF linked
<1>3. Sees(written)
  BY <1>2, WriteLinkedWorkSees
<1> HIDE DEF written
<1> QED BY <1>1, <1>2, <1>3, CreateWorkInSees

\* The contents of a form.
AreWorkRows(contents) ==
    \E n \in Nat : DOMAIN contents = 1..n /\ \A k \in 1..n : IsWorkRow(contents[k])

(* The contents of a new publication. *)
LEMMA AddContentsSees ==
  ASSUME NEW a, Sees(a.x), NEW p, NEW contents, AreWorkRows(contents)
  PROVE Sees(AddContents(a, p, contents).x)
<1>1. PICK n \in Nat : DOMAIN contents = 1..n /\ \A k \in 1..n : IsWorkRow(contents[k])
  BY DEF AreWorkRows
<1>2. PICK h : Trace(<<"add", p>>, a, contents, n, h) /\ h[n] = AddContents(a, p, contents)
  BY <1>1, AddFold
<1>3. h[0] = a /\ \A k \in 1..n : h[k] = AddContent(h[k-1], p, contents[k])
  <2>1. h[0] = a /\ \A k \in 1..n : h[k] = StepOf(<<"add", p>>, h[k-1], contents[k])
    BY <1>2 DEF Trace
  <2>2. \A b, r : StepOf(<<"add", p>>, b, r) = AddContent(b, p, r)
    BY <1>1, AddFold
  <2> QED BY ONLY <2>1, <2>2
<1> DEFINE T == {k \in 0..n : Sees(h[k].x)}
<1>4. 0 \in T
  BY <1>3
<1>5. ASSUME NEW k \in 1..n, k - 1 \in T PROVE k \in T
  <2> DEFINE y == LinkOrCreateWork(h[k-1].x, p, contents[k])
  <2>1. Sees(y)
    BY <1>1, <1>5, LinkOrCreateWorkSees
  <2> DEFINE ids == Append(h[k-1].ids, y.id)
  <2>2. h[k] = [x |-> y, ids |-> ids]
    BY <1>3 DEF AddContent
  <2> HIDE DEF y, ids
  <2> QED BY <2>1, <2>2
<1> HIDE DEF T
<1>6. n \in T
  BY <1>4, <1>5, Induction
<1> QED BY <1>2, <1>6 DEF T

(* The contents of a publication that is written again. *)
LEMMA WriteContentsSees ==
  ASSUME NEW x, Sees(x), NEW p, NEW before, NEW contents, AreWorkRows(contents)
  PROVE Sees(WriteContents(x, p, before, contents))
<1>1. PICK n \in Nat : DOMAIN contents = 1..n /\ \A k \in 1..n : IsWorkRow(contents[k])
  BY DEF AreWorkRows
<1>2. PICK h : Trace(<<"write", p, before>>, x, contents, n, h) /\ h[n] = WriteContents(x, p, before, contents)
  BY <1>1, WriteFold
<1>3. h[0] = x /\ \A k \in 1..n : h[k] = WriteContent(h[k-1], p, before, contents[k])
  <2>1. h[0] = x /\ \A k \in 1..n : h[k] = StepOf(<<"write", p, before>>, h[k-1], contents[k])
    BY <1>2 DEF Trace
  <2>2. \A a, r : StepOf(<<"write", p, before>>, a, r) = WriteContent(a, p, before, r)
    BY <1>1, WriteFold
  <2> QED BY ONLY <2>1, <2>2
<1> DEFINE T == {k \in 0..n : Sees(h[k])}
<1>4. 0 \in T
  BY <1>3
<1>5. ASSUME NEW k \in 1..n, k - 1 \in T PROVE k \in T
  <2> DEFINE y == h[k-1]
             input == contents[k]
  <2>1. h[k] \in {WriteLinkedWork(y, input.ref[2], input), LinkOrCreateWork(y, p, input)}
    BY <1>3 DEF WriteContent
  <2>2. Sees(y) /\ IsWorkRow(input)
    BY <1>1, <1>5
  <2> HIDE DEF y, input
  <2>3. Sees(h[k])
    BY <2>1, <2>2, WriteLinkedWorkSees, LinkOrCreateWorkSees
  <2> QED BY <2>3
<1> HIDE DEF T
<1>6. n \in T
  BY <1>4, <1>5, Induction
<1> QED BY <1>2, <1>6 DEF T

(* Everything about a publication but its contents. *)
LEMMA WriteChildrenSees ==
  ASSUME NEW x, Sees(x), NEW p, NEW row, HasLinks("pubs", row)
  PROVE Sees(WriteChildren(x, p, row))
<1> DEFINE new == With(row, "works", x.t.pubs[p].works)
           y == [x EXCEPT !.t.pubs[p] = new]
<1>1. WriteChildren(x, p, row) \in {y, Fail(x)}
  BY DEF WriteChildren, Sees
<1>2. HasLinks("pubs", new)
  BY RowHasLinks
<1> HIDE DEF new
<1>3. Sees(y)
  BY <1>2, SetPubSees
<1> QED BY <1>1, <1>3, StillSees

(* publication::create_publication *)
LEMMA CreatePublicationSees ==
  ASSUME NEW x, Sees(x), NEW row, HasLinks("pubs", row), NEW contents, AreWorkRows(contents)
  PROVE Sees(CreatePublication(x, row, contents).x)
<1> DEFINE inserted == InsertPublication(x, row)
           p == inserted.id
           a == [x |-> WriteChildren(inserted, p, row), ids |-> <<>>]
           written == AddContents(a, p, contents)
<1>1. Sees(inserted)
  BY InsertSees
<1>2. CreatePublication(x, row, contents) = IF x.t.library THEN written ELSE [x |-> Fail(x), ids |-> <<>>]
  BY DEF CreatePublication
<1> HIDE DEF inserted
<1>3. Sees(WriteChildren(inserted, p, row)) /\ a.x = WriteChildren(inserted, p, row)
  BY <1>1, WriteChildrenSees
<1> HIDE DEF a
<1>4. Sees(written.x)
  BY <1>3, AddContentsSees
<1> HIDE DEF written
<1>5. Sees([x |-> Fail(x), ids |-> <<>>].x)
  BY StillSees
<1> QED BY <1>2, <1>4, <1>5

(* Publication::update up to its collection. *)
LEMMA WritePublicationSees ==
  ASSUME NEW x, Sees(x), NEW p, NEW row, HasLinks("pubs", row), NEW contents, AreWorkRows(contents)
  PROVE Sees(WritePublication(x, p, row, contents))
<1> DEFINE before == x.t.pubs[p].works
           named == {c.ref[2] : c \in {c \in ToSet(contents) : c.ref[1] = "stored"}}
           written == WriteChildren(x, p, row)
           unlinked == [written EXCEPT !.t.pubs[p] = With(written.t.pubs[p], "works", before \intersect named)]
<1>1. Sees(written)
  BY WriteChildrenSees
<1>2. WritePublication(x, p, row, contents) = WriteContents(unlinked, p, before, contents)
  BY <1>1 DEF WritePublication, Sees
<1> HIDE DEF written, before, named
<1>3. Sees(unlinked)
  BY <1>1, WorksOfSees
<1> HIDE DEF unlinked
<1>4. Sees(WriteContents(unlinked, p, before, contents))
  BY <1>3, WriteContentsSees
<1> QED BY <1>2, <1>4

(* Fewer rows of a table. *)
LEMMA FewerRows ==
  ASSUME NEW tables, LinksAreStored(tables), NEW S
  PROVE /\ LinksAreStored([tables EXCEPT !.pubs = Restrict(@, DOMAIN @ \intersect S)])
        /\ LinksAreStored([tables EXCEPT !.works = Restrict(@, DOMAIN @ \intersect S)])
        /\ LinksAreStored([tables EXCEPT !.people = Restrict(@, DOMAIN @ \intersect S)])
<1>1. /\ "pubs" \in DOMAIN tables /\ "works" \in DOMAIN tables /\ "people" \in DOMAIN tables
      /\ \A p \in DOMAIN tables.pubs : HasLinks("pubs", tables.pubs[p])
      /\ \A w \in DOMAIN tables.works : HasLinks("works", tables.works[w])
      /\ \A who \in DOMAIN tables.people : HasLinks("people", tables.people[who])
  BY TablesHave
<1>2. LinksAreStored([tables EXCEPT !.pubs = Restrict(@, DOMAIN @ \intersect S)])
  <2> DEFINE rows == Restrict(tables.pubs, DOMAIN tables.pubs \intersect S)
             fewer == [tables EXCEPT !.pubs = rows]
  <2>1. \A p \in DOMAIN rows : HasLinks("pubs", rows[p])
    BY <1>1 DEF Restrict
  <2> HIDE DEF rows
  <2>2. /\ fewer.pubs = rows /\ fewer.works = tables.works /\ fewer.people = tables.people
        /\ "pubs" \in DOMAIN fewer /\ "works" \in DOMAIN fewer /\ "people" \in DOMAIN fewer
    BY <1>1
  <2> HIDE DEF fewer
  <2>3. LinksAreStored(fewer)
    BY <1>1, <2>1, <2>2, TablesHave
  <2> QED BY <2>3 DEF fewer, rows
<1>3. LinksAreStored([tables EXCEPT !.works = Restrict(@, DOMAIN @ \intersect S)])
  <2> DEFINE rows == Restrict(tables.works, DOMAIN tables.works \intersect S)
             fewer == [tables EXCEPT !.works = rows]
  <2>1. \A w \in DOMAIN rows : HasLinks("works", rows[w])
    BY <1>1 DEF Restrict
  <2> HIDE DEF rows
  <2>2. /\ fewer.pubs = tables.pubs /\ fewer.works = rows /\ fewer.people = tables.people
        /\ "pubs" \in DOMAIN fewer /\ "works" \in DOMAIN fewer /\ "people" \in DOMAIN fewer
    BY <1>1
  <2> HIDE DEF fewer
  <2>3. LinksAreStored(fewer)
    BY <1>1, <2>1, <2>2, TablesHave
  <2> QED BY <2>3 DEF fewer, rows
<1>4. LinksAreStored([tables EXCEPT !.people = Restrict(@, DOMAIN @ \intersect S)])
  <2> DEFINE rows == Restrict(tables.people, DOMAIN tables.people \intersect S)
             fewer == [tables EXCEPT !.people = rows]
  <2>1. \A who \in DOMAIN rows : HasLinks("people", rows[who])
    BY <1>1 DEF Restrict
  <2> HIDE DEF rows
  <2>2. /\ fewer.pubs = tables.pubs /\ fewer.works = tables.works /\ fewer.people = rows
        /\ "pubs" \in DOMAIN fewer /\ "works" \in DOMAIN fewer /\ "people" \in DOMAIN fewer
    BY <1>1
  <2> HIDE DEF fewer
  <2>3. LinksAreStored(fewer)
    BY <1>1, <2>1, <2>2, TablesHave
  <2> QED BY <2>3 DEF fewer, rows
<1> QED BY <1>2, <1>3, <1>4

(* What is collected goes, and no row changes. *)
LEMMA CollectedSees ==
  ASSUME NEW x, Sees(x)
  PROVE Sees(Collected(x)) /\ Collected(x).t = CollectOrphans(x.t)
<1>1. \A tables : LinksAreStored(tables) => LinksAreStored(CollectPubs(tables))
  <2> SUFFICES ASSUME NEW tables, LinksAreStored(tables) PROVE LinksAreStored(CollectPubs(tables))
    OBVIOUS
  <2>1. HeldPubs(tables) = DOMAIN tables.pubs \intersect HeldPubs(tables)
    BY DEF HeldPubs
  <2> QED BY <2>1, FewerRows DEF CollectPubs
<1>2. \A tables : LinksAreStored(tables) => /\ LinksAreStored(CollectWorks(tables))
                                           /\ LinksAreStored(CollectPeople(tables))
  BY FewerRows DEF CollectWorks, CollectPeople
<1>3. LinksAreStored(CollectOrphans(x.t))
  BY <1>1, <1>2 DEF CollectOrphans, Sees
<1> DEFINE left == CollectOrphans(x.t)
           gone == Entities(x.t) \ Entities(left)
           events == x.events \union {Event("orphan_cleanup", "deleted", e, "none") : e \in gone}
<1>4. Collected(x) = [x EXCEPT !.t = left, !.events = events] /\ "t" \in DOMAIN x
  BY DEF Collected, Sees
<1> HIDE DEF left, events
<1>5. "t" \in DOMAIN Collected(x) /\ Collected(x).t = left
  BY <1>4
<1> QED BY <1>3, <1>5 DEF Sees, left

(* A publication, or everything, is deleted. *)
LEMMA DeleteSees ==
  ASSUME NEW x, Sees(x)
  PROVE Sees(DeleteLibrary(x)) /\ \A p : Sees(DeletePublication(x, p))
<1>1. "t" \in DOMAIN x /\ LinksAreStored(x.t)
  BY DEF Sees
<1>2. Sees(DeleteLibrary(x))
  <2> DEFINE empty == [x.t EXCEPT !.library = FALSE, !.works = <<>>, !.people = <<>>, !.pubs = <<>>]
  <2>1. "pubs" \in DOMAIN x.t /\ "works" \in DOMAIN x.t /\ "people" \in DOMAIN x.t
    BY <1>1, TablesHave
  <2>2. /\ empty.pubs = <<>> /\ empty.works = <<>> /\ empty.people = <<>>
        /\ "pubs" \in DOMAIN empty /\ "works" \in DOMAIN empty /\ "people" \in DOMAIN empty
    BY <2>1
  <2>3. DeleteLibrary(x) = [x EXCEPT !.t = empty]
    BY DEF DeleteLibrary
  <2> HIDE DEF empty
  <2>4. LinksAreStored(empty)
    <3>1. DOMAIN empty.pubs = {} /\ DOMAIN empty.works = {} /\ DOMAIN empty.people = {}
      BY <2>2
    <3> QED BY <2>2, <3>1, TablesHave
  <2> QED BY <1>1, <2>3, <2>4 DEF Sees
<1>3. ASSUME NEW p PROVE Sees(DeletePublication(x, p))
  <2> DEFINE S == DOMAIN x.t.pubs \ {p}
             fewer == [x.t EXCEPT !.pubs = Restrict(@, DOMAIN @ \intersect S)]
  <2>1. LinksAreStored(fewer)
    BY <1>1, FewerRows
  <2>2. S = DOMAIN x.t.pubs \intersect S
    OBVIOUS
  <2>3. DeletePublication(x, p) = [x EXCEPT !.t = fewer]
    BY <2>2 DEF DeletePublication
  <2> HIDE DEF fewer
  <2> QED BY <1>1, <2>1, <2>3 DEF Sees
<1> QED BY <1>2, <1>3

-----------------------------------------------------------------------------
(***************************************************************************)
(* What a form writes                                                      *)
(***************************************************************************)

(* Rows of one table that have links as they may. *)
LEMMA TableHas ==
  ASSUME NEW tables, LinksAreStored(tables), NEW table, NEW rows,
         table \in DOMAIN KindOf => HaveLinks(table, rows)
  PROVE LinksAreStored([tables EXCEPT ![table] = rows])
<1> DEFINE now == [tables EXCEPT ![table] = rows]
<1>1. DOMAIN now = DOMAIN tables
  OBVIOUS
<1>2. ASSUME NEW k \in DOMAIN KindOf PROVE HaveLinks(k, now[k])
  <2>1. k \in DOMAIN tables /\ HaveLinks(k, tables[k])
    BY <1>2 DEF LinksAreStored
  <2>2. now[k] = IF k = table THEN rows ELSE tables[k]
    BY <2>1
  <2> HIDE DEF now
  <2> QED BY <1>2, <2>1, <2>2
<1> HIDE DEF now
<1>3. LinksAreStored(now)
  BY <1>1, <1>2 DEF LinksAreStored
<1> QED BY <1>3 DEF now

(* One field of one row. *)
LEMMA SetFieldHas ==
  ASSUME NEW tables, LinksAreStored(tables), NEW table,
         NEW id \in DOMAIN tables[table], NEW f, NEW v,
         f = "links" => table \in DOMAIN KindOf /\ AreLinks(table, v)
  PROVE LinksAreStored(SetField(tables, <<table, id>>, f, v))
<1> DEFINE row == [tables[table][id] EXCEPT ![f] = v]
           rows == [tables[table] EXCEPT ![id] = row]
<1>1. SetField(tables, <<table, id>>, f, v) = [tables EXCEPT ![table] = rows]
  BY DEF SetField
<1>2. ASSUME table \in DOMAIN KindOf PROVE HaveLinks(table, rows)
  <2>1. HaveLinks(table, tables[table])
    BY <1>2 DEF LinksAreStored
  <2>2. HasLinks(table, tables[table][id])
    BY <2>1 DEF HaveLinks, HasLinks
  <2>3. HasLinks(table, row)
    BY <2>2, RowHasLinks
  <2> HIDE DEF row
  <2> QED BY <2>1, <2>3 DEF HaveLinks, HasLinks
<1> HIDE DEF rows
<1> QED BY <1>1, <1>2, TableHas

\* The running binary recognizes as its version does.
IsRunning == binary.version \in 1 .. LastVersion /\ binary = Binary(binary.version)

(* A link of a form is one that may be stored (Link::new). *)
LEMMA LinkIsStored ==
  ASSUME IsRunning, NEW table \in DOMAIN KindOf, NEW url \in Urls
  PROVE IsStored(table, Link(table, url))
<1>1. binary.record[table][url] = Recognized(binary.version, table, url)
  BY DEF IsRunning, Binary
<1>2. Recognized(binary.version, table, url) \in {Generic, Recognize(KindOf[table], Address(url))}
  BY DEF Recognized
<1> DEFINE r == binary.record[table][url]
<1>3. Link(table, url) = [url |-> url, record |-> r]
  BY DEF Link
<1> HIDE DEF r
<1>4. Link(table, url).url = url /\ Link(table, url).record = r
  BY <1>3
<1>5. r \in {Generic, Recognize(KindOf[table], Address(url))}
  BY <1>1, <1>2 DEF r
<1> QED BY <1>3, <1>4, <1>5, UrlsAreAddresses DEF IsStored

(* So are the links of a form that is not refused. *)
LEMMA LinksAreFormed ==
  ASSUME IsRunning, NEW table \in DOMAIN KindOf, NEW urls \in Seq(Urls), ParsesLinks(table, urls)
  PROVE AreLinks(table, Links(table, urls))
<1> DEFINE n == Len(urls)
           links == Links(table, urls)
<1>1. n \in Nat /\ DOMAIN urls = 1..n /\ \A k \in 1..n : urls[k] \in Urls
  OBVIOUS
<1> HIDE DEF n
<1>2. /\ DOMAIN links = 1..n /\ links = [k \in 1..n |-> links[k]]
      /\ \A k \in 1..n : links[k] = Link(table, urls[k])
  BY <1>1 DEF Links
<1> HIDE DEF links
<1>3. \A k \in 1..n : IsStored(table, links[k])
  BY <1>1, <1>2, LinkIsStored
<1>4. \A j, k \in 1..n : j < k => ~IsSameLink(links[j], links[k])
  BY <1>1, <1>2 DEF ParsesLinks
<1>5. \A j, k \in 1..n : j # k => ~IsSameLink(links[j], links[k])
  <2> SUFFICES ASSUME NEW j \in 1..n, NEW k \in 1..n, j # k PROVE ~IsSameLink(links[j], links[k])
    OBVIOUS
  <2>1. CASE j < k
    BY <1>4, <2>1
  <2>2. CASE k < j
    <3>1. ~IsSameLink(links[k], links[j])
      BY <1>4, <2>2
    <3> QED BY <3>1 DEF IsSameLink
  <2> QED BY <1>1, <2>1, <2>2
<1>6. IsList(table, links, n)
  BY <1>2, <1>3, <1>5 DEF IsList
<1> QED BY <1>1, <1>6, LinksAre DEF links

(* A person more, and nothing else. *)
LEMMA CreatePersonOnly ==
  ASSUME NEW x, Sees(x), NEW row
  PROVE CreatePerson(x, row).t.works = x.t.works
<1>1. "t" \in DOMAIN x /\ "works" \in DOMAIN x.t
  BY TablesHave DEF Sees
<1> DEFINE id == x.t.last.people + 1
           people == With(x.t.people, id, row)
<1>2. CreatePerson(x, row) = [[x EXCEPT !.t.people = people, !.t.last.people = id] EXCEPT !.id = id]
  BY <1>1 DEF CreatePerson, Returns
<1> HIDE DEF id, people
<1> QED BY <1>1, <1>2

(* The people of a form are created without links. *)
LEMMA CreateNewPersonsSees ==
  ASSUME NEW x, Sees(x), NEW persons \in Parties
  PROVE Sees(CreateNewPersons(x, persons).x) /\ CreateNewPersons(x, persons).x.t.works = x.t.works
<1> DEFINE new == {p \in persons : p[1] = "new"}
           seq == SetToSeq(new)
           n == Cardinality(new)
           base == [x |-> x, id |-> [p \in persons \ new |-> p[2]]]
<1>1. CreateNewPersons(x, persons) = CreateEach(base, seq)
  BY DEF CreateNewPersons
<1>2. n \in Nat /\ seq \in [1 .. n -> new]
  <2>1. new \in SUBSET persons /\ IsFiniteSet(persons)
    BY DEF Parties
  <2>2. IsFiniteSet(new)
    BY <2>1, FS_Subset
  <2> HIDE DEF new
  <2>3. n \in Nat /\ ExistsBijection(1 .. n, new)
    BY <2>2, FS_CardinalityType
  <2>4. \E f \in [1 .. n -> new] : IsInjective(f)
    BY <2>3 DEF ExistsBijection, Bijection, Injection
  <2> QED BY <2>3, <2>4 DEF SetToSeq
<1>3. \A p \in new : HasLinks("people", p[2])
  <2> SUFFICES ASSUME NEW p \in new PROVE HasLinks("people", p[2])
    OBVIOUS
  <2>1. p \in NewPeople
    BY DEF Parties
  <2>2. PICK name \in Names : p = <<"new", [name |-> name, links |-> <<>>]>>
    BY <2>1 DEF NewPeople
  <2> DEFINE row == [name |-> name, links |-> <<>>]
  <2>3. "links" \in DOMAIN row /\ row.links = <<>>
    OBVIOUS
  <2> HIDE DEF row
  <2>4. HasLinks("people", row)
    BY <2>3, NoLinks DEF HasLinks
  <2> QED BY <2>2, <2>4 DEF row
<1>4. DOMAIN seq = 1 .. n /\ \A k \in 1 .. n : HasLinks("people", seq[k][2])
  BY <1>2, <1>3
<1>5. base.x = x
  OBVIOUS
<1> HIDE DEF seq, n, base, new
<1>6. PICK h : Trace(<<"person">>, base, seq, n, h) /\ h[n] = CreateEach(base, seq)
  BY <1>2, <1>4, PersonFold
<1>7. h[0] = base /\ \A k \in 1 .. n : h[k] = CreateNewPerson(h[k-1], seq[k])
  <2>1. h[0] = base /\ \A k \in 1..n : h[k] = StepOf(<<"person">>, h[k-1], seq[k])
    BY <1>6 DEF Trace
  <2>2. \A b, r : StepOf(<<"person">>, b, r) = CreateNewPerson(b, r)
    BY <1>2, <1>4, PersonFold
  <2> QED BY ONLY <2>1, <2>2
<1> DEFINE T == {k \in 0 .. n : Sees(h[k].x) /\ h[k].x.t.works = x.t.works}
<1>8. 0 \in T
  BY <1>2, <1>5, <1>7
<1>9. ASSUME NEW k \in 1 .. n, k - 1 \in T PROVE k \in T
  <2> DEFINE a == h[k-1]
             y == CreatePerson(a.x, seq[k][2])
             id == With(a.id, seq[k], y.id)
  <2>1. h[k] = [x |-> y, id |-> id]
    BY <1>7 DEF CreateNewPerson
  <2>2. Sees(a.x) /\ a.x.t.works = x.t.works /\ HasLinks("people", seq[k][2])
    BY <1>4, <1>9
  <2> HIDE DEF a
  <2>3. Sees(y) /\ y.t.works = x.t.works
    BY <2>2, InsertSees, CreatePersonOnly
  <2> HIDE DEF y, id
  <2>4. Sees(h[k].x) /\ h[k].x.t.works = x.t.works
    BY <2>1, <2>3
  <2> QED BY <1>2, <2>4
<1> HIDE DEF T
<1>10. n \in T
  BY <1>2, <1>8, <1>9, Induction
<1> QED BY <1>1, <1>6, <1>10 DEF T

(* A work's row of a form has links that it may have. *)
LEMMA WorkIsFormed ==
  ASSUME IsRunning, NEW post \in WorkForms, ParsesWork(post), NEW made
  PROVE IsWorkRow(Resolved(made, "works", post))
<1> DEFINE composers == {made.id[who] : who \in post.composers}
           links == Links("works", post.links)
           row == Resolved(made, "works", post)
<1>1. post.links \in Seq(Urls) /\ "links" \in DOMAIN post /\ "composers" \in DOMAIN post
  BY DEF WorkForms
<1>2. row = [[post EXCEPT !.composers = composers] EXCEPT !.links = links]
  BY DEF Resolved
<1>3. "works" \in DOMAIN KindOf
  BY DEF KindOf
<1>4. AreLinks("works", links)
  BY <1>1, <1>3, LinksAreFormed DEF ParsesWork
<1> HIDE DEF composers, links, row
<1>5. "links" \in DOMAIN row /\ row.links = links
  BY <1>1, <1>2
<1> QED BY <1>4, <1>5 DEF IsWorkRow, row

(* So has a publication's, and each of its works'. *)
LEMMA PublicationIsFormed ==
  ASSUME IsRunning, NEW post \in PublicationForms, NEW made,
         ParsesPublication(post)
  PROVE /\ HasLinks("pubs", Resolved(made, "pubs", Restrict(post, DOMAIN post \ {"contents"})))
        /\ AreWorkRows([k \in DOMAIN post.contents |-> Resolved(made, "works", post.contents[k])])
<1> DEFINE form == Restrict(post, DOMAIN post \ {"contents"})
           credits == {made.id[who] : who \in form.credits}
           links == Links("pubs", post.links)
           row == Resolved(made, "pubs", form)
           contents == [k \in DOMAIN post.contents |-> Resolved(made, "works", post.contents[k])]
<1>1. /\ post.links \in Seq(Urls) /\ post.contents \in Seq(WorkForms)
      /\ "links" \in DOMAIN form /\ "credits" \in DOMAIN form /\ form.links = post.links
  BY DEF PublicationForms, Restrict
<1>2. HasLinks("pubs", row)
  <2>1. row = [[form EXCEPT !.credits = credits] EXCEPT !.links = links]
    BY <1>1 DEF Resolved
  <2>2. "pubs" \in DOMAIN KindOf
    BY DEF KindOf
  <2>3. AreLinks("pubs", links)
    BY <1>1, <2>2, LinksAreFormed DEF ParsesPublication
  <2> HIDE DEF form, credits, links, row
  <2>4. "links" \in DOMAIN row /\ row.links = links
    BY <1>1, <2>1
  <2> QED BY <2>3, <2>4 DEF HasLinks
<1>3. AreWorkRows(contents)
  <2> DEFINE n == Len(post.contents)
  <2>1. n \in Nat /\ DOMAIN post.contents = 1..n /\ \A k \in 1..n : post.contents[k] \in WorkForms
    BY <1>1
  <2> HIDE DEF n
  <2>2. \A k \in 1..n : ParsesWork(post.contents[k])
    BY <2>1 DEF ParsesPublication, ToSet
  <2>3. \A k \in 1..n : IsWorkRow(contents[k])
    BY <2>1, <2>2, WorkIsFormed
  <2>4. DOMAIN contents = 1..n
    BY <2>1
  <2> HIDE DEF contents
  <2> QED BY <2>1, <2>3, <2>4 DEF AreWorkRows
<1> QED BY <1>2, <1>3

(* All whom a publication's form names. *)
LEMMA PartiesOf ==
  ASSUME NEW post \in PublicationForms
  PROVE post.credits \union UNION {c.composers : c \in ToSet(post.contents)} \in Parties
<1> DEFINE S == {c.composers : c \in ToSet(post.contents)}
           P == NewPeople \union {"linked"} \X Nat
<1>1. post.contents \in Seq(WorkForms) /\ post.credits \in Parties
  BY DEF PublicationForms
<1>2. S \subseteq Parties
  <2>1. \A c \in ToSet(post.contents) : c \in WorkForms
    BY <1>1 DEF ToSet
  <2>2. \A c \in WorkForms : c.composers \in Parties
    BY DEF WorkForms
  <2> QED BY <2>1, <2>2
<1>3. IsFiniteSet(S)
  <2>1. IsFiniteSet(ToSet(post.contents))
    <3> DEFINE n == Len(post.contents)
    <3>1. n \in Nat /\ DOMAIN post.contents = 1..n
      BY <1>1
    <3>2. IsFiniteSet(1..n)
      BY <3>1, FS_Interval
    <3>3. ToSet(post.contents) = {post.contents[k] : k \in 1..n}
      BY <3>1 DEF ToSet
    <3> HIDE DEF n
    <3> DEFINE f == [k \in 1..n |-> post.contents[k]]
    <3>4. f \in [1..n -> ToSet(post.contents)] /\ \A c \in ToSet(post.contents) : \E k \in 1..n : f[k] = c
      BY <3>3
    <3>5. f \in Surjection(1..n, ToSet(post.contents))
      BY <3>4 DEF Surjection
    <3> QED BY <3>2, <3>5, FS_Surjection
  <2> DEFINE C == ToSet(post.contents)
             g == [c \in C |-> c.composers]
  <2>2. g \in Surjection(C, S)
    BY DEF Surjection
  <2> HIDE DEF C, S, g
  <2> QED BY <2>1, <2>2, FS_Surjection DEF C
<1> HIDE DEF S
<1>4. \A people \in S : IsFiniteSet(people) /\ people \subseteq P
  BY <1>2 DEF Parties
<1>5. IsFiniteSet(UNION S)
  BY <1>3, <1>4, FS_UNION
<1>6. IsFiniteSet(post.credits) /\ post.credits \subseteq P
  BY <1>1 DEF Parties
<1>7. IsFiniteSet(post.credits \union UNION S)
  BY <1>5, <1>6, FS_Union
<1>8. post.credits \union UNION S \subseteq P
  BY <1>4, <1>6
<1> QED BY <1>7, <1>8 DEF Parties, S

-----------------------------------------------------------------------------
(***************************************************************************)
(* The edits of an ArchiveEdit                                             *)
(***************************************************************************)

(* A work's row, as a publication's. *)
LEMMA SetWorkSees ==
  ASSUME NEW x, Sees(x), NEW w, NEW row, w \in DOMAIN x.t.works => HasLinks("works", row)
  PROVE Sees([x EXCEPT !.t.works[w] = row])
<1> DEFINE works == [x.t.works EXCEPT ![w] = row]
           y == [x EXCEPT !.t.works[w] = row]
<1>1. /\ "t" \in DOMAIN x
      /\ \A v \in DOMAIN x.t.works : HasLinks("works", x.t.works[v])
      /\ \A q \in DOMAIN x.t.pubs : HasLinks("pubs", x.t.pubs[q])
      /\ \A who \in DOMAIN x.t.people : HasLinks("people", x.t.people[who])
  BY TablesHave DEF Sees
<1>2. "t" \in DOMAIN y /\ y.t = [x.t EXCEPT !.works = works]
  BY <1>1
<1>3. \A v \in DOMAIN works : HasLinks("works", works[v])
  BY <1>1
<1> HIDE DEF y, works
<1>4. Sees(y)
  BY <1>1, <1>2, <1>3, SeesOther
<1> QED BY <1>4 DEF y

(* A publication's lists. *)
LEMMA EditPubSees ==
  ASSUME NEW x, Sees(x), NEW p \in DOMAIN x.t.pubs, NEW v
  PROVE /\ Sees(AddWork(x, p, v)) /\ Sees(RemoveWork(x, p, v))
        /\ Sees(AddCredit(x, p, v)) /\ Sees(RemoveCredit(x, p, v))
        /\ Sees(AddHolding(x, p, v)) /\ Sees(RemoveHolding(x, p, v))
        /\ p \in DOMAIN RemoveHolding(x, p, v).t.pubs
<1> DEFINE row == x.t.pubs[p]
<1>1. HasLinks("pubs", row) /\ "t" \in DOMAIN x /\ "pubs" \in DOMAIN x.t
  BY TablesHave DEF Sees
<1>2. \A f, s : f # "links" => HasLinks("pubs", [row EXCEPT ![f] = s])
  BY <1>1, RowHasLinks
<1>3. \A s : /\ HasLinks("pubs", [row EXCEPT !.works = s])
             /\ HasLinks("pubs", [row EXCEPT !.credits = s])
             /\ HasLinks("pubs", [row EXCEPT !.held = s])
  BY <1>2
<1>4. \A s : /\ Sees([x EXCEPT !.t.pubs[p] = [row EXCEPT !.works = s]])
             /\ Sees([x EXCEPT !.t.pubs[p] = [row EXCEPT !.credits = s]])
             /\ Sees([x EXCEPT !.t.pubs[p] = [row EXCEPT !.held = s]])
  BY <1>3, SetPubSees
<1>5. Sees(AddWork(x, p, v)) /\ Sees(RemoveWork(x, p, v))
  BY <1>1, <1>4 DEF AddWork, RemoveWork
<1>6. Sees(AddCredit(x, p, v)) /\ Sees(RemoveCredit(x, p, v))
  BY <1>1, <1>4 DEF AddCredit, RemoveCredit
<1>7. Sees(AddHolding(x, p, v)) /\ Sees(RemoveHolding(x, p, v))
  BY <1>1, <1>4 DEF AddHolding, RemoveHolding
<1>8. p \in DOMAIN RemoveHolding(x, p, v).t.pubs
  BY <1>1 DEF RemoveHolding
<1> QED BY <1>5, <1>6, <1>7, <1>8

(* A work's lists. *)
LEMMA EditWorkSees ==
  ASSUME NEW x, Sees(x), NEW w \in DOMAIN x.t.works, NEW v
  PROVE /\ Sees(AddComposer(x, w, v)) /\ Sees(RemoveComposer(x, w, v))
        /\ Sees(AddNumber(x, w, v)) /\ Sees(RemoveNumber(x, w, v))
<1> DEFINE row == x.t.works[w]
<1>1. HasLinks("works", row) /\ "t" \in DOMAIN x /\ "works" \in DOMAIN x.t
  BY TablesHave DEF Sees
<1>2. \A f, s : f # "links" => HasLinks("works", [row EXCEPT ![f] = s])
  BY <1>1, RowHasLinks
<1>3. \A s : /\ HasLinks("works", [row EXCEPT !.composers = s])
             /\ HasLinks("works", [row EXCEPT !.numbers = s])
  BY <1>2
<1>4. \A s : /\ Sees([x EXCEPT !.t.works[w] = [row EXCEPT !.composers = s]])
             /\ Sees([x EXCEPT !.t.works[w] = [row EXCEPT !.numbers = s]])
  BY <1>3, SetWorkSees
<1>5. Sees(AddComposer(x, w, v)) /\ Sees(RemoveComposer(x, w, v))
  BY <1>1, <1>4 DEF AddComposer, RemoveComposer
<1>6. Sees(AddNumber(x, w, v)) /\ Sees(RemoveNumber(x, w, v))
  BY <1>1, <1>4 DEF AddNumber, RemoveNumber
<1> QED BY <1>5, <1>6

-----------------------------------------------------------------------------
(***************************************************************************)
(* The invariant                                                           *)
(***************************************************************************)

\* What an open edit sees, as what is stored, has links as they may be; and the counters of
\* the bounds are counters.
EditSees == edit = NoEdit \/ (edit = [open |-> TRUE, x |-> edit.x] /\ Sees(edit.x))
IsBounded == DOMAIN budget = Bounds /\ \A what \in Bounds : budget[what] \in Nat
IInv == LinksAreStored(t) /\ EditSees /\ IsRunning /\ IsBounded

(* What a step takes from its bound. *)
LEMMA SpendsBounded ==
  ASSUME IsBounded, NEW what \in Bounds, Spends(what)
  PROVE IsBounded' /\ \A k \in Bounds : k # what => budget'[k] = budget[k]
BY DEF IsBounded, Spends

(* An open edit has a transaction. *)
LEMMA OpenSees ==
  ASSUME EditSees, edit.open
  PROVE edit = [open |-> TRUE, x |-> edit.x] /\ Sees(edit.x)
BY DEF EditSees, NoEdit

\* What a step other than an opening of the archive leaves of the invariant.
Keeps == /\ LinksAreStored(t)' /\ EditSees' /\ IsRunning' /\ IsBounded'
         /\ budget'.opens = budget.opens /\ binary' = binary

(* A call that leaves a transaction which sees links as they may be. *)
LEMMA CallsKeep ==
  ASSUME IInv, NEW on, NEW x, Calls(on, x), Sees(x)
  PROVE Keeps
<1>1. edit' = [edit EXCEPT !.x = x] /\ edit.open /\ UNCHANGED <<t, binary>> /\ Spends("calls")
  BY DEF Calls
<1>2. edit = [open |-> TRUE, x |-> edit.x]
  BY <1>1, OpenSees DEF IInv
<1>3. edit' = [open |-> TRUE, x |-> x]
  BY <1>1, <1>2
<1>4. EditSees'
  BY <1>3 DEF EditSees
<1>5. IsBounded' /\ budget'.opens = budget.opens
  BY <1>1, SpendsBounded DEF IInv, Bounds
<1> QED BY <1>1, <1>4, <1>5 DEF Keeps, IInv, IsRunning, Binary, LinksAreStored

(* A call on an entity that is there, told if it changed a row. *)
LEMMA SetsKeep ==
  ASSUME IInv, NEW e, NEW field, NEW x, Sets(e, field, x), Sees(x)
  PROVE Keeps
<1> DEFINE y == IF x.t = edit.x.t THEN x ELSE Record(x, "user", "updated", e, field)
<1>1. Calls(e, y)
  BY DEF Sets
<1>2. Sees(y)
  BY StillSees
<1> HIDE DEF y
<1> QED BY <1>1, <1>2, CallsKeep

(* One field of one row. *)
LEMMA SetRowKeeps ==
  ASSUME IInv, NEW table \in {"pubs", "works", "people", "about"}, NEW id, NEW f, NEW v,
         SetRow(<<table, id>>, f, v), f = "links" => table \in DOMAIN KindOf /\ AreLinks(table, v)
  PROVE Keeps
<1> DEFINE x == edit.x
           y == [x EXCEPT !.t = SetField(@, <<table, id>>, f, v)]
           e == <<table, id>>
<1>1. Sets(e, f, y)
  BY DEF SetRow
<1>2. edit.open /\ IsThere(x.t, e)
  BY <1>1 DEF Sets, Calls
<1>3. Sees(x)
  BY <1>2, OpenSees DEF IInv
<1>4. Sees(y)
  <2> DEFINE tables == SetField(x.t, <<table, id>>, f, v)
  <2>1. y = [x EXCEPT !.t = tables] /\ "t" \in DOMAIN x /\ LinksAreStored(x.t)
    BY <1>3 DEF Sees
  <2>2. id \in DOMAIN x.t[table]
    BY <1>2 DEF IsThere
  <2>3. LinksAreStored(tables)
    BY <2>1, <2>2, SetFieldHas
  <2> HIDE DEF tables
  <2> QED BY <2>1, <2>3 DEF Sees
<1> HIDE DEF y, e
<1> QED BY <1>1, <1>4, SetsKeep

(* A member more or less of a set. *)
LEMMA AddsOrRemovesKeeps ==
  ASSUME IInv, NEW table \in {"pubs", "works", "people", "about"}, NEW id, NEW f, NEW member,
         AddsOrRemoves(<<table, id>>, f, member), f # "links"
  PROVE Keeps
<1>1. PICK left : SetRow(<<table, id>>, f, left)
  BY DEF AddsOrRemoves
<1> QED BY <1>1, SetRowKeeps

(* A link more or less. *)
LEMMA AddsOrRemovesLinkKeeps ==
  ASSUME IInv, NEW table \in DOMAIN KindOf, NEW id, NEW url \in Urls,
         AddsOrRemovesLink(<<table, id>>, url)
  PROVE Keeps
<1> DEFINE links == edit.x.t[table][id].links
           link == Link(table, url)
<1>1. PICK left \in {AddLink(links, link), RemoveLink(links, link)} : SetRow(<<table, id>>, "links", left)
  BY DEF AddsOrRemovesLink
<1>2. edit.open /\ IsThere(edit.x.t, <<table, id>>)
  BY <1>1 DEF SetRow, Sets, Calls
<1>3. LinksAreStored(edit.x.t)
  BY <1>2, OpenSees DEF IInv, Sees
<1>4. id \in DOMAIN edit.x.t[table]
  BY <1>2 DEF IsThere
<1>5. AreLinks(table, links)
  BY <1>3, <1>4 DEF LinksAreStored, HaveLinks
<1>6. IsStored(table, link)
  BY LinkIsStored DEF IInv
<1> HIDE DEF links, link
<1>7. AreLinks(table, left)
  BY <1>1, <1>5, <1>6, AddLinkSound, RemoveLinkSound
<1>8. table \in {"pubs", "works", "people", "about"}
  BY DEF KindOf
<1> QED BY <1>1, <1>7, <1>8, SetRowKeeps

(* The calls on a publication. *)
LEMMA EditsPublicationKeeps ==
  ASSUME IInv, edit.open, EditsPublication
  PROVE Keeps
<1> DEFINE x == edit.x
<1>1. Sees(x)
  BY OpenSees DEF IInv
<1>2. PICK p \in DOMAIN x.t.pubs :
        EditsPublicationRow(p) \/ EditsPublicationLists(p) \/ EditsCopies(p) \/ DeletesPublication(p)
  BY DEF EditsPublication
<1>3. CASE EditsPublicationRow(p)
  <2>1. ASSUME NEW title, SetRow(<<"pubs", p>>, "title", title) PROVE Keeps
    BY <2>1, SetRowKeeps
  <2>2. ASSUME NEW tag, AddsOrRemoves(<<"pubs", p>>, "tags", tag) PROVE Keeps
    BY <2>2, AddsOrRemovesKeeps
  <2>3. ASSUME NEW url \in Urls, AddsOrRemovesLink(<<"pubs", p>>, url) PROVE Keeps
    <3>1. "pubs" \in DOMAIN KindOf
      BY DEF KindOf
    <3> QED BY <2>3, <3>1, AddsOrRemovesLinkKeeps
  <2> QED BY <1>3, <2>1, <2>2, <2>3 DEF EditsPublicationRow
<1>4. CASE EditsPublicationLists(p)
  <2>1. ASSUME NEW id, AddsOrRemoves(<<"pubs", p>>, "identifiers", id) PROVE Keeps
    BY <2>1, AddsOrRemovesKeeps
  <2>2. ASSUME NEW v, NEW f,
               \/ Sets(<<"pubs", p>>, f, AddCredit(x, p, v)) \/ Sets(<<"pubs", p>>, f, RemoveCredit(x, p, v))
               \/ Sets(<<"pubs", p>>, f, AddWork(x, p, v)) \/ Sets(<<"pubs", p>>, f, RemoveWork(x, p, v))
        PROVE Keeps
    <3>1. /\ Sees(AddWork(x, p, v)) /\ Sees(RemoveWork(x, p, v))
          /\ Sees(AddCredit(x, p, v)) /\ Sees(RemoveCredit(x, p, v))
      BY <1>1, <1>2, EditPubSees
    <3> HIDE DEF x
    <3> QED BY <2>2, <3>1, SetsKeep
  <2> QED BY <1>4, <2>1, <2>2 DEF EditsPublicationLists
<1>5. CASE EditsCopies(p)
  <2>1. ASSUME NEW copy, NEW kind,
               \/ Sets(<<"pubs", p>>, "held", AddHolding(x, p, copy))
               \/ Sets(<<"pubs", p>>, "held", RemoveHolding(x, p, copy))
               \/ Sets(<<"pubs", p>>, "held", AddHolding(RemoveHolding(x, p, copy), p, kind))
        PROVE Keeps
    <3> DEFINE left == RemoveHolding(x, p, copy)
    <3>1. Sees(AddHolding(x, p, copy)) /\ Sees(left) /\ p \in DOMAIN left.t.pubs
      BY <1>1, <1>2, EditPubSees
    <3> HIDE DEF left
    <3>2. Sees(AddHolding(left, p, kind))
      BY <3>1, EditPubSees
    <3>3. \/ Sets(<<"pubs", p>>, "held", AddHolding(x, p, copy))
          \/ Sets(<<"pubs", p>>, "held", left)
          \/ Sets(<<"pubs", p>>, "held", AddHolding(left, p, kind))
      BY <2>1 DEF left
    <3> HIDE DEF x
    <3> QED BY <3>1, <3>2, <3>3, SetsKeep
  <2> QED BY <1>5, <2>1 DEF EditsCopies
<1>6. CASE DeletesPublication(p)
  <2> DEFINE y == DeletePublication(x, p)
             z == Record(y, "user", "deleted", <<"pubs", p>>, "none")
  <2>1. Calls(<<"pubs", p>>, z)
    BY <1>6 DEF DeletesPublication
  <2>2. Sees(y)
    BY <1>1, DeleteSees
  <2> HIDE DEF y
  <2>3. Sees(z)
    BY <2>2, StillSees
  <2> HIDE DEF z
  <2> QED BY <2>1, <2>3, CallsKeep
<1> QED BY <1>2, <1>3, <1>4, <1>5, <1>6

(* The calls on a work. *)
LEMMA EditsWorkKeeps ==
  ASSUME IInv, edit.open, EditsWork
  PROVE Keeps
<1> DEFINE x == edit.x
<1>1. Sees(x)
  BY OpenSees DEF IInv
<1>2. PICK w \in DOMAIN x.t.works :
        \/ EditsWorkRow(w) \/ EditsWorkLists(w) \/ \E into \in DOMAIN x.t.works : MergesWorks(w, into)
  BY DEF EditsWork
<1>3. CASE EditsWorkRow(w)
  <2>1. PICK title : SetRow(<<"works", w>>, "title", title)
    BY <1>3 DEF EditsWorkRow
  <2> QED BY <2>1, SetRowKeeps
<1>4. CASE EditsWorkLists(w)
  <2>1. ASSUME NEW tag, AddsOrRemoves(<<"works", w>>, "tags", tag) PROVE Keeps
    BY <2>1, AddsOrRemovesKeeps
  <2>2. ASSUME NEW url \in Urls, AddsOrRemovesLink(<<"works", w>>, url) PROVE Keeps
    <3>1. "works" \in DOMAIN KindOf
      BY DEF KindOf
    <3> QED BY <2>2, <3>1, AddsOrRemovesLinkKeeps
  <2>3. ASSUME NEW v, NEW f,
               \/ Sets(<<"works", w>>, f, AddComposer(x, w, v)) \/ Sets(<<"works", w>>, f, RemoveComposer(x, w, v))
               \/ Sets(<<"works", w>>, f, AddNumber(x, w, v)) \/ Sets(<<"works", w>>, f, RemoveNumber(x, w, v))
        PROVE Keeps
    <3>1. /\ Sees(AddComposer(x, w, v)) /\ Sees(RemoveComposer(x, w, v))
          /\ Sees(AddNumber(x, w, v)) /\ Sees(RemoveNumber(x, w, v))
      BY <1>1, <1>2, EditWorkSees
    <3> HIDE DEF x
    <3> QED BY <2>3, <3>1, SetsKeep
  <2> QED BY <1>4, <2>1, <2>2, <2>3 DEF EditsWorkLists
<1>5. ASSUME NEW into, MergesWorks(w, into) PROVE Keeps
  <2> DEFINE y == MergeWorks(x, w, into)
             z == Record(y, "user", "merged", <<"works", into>>, "none")
  <2>1. Calls(<<"works", into>>, z)
    BY <1>5 DEF MergesWorks
  <2>2. Sees(y)
    BY <1>1, <1>2, MergeSees
  <2> HIDE DEF y
  <2>3. Sees(z)
    BY <2>2, StillSees
  <2> HIDE DEF z
  <2> QED BY <2>1, <2>3, CallsKeep
<1> QED BY <1>2, <1>3, <1>4, <1>5

(* The calls on a person, and on the library. *)
LEMMA EditsOthersKeeps ==
  ASSUME IInv, edit.open, EditsLibrary \/ \E who \in DOMAIN edit.x.t.people : EditsPerson(who)
  PROVE Keeps
<1>1. Sees(edit.x)
  BY OpenSees DEF IInv
<1>2. CASE EditsLibrary
  <2>1. ASSUME NEW name, NEW f, f # "links", SetRow(<<"about", 1>>, f, name) PROVE Keeps
    BY <2>1, SetRowKeeps
  <2>2. ASSUME Calls(<<"about", 1>>, Record(DeleteLibrary(edit.x), "user", "deleted", <<"about", 1>>, "none"))
        PROVE Keeps
    <3> DEFINE y == DeleteLibrary(edit.x)
               z == Record(y, "user", "deleted", <<"about", 1>>, "none")
    <3>1. Sees(y)
      BY <1>1, DeleteSees
    <3> HIDE DEF y
    <3>2. Sees(z)
      BY <3>1, StillSees
    <3>3. Calls(<<"about", 1>>, z)
      BY <2>2 DEF y
    <3> HIDE DEF z
    <3> QED BY <3>2, <3>3, CallsKeep
  <2> QED BY <1>2, <2>1, <2>2 DEF EditsLibrary
<1>3. ASSUME NEW who, EditsPerson(who) PROVE Keeps
  <2>1. ASSUME NEW name, SetRow(<<"people", who>>, "name", name) PROVE Keeps
    BY <2>1, SetRowKeeps
  <2>2. ASSUME NEW url \in Urls, AddsOrRemovesLink(<<"people", who>>, url) PROVE Keeps
    <3>1. "people" \in DOMAIN KindOf
      BY DEF KindOf
    <3> QED BY <2>2, <3>1, AddsOrRemovesLinkKeeps
  <2> QED BY <1>3, <2>1, <2>2 DEF EditsPerson
<1> QED BY <1>2, <1>3

(* What an edit creates has no links. *)
LEMMA CreatesKeeps ==
  ASSUME IInv, edit.open, Creates
  PROVE Keeps
<1> DEFINE x == edit.x
<1>1. Sees(x)
  BY OpenSees DEF IInv
<1>2. ASSUME NEW y, Sees(y), NEW table,
             Calls(<<"about", 1>>, Record(y, "user", "created", <<table, y.id>>, "none"))
      PROVE Keeps
  <2> DEFINE z == Record(y, "user", "created", <<table, y.id>>, "none")
  <2>1. Sees(z)
    BY <1>2, StillSees
  <2>2. Calls(<<"about", 1>>, z)
    BY <1>2
  <2> HIDE DEF z
  <2> QED BY <2>1, <2>2, CallsKeep
<1>3. ASSUME NEW row, "links" \in DOMAIN row, row.links = <<>>
      PROVE Sees(InsertPublication(x, row)) /\ Sees(CreatePerson(x, row)) /\ Sees(InsertWork(x, row))
  BY <1>1, <1>3, NoLinks, InsertSees DEF HasLinks
<1>4. \A row, table :
        "links" \in DOMAIN row /\ row.links = <<>> =>
          /\ Calls(<<"about", 1>>, Record(InsertPublication(x, row), "user", "created", <<table, InsertPublication(x, row).id>>, "none")) => Keeps
          /\ Calls(<<"about", 1>>, Record(CreatePerson(x, row), "user", "created", <<table, CreatePerson(x, row).id>>, "none")) => Keeps
          /\ Calls(<<"about", 1>>, Record(InsertWork(x, row), "user", "created", <<table, InsertWork(x, row).id>>, "none")) => Keeps
  BY <1>2, <1>3
<1>5. ASSUME NEW title, NEW copy,
             LET row == [title |-> title, tags |-> {}, identifiers |-> {}, links |-> <<>>,
                         credits |-> {}, held |-> {copy}]
             IN Calls(<<"about", 1>>, Record(InsertPublication(x, row), "user", "created", <<"pubs", InsertPublication(x, row).id>>, "none"))
      PROVE Keeps
  <2> DEFINE row == [title |-> title, tags |-> {}, identifiers |-> {}, links |-> <<>>,
                     credits |-> {}, held |-> {copy}]
  <2>1. "links" \in DOMAIN row /\ row.links = <<>>
    OBVIOUS
  <2>2. Calls(<<"about", 1>>, Record(InsertPublication(x, row), "user", "created", <<"pubs", InsertPublication(x, row).id>>, "none"))
    BY <1>5
  <2> HIDE DEF row, x
  <2> QED BY <1>4, <2>1, <2>2
<1>6. ASSUME NEW name,
             LET row == [name |-> name, links |-> <<>>]
             IN Calls(<<"about", 1>>, Record(CreatePerson(x, row), "user", "created", <<"people", CreatePerson(x, row).id>>, "none"))
      PROVE Keeps
  <2> DEFINE row == [name |-> name, links |-> <<>>]
  <2>1. "links" \in DOMAIN row /\ row.links = <<>>
    OBVIOUS
  <2>2. Calls(<<"about", 1>>, Record(CreatePerson(x, row), "user", "created", <<"people", CreatePerson(x, row).id>>, "none"))
    BY <1>6
  <2> HIDE DEF row, x
  <2> QED BY <1>4, <2>1, <2>2
<1>7. ASSUME NEW title,
             LET row == [title |-> title, tags |-> {}, numbers |-> {}, links |-> <<>>, composers |-> {}]
             IN Calls(<<"about", 1>>, Record(InsertWork(x, row), "user", "created", <<"works", InsertWork(x, row).id>>, "none"))
      PROVE Keeps
  <2> DEFINE row == [title |-> title, tags |-> {}, numbers |-> {}, links |-> <<>>, composers |-> {}]
  <2>1. "links" \in DOMAIN row /\ row.links = <<>>
    OBVIOUS
  <2>2. Calls(<<"about", 1>>, Record(InsertWork(x, row), "user", "created", <<"works", InsertWork(x, row).id>>, "none"))
    BY <1>7
  <2> HIDE DEF row, x
  <2> QED BY <1>4, <2>1, <2>2
<1> HIDE DEF x
<1> QED BY <1>5, <1>6, <1>7 DEF Creates, x

(* The calls of an edit. *)
LEMMA EditsKeeps ==
  ASSUME IInv, Edits
  PROVE Keeps
BY EditsPublicationKeeps, EditsWorkKeeps, EditsOthersKeeps, CreatesKeeps DEF Edits

-----------------------------------------------------------------------------
(***************************************************************************)
(* Saves, and the end of an edit                                           *)
(***************************************************************************)

(* An edit that a step leaves alone still sees such rows. *)
LEMMA EditStays ==
  ASSUME EditSees, UNCHANGED edit
  PROVE EditSees'
<1>1. CASE edit = NoEdit
  BY <1>1 DEF EditSees, NoEdit
<1>2. CASE edit = [open |-> TRUE, x |-> edit.x] /\ Sees(edit.x)
  <2>1. edit' = [open |-> TRUE, x |-> edit'.x]
    BY <1>2
  <2>2. (Sees(edit.x))'
    BY <1>2, Zenon DEF Sees, LinksAreStored, HaveLinks, AreLinks
  <2> QED BY <2>1, <2>2 DEF EditSees
<1> QED BY <1>1, <1>2 DEF EditSees

(* A transaction of its own leaves what it wrote. *)
LEMMA WritesKeep ==
  ASSUME IInv, Writes, LinksAreStored(t')
  PROVE Keeps
<1>1. Spends("saves") /\ UNCHANGED <<edit, binary>>
  BY DEF Writes
<1>2. IsBounded' /\ budget'.opens = budget.opens
  BY <1>1, SpendsBounded DEF IInv, Bounds
<1>3. EditSees'
  BY <1>1, EditStays DEF IInv
<1>4. LinksAreStored(t)'
  OBVIOUS
<1> QED BY <1>1, <1>2, <1>3, <1>4 DEF Keeps, IInv, IsRunning, Binary

(* What a publication's form writes. *)
LEMMA PublicationIsWritten ==
  ASSUME IInv, NEW post \in PublicationForms, ParsesPublication(post)
  PROVE LET people == post.credits \union UNION {c.composers : c \in ToSet(post.contents)}
            made == CreateNewPersons(Transaction(t), people)
            row == Resolved(made, "pubs", Restrict(post, DOMAIN post \ {"contents"}))
            contents == [k \in DOMAIN post.contents |-> Resolved(made, "works", post.contents[k])]
        IN /\ \A p : Sees(WritePublication(made.x, p, row, contents))
           /\ Sees(CreatePublication(made.x, row, contents).x)
<1> DEFINE people == post.credits \union UNION {c.composers : c \in ToSet(post.contents)}
           made == CreateNewPersons(Transaction(t), people)
           row == Resolved(made, "pubs", Restrict(post, DOMAIN post \ {"contents"}))
           contents == [k \in DOMAIN post.contents |-> Resolved(made, "works", post.contents[k])]
<1>1. Sees(Transaction(t))
  BY TransactionSees DEF IInv
<1>2. people \in Parties
  BY PartiesOf
<1> HIDE DEF people
<1>3. Sees(made.x)
  BY <1>1, <1>2, CreateNewPersonsSees
<1> HIDE DEF made
<1>4. HasLinks("pubs", row) /\ AreWorkRows(contents)
  BY PublicationIsFormed DEF IInv
<1> HIDE DEF row, contents
<1>5. /\ \A p : Sees(WritePublication(made.x, p, row, contents))
      /\ Sees(CreatePublication(made.x, row, contents).x)
  BY <1>3, <1>4, WritePublicationSees, CreatePublicationSees
<1> QED BY <1>5 DEF people, made, row, contents

(* Publication::update *)
LEMMA SavePublicationKeeps ==
  ASSUME IInv, NEW post \in PublicationForms, SavePublication(post)
  PROVE Keeps
<1> DEFINE p == handle.on[2]
           people == post.credits \union UNION {c.composers : c \in ToSet(post.contents)}
           made == CreateNewPersons(Transaction(t), people)
           row == Resolved(made, "pubs", Restrict(post, DOMAIN post \ {"contents"}))
           contents == [k \in DOMAIN post.contents |-> Resolved(made, "works", post.contents[k])]
           written == WritePublication(made.x, p, row, contents)
           x == Collected(written)
<1>1. Writes /\ (t' = t \/ (ParsesPublication(post) /\ t' = x.t))
  BY DEF SavePublication, Refuses, Commits
<1>2. CASE t' = t
  BY <1>1, <1>2, WritesKeep DEF IInv
<1>3. CASE ParsesPublication(post) /\ t' = x.t
  <2>1. Sees(written)
    BY <1>3, PublicationIsWritten
  <2> HIDE DEF written
  <2>2. Sees(x)
    BY <2>1, CollectedSees
  <2> HIDE DEF x
  <2> QED BY <1>1, <1>3, <2>2, WritesKeep DEF Sees
<1> QED BY <1>1, <1>2, <1>3

(* Library::create_publication *)
LEMMA NewPublicationKeeps ==
  ASSUME IInv, NEW post \in PublicationForms, NewPublication(post)
  PROVE Keeps
<1> DEFINE people == post.credits \union UNION {c.composers : c \in ToSet(post.contents)}
           made == CreateNewPersons(Transaction(t), people)
           row == Resolved(made, "pubs", Restrict(post, DOMAIN post \ {"contents"}))
           contents == [k \in DOMAIN post.contents |-> Resolved(made, "works", post.contents[k])]
           x == CreatePublication(made.x, row, contents).x
<1>1. Writes /\ (t' = t \/ (ParsesPublication(post) /\ t' = x.t))
  BY DEF NewPublication, Refuses
<1>2. CASE t' = t
  BY <1>1, <1>2, WritesKeep DEF IInv
<1>3. CASE ParsesPublication(post) /\ t' = x.t
  <2>1. Sees(x)
    BY <1>3, PublicationIsWritten
  <2> HIDE DEF x
  <2> QED BY <1>1, <1>3, <2>1, WritesKeep DEF Sees
<1> QED BY <1>1, <1>2, <1>3

(* Work::update *)
LEMMA SaveWorkKeeps ==
  ASSUME IInv, NEW post \in WorkForms, SaveWork(post)
  PROVE Keeps
<1> DEFINE w == handle.on[2]
           made == CreateNewPersons(Transaction(t), post.composers)
           input == Resolved(made, "works", post)
           written == WriteWork(made.x, w, input)
           absorbed == AbsorbIntoDuplicate(written, w)
           x == Collected(absorbed)
<1>1. /\ Writes
      /\ t' = t \/ (IsThere(t, handle.on) /\ handle.on[1] = "works" /\ ParsesWork(post) /\ t' = x.t)
  BY DEF SaveWork, Refuses, Commits
<1>2. CASE t' = t
  BY <1>1, <1>2, WritesKeep DEF IInv
<1>3. CASE IsThere(t, handle.on) /\ handle.on[1] = "works" /\ ParsesWork(post) /\ t' = x.t
  <2>1. Sees(Transaction(t))
    BY TransactionSees DEF IInv
  <2>2. Sees(made.x) /\ made.x.t.works = t.works
    <3>1. post.composers \in Parties
      BY DEF WorkForms
    <3>2. Transaction(t).t = t
      BY DEF Transaction
    <3> QED BY <2>1, <3>1, <3>2, CreateNewPersonsSees
  <2>3. IsWorkRow(input)
    BY <1>3, WorkIsFormed DEF IInv
  <2> HIDE DEF made, input
  <2>4. Sees(written) /\ w \in DOMAIN written.t.works
    <3> DEFINE y == made.x
    <3>1. Sees(written)
      BY <2>2, <2>3, WriteWorkSees
    <3>2. w \in DOMAIN y.t.works /\ "t" \in DOMAIN y /\ "works" \in DOMAIN y.t
      BY <1>3, <2>2, TablesHave DEF IsThere, Sees
    <3> HIDE DEF y
    <3>3. WriteWork(y, w, input) \in {y, Fail(y), [y EXCEPT !.t.works[w] = RowOf(input)]}
      BY DEF WriteWork
    <3>4. w \in DOMAIN WriteWork(y, w, input).t.works
      <4>1. Fail(y).t = y.t
        BY <3>2 DEF Fail
      <4> DEFINE row == RowOf(input)
      <4>2. w \in DOMAIN [y EXCEPT !.t.works[w] = row].t.works
        BY <3>2
      <4> HIDE DEF row
      <4>3. WriteWork(y, w, input) \in {y, Fail(y), [y EXCEPT !.t.works[w] = row]}
        BY <3>3 DEF row
      <4> QED BY <3>2, <4>1, <4>2, <4>3
    <3> QED BY <3>1, <3>4 DEF y
  <2> HIDE DEF written
  <2>5. Sees(absorbed)
    BY <2>4, AbsorbSees
  <2> HIDE DEF absorbed
  <2>6. Sees(x)
    BY <2>5, CollectedSees
  <2> HIDE DEF x
  <2> QED BY <1>1, <1>3, <2>6, WritesKeep DEF Sees
<1> QED BY <1>1, <1>2, <1>3

(* Person::update *)
LEMMA SavePersonKeeps ==
  ASSUME IInv, NEW name, NEW url \in Urls, SavePerson(name, <<url>>)
  PROVE Keeps
<1> DEFINE links == Links("people", <<url>>)
           row == [name |-> name, links |-> links]
           x == [Transaction(t) EXCEPT !.t.people[handle.on[2]] = row]
<1>1. Writes /\ (t' = t \/ (ParsesLinks("people", <<url>>) /\ t' = x.t))
  BY DEF SavePerson, Refuses, Commits
<1>2. CASE t' = t
  BY <1>1, <1>2, WritesKeep DEF IInv
<1>3. CASE ParsesLinks("people", <<url>>) /\ t' = x.t
  <2>1. AreLinks("people", links)
    <3>1. "people" \in DOMAIN KindOf /\ <<url>> \in Seq(Urls)
      BY DEF KindOf
    <3> QED BY <1>3, <3>1, LinksAreFormed DEF IInv
  <2> HIDE DEF links
  <2>2. HasLinks("people", row)
    BY <2>1 DEF HasLinks
  <2> HIDE DEF row
  <2> DEFINE people == [t.people EXCEPT ![handle.on[2]] = row]
             now == [t EXCEPT !["people"] = people]
  <2>3. t' = now
    BY <1>3 DEF Transaction
  <2>4. HaveLinks("people", people)
    BY <2>2, TablesHave DEF IInv, HaveLinks, HasLinks
  <2> HIDE DEF people
  <2>5. LinksAreStored(now)
    BY <2>4, TableHas DEF IInv
  <2> HIDE DEF now
  <2> QED BY <1>1, <2>3, <2>5, WritesKeep
<1> QED BY <1>1, <1>2, <1>3

(* Library::update *)
LEMMA SaveLibraryKeeps ==
  ASSUME IInv, NEW name, NEW private, SaveLibrary(name, private)
  PROVE Keeps
<1> DEFINE row == [name |-> name, private |-> private]
           x == [Transaction(t) EXCEPT !.t.about[1] = row]
<1>1. Writes /\ (t' = t \/ t' = x.t)
  BY DEF SaveLibrary, Refuses, Commits
<1>2. CASE t' = t
  BY <1>1, <1>2, WritesKeep DEF IInv
<1>3. CASE t' = x.t
  <2> DEFINE about == [t.about EXCEPT ![1] = row]
             now == [t EXCEPT !["about"] = about]
  <2>1. t' = now
    BY <1>3 DEF Transaction
  <2> HIDE DEF about
  <2>2. LinksAreStored(now)
    <3>1. "about" \notin DOMAIN KindOf
      BY DEF KindOf
    <3> QED BY <3>1, TableHas DEF IInv
  <2> HIDE DEF now
  <2> QED BY <1>1, <2>1, <2>2, WritesKeep
<1> QED BY <1>1, <1>2, <1>3

(* Publication::delete and Library::delete *)
LEMMA DeletesKeep ==
  ASSUME IInv, RemovePublication \/ RemoveLibrary
  PROVE Keeps
<1>1. Sees(Transaction(t))
  BY TransactionSees DEF IInv
<1>2. ASSUME NEW x, Sees(x), Deletes(x) PROVE Keeps
  <2>1. Writes /\ (t' = t \/ t' = x.t)
    BY <1>2 DEF Deletes, Refuses
  <2> QED BY <1>2, <2>1, WritesKeep DEF IInv, Sees
<1>3. Sees(DeleteLibrary(Transaction(t))) /\ \A p : Sees(Collected(DeletePublication(Transaction(t), p)))
  BY <1>1, DeleteSees, CollectedSees
<1> QED BY <1>2, <1>3 DEF RemovePublication, RemoveLibrary

(* Library::merge_works *)
LEMMA MergeStoredKeeps ==
  ASSUME IInv, NEW from \in DOMAIN t.works, NEW into, MergeStored(from, into)
  PROVE Keeps
<1> DEFINE merged == MergeWorks(Transaction(t), from, into)
           x == Collected(merged)
<1>1. Writes /\ t' = x.t
  BY DEF MergeStored
<1>2. Sees(Transaction(t)) /\ Transaction(t).t = t
  BY TransactionSees DEF IInv, Transaction
<1>3. Sees(merged)
  BY <1>2, MergeSees
<1> HIDE DEF merged
<1>4. Sees(x)
  BY <1>3, CollectedSees
<1> HIDE DEF x
<1> QED BY <1>1, <1>4, WritesKeep DEF Sees

(* Whatever a page saves. *)
LEMMA SaveKeeps ==
  ASSUME IInv, Save
  PROVE Keeps
BY SavePublicationKeeps, NewPublicationKeeps, SaveWorkKeeps, SavePersonKeeps, SaveLibraryKeeps,
   DeletesKeep, MergeStoredKeeps DEF Save

(* A load writes nothing. *)
LEMMA LoadKeeps ==
  ASSUME IInv, Load
  PROVE Keeps
<1>1. PICK e : Loads(e)
  BY DEF Load, LoadPublication, LoadWork, LoadPerson, LoadLibrary
<1>2. Spends("loads") /\ UNCHANGED <<t, edit, binary>>
  BY <1>1 DEF Loads
<1>3. IsBounded' /\ budget'.opens = budget.opens
  BY <1>2, SpendsBounded DEF IInv, Bounds
<1>4. LinksAreStored(t)' /\ EditSees'
  <2>1. LinksAreStored(t)'
    BY <1>2 DEF IInv, LinksAreStored, HaveLinks, AreLinks
  <2> QED BY <1>2, <2>1, EditStays DEF IInv
<1>5. IsRunning'
  BY <1>2 DEF IInv, IsRunning, Binary
<1> QED BY <1>2, <1>3, <1>4, <1>5 DEF Keeps

(* An edit begins with the tables as they are, *)
LEMMA OpenEditKeeps ==
  ASSUME IInv, OpenEdit
  PROVE Keeps
<1>1. Spends("edits") /\ edit' = [open |-> TRUE, x |-> Transaction(t)] /\ UNCHANGED <<t, binary>>
  BY DEF OpenEdit
<1>2. IsBounded' /\ budget'.opens = budget.opens
  BY <1>1, SpendsBounded DEF IInv, Bounds
<1>3. EditSees'
  <2>1. Sees(Transaction(t))
    BY TransactionSees DEF IInv
  <2> DEFINE x == Transaction(t)
  <2>2. edit' = [open |-> TRUE, x |-> x]
    BY <1>1
  <2> HIDE DEF x
  <2>3. edit'.x = x
    BY <2>2
  <2> QED BY <2>1, <2>2, <2>3 DEF EditSees, x
<1> QED BY <1>1, <1>2, <1>3 DEF Keeps, IInv, IsRunning, Binary, LinksAreStored, HaveLinks, AreLinks

(* and ends with what it made of them, or without it. *)
LEMMA EndEditKeeps ==
  ASSUME IInv, CommitEdit \/ DropEdit
  PROVE Keeps
<1>1. /\ edit.open /\ edit' = NoEdit /\ UNCHANGED <<binary, budget>>
      /\ t' = t \/ t' = Collected(edit.x).t
  BY DEF CommitEdit, DropEdit, Committed
<1>2. Sees(Collected(edit.x))
  <2>1. Sees(edit.x)
    BY <1>1, OpenSees DEF IInv
  <2> QED BY <2>1, CollectedSees
<1>3. LinksAreStored(t')
  BY <1>1, <1>2 DEF IInv, Sees
<1>4. LinksAreStored(t)'
  BY <1>3
<1>5. EditSees'
  BY <1>1 DEF EditSees, NoEdit
<1>6. IsRunning' /\ IsBounded'
  BY <1>1 DEF IInv, IsRunning, Binary, IsBounded
<1> QED BY <1>1, <1>4, <1>5, <1>6 DEF Keeps

-----------------------------------------------------------------------------
(***************************************************************************)
(* Opening the archive                                                     *)
(***************************************************************************)

\* A record is named by the first link to it.
First(names, k) == \A j \in 1 .. k - 1 : names[j] # names[k]
RecordFor(names, k) == IF First(names, k) THEN names[k] ELSE Generic

(* No two links name one record, and each record that is named keeps a name. *)
LEMMA RecordsOnce ==
  ASSUME NEW n \in Nat, NEW names
  PROVE /\ \A j, k \in 1..n : j # k /\ RecordFor(names, j) # Generic => RecordFor(names, j) # RecordFor(names, k)
        /\ \A k \in 1..n : RecordFor(names, k) = Generic /\ names[k] # Generic =>
              \E j \in 1 .. k - 1 : RecordFor(names, j) = names[k]
<1>1. ASSUME NEW j \in 1..n, NEW k \in 1..n, j < k, RecordFor(names, j) # Generic
      PROVE RecordFor(names, j) # RecordFor(names, k)
  <2>1. RecordFor(names, j) = names[j] /\ j \in 1 .. k - 1
    BY <1>1 DEF RecordFor
  <2> QED BY <1>1, <2>1 DEF RecordFor, First
<1>2. ASSUME NEW j \in 1..n, NEW k \in 1..n, j # k, RecordFor(names, j) # Generic
      PROVE RecordFor(names, j) # RecordFor(names, k)
  <2>1. CASE j < k
    BY <1>1, <1>2, <2>1
  <2>2. CASE k < j
    <3>1. RecordFor(names, k) # Generic => RecordFor(names, k) # RecordFor(names, j)
      BY <1>1, <2>2
    <3> QED BY <1>2, <3>1
  <2> QED BY <1>2, <2>1, <2>2
<1>3. ASSUME NEW k \in 1..n, RecordFor(names, k) = Generic, names[k] # Generic
      PROVE \E j \in 1 .. k - 1 : RecordFor(names, j) = names[k]
  <2> DEFINE S == {j \in 1 .. k - 1 : names[j] = names[k]}
  <2>1. S # {} /\ S \in SUBSET Nat
    BY <1>3 DEF RecordFor, First
  <2>2. PICK j \in S : \A m \in S : j <= m
    BY <2>1, Smallest
  <2>3. First(names, j)
    <3> SUFFICES ASSUME NEW m \in 1 .. j - 1, names[m] = names[j] PROVE FALSE
      BY DEF First
    <3>1. m \in S
      BY <2>2
    <3> QED BY <2>2, <3>1
  <2> QED BY <2>2, <2>3 DEF RecordFor
<1> QED BY <1>2, <1>3

\* An owner's links, the first k of those that change set, the others cleared.
SetTo(links, records, n, changed, k) ==
    [j \in 1..n |-> [url |-> links[j].url,
                     record |-> IF j <= k \/ j \notin changed THEN records[j] ELSE Generic]]

(* set_columns never meets a record that another link has. *)
LEMMA SetColumnsSound ==
  ASSUME NEW n \in Nat, NEW links, NEW records, NEW changed, NEW k \in 1..n, k \in changed,
         \A i, j \in 1..n : i # j /\ records[i] # Generic => records[i] # records[j],
         NEW a, a = [ok |-> TRUE, links |-> SetTo(links, records, n, changed, k - 1)]
  PROVE SetColumns(a, k, records[k]) =
          [ok |-> TRUE, links |-> SetTo(links, records, n, changed, k)]
<1> DEFINE before == SetTo(links, records, n, changed, k - 1)
           after == SetTo(links, records, n, changed, k)
           r == records[k]
<1>1. /\ DOMAIN before = 1..n
      /\ \A j \in 1..n :
           before[j] = [url |-> links[j].url,
                        record |-> IF j <= k - 1 \/ j \notin changed THEN records[j] ELSE Generic]
  BY DEF SetTo
<1>2. \A j \in (1..n) \ {k} : before[j].record \in {records[j], Generic}
  <2> HIDE DEF before
  <2> QED BY <1>1
<1>3. ~(r # Generic /\ \E j \in (1..n) \ {k} : before[j].record = r)
  BY <1>2
<1>4. after = [before EXCEPT ![k].record = r]
  <2> DEFINE l == [before[k] EXCEPT !.record = r]
  <2>1. l = [url |-> links[k].url, record |-> r]
    <3>1. before[k] = [url |-> links[k].url, record |-> Generic]
      <4>1. ~(k <= k - 1)
        OBVIOUS
      <4> HIDE DEF before
      <4> QED BY <1>1, <4>1
    <3> HIDE DEF before, r
    <3> QED BY <3>1
  <2>2. \A j \in 1..n : j # k => (j <= k - 1 <=> j <= k)
    OBVIOUS
  <2>3. after = [j \in 1..n |-> IF j = k THEN l ELSE before[j]]
    BY <1>1, <2>1, <2>2 DEF SetTo
  <2> HIDE DEF before, l, after
  <2>4. [before EXCEPT ![k] = l] = [j \in 1..n |-> IF j = k THEN l ELSE before[j]]
    BY <1>1
  <2> QED BY <2>3, <2>4 DEF l
<1> HIDE DEF before, after, r
<1>5. a = [ok |-> TRUE, links |-> before] /\ a.links = before
  BY DEF before
<1>6. SetColumns(a, k, r) = [a EXCEPT !.links[k].record = r]
  BY <1>1, <1>3, <1>5 DEF SetColumns
<1>7. SetColumns(a, k, r) = [ok |-> TRUE, links |-> after]
  <2>1. [a EXCEPT !.links[k].record = r] = [a EXCEPT !.links = [before EXCEPT ![k].record = r]]
    BY <1>5
  <2>2. [a EXCEPT !.links = after] = [ok |-> TRUE, links |-> after]
    <3> DEFINE ok == TRUE
    <3>1. a = [ok |-> ok, links |-> before]
      BY <1>5
    <3> HIDE DEF ok
    <3> DEFINE b == [a EXCEPT !.links = after]
    <3>2. DOMAIN b = {"ok", "links"} /\ b = [f \in {"ok", "links"} |-> b[f]] /\ b["ok"] = ok /\ b["links"] = after
      BY ONLY <3>1
    <3> HIDE DEF b
    <3>3. b = [ok |-> ok, links |-> after]
      BY ONLY <3>2
    <3> QED BY <3>3 DEF ok, b
  <2> QED BY <1>4, <1>6, <2>1, <2>2
<1> QED BY <1>7 DEF r, after

\* The changes of an owner's links, to records that no two of them share.
AreChanges(changes, links, records, n) ==
    /\ DOMAIN changes = 1..n
    /\ \A k \in 1..n : changes[k] = [link |-> k, was |-> links[k].record, record |-> records[k]]
    /\ \A i, j \in 1..n : i # j /\ records[i] # Generic => records[i] # records[j]

(* Every link ends with the record it should have. *)
LEMMA SetEachSound ==
  ASSUME NEW table, NEW n \in Nat, NEW links, IsList(table, links, n), NEW records,
         NEW changes, AreChanges(changes, links, records, n),
         NEW changed, changed = {k \in 1..n : links[k].record # records[k]}
  PROVE SetEach([ok |-> TRUE, links |-> Cleared(links, changed)], changes) =
          [ok |-> TRUE, links |-> [j \in 1..n |-> [url |-> links[j].url, record |-> records[j]]]]
<1> DEFINE base == [ok |-> TRUE, links |-> Cleared(links, changed)]
           To(k) == [ok |-> TRUE, links |-> SetTo(links, records, n, changed, k)]
<1>0. /\ DOMAIN changes = 1..n
      /\ \A k \in 1..n : changes[k] = [link |-> k, was |-> links[k].record, record |-> records[k]]
      /\ \A i, j \in 1..n : i # j /\ records[i] # Generic => records[i] # records[j]
  BY DEF AreChanges
<1>1. base = To(0)
  <2>1. \A j \in 1..n : /\ links[j] = [url |-> links[j].url, record |-> links[j].record]
                        /\ ~(j <= 0)
    BY DEF IsList, IsStored
  <2>2. ASSUME NEW j \in 1..n
        PROVE (IF j \in changed THEN [links[j] EXCEPT !.record = Generic] ELSE links[j])
                = [url |-> links[j].url,
                   record |-> IF j <= 0 \/ j \notin changed THEN records[j] ELSE Generic]
    <3>1. j \notin changed => links[j].record = records[j]
      OBVIOUS
    <3>2. links[j] = [url |-> links[j].url, record |-> links[j].record] /\ ~(j <= 0)
      BY <2>1
    <3> DEFINE url == links[j].url
               record == links[j].record
    <3>3. links[j] = [url |-> url, record |-> record]
      BY <3>2
    <3> HIDE DEF url, record
    <3>4. [links[j] EXCEPT !.record = Generic] = [url |-> url, record |-> Generic]
      BY <3>3
    <3> QED BY <3>1, <3>2, <3>3, <3>4 DEF url, record
  <2>3. DOMAIN links = 1..n
    BY DEF IsList
  <2>4. Cleared(links, changed) = SetTo(links, records, n, changed, 0)
    BY <2>2, <2>3 DEF Cleared, SetTo
  <2> QED BY <2>4
<1> HIDE DEF base
<1>2. PICK h : Trace(<<"set">>, base, changes, n, h) /\ h[n] = SetEach(base, changes)
  BY <1>0, SetFold
<1>3. h[0] = base /\ \A k \in 1..n : h[k] = SetNext(h[k-1], changes[k])
  <2>1. h[0] = base /\ \A k \in 1..n : h[k] = StepOf(<<"set">>, h[k-1], changes[k])
    BY <1>2 DEF Trace
  <2>2. \A b, r : StepOf(<<"set">>, b, r) = SetNext(b, r)
    BY <1>0, SetFold
  <2> QED BY ONLY <2>1, <2>2
<1> DEFINE T == {k \in 0..n : h[k] = To(k)}
<1>4. 0 \in T
  BY <1>1, <1>3
<1>5. ASSUME NEW k \in 1..n, k - 1 \in T PROVE k \in T
  <2> DEFINE a == To(k - 1)
             change == changes[k]
  <2>1. h[k] = SetNext(a, change)
    BY <1>3, <1>5
  <2>2. change.link = k /\ change.was = links[k].record /\ change.record = records[k]
    BY <1>0
  <2>3. a.ok = TRUE
    OBVIOUS
  <2>4. CASE k \in changed
    <3>1. SetColumns(a, k, records[k]) = To(k)
      <4> DEFINE b == a
      <4>1. b = [ok |-> TRUE, links |-> SetTo(links, records, n, changed, k - 1)]
        OBVIOUS
      <4> HIDE DEF b
      <4>2. SetColumns(b, k, records[k]) = [ok |-> TRUE, links |-> SetTo(links, records, n, changed, k)]
        BY <1>0, <2>4, <4>1, SetColumnsSound
      <4> QED BY <4>2 DEF b
    <3>2. change.was # change.record
      BY <2>2, <2>4
    <3> HIDE DEF a, change, To
    <3>3. SetNext(a, change) = SetColumns(a, k, records[k])
      BY <2>2, <2>3, <3>2 DEF SetNext
    <3>4. h[k] = To(k)
      BY <2>1, <3>1, <3>3
    <3> QED BY <3>4
  <2>5. CASE k \notin changed
    <3>1. change.was = change.record
      BY <2>2, <2>5
    <3>2. a = To(k)
      <4>1. \A j \in 1..n : (j <= k - 1 \/ j \notin changed) <=> (j <= k \/ j \notin changed)
        BY <2>5
      <4>2. SetTo(links, records, n, changed, k - 1) = SetTo(links, records, n, changed, k)
        BY <4>1 DEF SetTo
      <4> QED BY <4>2
    <3> HIDE DEF a, change, To
    <3>3. h[k] = To(k)
      BY <2>1, <3>1, <3>2 DEF SetNext
    <3> QED BY <3>3
  <2> QED BY <2>4, <2>5
<1> HIDE DEF T
<1>6. n \in T
  <2>1. \A k \in 1..n : k - 1 \in T => k \in T
    BY <1>5
  <2>2. \A k \in 0..n : k \in T
    BY <1>4, <2>1, Induction
  <2> QED BY <2>2
<1>7. h[n] = To(n)
  BY <1>6 DEF T
<1>8. SetTo(links, records, n, changed, n) = [j \in 1..n |-> [url |-> links[j].url, record |-> records[j]]]
  BY DEF SetTo
<1> QED BY <1>2, <1>7, <1>8 DEF base

(* What opening makes of an owner's links: every one has the record its address names to   *)
(* the binary, or none if an earlier one has it.                                           *)
LEMMA RecognizesSound ==
  ASSUME NEW table, NEW n \in Nat, NEW links, IsList(table, links, n), NEW names, DOMAIN names = 1..n,
         \A k \in 1..n : names[k] \in {Generic, Recognize(KindOf[table], Address(links[k].url))}
  PROVE /\ Recognizes(links, names).ok = TRUE
        /\ Recognizes(links, names).links
             = [k \in 1..n |-> [url |-> links[k].url, record |-> RecordFor(names, k)]]
        /\ IsList(table, Recognizes(links, names).links, n)
<1> DEFINE records == [k \in 1..n |-> RecordFor(names, k)]
           computed == Computed(links, names)
           changes == [k \in DOMAIN links |->
                         [link |-> k, was |-> links[k].record, record |-> computed[k].record]]
           changed == {k \in DOMAIN links : changes[k].was # changes[k].record}
           now == [k \in 1..n |-> [url |-> links[k].url, record |-> records[k]]]
<1>1. /\ DOMAIN links = 1..n
      /\ \A k \in 1..n : /\ Address(links[k].url) \in WebAddresses
                         /\ links[k] = [url |-> links[k].url, record |-> links[k].record]
      /\ \A j, k \in 1..n : j # k => links[j].url # links[k].url
  BY DEF IsList, IsStored, IsSameLink
<1>2. \A k \in 1..n : records[k] = RecordFor(names, k)
  OBVIOUS
<1>3. \A i, j \in 1..n : i # j /\ records[i] # Generic => records[i] # records[j]
  BY <1>2, RecordsOnce
<1>4. DOMAIN changes = 1..n /\ \A k \in 1..n : changes[k] = [link |-> k, was |-> links[k].record, record |-> records[k]]
  <2>1. ASSUME NEW k \in 1..n PROVE computed[k].record = records[k]
    <3> DEFINE c == RecordFor(names, k)
               l == [links[k] EXCEPT !.record = c]
    <3>1. computed[k] = l
      BY <1>1 DEF Computed, RecordFor, First
    <3>2. "record" \in DOMAIN links[k]
      <4> DEFINE url == links[k].url
                 record == links[k].record
      <4>1. links[k] = [url |-> url, record |-> record]
        BY <1>1
      <4> HIDE DEF url, record
      <4> QED BY <4>1
    <3> HIDE DEF c
    <3>3. l.record = c
      BY <3>2
    <3> HIDE DEF l, computed, records
    <3> QED BY <1>2, <3>1, <3>3 DEF c
  <2> HIDE DEF computed, records
  <2> QED BY <1>1, <2>1
<1>5. changed = {k \in 1..n : links[k].record # records[k]}
  <2> HIDE DEF changes, records
  <2>1. \A k \in 1..n : changes[k].was = links[k].record /\ changes[k].record = records[k]
    BY <1>4
  <2> QED BY <1>1, <2>1
<1>6. Recognizes(links, names) = SetEach([ok |-> TRUE, links |-> Cleared(links, changed)], changes)
  BY DEF Recognizes
<1> HIDE DEF records, computed, changes, changed
<1>7. Recognizes(links, names) = [ok |-> TRUE, links |-> now]
  <2> DEFINE cleared == [ok |-> TRUE, links |-> Cleared(links, changed)]
  <2>1. SetEach(cleared, changes) = [ok |-> TRUE, links |-> now]
    <3>1. AreChanges(changes, links, records, n)
      BY <1>3, <1>4 DEF AreChanges
    <3> QED BY <1>5, <3>1, SetEachSound
  <2> QED BY <1>6, <2>1
<1>8. IsList(table, now, n)
  <2>1. \A k \in 1..n : now[k] = [url |-> links[k].url, record |-> records[k]]
    OBVIOUS
  <2>2. \A k \in 1..n : now[k].url = links[k].url /\ now[k].record = records[k]
    BY <2>1
  <2>3. \A k \in 1..n : records[k] \in {Generic, Recognize(KindOf[table], Address(links[k].url))}
    BY <1>2 DEF RecordFor
  <2>4. DOMAIN now = 1..n /\ now = [k \in 1..n |-> now[k]]
    OBVIOUS
  <2> HIDE DEF now
  <2>5. \A k \in 1..n : IsStored(table, now[k])
    BY <1>1, <2>1, <2>2, <2>3 DEF IsStored
  <2>6. \A j, k \in 1..n : j # k => ~IsSameLink(now[j], now[k])
    BY <1>1, <1>3, <2>2 DEF IsSameLink
  <2> QED BY <2>4, <2>5, <2>6 DEF IsList
<1>9. now = [k \in 1..n |-> [url |-> links[k].url, record |-> RecordFor(names, k)]]
  BY <1>2
<1> HIDE DEF now
<1>10. Recognizes(links, names).ok = TRUE /\ Recognizes(links, names).links = now
  BY <1>7
<1> QED BY <1>8, <1>9, <1>10

-----------------------------------------------------------------------------
(***************************************************************************)
(* Addresses                                                               *)
(***************************************************************************)

EntityKinds == {"publication", "work", "person"}

\* All that the argument needs to know of a segment.
HasParts(s) ==
    s = [space |-> s.space, word |-> s.word, digits |-> s.digits, zero |-> s.zero,
         spaced |-> s.spaced, serial |-> s.serial, close |-> s.close, tail |-> s.tail]

(* The segment that is None has all the parts. *)
LEMMA EmptyHasParts == HasParts(Empty)
  BY DEF HasParts, Empty

(* Every segment has all the parts, and no more. *)
LEMMA SegmentsHaveParts ==
    ASSUME NEW s \in Segments PROVE HasParts(s)
  BY DEF HasParts, Segments

(* What is found in a path has all the parts. *)
LEMMA AfterHasParts ==
    ASSUME NEW path \in Seq(Segments), NEW words, Len(words) \in Nat
    PROVE  HasParts(After(path, words)) /\ HasParts(Ends(path, words)) /\ HasParts(OrAbout(path, words))
  <1>1. HasParts(After(path, words))
    BY SegmentsHaveParts, EmptyHasParts DEF After
  <1> QED BY <1>1, EmptyHasParts DEF Ends, OrAbout, Filter

(* Cutting a tail leaves all the parts. *)
LEMMA WithoutTailHasParts ==
    ASSUME NEW s, HasParts(s), NEW tails PROVE HasParts(WithoutTail(s, tails))
  BY DEF WithoutTail, HasParts

(* A segment of digits has nothing else. *)
LEMMA DigitsHaveNoTail ==
    ASSUME NEW s, HasParts(s), AllDigits(s)
    PROVE  s.space = "" /\ s.word = "" /\ ~s.spaced /\ s.serial = 0 /\ s.close = "" /\ s.tail = ""
  <1>1. DOMAIN s = {"space", "word", "digits", "zero", "spaced", "serial", "close", "tail"}
    BY DEF HasParts
  <1>2. \A f \in {"space", "word", "spaced", "serial", "close", "tail"} : s[f] = Empty[f]
    BY <1>1 DEF AllDigits, Consists
  <1> QED BY <1>2 DEF Empty

(* The id behind one word is found. *)
LEMMA AfterAWord ==
    ASSUME NEW w, NEW s PROVE After(<<Word(w), s>>, <<w>>) = s
  BY DEF After

(* The id behind one word, at the end, is found. *)
LEMMA EndsAWord ==
    ASSUME NEW w, NEW s PROVE Ends(<<Word(w), s>>, <<w>>) = s
  BY AfterAWord DEF Ends, Filter

(* The id behind one word, with nothing about it, is found. *)
LEMMA AboutAWord ==
    ASSUME NEW w, NEW s PROVE OrAbout(<<Word(w), s>>, <<w>>) = s
  BY AfterAWord DEF OrAbout, Filter

(* The id behind two words is found. *)
LEMMA AfterTwoWords ==
    ASSUME NEW w, NEW v, NEW s
    PROVE  /\ After(<<Word(w), Word(v), s>>, <<w, v>>) = s
           /\ Ends(<<Word(w), Word(v), s>>, <<w, v>>) = s
  <1>1. After(<<Word(w), Word(v), s>>, <<w, v>>) = s
    BY DEF After
  <1> QED BY <1>1 DEF Ends, Filter

(* The id that is the whole path is found. *)
LEMMA AfterNothing ==
    ASSUME NEW s PROVE After(<<s>>, <<>>) = s /\ Ends(<<s>>, <<>>) = s /\ OrAbout(<<s>>, <<>>) = s
  <1>1. After(<<s>>, <<>>) = s
    BY DEF After
  <1> QED BY <1>1 DEF Ends, OrAbout, Filter

(* Changing one part leaves a segment. *)
LEMMA ExceptHasParts ==
    ASSUME NEW s, HasParts(s), NEW v
    PROVE  /\ HasParts([s EXCEPT !.space = v]) /\ HasParts([s EXCEPT !.word = v])
           /\ HasParts([s EXCEPT !.spaced = v]) /\ HasParts([s EXCEPT !.serial = v])
           /\ HasParts([s EXCEPT !.close = v]) /\ HasParts([s EXCEPT !.tail = v])
           /\ HasParts([s EXCEPT !.digits = v])
  BY DEF HasParts

(* Open Library: the tail is cut, and an id has none. *)
LEMMA OpenLibraryAgain ==
    ASSUME NEW path \in Seq(Segments), NEW entity, OpenLibrary(entity, path) # Empty
    PROVE  OpenLibrary(entity, <<Word(Shelf[entity]), OpenLibrary(entity, path)>>) = OpenLibrary(entity, path)
  <1> DEFINE id == OpenLibrary(entity, path)
             found == WithoutTail(After(path, <<Shelf[entity]>>), {".json"})
             number == [id EXCEPT !.word = "", !.close = ""]
  <1>1. HasParts(found)
    BY AfterHasParts, WithoutTailHasParts
  <1>2. id = found /\ id.word = "OL" /\ id.close = Letter[entity] /\ Number(number)
    BY DEF OpenLibrary, Filter
  <1>3. number = [[id EXCEPT !.word = ""] EXCEPT !.close = ""] /\ number.tail = id.tail
    BY <1>1, <1>2 DEF HasParts
  <1>4. HasParts(number)
    BY <1>1, <1>2, <1>3, ExceptHasParts
  <1>5. id.tail = ""
    BY <1>2, <1>3, <1>4, DigitsHaveNoTail DEF Number
  <1>6. WithoutTail(id, {".json"}) = id
    BY <1>5 DEF WithoutTail
  <1>7. After(<<Word(Shelf[entity]), id>>, <<Shelf[entity]>>) = id
    BY AfterAWord
  <1> QED BY <1>2, <1>6, <1>7 DEF OpenLibrary, Filter

(* Wikidata: an item is found below wiki, whatever page it was on. *)
LEMMA WikidataAgain ==
    ASSUME NEW path, Wikidata(path) # Empty
    PROVE  Wikidata(<<Word("wiki"), Wikidata(path)>>) = Wikidata(path)
  <1> DEFINE id == Wikidata(path)
  <1>1. id.word = "Q" /\ Number([id EXCEPT !.word = ""])
    BY DEF Wikidata, Filter
  <1>2. Ends(<<Word("wiki"), id>>, <<"wiki">>) = id
    BY EndsAWord
  <1>3. Len(<<Word("wiki"), id>>) # 3
    OBVIOUS
  <1>4. CASE id = Empty
    BY <1>4
  <1>5. CASE id # Empty
    <2>1. Wikidata(<<Word("wiki"), id>>) = Filter(id.word = "Q" /\ Number([id EXCEPT !.word = ""]), id)
      BY <1>2, <1>3, <1>5 DEF Wikidata
    <2> QED BY <2>1, <1>1 DEF Filter
  <1> QED BY <1>4, <1>5

(* MusicBrainz: the UUID is found in small letters; no publication has one. *)
LEMMA MusicBrainzAgain ==
    ASSUME NEW path, NEW entity \in {"publication", "work", "person"}, MusicBrainz(entity, path) # Empty
    PROVE  LET id == MusicBrainz(entity, path) IN
           /\ entity # "publication"
           /\ entity = "work" => MusicBrainz(entity, <<Word("work"), id>>) = id
           /\ entity = "person" => MusicBrainz(entity, <<Word("artist"), id>>) = id
  <1>1. entity # "publication" /\ MusicBrainz(entity, path) = Word("uuid")
    BY DEF MusicBrainz, Filter
  <1>2. \A w : After(<<Word(w), Word("uuid")>>, <<w>>) = Word("uuid")
    BY AfterAWord
  <1> QED BY <1>1, <1>2 DEF MusicBrainz, Filter

(* A word is a segment of its own. *)
LEMMA WordIs ==
    ASSUME NEW w PROVE Word(w).word = w /\ Word(w).digits = 0 /\ Word(w).tail = ""
  BY DEF Word, Empty

(* No word but one is taken for a language. *)
LEMMA WordsAreLong == \A w : w # "de" => ~HasTwoBytes(Word(w))
  <1> TAKE w
  <1>1. w # "de" => Word(w) # Word("de")
    BY WordIs
  <1>2. ~AllDigits(Word(w))
    <2>1. Word(w).digits = 0
      BY WordIs
    <2>2. ~(Word(w).digits > 0)
      BY <2>1
    <2> QED BY <2>2 DEF AllDigits
  <1> QED BY <1>1, <1>2 DEF HasTwoBytes

(* VIAF: without a language or a slash at the end. *)
LEMMA ViafAgain ==
    ASSUME NEW path, Viaf(path) # Empty
    PROVE  Viaf(<<Word("viaf"), Viaf(path)>>) = Viaf(path)
  <1> DEFINE id == Viaf(path)  there == <<Word("viaf"), id>>
  <1>1. Number(id)
    BY DEF Viaf, Filter
  <1>2. WithoutSlash(there) = there
    BY DEF WithoutSlash, Last
  <1>3. ~HasTwoBytes(there[1])
    BY WordsAreLong
  <1> QED BY <1>1, <1>2, <1>3, EndsAWord DEF Viaf, Filter

(* GND: the same number at its own site, whichever site linked it. *)
LEMMA GndAgain ==
    ASSUME NEW path, NEW prefix, Gnd(prefix, path) # Empty
    PROVE  Gnd("gnd", <<Word("gnd"), Gnd(prefix, path)>>) = Gnd(prefix, path)
  <1> DEFINE id == Gnd(prefix, path)
  <1>1. /\ CASE id.close = "" -> id.serial = 1 \/ (id.serial = 0 /\ id.digits > 1)
             [] OTHER -> id.serial = 0 /\ id.close \in {"X", "-X"}
        /\ Number([id EXCEPT !.serial = 0, !.close = ""])
    BY DEF Gnd, Filter
  <1>2. OrAbout(<<Word("gnd"), id>>, <<"gnd">>) = id
    BY AboutAWord
  <1> QED BY <1>1, <1>2 DEF Gnd, Filter

(* ISNI: the spaces are gone, and an id has none. *)
LEMMA IsniAgain ==
    ASSUME NEW path \in Seq(Segments), Isni(path) # Empty
    PROVE  Isni(<<Word("isni"), Isni(path)>>) = Isni(path)
  <1> DEFINE id == Isni(path)
             found == OrAbout(path, <<"isni">>)
  <1>1. /\ id = [found EXCEPT !.spaced = FALSE]
        /\ <<id.digits, id.close>> \in {<<16, "">>, <<15, "X">>}
        /\ AllDigits([id EXCEPT !.close = ""])
    BY DEF Isni, Filter
  <1>2. HasParts(found)
    BY AfterHasParts
  <1>3. HasParts(id)
    <2>1. HasParts([found EXCEPT !.spaced = FALSE])
      BY <1>2, ExceptHasParts
    <2> QED BY <1>1, <2>1
  <1>4. [id EXCEPT !.spaced = FALSE] = id
    BY <1>1, <1>3 DEF HasParts
  <1>5. OrAbout(<<Word("isni"), id>>, <<"isni">>) = id
    BY AboutAWord
  <1> QED BY <1>1, <1>4, <1>5 DEF Isni, Filter

(* A normalized LCCN is normal: it has its zeros, no hyphen and no spaces. *)
LEMMA NormalizedLccn ==
    ASSUME NEW lccn, HasParts(lccn), NormalizeLccn(lccn) # Empty
    PROVE  LET id == NormalizeLccn(lccn) IN
           HasParts(id) /\ id.tail = "" /\ NormalizeLccn(id) = id
  <1> DEFINE digits == lccn.digits + (IF lccn.serial > 0 THEN 6 ELSE 0)
             id == [lccn EXCEPT !.spaced = FALSE, !.digits = digits, !.serial = 0]
             bare == [id EXCEPT !.word = ""]
  <1>1. /\ NormalizeLccn(lccn) = id
        /\ id.digits \in {8, 10} /\ id.word \in ShortWords /\ AllDigits(bare)
    BY DEF NormalizeLccn, Filter
  <1>2. id = [[[lccn EXCEPT !.spaced = FALSE] EXCEPT !.digits = digits] EXCEPT !.serial = 0]
    BY DEF HasParts
  <1>3. HasParts(id) /\ HasParts(bare)
    BY <1>2, ExceptHasParts
  <1> HIDE DEF id
  <1>4. id.spaced = FALSE /\ id.serial = 0
    BY <1>2 DEF HasParts
  <1>5. bare.tail = id.tail
    BY <1>3 DEF HasParts
  <1>6. id.tail = ""
    BY <1>1, <1>3, <1>5, DigitsHaveNoTail
  <1>7. id.digits + (IF id.serial > 0 THEN 6 ELSE 0) = id.digits
    <2>1. ~(0 > 0) /\ \A n \in {8, 10} : n + 0 = n
      OBVIOUS
    <2>2. ~(id.serial > 0)
      BY <1>4, <2>1
    <2> QED BY <1>1, <2>1, <2>2
  <1>8. [id EXCEPT !.spaced = FALSE, !.digits = id.digits, !.serial = 0] = id
    BY <1>3, <1>4 DEF HasParts
  <1>9. id.serial <= 6
    BY <1>4
  <1>10. NormalizeLccn(id) = id
    BY <1>1, <1>7, <1>8, <1>9 DEF NormalizeLccn, Filter
  <1> QED BY <1>1, <1>3, <1>6, <1>10

(* K10plus: the closing letter is a capital by then. *)
LEMMA PpnAgain ==
    ASSUME NEW ppn, HasParts(ppn), Ppn(ppn) # Empty
    PROVE  Ppn(Ppn(ppn)) = Ppn(ppn)
  <1> DEFINE id == [ppn EXCEPT !.close = IF @ = "x" THEN "X" ELSE @]
  <1>1. /\ Ppn(ppn) = id
        /\ \/ id.close = "" /\ id.digits \in 8 .. 10
           \/ id.close = "X" /\ id.digits \in 7 .. 9
        /\ AllDigits([id EXCEPT !.close = ""])
    BY DEF Ppn, Filter
  <1>2. HasParts(id)
    BY DEF HasParts
  <1> HIDE DEF id
  <1>3. [id EXCEPT !.close = IF @ = "x" THEN "X" ELSE @] = id
    BY <1>1, <1>2 DEF HasParts
  <1>4. Ppn(id) =
          Filter(/\ \/ id.close = "" /\ id.digits \in 8 .. 10
                    \/ id.close = "X" /\ id.digits \in 7 .. 9
                 /\ AllDigits([id EXCEPT !.close = ""]), id)
    BY <1>3 DEF Ppn
  <1> QED BY <1>1, <1>4 DEF Filter

(* DNB: an id is the whole path. *)
LEMMA DnbAgain ==
    ASSUME NEW path, Dnb(path) # Empty
    PROVE  Dnb(<<Dnb(path)>>) = Dnb(path)
  <1> DEFINE id == Dnb(path)
  <1>1. /\ \/ id.close = "" /\ id.digits \in 8 .. 10
           \/ id.close = "X" /\ id.digits \in 8 .. 9
        /\ AllDigits([id EXCEPT !.close = ""])
    BY DEF Dnb, Filter
  <1> HIDE DEF id
  <1>2. Dnb(<<id>>) =
          Filter(/\ \/ id.close = "" /\ id.digits \in 8 .. 10
                    \/ id.close = "X" /\ id.digits \in 8 .. 9
                 /\ AllDigits([id EXCEPT !.close = ""]), id)
    <2>1. OrAbout(<<id>>, <<>>) = id
      BY AfterNothing
    <2> QED BY <2>1 DEF Dnb
  <1>3. Dnb(<<id>>) = id
    BY <1>1, <1>2 DEF Filter
  <1> QED BY <1>3 DEF id

(* Harvard: an id is in the middle. *)
LEMMA HarvardAgain ==
    ASSUME NEW path, Harvard(path) # Empty
    PROVE  Harvard(<<Word("alma"), Harvard(path), Word("catalog")>>) = Harvard(path)
  <1> DEFINE id == Harvard(path)  there == <<Word("alma"), id, Word("catalog")>>
  <1>1. AllDigits(id)
    BY DEF Harvard, Filter
  <1>2. After(there, <<"alma">>) = id
    BY DEF After
  <1>3. Len(there) = 3 /\ there[3] = Word("catalog")
    OBVIOUS
  <1> QED BY <1>1, <1>2, <1>3 DEF Harvard, Filter

(* Internet Archive: an id stays as it was. *)
LEMMA InternetArchiveAgain ==
    ASSUME NEW path, InternetArchive(path) # Empty
    PROVE  InternetArchive(<<Word("details"), InternetArchive(path)>>) = InternetArchive(path)
  BY AfterAWord DEF InternetArchive, Filter

(* LibriVox: an id stays as it was. *)
LEMMA LibrivoxAgain ==
    ASSUME NEW path, Librivox(path) # Empty
    PROVE  Librivox(<<Word("author"), Librivox(path)>>) = Librivox(path)
  BY AfterAWord DEF Librivox, Filter

(* Gutenberg: works and authors are in different places. *)
LEMMA GutenbergAgain ==
    ASSUME NEW path, NEW entity, Gutenberg(entity, path) # Empty
    PROVE  LET id == Gutenberg(entity, path) IN
           /\ entity = "work" => Gutenberg(entity, <<Word("ebooks"), id>>) = id
           /\ entity = "person" => Gutenberg(entity, <<Word("ebooks"), Word("author"), id>>) = id
           /\ entity \in {"work", "person"}
  <1> DEFINE id == Gutenberg(entity, path)
  <1>1. Number(id) /\ entity \in {"work", "person"}
    BY DEF Gutenberg, Filter
  <1>2. entity = "work" => Gutenberg(entity, <<Word("ebooks"), id>>) = id
    BY <1>1, AfterAWord DEF Gutenberg, Filter
  <1>3. entity = "person" => Gutenberg(entity, <<Word("ebooks"), Word("author"), id>>) = id
    BY <1>1, AfterTwoWords DEF Gutenberg, Filter
  <1> QED BY <1>1, <1>2, <1>3

(* LibraryThing: works and authors are in different places. *)
LEMMA LibraryThingAgain ==
    ASSUME NEW path, NEW entity, LibraryThing(entity, path) # Empty
    PROVE  LET id == LibraryThing(entity, path) IN
           /\ entity = "work" => LibraryThing(entity, <<Word("work"), id>>) = id
           /\ entity = "person" => LibraryThing(entity, <<Word("author"), id>>) = id
           /\ entity \in {"work", "person"}
  <1> DEFINE id == LibraryThing(entity, path)
  <1>1. entity \in {"work", "person"}
    BY DEF LibraryThing
  <1>2. entity = "work" => LibraryThing(entity, <<Word("work"), id>>) = id
    BY AfterAWord DEF LibraryThing, Filter
  <1>3. entity = "person" => LibraryThing(entity, <<Word("author"), id>>) = id
    BY AfterAWord DEF LibraryThing, Filter
  <1> QED BY <1>1, <1>2, <1>3

(* Goodreads: the slug is cut, and a number has none; each kind is in a place of its own. *)
LEMMA GoodreadsAgain ==
    ASSUME NEW path \in Seq(Segments), NEW entity, Goodreads(entity, path) # Empty
    PROVE  LET id == Goodreads(entity, path) IN
           /\ entity = "publication" => Goodreads(entity, <<Word("book"), Word("show"), id>>) = id
           /\ entity = "work" => Goodreads(entity, <<Word("work"), Word("editions"), id>>) = id
           /\ entity \notin {"publication", "work"} =>
                 Goodreads(entity, <<Word("author"), Word("show"), id>>) = id
  <1> DEFINE Bare(p) == IF p # <<>> /\ HasTwoBytes(p[1]) THEN Tail(p) ELSE p
             IdWithin(bare) ==
               LET show == After(bare, <<"author", "show">>)
               IN CASE entity = "publication" -> After(bare, <<"book", "show">>)
                    [] entity = "work" -> After(bare, <<"work", "editions">>)
                    [] OTHER -> IF show # Empty THEN show ELSE After(bare, <<"author", "list">>)
             Plain(s) == [s EXCEPT !.tail = "", !.serial = 0, !.close = IF @ = "-X" THEN "" ELSE @]
             found == IdWithin(Bare(path))
             id == Plain(found)
  <1>1. \A p : Goodreads(entity, p) = Filter(Number(Plain(IdWithin(Bare(p)))), Plain(IdWithin(Bare(p))))
    BY DEF Goodreads
  <1>2. Goodreads(entity, path) = id /\ Number(id) /\ id # Empty
    BY <1>1 DEF Filter
  <1>3. Bare(path) \in Seq(Segments)
    OBVIOUS
  <1> HIDE DEF Bare
  <1>4. HasParts(found)
    <2>1. /\ HasParts(After(Bare(path), <<"author", "show">>))
          /\ HasParts(After(Bare(path), <<"author", "list">>))
          /\ HasParts(After(Bare(path), <<"book", "show">>))
          /\ HasParts(After(Bare(path), <<"work", "editions">>))
      BY <1>3, AfterHasParts
    <2> QED BY <2>1
  <1> HIDE DEF found
  <1>5. HasParts(id)
    <2> DEFINE close == IF found.close = "-X" THEN "" ELSE found.close
    <2>1. id = [[[found EXCEPT !.tail = ""] EXCEPT !.serial = 0] EXCEPT !.close = close]
      BY <1>4 DEF HasParts
    <2> QED BY <1>4, <2>1, ExceptHasParts
  <1> HIDE DEF id
  <1>6. Plain(id) = id
    <2>1. id.tail = "" /\ id.serial = 0 /\ id.close = ""
      BY <1>2, <1>5, DigitsHaveNoTail DEF Number
    <2> QED BY <2>1, <1>5 DEF HasParts
  <1> HIDE DEF Plain
  <1>7. ASSUME NEW p, IdWithin(Bare(p)) = id PROVE Goodreads(entity, p) = id
    BY <1>1, <1>2, <1>6, <1>7 DEF Filter
  <1>8. ASSUME NEW v, NEW w, w # "de"
        PROVE  Bare(<<Word(w), Word(v), id>>) = <<Word(w), Word(v), id>>
    BY <1>8, WordsAreLong DEF Bare
  <1>9. entity = "publication" => IdWithin(<<Word("book"), Word("show"), id>>) = id
    BY AfterTwoWords
  <1>10. entity = "work" => IdWithin(<<Word("work"), Word("editions"), id>>) = id
    BY AfterTwoWords
  <1>11. entity \notin {"publication", "work"} => IdWithin(<<Word("author"), Word("show"), id>>) = id
    <2>1. After(<<Word("author"), Word("show"), id>>, <<"author", "show">>) = id
      BY AfterTwoWords
    <2> QED BY <2>1, <1>2
  <1> HIDE DEF IdWithin
  <1> QED BY <1>2, <1>7, <1>8, <1>9, <1>10, <1>11

(* Library of Congress: two sites, and one form of an LCCN. *)
LEMMA LocAgain ==
    ASSUME NEW path \in Seq(Segments), NEW entity, NEW host, Loc(entity, host, path) # Empty
    PROVE  LET id == Loc(entity, host, path) IN
           /\ entity \in {"publication", "person"}
           /\ entity = "publication" => Loc(entity, "lccn.loc.gov", <<id>>) = id
           /\ entity = "person" =>
                 Loc(entity, "id.loc.gov", <<Word("authorities"), Word("names"), id>>) = id
  <1> DEFINE lccn == CASE entity = "publication" /\ host = "lccn.loc.gov" -> Ends(WithoutSlash(path), <<>>)
                       [] entity = "publication" /\ host = "www.loc.gov" ->
                             Ends(WithoutSlash(path), <<"item">>)
                       [] entity = "person" /\ host = "id.loc.gov" ->
                             WithoutTail(Ends(path, <<"authorities", "names">>), {".html"})
                       [] OTHER -> Empty
             id == NormalizeLccn(lccn)
  <1>1. Loc(entity, host, path) = id /\ id # Empty
    BY DEF Loc
  <1>2. HasParts(lccn)
    <2>1. WithoutSlash(path) \in Seq(Segments)
      BY DEF WithoutSlash, Front
    <2>2. HasParts(Ends(WithoutSlash(path), <<>>)) /\ HasParts(Ends(WithoutSlash(path), <<"item">>))
      BY <2>1, AfterHasParts
    <2>3. HasParts(WithoutTail(Ends(path, <<"authorities", "names">>), {".html"}))
      BY AfterHasParts, WithoutTailHasParts
    <2> QED BY <2>2, <2>3, EmptyHasParts
  <1>3. entity \in {"publication", "person"}
    <2>1. NormalizeLccn(Empty) = Empty
      <3>1. Empty.digits = 0 /\ Empty.serial = 0
        BY DEF Empty
      <3>2. Empty.digits + (IF Empty.serial > 0 THEN 6 ELSE 0) = 0
        BY <3>1
      <3>3. [Empty EXCEPT !.spaced = FALSE, !.digits = 0, !.serial = 0].digits = 0
        BY DEF Empty
      <3> QED BY <3>2, <3>3 DEF NormalizeLccn, Filter
    <2> QED BY <2>1, <1>1
  <1> HIDE DEF lccn
  <1>4. id.tail = "" /\ NormalizeLccn(id) = id
    BY <1>1, <1>2, NormalizedLccn
  <1> HIDE DEF id
  <1>5. entity = "publication" => Loc(entity, "lccn.loc.gov", <<id>>) = id
    <2>1. WithoutSlash(<<id>>) = <<id>>
      BY <1>1 DEF WithoutSlash, Last
    <2> QED BY <2>1, <1>4, AfterNothing DEF Loc
  <1>6. entity = "person" => Loc(entity, "id.loc.gov", <<Word("authorities"), Word("names"), id>>) = id
    <2>1. WithoutTail(id, {".html"}) = id
      BY <1>4 DEF WithoutTail
    <2>2. Ends(<<Word("authorities"), Word("names"), id>>, <<"authorities", "names">>) = id
      BY AfterTwoWords
    <2> QED BY <2>1, <2>2, <1>4 DEF Loc
  <1> QED BY <1>1, <1>3, <1>5, <1>6

(* A sequence of one and another are a pair. *)
LEMMA PairOf ==
    ASSUME NEW v, NEW s PROVE <<v>> \o <<s>> = <<v, s>>
  <1> DEFINE S == {v, s} c == <<v>> \o <<s>>  d == <<v, s>>
  <1>1. c \in Seq(S) /\ d \in Seq(S)
    OBVIOUS
  <1>2. Len(c) = 2 /\ Len(d) = 2
    OBVIOUS
  <1>3. c[1] = d[1] /\ c[2] = d[2]
    OBVIOUS
  <1>4. \A i \in 1 .. Len(c) : c[i] = d[i]
    BY <1>2, <1>3
  <1> HIDE DEF c, d, S
  <1>5. c = d
    BY <1>1, <1>2, <1>4, SeqEqual
  <1> QED BY <1>5 DEF c, d

(* A pair and a sequence of one are a triple. *)
LEMMA TripleOf ==
    ASSUME NEW u, NEW v, NEW s PROVE <<u, v>> \o <<s>> = <<u, v, s>>
  <1> DEFINE S == {u, v, s} c == <<u, v>> \o <<s>>  d == <<u, v, s>>
  <1>1. c \in Seq(S) /\ d \in Seq(S)
    OBVIOUS
  <1>2. Len(c) = 3 /\ Len(d) = 3
    OBVIOUS
  <1>3. c[1] = d[1] /\ c[2] = d[2] /\ c[3] = d[3]
    OBVIOUS
  <1>4. \A i \in 1 .. Len(c) : c[i] = d[i]
    BY <1>2, <1>3
  <1> HIDE DEF c, d, S
  <1>5. c = d
    BY <1>1, <1>2, <1>4, SeqEqual
  <1> QED BY <1>5 DEF c, d

(* The paths that Url builds. *)
LEMMA PathOf ==
    ASSUME NEW s
    PROVE  /\ Words(<<>>) \o <<s>> \o Words(<<>>) = <<s>>
           /\ \A a : Words(<<a>>) \o <<s>> \o Words(<<>>) = <<Word(a), s>>
           /\ \A a, b : Words(<<a, b>>) \o <<s>> \o Words(<<>>) = <<Word(a), Word(b), s>>
           /\ \A a, b : Words(<<a>>) \o <<s>> \o Words(<<b>>) = <<Word(a), s, Word(b)>>
  <1>1. /\ Words(<<>>) = <<>>
        /\ \A a : Words(<<a>>) = <<Word(a)>>
        /\ \A a, b : Words(<<a, b>>) = <<Word(a), Word(b)>>
    BY DEF Words
  <1>2. Words(<<>>) \o <<s>> \o Words(<<>>) = <<s>>
    <2>1. <<>> \o <<s>> = <<s>> /\ <<s>> \o <<>> = <<s>>
      OBVIOUS
    <2> QED BY <2>1, <1>1
  <1>3. ASSUME NEW a PROVE Words(<<a>>) \o <<s>> \o Words(<<>>) = <<Word(a), s>>
    <2>1. <<Word(a)>> \o <<s>> = <<Word(a), s>>
      BY PairOf
    <2>2. <<Word(a), s>> \o <<>> = <<Word(a), s>>
      OBVIOUS
    <2> QED BY <2>1, <2>2, <1>1
  <1>4. ASSUME NEW a, NEW b PROVE Words(<<a, b>>) \o <<s>> \o Words(<<>>) = <<Word(a), Word(b), s>>
    <2>1. <<Word(a), Word(b)>> \o <<s>> = <<Word(a), Word(b), s>>
      BY TripleOf
    <2>2. <<Word(a), Word(b), s>> \o <<>> = <<Word(a), Word(b), s>>
      OBVIOUS
    <2> QED BY <2>1, <2>2, <1>1
  <1>5. ASSUME NEW a, NEW b PROVE Words(<<a>>) \o <<s>> \o Words(<<b>>) = <<Word(a), s, Word(b)>>
    <2>1. <<Word(a)>> \o <<s>> = <<Word(a), s>>
      BY PairOf
    <2>2. <<Word(a), s>> \o <<Word(b)>> = <<Word(a), s, Word(b)>>
      BY TripleOf
    <2> QED BY <2>1, <2>2, <1>1
  <1> QED BY <1>2, <1>3, <1>4, <1>5

-----------------------------------------------------------------------------
(* What the rules of Open Library recognize is found again. *)
LEMMA OpenLibraryFound ==
    ASSUME NEW entity \in EntityKinds, NEW url \in WebAddresses,
           url.host \in {"openlibrary.org"},
           Recognize(entity, url) # NoRecord
    PROVE  IsFoundAgain(entity, Recognize(entity, url))
  <1> DEFINE id == OpenLibrary(entity, url.path)
             record == [kind |-> "openlibrary", id |-> id]
  <1>1. Recognize(entity, url) = record /\ id # Empty
    BY DEF Recognize
  <1>2. url.path \in Seq(Segments)
    BY DEF WebAddresses
  <1>3. Url(entity, record) = Https("openlibrary.org", <<Word(Shelf[entity]), id>>, NoQuery)
    BY <1>1, PathOf DEF Url, Places, Place, Shelf, EntityKinds
  <1>4. OpenLibrary(entity, <<Word(Shelf[entity]), id>>) = id
    BY <1>1, <1>2, OpenLibraryAgain
  <1>5. Recognize(entity, Https("openlibrary.org", <<Word(Shelf[entity]), id>>, NoQuery)) = record
    BY <1>1, <1>4 DEF Recognize, Https, IsHttpUrl
  <1> QED BY <1>1, <1>3, <1>5 DEF IsFoundAgain

(* What the rules of Wikidata recognize is found again. *)
LEMMA WikidataFound ==
    ASSUME NEW entity \in EntityKinds, NEW url \in WebAddresses,
           url.host \in {"www.wikidata.org", "m.wikidata.org"},
           Recognize(entity, url) # NoRecord
    PROVE  IsFoundAgain(entity, Recognize(entity, url))
  <1> DEFINE id == Wikidata(url.path)
             record == [kind |-> "wikidata", id |-> id]
  <1>1. Recognize(entity, url) = record /\ id # Empty
    BY DEF Recognize
  <1>2. url.path \in Seq(Segments)
    BY DEF WebAddresses
  <1>3. Url(entity, record) = Https("www.wikidata.org", <<Word("wiki"), id>>, NoQuery)
    BY <1>1, PathOf DEF Url, Places, Place, Shelf, EntityKinds
  <1>4. Wikidata(<<Word("wiki"), id>>) = id
    BY <1>1, <1>2, WikidataAgain
  <1>5. Recognize(entity, Https("www.wikidata.org", <<Word("wiki"), id>>, NoQuery)) = record
    BY <1>1, <1>4 DEF Recognize, Https, IsHttpUrl
  <1> QED BY <1>1, <1>3, <1>5 DEF IsFoundAgain

(* What the rules of MusicBrainz recognize is found again. *)
LEMMA MusicBrainzFound ==
    ASSUME NEW entity \in EntityKinds, NEW url \in WebAddresses,
           url.host \in {"musicbrainz.org", "www.musicbrainz.org", "beta.musicbrainz.org"},
           Recognize(entity, url) # NoRecord
    PROVE  IsFoundAgain(entity, Recognize(entity, url))
  <1> DEFINE id == MusicBrainz(entity, url.path)
             record == [kind |-> "musicbrainz", id |-> id]
  <1>1. Recognize(entity, url) = record /\ id # Empty
    BY DEF Recognize
  <1>2. url.path \in Seq(Segments)
    BY DEF WebAddresses
  <1>3. entity # "publication"
    BY <1>1, <1>2, MusicBrainzAgain
  <1>4. CASE entity = "work"
    <2>1. Url(entity, record) = Https("musicbrainz.org", <<Word("work"), id>>, NoQuery)
      BY <1>1, <1>4, PathOf DEF Url, Places, Place, Shelf, EntityKinds
    <2>2. MusicBrainz(entity, <<Word("work"), id>>) = id
      BY <1>1, <1>2, <1>4, MusicBrainzAgain
    <2>3. Recognize(entity, Https("musicbrainz.org", <<Word("work"), id>>, NoQuery)) = record
      BY <1>1, <1>4, <2>2 DEF Recognize, Https, IsHttpUrl
    <2> QED BY <1>1, <2>1, <2>3 DEF IsFoundAgain
  <1>5. CASE entity = "person"
    <2>1. Url(entity, record) = Https("musicbrainz.org", <<Word("artist"), id>>, NoQuery)
      BY <1>1, <1>5, PathOf DEF Url, Places, Place, Shelf, EntityKinds
    <2>2. MusicBrainz(entity, <<Word("artist"), id>>) = id
      BY <1>1, <1>2, <1>5, MusicBrainzAgain
    <2>3. Recognize(entity, Https("musicbrainz.org", <<Word("artist"), id>>, NoQuery)) = record
      BY <1>1, <1>5, <2>2 DEF Recognize, Https, IsHttpUrl
    <2> QED BY <1>1, <2>1, <2>3 DEF IsFoundAgain
  <1> QED BY <1>3, <1>4, <1>5 DEF EntityKinds

(* What the rules of VIAF recognize is found again. *)
LEMMA ViafFound ==
    ASSUME NEW entity \in EntityKinds, NEW url \in WebAddresses,
           url.host \in {"viaf.org", "www.viaf.org"},
           Recognize(entity, url) # NoRecord
    PROVE  IsFoundAgain(entity, Recognize(entity, url))
  <1> DEFINE id == Viaf(url.path)
             record == [kind |-> "viaf", id |-> id]
  <1>1. Recognize(entity, url) = record /\ id # Empty /\ entity = "person"
    BY DEF Recognize
  <1>2. url.path \in Seq(Segments)
    BY DEF WebAddresses
  <1>3. Url(entity, record) = Https("viaf.org", <<Word("viaf"), id>>, NoQuery)
    BY <1>1, PathOf DEF Url, Places, Place, Shelf, EntityKinds
  <1>4. Viaf(<<Word("viaf"), id>>) = id
    BY <1>1, <1>2, ViafAgain
  <1>5. Recognize(entity, Https("viaf.org", <<Word("viaf"), id>>, NoQuery)) = record
    BY <1>1, <1>4 DEF Recognize, Https, IsHttpUrl
  <1> QED BY <1>1, <1>3, <1>5 DEF IsFoundAgain

(* What the rules of the DNB recognize is found again. *)
LEMMA DnbFound ==
    ASSUME NEW entity \in EntityKinds, NEW url \in WebAddresses,
           url.host \in {"d-nb.info"},
           entity = "publication",
           Recognize(entity, url) # NoRecord
    PROVE  IsFoundAgain(entity, Recognize(entity, url))
  <1> DEFINE id == Dnb(url.path)
             record == [kind |-> "dnb", id |-> id]
  <1>1. Recognize(entity, url) = record /\ id # Empty
    BY DEF Recognize
  <1>2. url.path \in Seq(Segments)
    BY DEF WebAddresses
  <1>3. Url(entity, record) = Https("d-nb.info", <<id>>, NoQuery)
    BY <1>1, PathOf DEF Url, Places, Place, Shelf, EntityKinds
  <1>4. Dnb(<<id>>) = id
    BY <1>1, <1>2, DnbAgain
  <1>5. Recognize(entity, Https("d-nb.info", <<id>>, NoQuery)) = record
    BY <1>1, <1>4 DEF Recognize, Https, IsHttpUrl
  <1> QED BY <1>1, <1>3, <1>5 DEF IsFoundAgain

(* What the rules of ISNI recognize is found again. *)
LEMMA IsniFound ==
    ASSUME NEW entity \in EntityKinds, NEW url \in WebAddresses,
           url.host \in {"isni.org", "www.isni.org"},
           Recognize(entity, url) # NoRecord
    PROVE  IsFoundAgain(entity, Recognize(entity, url))
  <1> DEFINE id == Isni(url.path)
             record == [kind |-> "isni", id |-> id]
  <1>1. Recognize(entity, url) = record /\ id # Empty /\ entity = "person"
    BY DEF Recognize
  <1>2. url.path \in Seq(Segments)
    BY DEF WebAddresses
  <1>3. Url(entity, record) = Https("isni.org", <<Word("isni"), id>>, NoQuery)
    BY <1>1, PathOf DEF Url, Places, Place, Shelf, EntityKinds
  <1>4. Isni(<<Word("isni"), id>>) = id
    BY <1>1, <1>2, IsniAgain
  <1>5. Recognize(entity, Https("isni.org", <<Word("isni"), id>>, NoQuery)) = record
    BY <1>1, <1>4 DEF Recognize, Https, IsHttpUrl
  <1> QED BY <1>1, <1>3, <1>5 DEF IsFoundAgain

(* What the rules of the Library of Congress recognize is found again. *)
LEMMA LocFound ==
    ASSUME NEW entity \in EntityKinds, NEW url \in WebAddresses,
           url.host \in {"lccn.loc.gov", "www.loc.gov", "id.loc.gov"},
           Recognize(entity, url) # NoRecord
    PROVE  IsFoundAgain(entity, Recognize(entity, url))
  <1> DEFINE id == Loc(entity, url.host, url.path)
             record == [kind |-> "loc", id |-> id]
  <1>1. Recognize(entity, url) = record /\ id # Empty
    BY DEF Recognize
  <1>2. url.path \in Seq(Segments)
    BY DEF WebAddresses
  <1>3. entity \in {"publication", "person"}
    BY <1>1, <1>2, LocAgain
  <1>4. CASE entity = "publication"
    <2>1. Url(entity, record) = Https("lccn.loc.gov", <<id>>, NoQuery)
      BY <1>1, <1>4, PathOf DEF Url, Places, Place, Shelf, EntityKinds
    <2>2. Loc(entity, "lccn.loc.gov", <<id>>) = id
      BY <1>1, <1>2, <1>4, LocAgain
    <2>3. Recognize(entity, Https("lccn.loc.gov", <<id>>, NoQuery)) = record
      BY <1>1, <1>4, <2>2 DEF Recognize, Https, IsHttpUrl
    <2> QED BY <1>1, <2>1, <2>3 DEF IsFoundAgain
  <1>5. CASE entity = "person"
    <2>1. Url(entity, record) = Https("id.loc.gov", <<Word("authorities"), Word("names"), id>>, NoQuery)
      BY <1>1, <1>5, PathOf DEF Url, Places, Place, Shelf, EntityKinds
    <2>2. Loc(entity, "id.loc.gov", <<Word("authorities"), Word("names"), id>>) = id
      BY <1>1, <1>2, <1>5, LocAgain
    <2>3. Recognize(entity, Https("id.loc.gov", <<Word("authorities"), Word("names"), id>>, NoQuery))
          = record
      BY <1>1, <1>5, <2>2 DEF Recognize, Https, IsHttpUrl
    <2> QED BY <1>1, <2>1, <2>3 DEF IsFoundAgain
  <1> QED BY <1>3, <1>4, <1>5 DEF EntityKinds

(* What the rules of Harvard recognize is found again. *)
LEMMA HarvardFound ==
    ASSUME NEW entity \in EntityKinds, NEW url \in WebAddresses,
           url.host \in {"id.lib.harvard.edu"},
           Recognize(entity, url) # NoRecord
    PROVE  IsFoundAgain(entity, Recognize(entity, url))
  <1> DEFINE id == Harvard(url.path)
             record == [kind |-> "harvard", id |-> id]
  <1>1. Recognize(entity, url) = record /\ id # Empty /\ entity = "publication"
    BY DEF Recognize
  <1>2. url.path \in Seq(Segments)
    BY DEF WebAddresses
  <1>3. Url(entity, record) = Https("id.lib.harvard.edu", <<Word("alma"), id, Word("catalog")>>, NoQuery)
    BY <1>1, PathOf DEF Url, Places, Place, Shelf, EntityKinds
  <1>4. Harvard(<<Word("alma"), id, Word("catalog")>>) = id
    BY <1>1, <1>2, HarvardAgain
  <1>5. Recognize(entity, Https("id.lib.harvard.edu", <<Word("alma"), id, Word("catalog")>>, NoQuery))
        = record
    BY <1>1, <1>4 DEF Recognize, Https, IsHttpUrl
  <1> QED BY <1>1, <1>3, <1>5 DEF IsFoundAgain

(* What the rules of Goodreads recognize is found again. *)
LEMMA GoodreadsFound ==
    ASSUME NEW entity \in EntityKinds, NEW url \in WebAddresses,
           url.host \in {"goodreads.com", "www.goodreads.com"},
           Recognize(entity, url) # NoRecord
    PROVE  IsFoundAgain(entity, Recognize(entity, url))
  <1> DEFINE id == Goodreads(entity, url.path)
             record == [kind |-> "goodreads", id |-> id]
  <1>1. Recognize(entity, url) = record /\ id # Empty
    BY DEF Recognize
  <1>2. url.path \in Seq(Segments)
    BY DEF WebAddresses
  <1>3. CASE entity = "publication"
    <2>1. Url(entity, record) = Https("www.goodreads.com", <<Word("book"), Word("show"), id>>, NoQuery)
      BY <1>1, <1>3, PathOf DEF Url, Places, Place, Shelf, EntityKinds
    <2>2. Goodreads(entity, <<Word("book"), Word("show"), id>>) = id
      BY <1>1, <1>2, <1>3, GoodreadsAgain
    <2>3. Recognize(entity, Https("www.goodreads.com", <<Word("book"), Word("show"), id>>, NoQuery))
          = record
      BY <1>1, <1>3, <2>2 DEF Recognize, Https, IsHttpUrl
    <2> QED BY <1>1, <2>1, <2>3 DEF IsFoundAgain
  <1>4. CASE entity = "work"
    <2>1. Url(entity, record) = Https("www.goodreads.com", <<Word("work"), Word("editions"), id>>, NoQuery)
      BY <1>1, <1>4, PathOf DEF Url, Places, Place, Shelf, EntityKinds
    <2>2. Goodreads(entity, <<Word("work"), Word("editions"), id>>) = id
      BY <1>1, <1>2, <1>4, GoodreadsAgain
    <2>3. Recognize(entity, Https("www.goodreads.com", <<Word("work"), Word("editions"), id>>, NoQuery))
          = record
      BY <1>1, <1>4, <2>2 DEF Recognize, Https, IsHttpUrl
    <2> QED BY <1>1, <2>1, <2>3 DEF IsFoundAgain
  <1>5. CASE entity = "person"
    <2>1. Url(entity, record) = Https("www.goodreads.com", <<Word("author"), Word("show"), id>>, NoQuery)
      BY <1>1, <1>5, PathOf DEF Url, Places, Place, Shelf, EntityKinds
    <2>2. Goodreads(entity, <<Word("author"), Word("show"), id>>) = id
      BY <1>1, <1>2, <1>5, GoodreadsAgain
    <2>3. Recognize(entity, Https("www.goodreads.com", <<Word("author"), Word("show"), id>>, NoQuery))
          = record
      BY <1>1, <1>5, <2>2 DEF Recognize, Https, IsHttpUrl
    <2> QED BY <1>1, <2>1, <2>3 DEF IsFoundAgain
  <1> QED BY <1>3, <1>4, <1>5 DEF EntityKinds

(* What the rules of LibraryThing recognize is found again. *)
LEMMA LibraryThingFound ==
    ASSUME NEW entity \in EntityKinds, NEW url \in WebAddresses,
           url.host \in {"librarything.com", "www.librarything.com"},
           Recognize(entity, url) # NoRecord
    PROVE  IsFoundAgain(entity, Recognize(entity, url))
  <1> DEFINE id == LibraryThing(entity, url.path)
             record == [kind |-> "librarything", id |-> id]
  <1>1. Recognize(entity, url) = record /\ id # Empty
    BY DEF Recognize
  <1>2. url.path \in Seq(Segments)
    BY DEF WebAddresses
  <1>3. entity \in {"work", "person"}
    BY <1>1, <1>2, LibraryThingAgain
  <1>4. CASE entity = "work"
    <2>1. Url(entity, record) = Https("www.librarything.com", <<Word("work"), id>>, NoQuery)
      BY <1>1, <1>4, PathOf DEF Url, Places, Place, Shelf, EntityKinds
    <2>2. LibraryThing(entity, <<Word("work"), id>>) = id
      BY <1>1, <1>2, <1>4, LibraryThingAgain
    <2>3. Recognize(entity, Https("www.librarything.com", <<Word("work"), id>>, NoQuery)) = record
      BY <1>1, <1>4, <2>2 DEF Recognize, Https, IsHttpUrl
    <2> QED BY <1>1, <2>1, <2>3 DEF IsFoundAgain
  <1>5. CASE entity = "person"
    <2>1. Url(entity, record) = Https("www.librarything.com", <<Word("author"), id>>, NoQuery)
      BY <1>1, <1>5, PathOf DEF Url, Places, Place, Shelf, EntityKinds
    <2>2. LibraryThing(entity, <<Word("author"), id>>) = id
      BY <1>1, <1>2, <1>5, LibraryThingAgain
    <2>3. Recognize(entity, Https("www.librarything.com", <<Word("author"), id>>, NoQuery)) = record
      BY <1>1, <1>5, <2>2 DEF Recognize, Https, IsHttpUrl
    <2> QED BY <1>1, <2>1, <2>3 DEF IsFoundAgain
  <1> QED BY <1>3, <1>4, <1>5 DEF EntityKinds

(* What the rules of the Internet Archive recognize is found again. *)
LEMMA InternetArchiveFound ==
    ASSUME NEW entity \in EntityKinds, NEW url \in WebAddresses,
           url.host \in {"archive.org"},
           Recognize(entity, url) # NoRecord
    PROVE  IsFoundAgain(entity, Recognize(entity, url))
  <1> DEFINE id == InternetArchive(url.path)
             record == [kind |-> "internetarchive", id |-> id]
  <1>1. Recognize(entity, url) = record /\ id # Empty /\ entity = "publication"
    BY DEF Recognize
  <1>2. url.path \in Seq(Segments)
    BY DEF WebAddresses
  <1>3. Url(entity, record) = Https("archive.org", <<Word("details"), id>>, NoQuery)
    BY <1>1, PathOf DEF Url, Places, Place, Shelf, EntityKinds
  <1>4. InternetArchive(<<Word("details"), id>>) = id
    BY <1>1, <1>2, InternetArchiveAgain
  <1>5. Recognize(entity, Https("archive.org", <<Word("details"), id>>, NoQuery)) = record
    BY <1>1, <1>4 DEF Recognize, Https, IsHttpUrl
  <1> QED BY <1>1, <1>3, <1>5 DEF IsFoundAgain

(* What the rules of Project Gutenberg recognize is found again. *)
LEMMA GutenbergFound ==
    ASSUME NEW entity \in EntityKinds, NEW url \in WebAddresses,
           url.host \in {"gutenberg.org", "www.gutenberg.org"},
           Recognize(entity, url) # NoRecord
    PROVE  IsFoundAgain(entity, Recognize(entity, url))
  <1> DEFINE id == Gutenberg(entity, url.path)
             record == [kind |-> "gutenberg", id |-> id]
  <1>1. Recognize(entity, url) = record /\ id # Empty
    BY DEF Recognize
  <1>2. url.path \in Seq(Segments)
    BY DEF WebAddresses
  <1>3. entity \in {"work", "person"}
    BY <1>1, <1>2, GutenbergAgain
  <1>4. CASE entity = "work"
    <2>1. Url(entity, record) = Https("www.gutenberg.org", <<Word("ebooks"), id>>, NoQuery)
      BY <1>1, <1>4, PathOf DEF Url, Places, Place, Shelf, EntityKinds
    <2>2. Gutenberg(entity, <<Word("ebooks"), id>>) = id
      BY <1>1, <1>2, <1>4, GutenbergAgain
    <2>3. Recognize(entity, Https("www.gutenberg.org", <<Word("ebooks"), id>>, NoQuery)) = record
      BY <1>1, <1>4, <2>2 DEF Recognize, Https, IsHttpUrl
    <2> QED BY <1>1, <2>1, <2>3 DEF IsFoundAgain
  <1>5. CASE entity = "person"
    <2>1. Url(entity, record) = Https("www.gutenberg.org", <<Word("ebooks"), Word("author"), id>>, NoQuery)
      BY <1>1, <1>5, PathOf DEF Url, Places, Place, Shelf, EntityKinds
    <2>2. Gutenberg(entity, <<Word("ebooks"), Word("author"), id>>) = id
      BY <1>1, <1>2, <1>5, GutenbergAgain
    <2>3. Recognize(entity, Https("www.gutenberg.org", <<Word("ebooks"), Word("author"), id>>, NoQuery))
          = record
      BY <1>1, <1>5, <2>2 DEF Recognize, Https, IsHttpUrl
    <2> QED BY <1>1, <2>1, <2>3 DEF IsFoundAgain
  <1> QED BY <1>3, <1>4, <1>5 DEF EntityKinds

(* What the rules of LibriVox recognize is found again. *)
LEMMA LibrivoxFound ==
    ASSUME NEW entity \in EntityKinds, NEW url \in WebAddresses,
           url.host \in {"librivox.org"},
           Recognize(entity, url) # NoRecord
    PROVE  IsFoundAgain(entity, Recognize(entity, url))
  <1> DEFINE id == Librivox(url.path)
             record == [kind |-> "librivox", id |-> id]
  <1>1. Recognize(entity, url) = record /\ id # Empty /\ entity = "person"
    BY DEF Recognize
  <1>2. url.path \in Seq(Segments)
    BY DEF WebAddresses
  <1>3. Url(entity, record) = Https("librivox.org", <<Word("author"), id>>, NoQuery)
    BY <1>1, PathOf DEF Url, Places, Place, Shelf, EntityKinds
  <1>4. Librivox(<<Word("author"), id>>) = id
    BY <1>1, <1>2, LibrivoxAgain
  <1>5. Recognize(entity, Https("librivox.org", <<Word("author"), id>>, NoQuery)) = record
    BY <1>1, <1>4 DEF Recognize, Https, IsHttpUrl
  <1> QED BY <1>1, <1>3, <1>5 DEF IsFoundAgain

(* The sites of the GND lead to d-nb.info. *)
LEMMA GndFound ==
    ASSUME NEW entity \in EntityKinds, NEW url \in WebAddresses, entity # "publication",
           url.host \in {"d-nb.info", "lobid.org", "explore.gnd.network",
                        "www.deutsche-digitale-bibliothek.de"},
           Recognize(entity, url) # NoRecord
    PROVE  IsFoundAgain(entity, Recognize(entity, url))
  <1> DEFINE prefix == IF url.host = "www.deutsche-digitale-bibliothek.de" THEN "entity" ELSE "gnd"
             id == Gnd(prefix, url.path)
             record == [kind |-> "gnd", id |-> id]
  <1>1. Recognize(entity, url) = record /\ id # Empty
    BY DEF Recognize
  <1>2. Url(entity, record) = Https("d-nb.info", <<Word("gnd"), id>>, NoQuery)
    BY PathOf DEF Url, Places, Place, EntityKinds
  <1>3. Gnd("gnd", <<Word("gnd"), id>>) = id
    BY <1>1, GndAgain
  <1>4. Recognize(entity, Https("d-nb.info", <<Word("gnd"), id>>, NoQuery)) = record
    BY <1>1, <1>3 DEF Recognize, Https, IsHttpUrl
  <1> QED BY <1>1, <1>2, <1>4 DEF IsFoundAgain

(* Both kinds of K10plus address lead to the catalog, where the PPN is in the query. *)
LEMMA K10plusFound ==
    ASSUME NEW entity \in EntityKinds, NEW url \in WebAddresses,
           url.host \in {"opac.k10plus.de", "kxp.k10plus.de", "uri.gbv.de"},
           Recognize(entity, url) # NoRecord
    PROVE  IsFoundAgain(entity, Recognize(entity, url))
  <1> DEFINE document == Ends(url.path, <<"document">>)
             ppn == IF url.host = "uri.gbv.de" THEN [document EXCEPT !.space = ""] ELSE url.query.value
             id == Ppn(ppn)
             record == [kind |-> "k10plus", id |-> id]
             path == <<Word("DB=2.299"), Word("PPNSET")>>
             query == [key |-> "PPN", value |-> id]
  <1>1. Recognize(entity, url) = record /\ id # Empty /\ entity = "publication"
    BY DEF Recognize, K10plusUri, Filter
  <1>2. HasParts(ppn)
    <2>1. url.path \in Seq(Segments) /\ url.query.value \in Segments
      BY DEF WebAddresses
    <2>2. HasParts(document) /\ HasParts(url.query.value)
      BY <2>1, AfterHasParts, SegmentsHaveParts
    <2> HIDE DEF document
    <2>3. HasParts([document EXCEPT !.space = ""])
      BY <2>2, ExceptHasParts
    <2> QED BY <2>2, <2>3
  <1>3. Url(entity, record) = Https("opac.k10plus.de", path, query)
    <2>1. record.kind = "k10plus" /\ record.id = id
      OBVIOUS
    <2> HIDE DEF record
    <2> QED BY <1>1, <2>1 DEF Url, Places, Place
  <1>4. Ppn(id) = id
    BY <1>1, <1>2, PpnAgain
  <1>5. Recognize(entity, Https("opac.k10plus.de", path, query)) = record
    BY <1>1, <1>4 DEF Recognize, Https, IsHttpUrl, Filter
  <1> QED BY <1>1, <1>3, <1>5 DEF IsFoundAgain

(* IMSLP: the namespace is dropped and put back. A title that is a dot segment is the exception. *)
LEMMA ImslpFound ==
    ASSUME NEW entity \in EntityKinds, NEW url \in WebAddresses,
           url.host = "imslp.org",
           Recognize(entity, url) # NoRecord
    PROVE  IsFoundAgain(entity, Recognize(entity, url))
  <1> DEFINE title == IF url.path = <<Word("index.php")>>
                      THEN IF url.query.key = "title" THEN url.query.value ELSE Empty
                      ELSE Ends(url.path, <<"wiki">>)
             id == [title EXCEPT !.space = "", !.spaced = FALSE]
             record == [kind |-> "imslp", id |-> id]
             page == Page(entity, id)
             there == Https("imslp.org", <<Word("wiki"), page>>, NoQuery)
  <1>1. Recognize(entity, url) = record /\ id # Empty /\ entity # "publication"
    BY DEF Recognize, Imslp, Filter
  <1>2. HasParts(title)
    <2>1. url.path \in Seq(Segments) /\ url.query.value \in Segments
      BY DEF WebAddresses
    <2> QED BY <2>1, AfterHasParts, SegmentsHaveParts, EmptyHasParts
  <1> HIDE DEF title
  <1>3. id = [[title EXCEPT !.space = ""] EXCEPT !.spaced = FALSE] /\ id.space = "" /\ id.spaced = FALSE
    BY <1>2 DEF HasParts
  <1>4. HasParts(id)
    BY <1>2, <1>3, ExceptHasParts
  <1> HIDE DEF id
  <1>5. /\ page.space = IF entity = "person" THEN "Category" ELSE ""
        /\ [page EXCEPT !.space = "", !.spaced = FALSE] = id
    BY <1>3, <1>4 DEF Page, HasParts
  <1>6. ASSUME id \notin DotSegments PROVE page \notin DotSegments
    <2>1. \A s \in DotSegments : s.space = ""
      BY DEF DotSegments, Empty
    <2> QED BY <1>5, <1>6, <2>1 DEF Page
  <1>7. ASSUME id \notin DotSegments PROVE Url(entity, record) = there
    <2>1. Append(<<Word("wiki")>>, page) = <<Word("wiki"), page>>
      <3>1. Append(<<Word("wiki")>>, page) = <<Word("wiki")>> \o <<page>>
        OBVIOUS
      <3> QED BY <3>1, PairOf
    <2>2. record.kind = "imslp" /\ record.id = id
      OBVIOUS
    <2>3. Push(<<Word("wiki")>>, page) = <<Word("wiki"), page>>
      BY <1>6, <1>7, <2>1 DEF Push
    <2> HIDE DEF record
    <2> QED BY <1>1, <2>2, <2>3 DEF Url, Places, Place, EntityKinds
  <1>8. Imslp(entity, there) = id
    <2>1. there.path # <<Word("index.php")>> /\ there.path = <<Word("wiki"), page>>
      BY DEF Https
    <2>2. Ends(there.path, <<"wiki">>) = page
      BY <2>1, EndsAWord
    <2> HIDE DEF there, page
    <2> QED BY <1>1, <1>5, <2>1, <2>2 DEF Imslp, Filter, EntityKinds
  <1>9. Recognize(entity, there) = record
    <2>1. there.host = "imslp.org" /\ there.scheme = "https"
      BY DEF Https
    <2> HIDE DEF there
    <2> QED BY <1>1, <1>8, <2>1 DEF Recognize, IsHttpUrl
  <1> QED BY <1>1, <1>7, <1>9 DEF IsFoundAgain

(* Whatever address a record was recognized from (link.rs and external_id.rs, recognize), the
   address that url builds of it names the same record, of every kind at every site. The
   addresses are all there are: any texts, any path, any id. A record whose id is a dot
   segment is left out, which is an IMSLP title that has no address of this form. *)
THEOREM RecordsHaveAddresses ==
    ASSUME NEW entity \in EntityKinds, NEW url \in WebAddresses,
           Recognize(entity, url) # NoRecord
    PROVE  IsFoundAgain(entity, Recognize(entity, url))
  <1>1. \/ url.host \in {"openlibrary.org", "www.wikidata.org", "m.wikidata.org", "musicbrainz.org",
                        "www.musicbrainz.org", "beta.musicbrainz.org", "imslp.org"}
        \/ url.host \in {"viaf.org", "www.viaf.org", "isni.org", "www.isni.org", "librivox.org"}
        \/ url.host = "d-nb.info" /\ entity = "publication"
        \/ /\ url.host \in {"d-nb.info", "lobid.org", "explore.gnd.network",
                             "www.deutsche-digitale-bibliothek.de"}
           /\ entity # "publication"
        \/ url.host \in {"lccn.loc.gov", "www.loc.gov", "id.loc.gov", "opac.k10plus.de",
                         "kxp.k10plus.de", "uri.gbv.de", "id.lib.harvard.edu", "archive.org"}
        \/ url.host \in {"goodreads.com", "www.goodreads.com", "librarything.com",
                         "www.librarything.com", "gutenberg.org", "www.gutenberg.org"}
    BY DEF Recognize
  <1> QED
    BY <1>1, OpenLibraryFound, WikidataFound, MusicBrainzFound, ImslpFound, ViafFound, IsniFound,
       LibrivoxFound, DnbFound, GndFound, LocFound, K10plusFound, HarvardFound, InternetArchiveFound,
       GoodreadsFound, LibraryThingFound, GutenbergFound


-----------------------------------------------------------------------------
(***************************************************************************)
(* The tables after an opening                                             *)
(***************************************************************************)

(* The entities are those of the three tables. *)
LEMMA EntitiesAre ==
  ASSUME NEW tables
  PROVE \A e : e \in Entities(tables) <=>
                  \E table \in DOMAIN KindOf : \E id \in DOMAIN tables[table] : e = <<table, id>>
<1>1. DOMAIN KindOf = {"pubs", "works", "people"}
  BY DEF KindOf
<1> QED BY <1>1 DEF Entities

\* What a binary of version v makes of an owner's links.
RecognizedAs(v, table, links) ==
    Recognizes(links, [k \in DOMAIN links |-> Recognized(v, table, links[k].url)])

\* Links with the records that these names give them.
NamedLinks(links, names, n) ==
    [k \in 1..n |-> [url |-> links[k].url, record |-> RecordFor(names, k)]]

(* An owner whose links are recognized. *)
LEMMA OwnerIsRecognized ==
  ASSUME NEW v, NEW table, NEW n \in Nat, NEW links, IsList(table, links, n),
         NEW names, names = [k \in 1..n |-> Recognized(v, table, links[k].url)]
  PROVE /\ RecognizedAs(v, table, links).ok = TRUE
        /\ RecognizedAs(v, table, links).links = NamedLinks(links, names, n)
        /\ IsList(table, RecognizedAs(v, table, links).links, n)
<1>1. DOMAIN links = 1..n
  BY DEF IsList
<1>2. RecognizedAs(v, table, links) = Recognizes(links, names)
  BY <1>1 DEF RecognizedAs
<1>3. \A k \in 1..n : names[k] \in {Generic, Recognize(KindOf[table], Address(links[k].url))}
  BY DEF Recognized
<1>4. DOMAIN names = 1..n
  OBVIOUS
<1>5. /\ Recognizes(links, names).ok = TRUE
      /\ Recognizes(links, names).links = NamedLinks(links, names, n)
      /\ IsList(table, Recognizes(links, names).links, n)
  BY ONLY <1>3, <1>4, n \in Nat, IsList(table, links, n), RecognizesSound DEF NamedLinks
<1> QED BY <1>2, <1>5

\* The links of an owner after an opening by version v.
LinksAfter(v, tables, table, id) ==
    IF tables[table][id].links = <<>> THEN <<>>
    ELSE RecognizedAs(v, table, tables[table][id].links).links

(* They are links that the owner may have. *)
LEMMA LinksAfterAre ==
  ASSUME NEW tables, LinksAreStored(tables), NEW table \in DOMAIN KindOf, NEW id \in DOMAIN tables[table],
         NEW v
  PROVE AreLinks(table, LinksAfter(v, tables, table, id))
<1> DEFINE links == tables[table][id].links
<1>1. AreLinks(table, links)
  BY DEF LinksAreStored, HaveLinks
<1>2. PICK n \in Nat : IsList(table, links, n)
  BY <1>1, LinksAre
<1> HIDE DEF links
<1> DEFINE names == [k \in 1..n |-> Recognized(v, table, links[k].url)]
<1>3. IsList(table, RecognizedAs(v, table, links).links, n)
  <2>1. names = [k \in 1..n |-> Recognized(v, table, links[k].url)]
    OBVIOUS
  <2> HIDE DEF names
  <2> QED BY <1>2, <2>1, OwnerIsRecognized
<1>4. AreLinks(table, RecognizedAs(v, table, links).links)
  BY <1>3, LinksAre
<1> QED BY <1>4, NoLinks DEF LinksAfter, links

\* What an opening by version v finds, of every owner of links.
Results(v, tables) ==
    [e \in WithLinks(tables) |-> Recognizes(tables[e[1]][e[2]].links, RecordsOf(v, tables, e))]

(* It never fails, *)
LEMMA ResultsSound ==
  ASSUME NEW tables, LinksAreStored(tables), NEW v
  PROVE \A e \in WithLinks(tables) :
          /\ Results(v, tables)[e].ok = TRUE
          /\ Results(v, tables)[e].links = LinksAfter(v, tables, e[1], e[2])
<1> SUFFICES ASSUME NEW e \in WithLinks(tables)
             PROVE /\ Results(v, tables)[e].ok = TRUE
                   /\ Results(v, tables)[e].links = LinksAfter(v, tables, e[1], e[2])
  OBVIOUS
<1>1. PICK table \in DOMAIN KindOf : \E id \in DOMAIN tables[table] : e = <<table, id>>
  BY EntitiesAre DEF WithLinks
<1>2. PICK id \in DOMAIN tables[table] : e = <<table, id>>
  BY <1>1
<1> DEFINE links == tables[table][id].links
<1>3. links # <<>> /\ e[1] = table /\ e[2] = id
  BY <1>2 DEF WithLinks
<1>4. Results(v, tables)[e] = RecognizedAs(v, table, links)
  BY <1>3 DEF Results, RecordsOf, RecognizedAs
<1>5. AreLinks(table, links)
  BY DEF LinksAreStored, HaveLinks
<1> HIDE DEF links
<1>6. PICK n \in Nat : IsList(table, links, n)
  BY <1>5, LinksAre
<1> DEFINE names == [k \in 1..n |-> Recognized(v, table, links[k].url)]
<1>7. RecognizedAs(v, table, links).ok = TRUE
  <2>1. names = [k \in 1..n |-> Recognized(v, table, links[k].url)]
    OBVIOUS
  <2> HIDE DEF names
  <2> QED BY <1>6, <2>1, OwnerIsRecognized
<1>8. LinksAfter(v, tables, table, id) = RecognizedAs(v, table, links).links
  BY <1>3 DEF LinksAfter, links
<1> QED BY <1>3, <1>4, <1>7, <1>8

(* and is written to the rows. *)
LEMMA RelinkedSound ==
  ASSUME NEW tables, LinksAreStored(tables), NEW v,
         NEW now, now = Relinked(tables, Results(v, tables))
  PROVE /\ LinksAreStored(now)
        /\ \A table \in DOMAIN KindOf :
              /\ DOMAIN now[table] = DOMAIN tables[table]
              /\ \A id \in DOMAIN tables[table] : now[table][id].links = LinksAfter(v, tables, table, id)
<1> DEFINE result == Results(v, tables)
           Rows(table) ==
             [id \in DOMAIN tables[table] |->
                IF <<table, id>> \in DOMAIN result
                THEN [tables[table][id] EXCEPT !.links = result[<<table, id>>].links]
                ELSE tables[table][id]]
<1>1. now = [tables EXCEPT !.pubs = Rows("pubs"), !.works = Rows("works"), !.people = Rows("people")]
  BY DEF Relinked
<1>2. ASSUME NEW table \in DOMAIN KindOf
      PROVE /\ DOMAIN Rows(table) = DOMAIN tables[table]
            /\ \A id \in DOMAIN tables[table] : /\ HasLinks(table, Rows(table)[id])
                                                /\ Rows(table)[id].links = LinksAfter(v, tables, table, id)
  <2> SUFFICES ASSUME NEW id \in DOMAIN tables[table]
               PROVE /\ HasLinks(table, Rows(table)[id])
                     /\ Rows(table)[id].links = LinksAfter(v, tables, table, id)
    OBVIOUS
  <2> DEFINE row == tables[table][id]
             e == <<table, id>>
             links == result[e].links
             after == LinksAfter(v, tables, table, id)
  <2>1. HasLinks(table, row)
    BY DEF LinksAreStored, HaveLinks, HasLinks
  <2>2. DOMAIN result = WithLinks(tables)
    BY DEF Results
  <2>3. e \in WithLinks(tables) <=> row.links # <<>>
    BY EntitiesAre DEF WithLinks
  <2>4. AreLinks(table, after)
    BY LinksAfterAre
  <2>5. CASE row.links # <<>>
    <3>1. links = after
      <4>1. result[e].links = LinksAfter(v, tables, e[1], e[2])
        BY <2>3, <2>5, ResultsSound
      <4> HIDE DEF result
      <4>2. e[1] = table /\ e[2] = id
        OBVIOUS
      <4> HIDE DEF e
      <4> QED BY <4>1, <4>2
    <3>2. Rows(table)[id] = [row EXCEPT !.links = links]
      BY <2>2, <2>3, <2>5
    <3> HIDE DEF Rows, result, row, links, after
    <3>3. HasLinks(table, [row EXCEPT !.links = after]) /\ [row EXCEPT !.links = after].links = after
      BY <2>1, <2>4, RowHasLinks DEF HasLinks
    <3> QED BY <3>1, <3>2, <3>3 DEF after
  <2>6. CASE row.links = <<>>
    <3>1. Rows(table)[id] = row
      BY <2>2, <2>3, <2>6
    <3>2. after = <<>>
      BY <2>6 DEF LinksAfter
    <3> HIDE DEF Rows, result, row, links, after
    <3> QED BY <2>1, <2>6, <3>1, <3>2 DEF after
  <2> QED BY <2>5, <2>6
<1>3. "pubs" \in DOMAIN tables /\ "works" \in DOMAIN tables /\ "people" \in DOMAIN tables
  BY TablesHave
<1>4. DOMAIN KindOf = {"pubs", "works", "people"}
  BY DEF KindOf
<1> HIDE DEF Rows
<1>5. now.pubs = Rows("pubs") /\ now.works = Rows("works") /\ now.people = Rows("people") /\ DOMAIN now = DOMAIN tables
  BY <1>1, <1>3
<1>6. \A table \in DOMAIN KindOf : now[table] = Rows(table)
  BY <1>4, <1>5
<1>7. LinksAreStored(now)
  BY <1>2, <1>4, <1>6, <1>5, <1>3 DEF LinksAreStored, HaveLinks, HasLinks
<1> QED BY <1>2, <1>6, <1>7

-----------------------------------------------------------------------------
(***************************************************************************)
(* The steps of the archive                                                *)
(***************************************************************************)

(* What an opening leaves. *)
LEMMA ReopenSees ==
  ASSUME IInv, Reopen
  PROVE LET v == binary'.version IN
        /\ IInv' /\ opened' = TRUE /\ t' = Relinked(t, Results(v, t))
        /\ told' = {Event("link_recognition", "updated", e, "links") :
                      e \in {e \in WithLinks(t) : Results(v, t)[e].links # t[e[1]][e[2]].links}}
<1> DEFINE v == binary'.version
           result == Results(v, t)
<1>1. IsRunning' /\ edit' = NoEdit
  <2>1. PICK w \in binary.version .. LastVersion : binary' = Binary(w)
    BY DEF Reopen
  <2>2. w \in 1 .. LastVersion
    BY <2>1, VersionsAreNumbered DEF IInv, IsRunning
  <2>3. binary'.version = w
    BY <2>1 DEF Binary
  <2>4. binary'.version \in 1 .. LastVersion /\ binary' = Binary(binary'.version)
    BY <2>1, <2>2, <2>3
  <2>5. IsRunning'
    BY <2>4 DEF IsRunning, Binary, Recognized
  <2> QED BY <2>5 DEF Reopen
<1>2. IsBounded'
  BY SpendsBounded DEF Reopen, IInv, Bounds
<1> DEFINE names == [e \in WithLinks(t) |-> RecordsOf(v, t, e)]
<1>3. /\ opened' = (\A e \in WithLinks(t) : result[e].ok)
      /\ t' = IF opened' THEN Relinked(t, result) ELSE t
      /\ told' = IF opened'
                 THEN {Event("link_recognition", "updated", e, "links") :
                         e \in {e \in WithLinks(t) : result[e].links # t[e[1]][e[2]].links}}
                 ELSE {}
  <2>1. result = [e \in DOMAIN names |-> Recognizes(t[e[1]][e[2]].links, names[e])]
    BY DEF Results
  <2>2. DOMAIN names = WithLinks(t)
    OBVIOUS
  <2> HIDE DEF result
  <2> QED BY <2>1, <2>2 DEF Reopen
<1>4. \A e \in WithLinks(t) : result[e].ok = TRUE
  BY ResultsSound DEF IInv
<1> HIDE DEF result, names
<1>5. opened' = TRUE
  BY <1>3, <1>4
<1>6. t' = Relinked(t, result)
  BY <1>3, <1>5
<1>7. LinksAreStored(t')
  BY <1>6, RelinkedSound DEF IInv, result
<1>8. IInv'
  <2>1. LinksAreStored(t)'
    BY <1>7
  <2>2. EditSees'
    BY <1>1 DEF EditSees, NoEdit
  <2> QED BY <1>1, <1>2, <2>1, <2>2 DEF IInv
<1> QED BY <1>3, <1>5, <1>6, <1>8 DEF result

(* Every step but an opening keeps the invariant and the binary. *)
LEMMA StepKeeps ==
  ASSUME IInv, [Next]_vars
  PROVE IInv' /\ (Reopen \/ budget'.opens = budget.opens)
<1>1. ASSUME Keeps PROVE IInv' /\ budget'.opens = budget.opens
  BY <1>1 DEF Keeps, IInv
<1>2. CASE UNCHANGED vars
  <2>1. UNCHANGED <<t, edit, binary, budget>>
    BY <1>2 DEF vars
  <2>2. LinksAreStored(t)'
    BY <2>1 DEF IInv, LinksAreStored, HaveLinks, AreLinks
  <2>3. EditSees'
    BY <2>1, EditStays DEF IInv
  <2>4. IsRunning' /\ IsBounded'
    BY <2>1 DEF IInv, IsRunning, Binary, IsBounded
  <2> QED BY <2>1, <2>2, <2>3, <2>4 DEF IInv
<1>3. CASE Reopen
  BY <1>3, ReopenSees
<1> QED BY <1>1, <1>2, <1>3, LoadKeeps, SaveKeeps, OpenEditKeeps, EditsKeeps, EndEditKeeps DEF Next

(* The archive starts with links as they may be. *)
LEMMA StartsSound == Init => IInv
<1> SUFFICES ASSUME Init PROVE IInv
  OBVIOUS
<1>1. PICK start \in Starts : t = start.tables /\ budget = start.budget
  BY DEF Init
<1>2. LinksAreStored(t) /\ IsBounded
  BY <1>1, StartsAreStored DEF IsBounded
<1>3. IsRunning
  BY VersionsAreNumbered DEF Init, IsRunning, Binary
<1>4. EditSees
  BY DEF Init, EditSees
<1> QED BY <1>2, <1>3, <1>4 DEF IInv

(* Every owner of links of the archive has, at all times, each URL once and each record that   *)
(* its links name once, and every such record is the one that the URL's address names; so has  *)
(* every owner an open ArchiveEdit sees.                                                       *)
THEOREM LinksStayStored == Spec => [](LinksAreStored(t) /\ (edit.open => LinksAreStored(edit.x.t)))
<1>1. Init => IInv
  BY StartsSound
<1>2. IInv /\ [Next]_vars => IInv'
  BY StepKeeps
<1>3. IInv => LinksAreStored(t) /\ (edit.open => LinksAreStored(edit.x.t))
  BY OpenSees DEF IInv, Sees
<1> QED BY <1>1, <1>2, <1>3, PTL DEF Spec

(* A record that a link names has an address at its site, and the address names the record:    *)
(* no form, edit, merge or opening leaves a link that matching would miss (link.rs, url and    *)
(* recognize).  For every catalog, binary and sequence of transactions.                        *)
THEOREM RecordsFoundAgain == Spec => []RecordsAreFoundAgain
<1>1. Init => IInv
  BY StartsSound
<1>2. IInv /\ [Next]_vars => IInv'
  BY StepKeeps
<1>3. ASSUME IInv PROVE RecordsAreFoundAgain
  <2> SUFFICES ASSUME NEW e \in Entities(t), NEW l \in ToSet(t[e[1]][e[2]].links), l.record # Generic
               PROVE IsFoundAgain(KindOf[e[1]], l.record)
    BY DEF RecordsAreFoundAgain
  <2>1. PICK table \in DOMAIN KindOf : \E id \in DOMAIN t[table] : e = <<table, id>>
    BY EntitiesAre
  <2>2. PICK id \in DOMAIN t[table] : e = <<table, id>>
    BY <2>1
  <2>3. AreLinks(table, t[table][id].links)
    BY <1>3 DEF IInv, LinksAreStored, HaveLinks
  <2>4. l \in ToSet(t[table][id].links)
    BY <2>2
  <2>5. Address(l.url) \in WebAddresses /\ l.record = Recognize(KindOf[table], Address(l.url))
    BY <2>3, <2>4 DEF AreLinks
  <2>6. KindOf[table] \in EntityKinds
    BY DEF KindOf, EntityKinds
  <2>7. Generic = NoRecord
    BY DEF Generic, NoRecord
  <2> QED BY <2>2, <2>5, <2>6, <2>7, RecordsHaveAddresses
<1>4. IInv => RecordsAreFoundAgain
  BY <1>3
<1> QED BY <1>1, <1>2, <1>4, PTL DEF Spec

(* What an opening leaves of one owner. *)
LEMMA OpeningSound ==
  ASSUME IInv, Reopen
  PROVE /\ opened'
        /\ \A e \in WithLinks(t') : \A names \in {RecordsOf(binary'.version, t', e)} :
              LET now == t'[e[1]][e[2]].links  was == t[e[1]][e[2]].links
              IN /\ \A k \in DOMAIN now :
                       /\ now[k].url = was[k].url
                       /\ now[k].record \in {names[k], Generic}
                       /\ now[k].record = Generic /\ names[k] # Generic =>
                             \E j \in 1 .. k - 1 : now[j].record = names[k]
                 /\ \A j, k \in DOMAIN now : j # k => now[j].url # now[k].url
                                                    /\ (now[j].record # Generic => now[j].record # now[k].record)
                 /\ TellsField(told', e, "links") <=> now # was
<1> DEFINE v == binary'.version
<1>1. /\ opened' = TRUE /\ t' = Relinked(t, Results(v, t)) /\ LinksAreStored(t)
      /\ told' = {Event("link_recognition", "updated", e, "links") :
                    e \in {e \in WithLinks(t) : Results(v, t)[e].links # t[e[1]][e[2]].links}}
  BY ReopenSees DEF IInv
<1>2. \A table \in DOMAIN KindOf :
        /\ DOMAIN t'[table] = DOMAIN t[table]
        /\ \A id \in DOMAIN t[table] : t'[table][id].links = LinksAfter(v, t, table, id)
  BY <1>1, RelinkedSound
<1> DEFINE Fine(e, names) ==
             LET now == t'[e[1]][e[2]].links  was == t[e[1]][e[2]].links
             IN /\ \A k \in DOMAIN now :
                      /\ now[k].url = was[k].url
                      /\ now[k].record \in {names[k], Generic}
                      /\ now[k].record = Generic /\ names[k] # Generic =>
                            \E j \in 1 .. k - 1 : now[j].record = names[k]
                /\ \A j, k \in DOMAIN now : j # k => now[j].url # now[k].url
                                                   /\ (now[j].record # Generic => now[j].record # now[k].record)
                /\ TellsField(told', e, "links") <=> now # was
<1> SUFFICES opened' /\ \A e \in WithLinks(t') : \A names \in {RecordsOf(v, t', e)} : Fine(e, names)
  OBVIOUS
<1> SUFFICES ASSUME NEW e \in WithLinks(t') PROVE Fine(e, RecordsOf(v, t', e))
  <2>1. opened'
    BY <1>1
  <2> HIDE DEF Fine
  <2> QED BY <2>1
<1>3. PICK table \in DOMAIN KindOf : \E id \in DOMAIN t'[table] : e = <<table, id>>
  BY EntitiesAre DEF WithLinks
<1>4. PICK id \in DOMAIN t'[table] : e = <<table, id>>
  BY <1>3
<1> DEFINE was == t[table][id].links
           now == t'[table][id].links
           names == RecordsOf(v, t', e)
<1>5. id \in DOMAIN t[table] /\ now = LinksAfter(v, t, table, id) /\ e[1] = table /\ e[2] = id
  BY <1>2, <1>4
<1>6. now # <<>>
  BY <1>4 DEF WithLinks
<1>7. was # <<>> /\ now = RecognizedAs(v, table, was).links
  BY <1>5, <1>6 DEF LinksAfter
<1>8. AreLinks(table, was)
  BY <1>1, <1>5 DEF LinksAreStored, HaveLinks
<1>9. names = [k \in DOMAIN now |-> Recognized(v, table, now[k].url)]
  BY <1>5 DEF RecordsOf
<1>10. TellsField(told', e, "links") <=> now # was
  <2>1. e \in WithLinks(t)
    BY <1>5, <1>7, EntitiesAre DEF WithLinks
  <2>2. Results(v, t)[e].links = now
    <3>1. Results(v, t)[e].links = LinksAfter(v, t, e[1], e[2])
      BY <1>1, <2>1, ResultsSound
    <3> HIDE DEF now
    <3> QED BY <1>5, <3>1
  <2>3. \A d : Event("link_recognition", "updated", d, "links")
                 = [source |-> "link_recognition", action |-> "updated", on |-> d, field |-> "links"]
    BY DEF Event
  <2>4. \A d : Event("link_recognition", "updated", d, "links").on = d
               /\ Event("link_recognition", "updated", d, "links").action = "updated"
               /\ Event("link_recognition", "updated", d, "links").field = "links"
    BY <2>3
  <2> DEFINE S == {d \in WithLinks(t) : Results(v, t)[d].links # t[d[1]][d[2]].links}
  <2>5. told' = {Event("link_recognition", "updated", d, "links") : d \in S}
    BY <1>1
  <2>6. e \in S <=> now # was
    BY <1>5, <2>1, <2>2
  <2> HIDE DEF S, now, was
  <2>7. TellsField(told', e, "links") <=> e \in S
    BY <2>4, <2>5 DEF TellsField
  <2> QED BY <2>6, <2>7
<1> HIDE DEF v, was, now, names
<1>11. PICK n \in Nat : IsList(table, was, n)
  BY <1>8, LinksAre
<1> DEFINE named == [k \in 1..n |-> Recognized(v, table, was[k].url)]
<1>12. /\ now = NamedLinks(was, named, n)
       /\ IsList(table, now, n)
  <2>1. named = [k \in 1..n |-> Recognized(v, table, was[k].url)]
    OBVIOUS
  <2> HIDE DEF named
  <2>2. /\ RecognizedAs(v, table, was).links = NamedLinks(was, named, n)
        /\ IsList(table, RecognizedAs(v, table, was).links, n)
    BY ONLY <1>11, <2>1, n \in Nat, OwnerIsRecognized
  <2> QED BY <1>7, <2>2
<1>13. DOMAIN now = 1..n /\ \A k \in 1..n : now[k].url = was[k].url /\ now[k].record = RecordFor(named, k)
  BY <1>12 DEF NamedLinks
<1>14. names = named
  BY <1>9, <1>13
<1> HIDE DEF named
<1>15. \A k \in DOMAIN now :
         /\ now[k].url = was[k].url
         /\ now[k].record \in {names[k], Generic}
         /\ now[k].record = Generic /\ names[k] # Generic => \E j \in 1 .. k - 1 : now[j].record = names[k]
  <2> SUFFICES ASSUME NEW k \in 1..n
               PROVE /\ now[k].url = was[k].url
                     /\ now[k].record \in {names[k], Generic}
                     /\ now[k].record = Generic /\ names[k] # Generic =>
                           \E j \in 1 .. k - 1 : now[j].record = names[k]
    BY <1>13
  <2>1. now[k].record \in {names[k], Generic}
    BY <1>13, <1>14 DEF RecordFor
  <2>2. ASSUME now[k].record = Generic, names[k] # Generic
        PROVE \E j \in 1 .. k - 1 : now[j].record = names[k]
    <3>1. PICK j \in 1 .. k - 1 : RecordFor(named, j) = named[k]
      BY <1>13, <1>14, <2>2, RecordsOnce
    <3>2. j \in 1..n
      OBVIOUS
    <3> QED BY <1>13, <1>14, <3>1, <3>2
  <2> QED BY <1>13, <2>1, <2>2
<1>16. \A j, k \in DOMAIN now : j # k => now[j].url # now[k].url
                                       /\ (now[j].record # Generic => now[j].record # now[k].record)
  BY <1>12 DEF IsList, IsSameLink
<1> QED BY <1>5, <1>10, <1>15, <1>16 DEF v, was, now, names

(* Whatever a newer binary recognizes, and whatever any sequence of saves, merges and edits    *)
(* left, recognize_all succeeds for every owner: the archive opens, each record has the first  *)
(* link to it, nothing is named twice, and an owner is told of exactly when its links changed. *)
THEOREM OpeningsRecognize == Spec => OpeningRecognizes
<1>1. Init => IInv
  BY StartsSound
<1>2. IInv /\ [Next]_vars => IInv'
  BY StepKeeps
<1> DEFINE Recognizing ==
         budget'.opens < budget.opens =>
         /\ opened'
         /\ \A e \in WithLinks(t') : \A names \in {RecordsOf(binary'.version, t', e)} :
               LET now == t'[e[1]][e[2]].links  was == t[e[1]][e[2]].links
               IN /\ \A k \in DOMAIN now :
                        /\ now[k].url = was[k].url
                        /\ now[k].record \in {names[k], Generic}
                        /\ now[k].record = Generic /\ names[k] # Generic =>
                              \E j \in 1 .. k - 1 : now[j].record = names[k]
                  /\ \A j, k \in DOMAIN now : j # k => now[j].url # now[k].url
                                                     /\ (now[j].record # Generic => now[j].record # now[k].record)
                  /\ TellsField(told', e, "links") <=> now # was
<1>3. IInv /\ [Next]_vars => Recognizing
  <2> SUFFICES ASSUME IInv, [Next]_vars, budget'.opens < budget.opens PROVE Reopen
    BY OpeningSound
  <2>1. budget.opens \in Nat
    BY DEF IInv, IsBounded, Bounds
  <2> QED BY <2>1, StepKeeps
<1>4. Spec => [][Recognizing]_vars
  <2> HIDE DEF Recognizing
  <2> QED BY <1>1, <1>2, <1>3, PTL DEF Spec
<1> QED BY <1>4 DEF OpeningRecognizes

-----------------------------------------------------------------------------
(***************************************************************************)
(* What a transaction loses and records                                    *)
(***************************************************************************)

\* Tables whose rows have ids that were given out, and a transaction on such tables.
HasIds(tables) == DOMAIN KindOf \subseteq DOMAIN tables /\ IsNumbered(tables)
IsWhole(x) == DOMAIN x = {"t", "merges", "events", "ok", "id"} /\ HasIds(x.t)

\* What a write makes y of x: no publication and no person goes, a work only into another one,
\* and nothing else is recorded.
IsMerge(ev) == ev.source = "merge" /\ ev.action = "merged"
HasMerged(log) == \E ev \in log : ev.action = "merged"
Later(x, y) ==
    /\ IsWhole(y)
    /\ DOMAIN x.t.pubs \subseteq DOMAIN y.t.pubs
    /\ DOMAIN x.t.people \subseteq DOMAIN y.t.people
    /\ DOMAIN x.t.works \subseteq DOMAIN y.t.works \/ HasMerged(y.events)
    /\ x.events \subseteq y.events
    /\ \A ev \in y.events : ev \in x.events \/ IsMerge(ev)
\* What is held of a publication stays.
HoldsOf(x, y, p) ==
    p \in DOMAIN x.t.pubs /\ "held" \in DOMAIN x.t.pubs[p] =>
      p \in DOMAIN y.t.pubs /\ "held" \in DOMAIN y.t.pubs[p] /\ y.t.pubs[p].held = x.t.pubs[p].held
Held(x, y) == \A p : HoldsOf(x, y, p)
Follows(x, y) == Later(x, y) /\ Held(x, y)

(* The tables and their counters, one by one. *)
LEMMA IdsAre ==
  ASSUME NEW tables
  PROVE HasIds(tables) <=>
          /\ {"pubs", "works", "people", "library", "about", "last"} \subseteq DOMAIN tables
          /\ 1 \in DOMAIN tables.about
          /\ tables.last \in [{"pubs", "works", "people"} -> Nat]
          /\ DOMAIN tables.pubs \subseteq 1 .. tables.last.pubs
          /\ DOMAIN tables.works \subseteq 1 .. tables.last.works
          /\ DOMAIN tables.people \subseteq 1 .. tables.last.people
<1>1. DOMAIN KindOf = {"pubs", "works", "people"}
  BY DEF KindOf
<1> QED BY <1>1 DEF HasIds, IsNumbered

(* Tables with rows of the same ids, or fewer. *)
LEMMA IdsStay ==
  ASSUME NEW tables, HasIds(tables), NEW now,
         {"pubs", "works", "people", "library", "about", "last"} \subseteq DOMAIN now,
         now.last = tables.last, 1 \in DOMAIN now.about, DOMAIN now.pubs \subseteq DOMAIN tables.pubs,
         DOMAIN now.works \subseteq DOMAIN tables.works, DOMAIN now.people \subseteq DOMAIN tables.people
  PROVE HasIds(now)
<1>1. /\ tables.last \in [{"pubs", "works", "people"} -> Nat]
      /\ DOMAIN tables.pubs \subseteq 1 .. tables.last.pubs
      /\ DOMAIN tables.works \subseteq 1 .. tables.last.works
      /\ DOMAIN tables.people \subseteq 1 .. tables.last.people
  BY IdsAre
<1>2. /\ now.last \in [{"pubs", "works", "people"} -> Nat]
      /\ DOMAIN now.pubs \subseteq 1 .. now.last.pubs
      /\ DOMAIN now.works \subseteq 1 .. now.last.works
      /\ DOMAIN now.people \subseteq 1 .. now.last.people
  BY <1>1
<1> QED BY <1>2, IdsAre

(* One write after another. *)
LEMMA FollowsOn ==
  ASSUME NEW x, NEW y, NEW z, Later(y, z)
  PROVE /\ Later(x, y) => Later(x, z)
        /\ Follows(x, y) /\ Held(y, z) => Follows(x, z)
<1>1. Later(x, y) => Later(x, z)
  BY DEF Later, HasMerged
<1>2. Held(x, y) /\ Held(y, z) => Held(x, z)
  BY DEF Held, HoldsOf
<1> QED BY <1>1, <1>2 DEF Follows

(* A call that leaves the tables as they are. *)
LEMMA StillFollows ==
  ASSUME NEW x, IsWhole(x), NEW id
  PROVE /\ Follows(x, x)
        /\ Follows(x, Returns(x, id)) /\ Returns(x, id).id = id /\ Returns(x, id).ok = x.ok
        /\ Follows(x, Fail(x)) /\ Fail(x).ok = FALSE
<1>1. Follows(x, x)
  BY DEF Follows, Later, Held, HoldsOf
<1>2. /\ DOMAIN Returns(x, id) = DOMAIN x /\ Returns(x, id).t = x.t /\ Returns(x, id).events = x.events
      /\ Returns(x, id).id = id /\ Returns(x, id).ok = x.ok
      /\ DOMAIN Fail(x) = DOMAIN x /\ Fail(x).t = x.t /\ Fail(x).events = x.events /\ Fail(x).ok = FALSE
  BY DEF IsWhole, Returns, Fail
<1> DEFINE y == Returns(x, id)
           z == Fail(x)
<1> HIDE DEF y, z
<1>3. Follows(x, y)
  BY <1>2 DEF Follows, Later, Held, HoldsOf, IsWhole, y
<1>4. Follows(x, z)
  BY <1>2 DEF Follows, Later, Held, HoldsOf, IsWhole, z
<1> QED BY <1>1, <1>2, <1>3, <1>4 DEF y, z

\* What a merge of two works makes y of x.
IsMergeOf(x, from, into, y) ==
    /\ IsWhole(y) /\ y.events = x.events /\ y.ok = x.ok
    /\ y.t.library = x.t.library /\ y.t.about = x.t.about
    /\ y.t.last = x.t.last /\ y.t.people = x.t.people
    /\ y.t.works = [w \in DOMAIN x.t.works \ {from} |->
                      IF w = into
                      THEN [f \in DOMAIN x.t.works[into] |->
                              Gained(f, x.t.works[into][f], x.t.works[from][f])]
                      ELSE x.t.works[w]]
    /\ y.t.pubs = [p \in DOMAIN x.t.pubs |-> MergeContents(x.t.pubs[p], from, into)]
    /\ y.merges = Append(x.merges, [from |-> from, into |-> into])

(* A work gone into another. *)
LEMMA MergeLeaves ==
  ASSUME NEW x, IsWhole(x), NEW from, NEW into
  PROVE IsMergeOf(x, from, into, MergeWorks(x, from, into))
<1> DEFINE y == MergeWorks(x, from, into)
           gains == [f \in DOMAIN x.t.works[into] |-> Gained(f, x.t.works[into][f], x.t.works[from][f])]
           works == [w \in DOMAIN x.t.works \ {from} |-> IF w = into THEN gains ELSE x.t.works[w]]
           pubs == [p \in DOMAIN x.t.pubs |-> MergeContents(x.t.pubs[p], from, into)]
           merges == Append(x.merges, [from |-> from, into |-> into])
<1>1. /\ DOMAIN x = {"t", "merges", "events", "ok", "id"} /\ HasIds(x.t)
      /\ {"pubs", "works", "people", "library", "about", "last"} \subseteq DOMAIN x.t
  BY IdsAre DEF IsWhole
<1>2. y = [[[x EXCEPT !.t.works = works] EXCEPT !.t.pubs = pubs] EXCEPT !.merges = merges]
  BY <1>1 DEF MergeWorks
<1>3. DOMAIN works \subseteq DOMAIN x.t.works /\ DOMAIN pubs = DOMAIN x.t.pubs
  OBVIOUS
<1> HIDE DEF y, works, pubs, merges
<1>4. /\ DOMAIN y = DOMAIN x /\ y.events = x.events /\ y.merges = merges /\ y.ok = x.ok
      /\ DOMAIN y.t = DOMAIN x.t /\ y.t.library = x.t.library /\ y.t.about = x.t.about
      /\ y.t.last = x.t.last /\ y.t.people = x.t.people /\ y.t.works = works /\ y.t.pubs = pubs
  BY <1>1, <1>2
<1>5. HasIds(y.t)
  BY <1>1, <1>3, <1>4, IdsAre, IdsStay
<1>6. /\ works = [w \in DOMAIN x.t.works \ {from} |->
                    IF w = into
                    THEN [f \in DOMAIN x.t.works[into] |->
                            Gained(f, x.t.works[into][f], x.t.works[from][f])]
                    ELSE x.t.works[w]]
      /\ pubs = [p \in DOMAIN x.t.pubs |-> MergeContents(x.t.pubs[p], from, into)]
      /\ merges = Append(x.merges, [from |-> from, into |-> into])
  BY DEF works, pubs, merges
<1>7. IsWhole(y)
  BY <1>1, <1>4, <1>5 DEF IsWhole
<1>8. IsMergeOf(x, from, into, y)
  BY <1>4, <1>6, <1>7 DEF IsMergeOf
<1> QED BY <1>8 DEF y

(* A merge takes nothing from a publication but its works. *)
LEMMA MergeHolds ==
  ASSUME NEW x, IsWhole(x), NEW from, NEW into
  PROVE Held(x, MergeWorks(x, from, into))
<1> DEFINE y == MergeWorks(x, from, into)
<1>1. y.t.pubs = [p \in DOMAIN x.t.pubs |-> MergeContents(x.t.pubs[p], from, into)]
  <2>1. IsMergeOf(x, from, into, y)
    BY MergeLeaves
  <2> HIDE DEF y
  <2> QED BY <2>1 DEF IsMergeOf
<1> HIDE DEF y
<1>2. ASSUME NEW p, p \in DOMAIN x.t.pubs, "held" \in DOMAIN x.t.pubs[p]
      PROVE p \in DOMAIN y.t.pubs /\ "held" \in DOMAIN y.t.pubs[p] /\ y.t.pubs[p].held = x.t.pubs[p].held
  <2>1. y.t.pubs[p] = MergeContents(x.t.pubs[p], from, into) /\ p \in DOMAIN y.t.pubs
    BY <1>1, <1>2
  <2> QED BY <1>2, <2>1 DEF MergeContents
<1> QED BY <1>2 DEF Held, HoldsOf, y

(* A duplicate goes into the other work, and that is recorded. *)
LEMMA AbsorbFollows ==
  ASSUME NEW x, IsWhole(x), NEW w
  PROVE Follows(x, AbsorbIntoDuplicate(x, w))
<1> DEFINE into == Min(Duplicates(x.t, w))
           merged == MergeWorks(x, w, into)
           event == Event("merge", "merged", <<"works", into>>, "none")
           y == Returns(Record(merged, "merge", "merged", <<"works", into>>, "none"), into)
<1>1. AbsorbIntoDuplicate(x, w) \in {Returns(x, w), y}
  BY DEF AbsorbIntoDuplicate
<1> HIDE DEF into
<1>2. /\ IsWhole(merged) /\ merged.events = x.events /\ merged.t.people = x.t.people
      /\ DOMAIN merged.t.pubs = DOMAIN x.t.pubs
  <2> DEFINE y0 == merged
  <2>1. IsMergeOf(x, w, into, y0)
    BY MergeLeaves
  <2> HIDE DEF y0
  <2>2. IsWhole(y0) /\ y0.events = x.events /\ y0.t.people = x.t.people /\ DOMAIN y0.t.pubs = DOMAIN x.t.pubs
    BY <2>1 DEF IsMergeOf
  <2> QED BY <2>2 DEF y0
<1>3. Held(x, merged)
  BY MergeHolds
<1> HIDE DEF merged
<1>4. DOMAIN y = DOMAIN merged /\ y.t = merged.t /\ y.events = x.events \union {event}
  BY <1>2 DEF IsWhole, Returns, Record
<1>5. IsMerge(event)
  BY DEF Event, IsMerge
<1> HIDE DEF y, event
<1>6. HasMerged(y.events)
  BY <1>4, <1>5 DEF HasMerged, IsMerge
<1>7. Follows(x, y)
  <2>1. Later(x, y)
    BY <1>2, <1>4, <1>5, <1>6 DEF Later, IsWhole
  <2>2. Held(x, y)
    BY <1>3, <1>4 DEF Held, HoldsOf
  <2> QED BY <2>1, <2>2 DEF Follows
<1>8. Follows(x, Returns(x, w))
  BY StillFollows
<1> QED BY <1>1, <1>7, <1>8

(* Rows that change are still there. *)
LEMMA RowsStay ==
  ASSUME NEW x, IsWhole(x), NEW y, DOMAIN y = DOMAIN x, y.events = x.events,
         DOMAIN y.t = DOMAIN x.t, y.t.last = x.t.last, y.t.about = x.t.about, DOMAIN y.t.pubs = DOMAIN x.t.pubs,
         DOMAIN y.t.works = DOMAIN x.t.works, DOMAIN y.t.people = DOMAIN x.t.people
  PROVE Later(x, y)
<1>1. {"pubs", "works", "people", "library", "about", "last"} \subseteq DOMAIN x.t /\ HasIds(x.t)
      /\ 1 \in DOMAIN x.t.about
  BY IdsAre DEF IsWhole
<1>2. HasIds(y.t)
  BY <1>1, IdsStay
<1> QED BY <1>2 DEF Later, IsWhole

(* A row is written over. *)
LEMMA WriteWorkFollows ==
  ASSUME NEW x, IsWhole(x), NEW w, NEW input
  PROVE Follows(x, WriteWork(x, w, input))
<1> DEFINE row == RowOf(input)
           y == [x EXCEPT !.t.works[w] = row]
<1>1. WriteWork(x, w, input) \in {x, Fail(x), y}
  BY DEF WriteWork
<1> HIDE DEF row
<1>2. /\ DOMAIN x = {"t", "merges", "events", "ok", "id"}
      /\ {"pubs", "works", "people", "library", "about", "last"} \subseteq DOMAIN x.t
  BY IdsAre DEF IsWhole
<1>3. /\ DOMAIN y = DOMAIN x /\ y.events = x.events /\ DOMAIN y.t = DOMAIN x.t
      /\ y.t.last = x.t.last /\ y.t.pubs = x.t.pubs /\ DOMAIN y.t.works = DOMAIN x.t.works
      /\ y.t.people = x.t.people /\ y.t.about = x.t.about
  BY <1>2
<1> HIDE DEF y
<1>4. Later(x, y)
  BY <1>3, RowsStay
<1>5. Held(x, y)
  BY <1>3 DEF Held, HoldsOf
<1> QED BY <1>1, <1>4, <1>5, StillFollows DEF Follows

(* Writing a work, and recognising what it became. *)
LEMMA WriteLinkedWorkFollows ==
  ASSUME NEW x, IsWhole(x), NEW w, NEW input
  PROVE Follows(x, WriteLinkedWork(x, w, input))
<1> DEFINE written == WriteWork(x, w, input)
<1>1. Follows(x, written)
  BY WriteWorkFollows
<1>2. WriteLinkedWork(x, w, input) \in {AbsorbIntoDuplicate(written, w), Returns(written, w)}
  BY DEF WriteLinkedWork
<1> HIDE DEF written
<1>3. IsWhole(written)
  BY <1>1 DEF Follows, Later
<1>4. Follows(written, AbsorbIntoDuplicate(written, w)) /\ Follows(written, Returns(written, w))
  BY <1>3, AbsorbFollows, StillFollows
<1> QED BY <1>1, <1>2, <1>4, FollowsOn DEF Follows

(* Other works of a publication, and nothing else of it. *)
LEMMA WorksOfFollows ==
  ASSUME NEW x, IsWhole(x), NEW p, NEW works
  PROVE Follows(x, [x EXCEPT !.t.pubs[p] = With(x.t.pubs[p], "works", works)])
<1> DEFINE row == With(x.t.pubs[p], "works", works)
           y == [x EXCEPT !.t.pubs[p] = row]
<1>1. /\ DOMAIN x = {"t", "merges", "events", "ok", "id"}
      /\ {"pubs", "works", "people", "library", "about", "last"} \subseteq DOMAIN x.t
  BY IdsAre DEF IsWhole
<1>2. "held" \in DOMAIN x.t.pubs[p] => "held" \in DOMAIN row /\ row.held = x.t.pubs[p].held
  BY DEF With
<1> HIDE DEF row
<1>3. /\ DOMAIN y = DOMAIN x /\ y.events = x.events /\ DOMAIN y.t = DOMAIN x.t
      /\ y.t.last = x.t.last /\ y.t.pubs = [x.t.pubs EXCEPT ![p] = row] /\ y.t.works = x.t.works
      /\ y.t.people = x.t.people /\ y.t.about = x.t.about
  BY <1>1
<1> HIDE DEF y
<1>4. Later(x, y)
  BY <1>3, RowsStay
<1>5. Held(x, y)
  BY <1>2, <1>3 DEF Held, HoldsOf
<1> QED BY <1>4, <1>5 DEF Follows, y, row

(* work::link_work_to_publication *)
LEMMA LinkWorkFollows ==
  ASSUME NEW x, IsWhole(x), NEW p, NEW w
  PROVE Follows(x, LinkWork(x, p, w))
<1> DEFINE works == x.t.pubs[p].works \union {w}
           y == [x EXCEPT !.t.pubs[p] = With(x.t.pubs[p], "works", works)]
<1>1. LinkWork(x, p, w) \in {Fail(x), y}
  BY DEF LinkWork, IsWhole
<1>2. Follows(x, y)
  BY WorksOfFollows
<1> HIDE DEF y
<1> QED BY <1>1, <1>2, StillFollows

\* What a new row of a table makes y of x.
IsInsertOf(x, table, row, y) ==
    LET id == x.t.last[table] + 1 IN
    /\ DOMAIN y = DOMAIN x /\ y.events = x.events /\ y.merges = x.merges /\ y.ok = x.ok /\ y.id = id
    /\ y.t = [x.t EXCEPT ![table] = With(x.t[table], id, row), !.last = [x.t.last EXCEPT ![table] = id]]

(* A new row has the next id, *)
LEMMA Inserts ==
  ASSUME NEW x, IsWhole(x), NEW row
  PROVE /\ IsInsertOf(x, "works", row, InsertWork(x, row))
        /\ IsInsertOf(x, "people", row, CreatePerson(x, row))
        /\ IsInsertOf(x, "pubs", With(row, "works", {}), InsertPublication(x, row))
<1>1. /\ DOMAIN x = {"t", "merges", "events", "ok", "id"}
      /\ {"pubs", "works", "people", "library", "about", "last"} \subseteq DOMAIN x.t
  BY IdsAre DEF IsWhole
<1>2. IsInsertOf(x, "works", row, InsertWork(x, row))
  <2> DEFINE id == x.t.last.works + 1
             rows == With(x.t.works, id, row)
             y == InsertWork(x, row)
  <2>1. y = [[x EXCEPT !.t.works = rows, !.t.last.works = id] EXCEPT !.id = id]
    BY <1>1 DEF InsertWork, Returns
  <2> HIDE DEF rows, id, y
  <2>2. /\ DOMAIN y = DOMAIN x /\ y.events = x.events /\ y.merges = x.merges /\ y.ok = x.ok /\ y.id = id
        /\ y.t = [x.t EXCEPT !.works = rows, !.last = [x.t.last EXCEPT !.works = id]]
    BY <1>1, <2>1
  <2> QED BY <2>2 DEF IsInsertOf, rows, id, y
<1>3. IsInsertOf(x, "people", row, CreatePerson(x, row))
  <2> DEFINE id == x.t.last.people + 1
             rows == With(x.t.people, id, row)
             y == CreatePerson(x, row)
  <2>1. y = [[x EXCEPT !.t.people = rows, !.t.last.people = id] EXCEPT !.id = id]
    BY <1>1 DEF CreatePerson, Returns
  <2> HIDE DEF rows, id, y
  <2>2. /\ DOMAIN y = DOMAIN x /\ y.events = x.events /\ y.merges = x.merges /\ y.ok = x.ok /\ y.id = id
        /\ y.t = [x.t EXCEPT !.people = rows, !.last = [x.t.last EXCEPT !.people = id]]
    BY <1>1, <2>1
  <2> QED BY <2>2 DEF IsInsertOf, rows, id, y
<1>4. IsInsertOf(x, "pubs", With(row, "works", {}), InsertPublication(x, row))
  <2> DEFINE id == x.t.last.pubs + 1
             rows == With(x.t.pubs, id, With(row, "works", {}))
             y == InsertPublication(x, row)
  <2>1. y = [[x EXCEPT !.t.pubs = rows, !.t.last.pubs = id] EXCEPT !.id = id]
    BY <1>1 DEF InsertPublication, Returns
  <2> HIDE DEF rows, id, y
  <2>2. /\ DOMAIN y = DOMAIN x /\ y.events = x.events /\ y.merges = x.merges /\ y.ok = x.ok /\ y.id = id
        /\ y.t = [x.t EXCEPT !.pubs = rows, !.last = [x.t.last EXCEPT !.pubs = id]]
    BY <1>1, <2>1
  <2> QED BY <2>2 DEF IsInsertOf, rows, id, y
<1> QED BY <1>2, <1>3, <1>4

(* and what was there stays. *)
LEMMA InsertFollows ==
  ASSUME NEW x, IsWhole(x), NEW table \in {"pubs", "works", "people"}, NEW row, NEW y,
         IsInsertOf(x, table, row, y)
  PROVE /\ Follows(x, y)
        /\ y.id = x.t.last[table] + 1 /\ y.id \notin DOMAIN x.t[table]
        /\ \A k \in {"pubs", "works", "people", "library", "about"} \ {table} : y.t[k] = x.t[k]
        /\ DOMAIN y.t[table] = DOMAIN x.t[table] \union {y.id}
        /\ \A id \in DOMAIN x.t[table] : y.t[table][id] = x.t[table][id]
        /\ y.t.last = [x.t.last EXCEPT ![table] = y.id]
<1> DEFINE id == x.t.last[table] + 1
           rows == With(x.t[table], id, row)
           last == [x.t.last EXCEPT ![table] = id]
<1>1. /\ DOMAIN y = DOMAIN x /\ y.events = x.events /\ y.id = id
      /\ y.t = [x.t EXCEPT ![table] = rows, !.last = last]
  BY DEF IsInsertOf
<1>2. /\ {"pubs", "works", "people", "library", "about", "last"} \subseteq DOMAIN x.t
      /\ 1 \in DOMAIN x.t.about
      /\ x.t.last \in [{"pubs", "works", "people"} -> Nat]
      /\ \A k \in {"pubs", "works", "people"} : DOMAIN x.t[k] \subseteq 1 .. x.t.last[k]
  BY IdsAre DEF IsWhole
<1>3. id \in Nat /\ id \notin DOMAIN x.t[table] /\ DOMAIN rows = DOMAIN x.t[table] \union {id}
      /\ DOMAIN rows \subseteq 1 .. id /\ \A k \in DOMAIN x.t[table] : rows[k] = x.t[table][k]
  <2>1. id \in Nat /\ id \notin DOMAIN x.t[table]
    BY <1>2
  <2>2. DOMAIN rows = DOMAIN x.t[table] \union {id}
    BY DEF With
  <2>3. \A k \in DOMAIN x.t[table] : rows[k] = x.t[table][k]
    BY <2>1 DEF With
  <2>4. \A k \in DOMAIN x.t[table] \union {id} : k \in 1 .. id
    BY <1>2
  <2> QED BY <2>1, <2>2, <2>3, <2>4
<1>4. last \in [{"pubs", "works", "people"} -> Nat] /\ last[table] = id
      /\ \A k \in {"pubs", "works", "people"} \ {table} : last[k] = x.t.last[k]
  BY <1>2, <1>3
<1> HIDE DEF rows, last, id
<1>5. /\ DOMAIN y.t = DOMAIN x.t /\ y.t.last = last /\ y.t[table] = rows
      /\ \A k \in {"pubs", "works", "people", "library", "about"} \ {table} : y.t[k] = x.t[k]
  BY <1>1, <1>2
<1>6. \A k \in {"pubs", "works", "people"} : DOMAIN y.t[k] \subseteq 1 .. y.t.last[k]
  BY <1>2, <1>3, <1>4, <1>5
<1>7. HasIds(y.t)
  <2>1. /\ y.t.last \in [{"pubs", "works", "people"} -> Nat]
        /\ DOMAIN y.t.pubs \subseteq 1 .. y.t.last.pubs
        /\ DOMAIN y.t.works \subseteq 1 .. y.t.last.works
        /\ DOMAIN y.t.people \subseteq 1 .. y.t.last.people
    BY <1>4, <1>5, <1>6
  <2>2. {"pubs", "works", "people", "library", "about", "last"} \subseteq DOMAIN y.t /\ 1 \in DOMAIN y.t.about
    BY <1>2, <1>5
  <2> QED BY <2>1, <2>2, IdsAre
<1>8. \A k \in {"pubs", "works", "people"} :
         /\ DOMAIN x.t[k] \subseteq DOMAIN y.t[k]
         /\ \A i \in DOMAIN x.t[k] : y.t[k][i] = x.t[k][i]
  BY <1>3, <1>5
<1>9. Later(x, y)
  BY <1>1, <1>7, <1>8 DEF Later, IsWhole
<1>10. Held(x, y)
  BY <1>8 DEF Held, HoldsOf
<1> QED BY <1>1, <1>3, <1>5, <1>9, <1>10 DEF Follows, last, id

(* work::create_work_in_publication *)
LEMMA CreateWorkInFollows ==
  ASSUME NEW x, IsWhole(x), NEW p, NEW input
  PROVE Follows(x, CreateWorkIn(x, p, input))
<1> DEFINE created == InsertWork(x, RowOf(input))
           linked == LinkWork(created, p, created.id)
           written == WriteLinkedWork(linked, created.id, input)
<1>1. Follows(x, created)
  BY Inserts, InsertFollows
<1>2. CreateWorkIn(x, p, input) = written
  BY DEF CreateWorkIn
<1> HIDE DEF created
<1>3. Follows(created, linked)
  BY <1>1, LinkWorkFollows DEF Follows, Later
<1> HIDE DEF linked
<1>4. Follows(linked, written)
  BY <1>3, WriteLinkedWorkFollows DEF Follows, Later
<1> HIDE DEF written
<1>5. Follows(x, linked)
  BY <1>1, <1>3, FollowsOn DEF Follows
<1> QED BY <1>2, <1>4, <1>5, FollowsOn DEF Follows

(* work::link_or_create_work *)
LEMMA LinkOrCreateWorkFollows ==
  ASSUME NEW x, IsWhole(x), NEW p, NEW input
  PROVE Follows(x, LinkOrCreateWork(x, p, input))
<1> DEFINE w == input.ref[2]
           linked == LinkWork(x, p, w)
           written == WriteLinkedWork(linked, w, input)
<1>1. LinkOrCreateWork(x, p, input) \in {x, written, linked, CreateWorkIn(x, p, input)}
  BY DEF LinkOrCreateWork
<1>2. Follows(x, linked)
  BY LinkWorkFollows
<1> HIDE DEF linked
<1>3. Follows(linked, written)
  BY <1>2, WriteLinkedWorkFollows DEF Follows, Later
<1> HIDE DEF written
<1>4. Follows(x, written)
  BY <1>2, <1>3, FollowsOn DEF Follows
<1>5. Follows(x, x)
  BY StillFollows
<1>6. Follows(x, CreateWorkIn(x, p, input))
  BY CreateWorkInFollows
<1> QED BY ONLY <1>1, <1>2, <1>4, <1>5, <1>6

(* The contents of a new publication. *)
LEMMA AddContentsFollow ==
  ASSUME NEW a, IsWhole(a.x), NEW p, NEW contents, NEW n \in Nat, DOMAIN contents = 1..n
  PROVE Follows(a.x, AddContents(a, p, contents).x)
<1>2. PICK h : Trace(<<"add", p>>, a, contents, n, h) /\ h[n] = AddContents(a, p, contents)
  BY AddFold
<1>3. h[0] = a /\ \A k \in 1..n : h[k] = AddContent(h[k-1], p, contents[k])
  <2>1. h[0] = a /\ \A k \in 1..n : h[k] = StepOf(<<"add", p>>, h[k-1], contents[k])
    BY <1>2 DEF Trace
  <2>2. \A b, r : StepOf(<<"add", p>>, b, r) = AddContent(b, p, r)
    BY AddFold
  <2> QED BY ONLY <2>1, <2>2
<1> DEFINE T == {k \in 0..n : Follows(a.x, h[k].x)}
<1>4. 0 \in T
  <2>1. Follows(a.x, a.x)
    BY StillFollows
  <2> QED BY <1>3, <2>1
<1>5. ASSUME NEW k \in 1..n, k - 1 \in T PROVE k \in T
  <2> DEFINE b == h[k-1].x
             y == LinkOrCreateWork(b, p, contents[k])
             ids == Append(h[k-1].ids, y.id)
  <2>1. Follows(a.x, b)
    BY <1>5
  <2>2. h[k] = [x |-> y, ids |-> ids]
    BY <1>3 DEF AddContent
  <2> HIDE DEF b
  <2>3. Follows(b, y)
    BY <2>1, LinkOrCreateWorkFollows DEF Follows, Later
  <2> HIDE DEF y, ids
  <2>4. Follows(a.x, h[k].x)
    BY <2>1, <2>2, <2>3, FollowsOn DEF Follows
  <2> QED BY <2>4
<1> HIDE DEF T
<1>6. n \in T
  BY <1>4, <1>5, Induction
<1> QED BY <1>2, <1>6 DEF T

(* The contents of a publication that is written again; after an error nothing is. *)
LEMMA WriteContentsFollow ==
  ASSUME NEW x, IsWhole(x), NEW p, NEW before, NEW contents, NEW n \in Nat, DOMAIN contents = 1..n
  PROVE /\ Follows(x, WriteContents(x, p, before, contents))
        /\ x.ok = FALSE => WriteContents(x, p, before, contents) = x
<1>2. PICK h : Trace(<<"write", p, before>>, x, contents, n, h) /\ h[n] = WriteContents(x, p, before, contents)
  BY WriteFold
<1>3. h[0] = x /\ \A k \in 1..n : h[k] = WriteContent(h[k-1], p, before, contents[k])
  <2>1. h[0] = x /\ \A k \in 1..n : h[k] = StepOf(<<"write", p, before>>, h[k-1], contents[k])
    BY <1>2 DEF Trace
  <2>2. \A a, r : StepOf(<<"write", p, before>>, a, r) = WriteContent(a, p, before, r)
    BY WriteFold
  <2> QED BY ONLY <2>1, <2>2
<1> DEFINE T == {k \in 0..n : Follows(x, h[k]) /\ (x.ok = FALSE => h[k] = x)}
<1>4. 0 \in T
  <2>1. Follows(x, x)
    BY StillFollows
  <2> QED BY <1>3, <2>1
<1>5. ASSUME NEW k \in 1..n, k - 1 \in T PROVE k \in T
  <2> DEFINE y == h[k-1]
             input == contents[k]
  <2>1. h[k] = WriteContent(y, p, before, input)
    BY <1>3
  <2>2. Follows(x, y) /\ (x.ok = FALSE => y = x)
    BY <1>5
  <2> HIDE DEF y, input
  <2>3. IsWhole(y)
    BY <2>2 DEF Follows, Later
  <2>4. h[k] \in {WriteLinkedWork(y, input.ref[2], input), LinkOrCreateWork(y, p, input)}
    BY <2>1 DEF WriteContent
  <2>5. Follows(y, h[k])
    BY <2>3, <2>4, WriteLinkedWorkFollows, LinkOrCreateWorkFollows
  <2>6. y.ok = FALSE => h[k] = y
    BY <2>1 DEF WriteContent, LinkOrCreateWork
  <2>7. Follows(x, h[k])
    BY <2>2, <2>5, FollowsOn DEF Follows
  <2> QED BY <2>2, <2>6, <2>7
<1> HIDE DEF T
<1>6. n \in T
  BY <1>4, <1>5, Induction
<1> QED BY <1>2, <1>6 DEF T

\* Unless y failed, of the publication is held what the row says.
IsHeldAs(x, y, p, row) ==
    y.ok # FALSE /\ p \in DOMAIN x.t.pubs /\ "held" \in DOMAIN row =>
      p \in DOMAIN y.t.pubs /\ "held" \in DOMAIN y.t.pubs[p] /\ y.t.pubs[p].held = row.held

(* Everything about a publication but its contents, what is held of it included. *)
LEMMA WriteChildrenLater ==
  ASSUME NEW x, IsWhole(x), NEW p, NEW row
  PROVE /\ Later(x, WriteChildren(x, p, row))
        /\ IsHeldAs(x, WriteChildren(x, p, row), p, row)
<1> DEFINE new == With(row, "works", x.t.pubs[p].works)
           y == [x EXCEPT !.t.pubs[p] = new]
           written == WriteChildren(x, p, row)
<1>1. /\ DOMAIN x = {"t", "merges", "events", "ok", "id"}
      /\ {"pubs", "works", "people", "library", "about", "last"} \subseteq DOMAIN x.t
  BY IdsAre DEF IsWhole
<1>2. written \in {y, Fail(x)}
  BY <1>1 DEF WriteChildren
<1>3. "held" \in DOMAIN row => "held" \in DOMAIN new /\ new.held = row.held
  BY DEF With
<1> HIDE DEF new
<1>4. /\ DOMAIN y = DOMAIN x /\ y.events = x.events /\ DOMAIN y.t = DOMAIN x.t
      /\ y.t.last = x.t.last /\ y.t.pubs = [x.t.pubs EXCEPT ![p] = new] /\ y.t.works = x.t.works
      /\ y.t.people = x.t.people /\ y.t.about = x.t.about
  BY <1>1
<1> HIDE DEF y
<1>5. Later(x, y)
  BY <1>4, RowsStay
<1>6. IsHeldAs(x, y, p, row)
  BY <1>3, <1>4 DEF IsHeldAs
<1>7. Later(x, Fail(x)) /\ Fail(x).ok = FALSE
  BY StillFollows DEF Follows
<1>8. IsHeldAs(x, Fail(x), p, row)
  BY <1>7 DEF IsHeldAs
<1> HIDE DEF written
<1> QED BY <1>2, <1>5, <1>6, <1>7, <1>8 DEF written

(* publication::create_publication *)
LEMMA CreatePublicationLater ==
  ASSUME NEW x, IsWhole(x), NEW row, NEW contents, NEW n \in Nat, DOMAIN contents = 1..n
  PROVE Later(x, CreatePublication(x, row, contents).x)
<1> DEFINE inserted == InsertPublication(x, row)
           p == inserted.id
           children == WriteChildren(inserted, p, row)
           a == [x |-> children, ids |-> <<>>]
           written == AddContents(a, p, contents)
<1>1. Later(x, inserted)
  BY Inserts, InsertFollows DEF Follows
<1>2. CreatePublication(x, row, contents).x \in {written.x, Fail(x)}
  <2>1. [x |-> Fail(x), ids |-> <<>>].x = Fail(x)
    OBVIOUS
  <2> QED BY <2>1 DEF CreatePublication
<1> HIDE DEF inserted
<1>3. Later(inserted, children)
  BY <1>1, WriteChildrenLater DEF Later
<1> HIDE DEF children
<1>4. a.x = children /\ IsWhole(children)
  BY <1>3 DEF Later
<1> HIDE DEF a
<1>5. Later(children, written.x)
  BY <1>4, AddContentsFollow DEF Follows
<1> HIDE DEF written
<1>6. Later(x, written.x)
  BY <1>1, <1>3, <1>5, FollowsOn
<1>7. Later(x, Fail(x))
  BY StillFollows DEF Follows
<1> QED BY <1>2, <1>6, <1>7

(* Publication::update up to its collection: unless it fails, the publication is there and *)
(* held as the form says.                                                                  *)
LEMMA WritePublicationLater ==
  ASSUME NEW x, IsWhole(x), NEW p, NEW row, NEW contents, NEW n \in Nat, DOMAIN contents = 1..n
  PROVE /\ Later(x, WritePublication(x, p, row, contents))
        /\ IsHeldAs(x, WritePublication(x, p, row, contents), p, row)
<1> DEFINE before == x.t.pubs[p].works
           named == {c.ref[2] : c \in {c \in ToSet(contents) : c.ref[1] = "stored"}}
           written == WriteChildren(x, p, row)
           unlinked == [written EXCEPT !.t.pubs[p] = With(written.t.pubs[p], "works", before \intersect named)]
           y == WriteContents(unlinked, p, before, contents)
<1>1. Later(x, written) /\ IsHeldAs(x, written, p, row)
  BY WriteChildrenLater
<1>2. WritePublication(x, p, row, contents) = y
  <2>1. "t" \in DOMAIN written /\ "pubs" \in DOMAIN written.t
    BY <1>1, IdsAre DEF Later, IsWhole
  <2> QED BY <2>1 DEF WritePublication
<1> HIDE DEF written, before, named
<1>3. Follows(written, unlinked)
  BY <1>1, WorksOfFollows DEF Later
<1>4. unlinked.ok = written.ok
  BY <1>1 DEF Later, IsWhole
<1> HIDE DEF unlinked
<1>5. Follows(unlinked, y) /\ (unlinked.ok = FALSE => y = unlinked)
  BY <1>3, WriteContentsFollow DEF Follows, Later
<1> HIDE DEF y
<1>6. Later(x, y)
  BY <1>1, <1>3, <1>5, FollowsOn DEF Follows
<1>7. Follows(written, y)
  BY <1>3, <1>5, FollowsOn DEF Follows
<1>8. HoldsOf(written, y, p)
  BY <1>7 DEF Follows, Held
<1>9. IsHeldAs(x, y, p, row)
  BY <1>1, <1>4, <1>5, <1>8 DEF HoldsOf, IsHeldAs
<1> QED BY <1>2, <1>6, <1>9

(* The people of a form are created, and nothing else. *)
LEMMA CreateNewPersonsFollow ==
  ASSUME NEW x, IsWhole(x), NEW persons \in Parties
  PROVE Follows(x, CreateNewPersons(x, persons).x) /\ CreateNewPersons(x, persons).x.ok = x.ok
<1> DEFINE new == {p \in persons : p[1] = "new"}
           seq == SetToSeq(new)
           n == Cardinality(new)
           base == [x |-> x, id |-> [p \in persons \ new |-> p[2]]]
<1>1. CreateNewPersons(x, persons) = CreateEach(base, seq)
  BY DEF CreateNewPersons
<1>2. n \in Nat /\ seq \in [1 .. n -> new]
  <2>1. new \in SUBSET persons /\ IsFiniteSet(persons)
    BY DEF Parties
  <2>2. IsFiniteSet(new)
    BY <2>1, FS_Subset
  <2> HIDE DEF new
  <2>3. n \in Nat /\ ExistsBijection(1 .. n, new)
    BY <2>2, FS_CardinalityType
  <2>4. \E f \in [1 .. n -> new] : IsInjective(f)
    BY <2>3 DEF ExistsBijection, Bijection, Injection
  <2> QED BY <2>3, <2>4 DEF SetToSeq
<1>3. DOMAIN seq = 1 .. n /\ base.x = x
  BY <1>2
<1> HIDE DEF seq, n, base, new
<1>4. PICK h : Trace(<<"person">>, base, seq, n, h) /\ h[n] = CreateEach(base, seq)
  BY <1>2, <1>3, PersonFold
<1>5. h[0] = base /\ \A k \in 1 .. n : h[k] = CreateNewPerson(h[k-1], seq[k])
  <2>1. h[0] = base /\ \A k \in 1..n : h[k] = StepOf(<<"person">>, h[k-1], seq[k])
    BY <1>4 DEF Trace
  <2>2. \A b, r : StepOf(<<"person">>, b, r) = CreateNewPerson(b, r)
    BY <1>2, <1>3, PersonFold
  <2> QED BY ONLY <2>1, <2>2
<1> DEFINE T == {k \in 0 .. n : Follows(x, h[k].x) /\ h[k].x.ok = x.ok}
<1>6. 0 \in T
  <2>1. Follows(x, x)
    BY StillFollows
  <2> QED BY <1>2, <1>3, <1>5, <2>1
<1>7. ASSUME NEW k \in 1 .. n, k - 1 \in T PROVE k \in T
  <2> DEFINE a == h[k-1]
             y == CreatePerson(a.x, seq[k][2])
             id == With(a.id, seq[k], y.id)
  <2>1. h[k] = [x |-> y, id |-> id]
    BY <1>5 DEF CreateNewPerson
  <2>2. Follows(x, a.x) /\ a.x.ok = x.ok
    BY <1>7
  <2> HIDE DEF a
  <2>3. IsWhole(a.x)
    BY <2>2 DEF Follows, Later
  <2>4. IsInsertOf(a.x, "people", seq[k][2], y)
    BY <2>3, Inserts
  <2> HIDE DEF y, id
  <2>5. Follows(a.x, y)
    BY <2>3, <2>4, InsertFollows
  <2>6. y.ok = a.x.ok
    BY <2>4 DEF IsInsertOf
  <2>7. Follows(x, y)
    BY <2>2, <2>5, FollowsOn DEF Follows
  <2>8. Follows(x, h[k].x) /\ h[k].x.ok = x.ok
    BY <2>1, <2>2, <2>6, <2>7
  <2> QED BY <1>2, <2>8
<1> HIDE DEF T
<1>8. n \in T
  BY <1>2, <1>6, <1>7, Induction
<1> QED BY <1>1, <1>4, <1>8 DEF T

-----------------------------------------------------------------------------
(***************************************************************************)
(* What a transaction's entries account for                                *)
(***************************************************************************)

Tables == {"pubs", "works", "people"}

\* What the collection of orphans makes y of x.
IsCollected(x, y) ==
    /\ IsWhole(y) /\ y.ok = x.ok /\ y.id = x.id /\ y.merges = x.merges
    /\ y.t.library = x.t.library /\ y.t.about = x.t.about /\ y.t.last = x.t.last
    /\ DOMAIN y.t.pubs = HeldPubs(x.t)
    /\ \A table \in Tables : /\ DOMAIN y.t[table] \subseteq DOMAIN x.t[table]
                             /\ \A id \in DOMAIN y.t[table] : y.t[table][id] = x.t[table][id]
    /\ \A w \in DOMAIN y.t.works : x.t.works[w].composers \intersect DOMAIN x.t.people \subseteq DOMAIN y.t.people
    /\ y.events = x.events \union
                    {Event("orphan_cleanup", "deleted", e, "none") : e \in Entities(x.t) \ Entities(y.t)}

(* It is told of every row that it takes, and changes no other. *)
LEMMA CollectionTells ==
  ASSUME NEW x, IsWhole(x)
  PROVE IsCollected(x, Collected(x))
<1> DEFINE t0 == x.t
           pubs == Restrict(t0.pubs, HeldPubs(t0))
           t1 == [t0 EXCEPT !.pubs = pubs]
           works == Restrict(t1.works, DOMAIN t1.works \intersect ContainedWorks(t1))
           t2 == [t1 EXCEPT !.works = works]
           people == Restrict(t2.people, DOMAIN t2.people \intersect CreditedPeople(t2))
           t3 == [t2 EXCEPT !.people = people]
           events == x.events \union
                       {Event("orphan_cleanup", "deleted", e, "none") : e \in Entities(t0) \ Entities(t3)}
           y == Collected(x)
<1>1. /\ DOMAIN x = {"t", "merges", "events", "ok", "id"} /\ HasIds(t0) /\ 1 \in DOMAIN t0.about
      /\ {"pubs", "works", "people", "library", "about", "last"} \subseteq DOMAIN t0
  BY IdsAre DEF IsWhole
<1>2. CollectOrphans(t0) = t3
  BY <1>1 DEF CollectOrphans, CollectPubs, CollectWorks, CollectPeople
<1>3. y = [[x EXCEPT !.t = t3] EXCEPT !.events = events]
  <2> DEFINE left == t3
  <2> HIDE DEF left
  <2>1. CollectOrphans(x.t) = left
    BY <1>2 DEF left
  <2>2. y = [[x EXCEPT !.t = left] EXCEPT
               !.events = x.events \union {Event("orphan_cleanup", "deleted", e, "none") : e \in Entities(x.t) \ Entities(left)}]
    BY <1>1, <2>1 DEF Collected
  <2> QED BY <2>2 DEF left
<1> HIDE DEF y
<1>4. /\ DOMAIN pubs = HeldPubs(t0) /\ DOMAIN pubs \subseteq DOMAIN t0.pubs
      /\ \A id \in DOMAIN pubs : pubs[id] = t0.pubs[id]
  BY DEF Restrict, HeldPubs
<1> HIDE DEF pubs
<1>5. t1.works = t0.works /\ t1.people = t0.people /\ t1.pubs = pubs /\ DOMAIN t1 = DOMAIN t0
      /\ t1.library = t0.library /\ t1.about = t0.about /\ t1.last = t0.last
  BY <1>1
<1> HIDE DEF t1
<1>6. /\ DOMAIN works \subseteq DOMAIN t0.works /\ \A id \in DOMAIN works : works[id] = t0.works[id]
  BY <1>5 DEF Restrict
<1> HIDE DEF works
<1>7. t2.works = works /\ t2.people = t0.people /\ t2.pubs = pubs /\ DOMAIN t2 = DOMAIN t0
      /\ t2.library = t0.library /\ t2.about = t0.about /\ t2.last = t0.last
  BY <1>1, <1>5
<1> HIDE DEF t2
<1>8. /\ DOMAIN people = DOMAIN t2.people \intersect CreditedPeople(t2)
      /\ \A id \in DOMAIN people : people[id] = t2.people[id]
  BY DEF Restrict
<1> HIDE DEF people
<1>9. t3.works = works /\ t3.people = people /\ t3.pubs = pubs /\ DOMAIN t3 = DOMAIN t0
      /\ t3.library = t0.library /\ t3.about = t0.about /\ t3.last = t0.last
  BY <1>1, <1>7
<1> HIDE DEF t3
<1>10. \A w \in DOMAIN works : t0.works[w].composers \intersect DOMAIN t0.people \subseteq DOMAIN people
  <2> SUFFICES ASSUME NEW w \in DOMAIN works, NEW who \in DOMAIN t0.people, who \in t0.works[w].composers
               PROVE who \in DOMAIN people
    OBVIOUS
  <2>1. who \in CreditedPeople(t2)
    BY <1>6, <1>7 DEF CreditedPeople
  <2> QED BY <1>7, <1>8, <2>1
<1>11. DOMAIN people \subseteq DOMAIN t0.people /\ \A id \in DOMAIN people : people[id] = t0.people[id]
  BY <1>7, <1>8
<1>12. HasIds(t3)
  BY <1>1, <1>4, <1>6, <1>9, <1>11, IdsStay
<1> HIDE DEF events
<1>13. DOMAIN y = DOMAIN x /\ y.t = t3 /\ y.events = events /\ y.ok = x.ok /\ y.id = x.id /\ y.merges = x.merges
  BY <1>1, <1>3
<1>14. IsWhole(y)
  BY <1>1, <1>12, <1>13 DEF IsWhole
<1>15. \A table \in Tables : /\ DOMAIN y.t[table] \subseteq DOMAIN x.t[table]
                             /\ \A id \in DOMAIN y.t[table] : y.t[table][id] = x.t[table][id]
  <2>1. /\ DOMAIN y.t.pubs \subseteq DOMAIN x.t.pubs /\ \A id \in DOMAIN y.t.pubs : y.t.pubs[id] = x.t.pubs[id]
        /\ DOMAIN y.t.works \subseteq DOMAIN x.t.works /\ \A id \in DOMAIN y.t.works : y.t.works[id] = x.t.works[id]
        /\ DOMAIN y.t.people \subseteq DOMAIN x.t.people /\ \A id \in DOMAIN y.t.people : y.t.people[id] = x.t.people[id]
    BY <1>4, <1>6, <1>9, <1>11, <1>13
  <2> QED BY <2>1 DEF Tables
<1>16. IsCollected(x, y)
  <2>1. y.events = x.events \union
                     {Event("orphan_cleanup", "deleted", e, "none") : e \in Entities(x.t) \ Entities(y.t)}
    BY <1>13 DEF events
  <2>2. DOMAIN y.t.pubs = HeldPubs(x.t)
    BY <1>4, <1>9, <1>13
  <2>3. \A w \in DOMAIN y.t.works : x.t.works[w].composers \intersect DOMAIN x.t.people \subseteq DOMAIN y.t.people
    BY <1>9, <1>10, <1>13
  <2> QED BY <1>9, <1>13, <1>14, <1>15, <2>1, <2>2, <2>3 DEF IsCollected
<1> QED BY <1>16 DEF y

\* An entity whose id was given out.
IsKnown(tables, e) == e[1] \in DOMAIN KindOf /\ e[2] \in 1 .. tables.last[e[1]]
Absorbs(x, e) == \E m \in ToSet(x.merges) : e = <<"works", m.from>>
Columns(tables, e) == DOMAIN tables[e[1]][e[2]]
\* A field that differs and is told of.
IsTold(x, before, e, f) == TellsField(x.events, e, f) \/ IsMerged(x.events, x.merges, before, e, f)

\* The entries of x account for what it made of the tables it began with,
Accounts(before, x) ==
    /\ \A e \in Entities(before) : IsKnown(x.t, e)
    /\ \A ev \in x.events : ev.action = "deleted" => IsKnown(x.t, ev.on)
    /\ \A e \in Entities(x.t) : e \in Entities(before) \/ Tells(x.events, "created", e)
    /\ \A e \in Entities(before) : e \in Entities(x.t) \/ Absorbs(x, e) \/ Tells(x.events, "deleted", e)
    /\ \A e \in Entities(x.t) : ~Tells(x.events, "deleted", e)
    /\ \A e \in Lasting(before, x.t) :
          /\ Columns(before, e) \subseteq Columns(x.t, e)
          /\ \A f \in ChangesOf(before, x.t, e) : IsTold(x, before, e, f)
\* or it deleted the library, which stands for everything in it.
IsAccounted(before, x) ==
    IF before.library /\ ~x.t.library
    THEN Tells(x.events, "deleted", Library) /\ Entities(x.t) = {}
    ELSE (x.t.library => before.library) /\ Accounts(before, x)

\* What a call that makes y of x adds to that.
KeepsKnown(x, y) ==
    /\ y.t.last \in [Tables -> Nat]
    /\ \A table \in Tables : x.t.last[table] <= y.t.last[table]
KeepsEntries(x, y) == x.events \subseteq y.events /\ ToSet(x.merges) \subseteq ToSet(y.merges)
TellsComing(x, y) ==
    \A e \in Entities(y.t) :
      e \in Entities(x.t) \/ (Tells(y.events, "created", e) /\ ~IsKnown(x.t, e))
TellsGoing(x, y) ==
    \A e \in Entities(x.t) : e \in Entities(y.t) \/ Absorbs(y, e) \/ Tells(y.events, "deleted", e)
TellsGone(x, y) ==
    \A ev \in y.events : ev.action = "deleted" =>
      ev \in x.events \/ (ev.on \notin Entities(y.t) /\ IsKnown(y.t, ev.on))
TellsFields(x, y) ==
    \A e \in Lasting(x.t, y.t) :
      /\ Columns(x.t, e) \subseteq Columns(y.t, e)
      /\ \A f \in Columns(x.t, e) : y.t[e[1]][e[2]][f] = x.t[e[1]][e[2]][f] \/ IsTold(y, x.t, e, f)
Tracks(x, y) ==
    /\ KeepsKnown(x, y) /\ KeepsEntries(x, y)
    /\ TellsComing(x, y) /\ TellsGoing(x, y) /\ TellsGone(x, y) /\ TellsFields(x, y)

(* The entities are rows, and known. *)
LEMMA EntitiesKnown ==
  ASSUME NEW tables, HasIds(tables), NEW e \in Entities(tables)
  PROVE IsKnown(tables, e)
<1>1. PICK table \in DOMAIN KindOf : \E id \in DOMAIN tables[table] : e = <<table, id>>
  BY EntitiesAre
<1> QED BY <1>1 DEF HasIds, IsNumbered, IsKnown

(* One call after another. *)
LEMMA AccountsOn ==
  ASSUME NEW before, NEW x, NEW y, Accounts(before, x), HasIds(x.t), Tracks(x, y)
  PROVE Accounts(before, y)
<1>1. \A e : IsKnown(x.t, e) => IsKnown(y.t, e)
  <2>1. DOMAIN KindOf = Tables
    BY DEF KindOf, Tables
  <2>2. \A table \in Tables : x.t.last[table] \in Nat /\ y.t.last[table] \in Nat /\ x.t.last[table] <= y.t.last[table]
    BY <2>1 DEF HasIds, IsNumbered, Tracks, KeepsKnown
  <2> QED BY <2>1, <2>2 DEF IsKnown
<1>2. \A action, e : Tells(x.events, action, e) => Tells(y.events, action, e)
  BY DEF Tracks, KeepsEntries, Tells
<1>3. \A e, f : TellsField(x.events, e, f) => TellsField(y.events, e, f)
  BY DEF Tracks, KeepsEntries, TellsField
<1>4. \A e : Absorbs(x, e) => Absorbs(y, e)
  BY DEF Tracks, KeepsEntries, Absorbs
<1>5. \A e, f : IsTold(x, before, e, f) => IsTold(y, before, e, f)
  BY <1>2, <1>3 DEF IsTold, IsMerged, Tracks, KeepsEntries
<1>6. \A e \in Entities(before) : IsKnown(y.t, e)
  BY <1>1 DEF Accounts
<1>7. \A ev \in y.events : ev.action = "deleted" => IsKnown(y.t, ev.on)
  BY <1>1 DEF Accounts, Tracks, TellsGone
<1>8. \A e \in Entities(y.t) : e \in Entities(before) \/ Tells(y.events, "created", e)
  BY <1>2 DEF Accounts, Tracks, TellsComing
<1>9. \A e \in Entities(before) : e \in Entities(y.t) \/ Absorbs(y, e) \/ Tells(y.events, "deleted", e)
  BY <1>2, <1>4 DEF Accounts, Tracks, TellsGoing
<1>10. \A e \in Entities(y.t) : ~Tells(y.events, "deleted", e)
  <2> SUFFICES ASSUME NEW e \in Entities(y.t), NEW ev \in y.events, ev.action = "deleted", ev.on = e
               PROVE FALSE
    BY DEF Tells
  <2>1. ev \in x.events
    BY DEF Tracks, TellsGone
  <2>2. IsKnown(x.t, e)
    BY <2>1 DEF Accounts
  <2>3. e \in Entities(x.t)
    BY <2>2 DEF Tracks, TellsComing
  <2> QED BY <2>1, <2>3 DEF Accounts, Tells
<1>11. ASSUME NEW e \in Lasting(before, y.t)
       PROVE e \in Lasting(before, x.t) /\ e \in Lasting(x.t, y.t)
  BY <1>11 DEF Lasting, Accounts, Tracks, TellsComing
<1>12. ASSUME NEW e \in Lasting(before, y.t)
       PROVE Columns(before, e) \subseteq Columns(x.t, e) /\ Columns(x.t, e) \subseteq Columns(y.t, e)
  BY <1>11 DEF Accounts, Tracks, TellsFields
<1>13. ASSUME NEW e \in Lasting(before, y.t), NEW f \in ChangesOf(before, y.t, e)
       PROVE IsTold(y, before, e, f)
  <2>1. e \in Lasting(before, x.t) /\ e \in Lasting(x.t, y.t)
    BY <1>11
  <2>2. /\ f \in Columns(before, e) /\ before[e[1]][e[2]][f] # y.t[e[1]][e[2]][f]
        /\ f \in Columns(x.t, e)
    BY <1>12 DEF ChangesOf, Columns
  <2>3. CASE before[e[1]][e[2]][f] # x.t[e[1]][e[2]][f]
    <3>1. f \in ChangesOf(before, x.t, e)
      BY <2>2, <2>3 DEF ChangesOf, Columns
    <3> QED BY <1>5, <2>1, <3>1 DEF Accounts
  <2>4. CASE before[e[1]][e[2]][f] = x.t[e[1]][e[2]][f]
    <3>1. IsTold(y, x.t, e, f)
      BY <2>1, <2>2, <2>4 DEF Tracks, TellsFields
    <3> QED BY <2>4, <3>1 DEF IsTold, IsMerged
  <2> QED BY <2>3, <2>4
<1> QED BY <1>6, <1>7, <1>8, <1>9, <1>10, <1>11, <1>12, <1>13 DEF Accounts

(* The collection of orphans is such a call. *)
LEMMA CollectionTracks ==
  ASSUME NEW x, IsWhole(x)
  PROVE Tracks(x, Collected(x))
<1> DEFINE y == Collected(x)
<1>1. IsCollected(x, y)
  BY CollectionTells
<1> HIDE DEF y
<1>2. DOMAIN KindOf = Tables /\ HasIds(x.t)
  BY DEF KindOf, Tables, IsWhole
<1>3. x.t.last \in [Tables -> Nat]
  BY <1>2 DEF HasIds, IsNumbered
<1>4. KeepsKnown(x, y) /\ KeepsEntries(x, y)
  BY <1>1, <1>3 DEF IsCollected, KeepsKnown, KeepsEntries
<1>5. \A e \in Entities(y.t) : e \in Entities(x.t)
  BY <1>1, <1>2, EntitiesAre DEF IsCollected
<1>6. \A e : Event("orphan_cleanup", "deleted", e, "none").action = "deleted"
             /\ Event("orphan_cleanup", "deleted", e, "none").on = e
  BY DEF Event
<1>7. TellsComing(x, y)
  BY <1>5 DEF TellsComing
<1>8. TellsGoing(x, y)
  BY <1>1, <1>6 DEF TellsGoing, IsCollected, Tells
<1>9. TellsGone(x, y)
  <2> SUFFICES ASSUME NEW ev \in y.events, ev.action = "deleted", ev \notin x.events
               PROVE ev.on \notin Entities(y.t) /\ IsKnown(y.t, ev.on)
    BY DEF TellsGone
  <2>1. ev.on \in Entities(x.t) \ Entities(y.t)
    BY <1>1, <1>6 DEF IsCollected
  <2>2. IsKnown(x.t, ev.on)
    BY <1>2, <2>1, EntitiesKnown
  <2> QED BY <1>1, <2>1, <2>2 DEF IsCollected, IsKnown
<1>10. TellsFields(x, y)
  <2> SUFFICES ASSUME NEW e \in Lasting(x.t, y.t)
               PROVE y.t[e[1]][e[2]] = x.t[e[1]][e[2]]
    BY DEF TellsFields, Columns
  <2>1. CASE e = Library
    BY <1>1, <2>1 DEF IsCollected, Library
  <2>2. CASE e \in Entities(y.t)
    <3>1. PICK table \in Tables : \E id \in DOMAIN y.t[table] : e = <<table, id>>
      BY <1>2, <2>2, EntitiesAre
    <3> QED BY <1>1, <3>1 DEF IsCollected
  <2> QED BY <2>1, <2>2 DEF Lasting
<1> QED BY <1>4, <1>7, <1>8, <1>9, <1>10 DEF Tracks, y

-----------------------------------------------------------------------------
(***************************************************************************)
(* What each call of an edit tells                                         *)
(***************************************************************************)

\* What a statement on one field of one row makes y of x.
IsRowChange(x, y, table, id, f) ==
    /\ IsWhole(y) /\ y.events = x.events /\ y.merges = x.merges
    /\ y.t.library = x.t.library /\ y.t.last = x.t.last
    /\ \A k \in Tables \union {"about"} : DOMAIN y.t[k] = DOMAIN x.t[k]
    /\ \A k \in Tables \union {"about"} : \A i \in DOMAIN x.t[k] :
          /\ DOMAIN y.t[k][i] = DOMAIN x.t[k][i]
          /\ \A g \in DOMAIN x.t[k][i] : k # table \/ i # id \/ g # f => y.t[k][i][g] = x.t[k][i][g]

\* A call that its caller can go on from: on whole tables, of a library that is there.
MergeIds == [from : Nat, into : Nat]
GoesOn(x, y) ==
    IsWhole(y) /\ Tracks(x, y) /\ y.t.library = x.t.library
    /\ (x.merges \in Seq(MergeIds) => y.merges \in Seq(MergeIds))

(* A statement is told of by its row and field. *)
LEMMA SetsTell ==
  ASSUME NEW x, IsWhole(x), NEW table, NEW id, NEW f, NEW z, IsRowChange(x, z, table, id, f)
  PROVE GoesOn(x, IF z.t = x.t THEN z ELSE Record(z, "user", "updated", <<table, id>>, f))
<1> DEFINE event == Event("user", "updated", <<table, id>>, f)
           told0 == Record(z, "user", "updated", <<table, id>>, f)
           y == IF z.t = x.t THEN z ELSE told0
<1>1. /\ IsWhole(z) /\ z.events = x.events /\ z.merges = x.merges
      /\ z.t.library = x.t.library /\ z.t.last = x.t.last
      /\ \A k \in Tables \union {"about"} : DOMAIN z.t[k] = DOMAIN x.t[k]
      /\ \A k \in Tables \union {"about"} : \A i \in DOMAIN x.t[k] :
            /\ DOMAIN z.t[k][i] = DOMAIN x.t[k][i]
            /\ \A g \in DOMAIN x.t[k][i] : k # table \/ i # id \/ g # f => z.t[k][i][g] = x.t[k][i][g]
  BY DEF IsRowChange
<1>2. DOMAIN told0 = DOMAIN z /\ told0.t = z.t /\ told0.events = z.events \union {event} /\ told0.merges = z.merges
  BY <1>1 DEF IsWhole, Record
<1>3. event.action = "updated" /\ event.on = <<table, id>> /\ event.field = f
  BY DEF Event
<1> HIDE DEF told0, event
<1>4. /\ DOMAIN y = DOMAIN z /\ y.t = z.t /\ y.merges = z.merges
      /\ y.events = (IF z.t = x.t THEN x.events ELSE x.events \union {event})
  BY <1>1, <1>2
<1> HIDE DEF y
<1>5. IsWhole(y)
  BY <1>1, <1>4 DEF IsWhole
<1>6. DOMAIN KindOf = Tables /\ HasIds(x.t)
  BY DEF KindOf, Tables, IsWhole
<1>7. x.t.last \in [Tables -> Nat]
  BY <1>6 DEF HasIds, IsNumbered
<1>8. KeepsKnown(x, y) /\ KeepsEntries(x, y)
  BY <1>1, <1>4, <1>7 DEF KeepsKnown, KeepsEntries
<1>9. Entities(y.t) = Entities(x.t)
  BY <1>1, <1>4 DEF Entities, Tables
<1>10. TellsComing(x, y) /\ TellsGoing(x, y)
  BY <1>9 DEF TellsComing, TellsGoing
<1>11. TellsGone(x, y)
  BY <1>3, <1>4 DEF TellsGone
<1>12. TellsFields(x, y)
  <2>1. \A e \in Lasting(x.t, y.t) : \E k \in Tables \union {"about"} : \E i \in DOMAIN x.t[k] : e = <<k, i>>
    <3>1. 1 \in DOMAIN x.t.about
      BY <1>6, IdsAre
    <3>2. \A e \in Lasting(x.t, y.t) : e = <<"about", 1>> \/ e \in Entities(x.t)
      BY DEF Lasting, Library
    <3> QED BY <1>6, <3>1, <3>2, EntitiesAre
  <2>2. ASSUME NEW k \in Tables \union {"about"}, NEW i \in DOMAIN x.t[k], NEW e, e = <<k, i>>
        PROVE /\ Columns(x.t, e) \subseteq Columns(y.t, e)
              /\ \A g \in Columns(x.t, e) : y.t[e[1]][e[2]][g] = x.t[e[1]][e[2]][g] \/ TellsField(y.events, e, g)
    <3>1. e[1] = k /\ e[2] = i
      BY <2>2
    <3>2. DOMAIN y.t[k][i] = DOMAIN x.t[k][i]
      BY <1>1, <1>4
    <3>3. ASSUME NEW g \in DOMAIN x.t[k][i], y.t[k][i][g] # x.t[k][i][g]
          PROVE TellsField(y.events, e, g)
      <4>1. k = table /\ i = id /\ g = f
        BY <1>1, <1>4, <3>3
      <4>2. event \in y.events
        BY <1>4, <3>3
      <4> QED BY <1>3, <2>2, <4>1, <4>2 DEF TellsField
    <3> QED BY <3>1, <3>2, <3>3 DEF Columns
  <2> QED BY <2>1, <2>2 DEF TellsFields, IsTold
<1>13. Tracks(x, y)
  BY <1>8, <1>10, <1>11, <1>12 DEF Tracks
<1>14. GoesOn(x, y)
  BY <1>1, <1>4, <1>5, <1>13 DEF GoesOn
<1> QED BY <1>14 DEF y, told0

(* A field of a row of a table, and the same row and field again. *)
LEMMA FieldChanges ==
  ASSUME NEW x, IsWhole(x), NEW table \in Tables \union {"about"}, NEW id \in DOMAIN x.t[table], NEW f, NEW v,
         NEW y, y = [x EXCEPT !.t = [x.t EXCEPT ![table] = [x.t[table] EXCEPT ![id] = [x.t[table][id] EXCEPT ![f] = v]]]]
  PROVE IsRowChange(x, y, table, id, f)
<1> DEFINE row == [x.t[table][id] EXCEPT ![f] = v]
           rows == [x.t[table] EXCEPT ![id] = row]
           tables == [x.t EXCEPT ![table] = rows]
<1>1. /\ DOMAIN x = {"t", "merges", "events", "ok", "id"} /\ HasIds(x.t)
      /\ {"pubs", "works", "people", "library", "about", "last"} \subseteq DOMAIN x.t
  BY IdsAre DEF IsWhole
<1>2. DOMAIN row = DOMAIN x.t[table][id] /\ \A g \in DOMAIN row : g # f => row[g] = x.t[table][id][g]
  OBVIOUS
<1> HIDE DEF row
<1>3. DOMAIN rows = DOMAIN x.t[table] /\ rows[id] = row /\ \A i \in DOMAIN rows : i # id => rows[i] = x.t[table][i]
  OBVIOUS
<1> HIDE DEF rows
<1>4. /\ DOMAIN tables = DOMAIN x.t /\ tables[table] = rows
      /\ \A k \in DOMAIN x.t : k # table => tables[k] = x.t[k]
  BY <1>1 DEF Tables
<1>5. y = [x EXCEPT !.t = tables]
  BY DEF tables, rows, row
<1> HIDE DEF tables
<1>6. DOMAIN y = DOMAIN x /\ y.t = tables /\ y.events = x.events /\ y.merges = x.merges
  BY <1>1, <1>5
<1>7. \A k \in Tables \union {"about"} : DOMAIN tables[k] = DOMAIN x.t[k]
  BY <1>1, <1>3, <1>4 DEF Tables
<1>8. tables.last = x.t.last /\ tables.library = x.t.library
  BY <1>1, <1>4 DEF Tables
<1>9. HasIds(tables)
  BY <1>1, <1>4, <1>7, <1>8, IdsAre, IdsStay DEF Tables
<1>10. \A k \in Tables \union {"about"} : \A i \in DOMAIN x.t[k] :
          /\ DOMAIN tables[k][i] = DOMAIN x.t[k][i]
          /\ \A g \in DOMAIN x.t[k][i] : k # table \/ i # id \/ g # f => tables[k][i][g] = x.t[k][i][g]
  BY <1>1, <1>2, <1>3, <1>4 DEF Tables
<1>11. IsWhole(y)
  BY <1>1, <1>6, <1>9 DEF IsWhole
<1> QED BY <1>6, <1>7, <1>8, <1>10, <1>11 DEF IsRowChange

LEMMA ChangesOn ==
  ASSUME NEW x, NEW y, NEW z, NEW table, NEW id, NEW f,
         IsRowChange(x, y, table, id, f), IsRowChange(y, z, table, id, f)
  PROVE IsRowChange(x, z, table, id, f)
BY DEF IsRowChange

(* The statements on a publication's lists, and on a work's. *)
LEMMA PublicationListsChange ==
  ASSUME NEW x, IsWhole(x), NEW p \in DOMAIN x.t.pubs, NEW v
  PROVE /\ IsRowChange(x, AddWork(x, p, v), "pubs", p, "works")
        /\ IsRowChange(x, RemoveWork(x, p, v), "pubs", p, "works")
        /\ IsRowChange(x, AddCredit(x, p, v), "pubs", p, "credits")
        /\ IsRowChange(x, RemoveCredit(x, p, v), "pubs", p, "credits")
        /\ IsRowChange(x, AddHolding(x, p, v), "pubs", p, "held")
        /\ IsRowChange(x, RemoveHolding(x, p, v), "pubs", p, "held")
<1>1. /\ DOMAIN x = {"t", "merges", "events", "ok", "id"}
      /\ {"pubs", "works", "people", "library", "about", "last"} \subseteq DOMAIN x.t
  BY IdsAre DEF IsWhole
<1> DEFINE Change(f, s) ==
             [x EXCEPT !.t = [x.t EXCEPT !["pubs"] = [x.t["pubs"] EXCEPT ![p] = [x.t["pubs"][p] EXCEPT ![f] = s]]]]
<1>2. \A f, s : IsRowChange(x, Change(f, s), "pubs", p, f)
  BY FieldChanges DEF Tables
<1>3. AddWork(x, p, v) = Change("works", x.t.pubs[p].works \union {v})
  BY <1>1 DEF AddWork
<1>4. RemoveWork(x, p, v) = Change("works", x.t.pubs[p].works \ {v})
  BY <1>1 DEF RemoveWork
<1>5. AddCredit(x, p, v) = Change("credits", x.t.pubs[p].credits \union {v})
  BY <1>1 DEF AddCredit
<1>6. RemoveCredit(x, p, v) = Change("credits", x.t.pubs[p].credits \ {v})
  BY <1>1 DEF RemoveCredit
<1>7. AddHolding(x, p, v) = Change("held", x.t.pubs[p].held \union {v})
  BY <1>1 DEF AddHolding
<1>8. RemoveHolding(x, p, v) = Change("held", x.t.pubs[p].held \ {v})
  BY <1>1 DEF RemoveHolding
<1> HIDE DEF Change
<1> QED BY <1>2, <1>3, <1>4, <1>5, <1>6, <1>7, <1>8

LEMMA WorkListsChange ==
  ASSUME NEW x, IsWhole(x), NEW w \in DOMAIN x.t.works, NEW v
  PROVE /\ IsRowChange(x, AddComposer(x, w, v), "works", w, "composers")
        /\ IsRowChange(x, RemoveComposer(x, w, v), "works", w, "composers")
        /\ IsRowChange(x, AddNumber(x, w, v), "works", w, "numbers")
        /\ IsRowChange(x, RemoveNumber(x, w, v), "works", w, "numbers")
<1>1. /\ DOMAIN x = {"t", "merges", "events", "ok", "id"}
      /\ {"pubs", "works", "people", "library", "about", "last"} \subseteq DOMAIN x.t
  BY IdsAre DEF IsWhole
<1> DEFINE Change(f, s) ==
             [x EXCEPT !.t = [x.t EXCEPT !["works"] = [x.t["works"] EXCEPT ![w] = [x.t["works"][w] EXCEPT ![f] = s]]]]
<1>2. \A f, s : IsRowChange(x, Change(f, s), "works", w, f)
  BY FieldChanges DEF Tables
<1>3. AddComposer(x, w, v) = Change("composers", x.t.works[w].composers \union {v})
  BY <1>1 DEF AddComposer
<1>4. RemoveComposer(x, w, v) = Change("composers", x.t.works[w].composers \ {v})
  BY <1>1 DEF RemoveComposer
<1>5. AddNumber(x, w, v) = Change("numbers", x.t.works[w].numbers \union {v})
  BY <1>1 DEF AddNumber
<1>6. RemoveNumber(x, w, v) = Change("numbers", x.t.works[w].numbers \ {v})
  BY <1>1 DEF RemoveNumber
<1> HIDE DEF Change
<1> QED BY <1>2, <1>3, <1>4, <1>5, <1>6

\* What an entry makes y of x.
IsRecordOf(x, y, action, on, event) ==
    /\ IsWhole(y) /\ y.t = x.t /\ y.merges = x.merges /\ y.ok = x.ok /\ y.id = x.id
    /\ y.events = x.events \union {event}
    /\ event.action = action /\ event.on = on

LEMMA RecordIs ==
  ASSUME NEW x, IsWhole(x), NEW source, NEW action, NEW on, NEW field
  PROVE IsRecordOf(x, Record(x, source, action, on, field), action, on, Event(source, action, on, field))
BY DEF IsWhole, Record, Event, IsRecordOf

(* A publication deleted is told of. *)
LEMMA DeletionTells ==
  ASSUME NEW x, IsWhole(x), NEW p \in DOMAIN x.t.pubs
  PROVE GoesOn(x, Record(DeletePublication(x, p), "user", "deleted", <<"pubs", p>>, "none"))
<1> DEFINE pubs == Restrict(x.t.pubs, DOMAIN x.t.pubs \ {p})
           z == DeletePublication(x, p)
           e == <<"pubs", p>>
           event == Event("user", "deleted", e, "none")
           y == Record(z, "user", "deleted", e, "none")
<1>1. /\ DOMAIN x = {"t", "merges", "events", "ok", "id"} /\ HasIds(x.t)
      /\ {"pubs", "works", "people", "library", "about", "last"} \subseteq DOMAIN x.t
  BY IdsAre DEF IsWhole
<1>2. z = [x EXCEPT !.t = [x.t EXCEPT !.pubs = pubs]]
  BY <1>1 DEF DeletePublication
<1>3. DOMAIN pubs = DOMAIN x.t.pubs \ {p} /\ \A i \in DOMAIN pubs : pubs[i] = x.t.pubs[i]
  BY DEF Restrict
<1> HIDE DEF pubs, z
<1>4. /\ DOMAIN z = DOMAIN x /\ z.events = x.events /\ z.merges = x.merges /\ DOMAIN z.t = DOMAIN x.t
      /\ z.t.pubs = pubs /\ z.t.works = x.t.works /\ z.t.people = x.t.people /\ z.t.library = x.t.library
      /\ z.t.about = x.t.about /\ z.t.last = x.t.last
  BY <1>1, <1>2
<1>5. HasIds(z.t)
  BY <1>1, <1>3, <1>4, IdsAre, IdsStay
<1>6. IsWhole(z)
  BY <1>1, <1>4, <1>5 DEF IsWhole
<1>7. /\ IsWhole(y) /\ y.t = z.t /\ y.merges = x.merges /\ y.events = x.events \union {event}
      /\ event.action = "deleted" /\ event.on = e
  <2>1. IsRecordOf(z, y, "deleted", e, event)
    BY <1>6, RecordIs
  <2> HIDE DEF y, event, e
  <2> QED BY <1>4, <2>1 DEF IsRecordOf
<1> HIDE DEF y, event, e
<1>8. DOMAIN KindOf = Tables
  BY DEF KindOf, Tables
<1>9. x.t.last \in [Tables -> Nat]
  BY <1>1, <1>8 DEF HasIds, IsNumbered
<1>10. KeepsKnown(x, y) /\ KeepsEntries(x, y)
  BY <1>4, <1>7, <1>9 DEF KeepsKnown, KeepsEntries
<1>11. Entities(y.t) = Entities(x.t) \ {e} /\ e \in Entities(x.t)
  BY <1>3, <1>4, <1>7 DEF Entities, e
<1>12. TellsComing(x, y) /\ TellsGoing(x, y)
  BY <1>7, <1>11 DEF TellsComing, TellsGoing, Tells
<1>13. TellsGone(x, y)
  <2>1. IsKnown(x.t, e)
    BY <1>1, <1>11, EntitiesKnown
  <2>2. IsKnown(y.t, e)
    BY <1>4, <1>7, <2>1 DEF IsKnown
  <2> QED BY <1>7, <1>11, <2>2 DEF TellsGone
<1>14. TellsFields(x, y)
  <2> SUFFICES ASSUME NEW d \in Lasting(x.t, y.t)
               PROVE y.t[d[1]][d[2]] = x.t[d[1]][d[2]]
    BY DEF TellsFields, Columns
  <2>1. CASE d = Library
    BY <1>4, <1>7, <2>1 DEF Library
  <2>2. CASE d \in Entities(y.t)
    <3>1. PICK table \in Tables : \E id \in DOMAIN y.t[table] : d = <<table, id>>
      BY <1>8, <2>2, EntitiesAre
    <3>2. PICK id \in DOMAIN y.t[table] : d = <<table, id>>
      BY <3>1
    <3>3. y.t[table][id] = x.t[table][id]
      BY <1>3, <1>4, <1>7 DEF Tables
    <3> QED BY <3>2, <3>3
  <2> QED BY <2>1, <2>2 DEF Lasting
<1>15. Tracks(x, y)
  BY <1>10, <1>12, <1>13, <1>14 DEF Tracks
<1>16. GoesOn(x, y)
  BY <1>4, <1>7, <1>15 DEF GoesOn
<1> QED BY <1>16 DEF y, z, e

(* Two works merged are told of: the one that is left, whatever it gained, and the contents *)
(* of every publication that had the other.                                                 *)
LEMMA MergeTells ==
  ASSUME NEW x, IsWhole(x), NEW from \in DOMAIN x.t.works, NEW into \in DOMAIN x.t.works, NEW source,
         x.merges \in Seq(MergeIds)
  PROVE GoesOn(x, Record(MergeWorks(x, from, into), source, "merged", <<"works", into>>, "none"))
<1> DEFINE z == MergeWorks(x, from, into)
           e == <<"works", into>>
           m == [from |-> from, into |-> into]
           event == Event(source, "merged", e, "none")
           y == Record(z, source, "merged", e, "none")
<1>1. IsMergeOf(x, from, into, z)
  BY MergeLeaves
<1> HIDE DEF z
<1>2. /\ IsWhole(y) /\ y.t = z.t /\ y.merges = z.merges /\ y.events = x.events \union {event}
      /\ event.action = "merged" /\ event.on = e
  <2>1. IsRecordOf(z, y, "merged", e, event)
    BY <1>1, RecordIs DEF IsMergeOf
  <2> HIDE DEF y, event, e
  <2> QED BY <1>1, <2>1 DEF IsRecordOf, IsMergeOf
<1> HIDE DEF y, event, e
<1>3. /\ y.t.library = x.t.library /\ y.t.about = x.t.about /\ y.t.last = x.t.last /\ y.t.people = x.t.people
      /\ DOMAIN y.t.works = DOMAIN x.t.works \ {from}
      /\ \A w \in DOMAIN y.t.works : w # into => y.t.works[w] = x.t.works[w]
      /\ DOMAIN y.t.pubs = DOMAIN x.t.pubs
      /\ \A p \in DOMAIN x.t.pubs : y.t.pubs[p] = MergeContents(x.t.pubs[p], from, into)
      /\ y.merges = Append(x.merges, m)
  BY <1>1, <1>2 DEF IsMergeOf
<1>4. DOMAIN KindOf = Tables /\ HasIds(x.t)
  BY DEF KindOf, Tables, IsWhole
<1>5. x.t.last \in [Tables -> Nat] /\ DOMAIN x.t.works \subseteq 1 .. x.t.last.works
  BY <1>4 DEF HasIds, IsNumbered, Tables
<1>6. m \in MergeIds
  <2>1. x.t.last.works \in Nat
    BY <1>5 DEF Tables
  <2>2. from \in Nat /\ into \in Nat
    BY <1>5, <2>1
  <2> QED BY <2>2 DEF MergeIds
<1>7. y.merges \in Seq(MergeIds) /\ ToSet(y.merges) = ToSet(x.merges) \union {m} /\ m.from = from
  <2> HIDE DEF m
  <2> DEFINE s == x.merges
  <2>1. s \in Seq(MergeIds)
    OBVIOUS
  <2> HIDE DEF s
  <2>2. /\ Append(s, m) \in Seq(MergeIds) /\ Len(Append(s, m)) = Len(s) + 1 /\ Len(s) \in Nat
        /\ Append(s, m)[Len(s) + 1] = m /\ \A i \in 1 .. Len(s) : Append(s, m)[i] = s[i]
        /\ DOMAIN s = 1 .. Len(s) /\ DOMAIN Append(s, m) = 1 .. Len(s) + 1
    BY <1>6, <2>1
  <2>3. ToSet(Append(s, m)) = ToSet(s) \union {m}
    BY <2>2 DEF ToSet
  <2> QED BY <1>3, <2>2, <2>3 DEF s, m
<1> HIDE DEF m
<1>8. KeepsKnown(x, y) /\ KeepsEntries(x, y)
  BY <1>2, <1>3, <1>5, <1>7 DEF KeepsKnown, KeepsEntries
<1>9. \A d : d \in Entities(y.t) <=> d \in Entities(x.t) /\ d # <<"works", from>>
  BY <1>3 DEF Entities
<1>10. TellsComing(x, y) /\ TellsGoing(x, y)
  BY <1>7, <1>9 DEF TellsComing, TellsGoing, Absorbs
<1>11. TellsGone(x, y)
  BY <1>2 DEF TellsGone
<1>12. TellsFields(x, y)
  <2> SUFFICES ASSUME NEW d \in Lasting(x.t, y.t)
               PROVE /\ Columns(x.t, d) \subseteq Columns(y.t, d)
                     /\ \A g \in Columns(x.t, d) :
                          y.t[d[1]][d[2]][g] = x.t[d[1]][d[2]][g] \/ IsMerged(y.events, y.merges, x.t, d, g)
    BY DEF TellsFields, IsTold
  <2>1. CASE d = Library
    BY <1>3, <2>1 DEF Library, Columns
  <2>2. CASE d # Library
    <3>1. PICK table \in Tables : \E id \in DOMAIN y.t[table] : d = <<table, id>>
      BY <1>4, <2>2, EntitiesAre DEF Lasting
    <3>2. PICK id \in DOMAIN y.t[table] : d = <<table, id>>
      BY <3>1
    <3>3. CASE table = "works" /\ id = into
      <4>1. y.t.works[into] = [f \in DOMAIN x.t.works[into] |-> Gained(f, x.t.works[into][f], x.t.works[from][f])]
        BY <1>1, <1>2, <3>2, <3>3 DEF IsMergeOf
      <4>2. Columns(x.t, d) \subseteq Columns(y.t, d)
        BY <3>2, <3>3, <4>1 DEF Columns
      <4>3. d = e
        BY <3>2, <3>3 DEF e
      <4>4. \A g : IsMerged(y.events, y.merges, x.t, d, g)
        BY <1>2, <4>3 DEF IsMerged, Tells
      <4> QED BY <4>2, <4>4
    <3>4. CASE table = "pubs"
      <4> DEFINE row == x.t.pubs[id]
                 works == IF from \in row.works THEN (row.works \ {from}) \union {into} ELSE row.works
                 now == [row EXCEPT !.works = works]
      <4>1. y.t.pubs[id] = now
        BY <1>3, <3>2, <3>4 DEF MergeContents
      <4>2. from \notin row.works => works = row.works
        OBVIOUS
      <4> HIDE DEF works, row
      <4>3. DOMAIN now = DOMAIN row /\ \A g \in DOMAIN row : now[g] = row[g] \/ (g = "works" /\ from \in row.works)
        BY <4>2
      <4> HIDE DEF now
      <4>4. \A g \in DOMAIN row : now[g] = row[g] \/ IsMerged(y.events, y.merges, x.t, d, g)
        BY <1>7, <3>2, <3>4, <4>3 DEF IsMerged, row
      <4> QED BY <3>2, <3>4, <4>1, <4>3, <4>4 DEF Columns, row
    <3>5. CASE table \in {"works", "people"} /\ ~(table = "works" /\ id = into)
      <4>1. y.t[table][id] = x.t[table][id]
        BY <1>3, <3>2, <3>5
      <4> QED BY <3>2, <4>1 DEF Columns
    <3> QED BY <3>3, <3>4, <3>5 DEF Tables
  <2> QED BY <2>1, <2>2
<1>13. Tracks(x, y)
  BY <1>8, <1>10, <1>11, <1>12 DEF Tracks
<1>14. GoesOn(x, y)
  BY <1>2, <1>3, <1>7, <1>13 DEF GoesOn
<1> QED BY <1>14 DEF y, z, e

(* A row inserted is told of, under an id that nothing had. *)
LEMMA CreationTells ==
  ASSUME NEW x, IsWhole(x), NEW table \in Tables, NEW row, NEW z, IsWhole(z), IsInsertOf(x, table, row, z)
  PROVE GoesOn(x, Record(z, "user", "created", <<table, z.id>>, "none"))
<1> DEFINE e == <<table, z.id>>
           event == Event("user", "created", e, "none")
           y == Record(z, "user", "created", e, "none")
<1>1. /\ z.id = x.t.last[table] + 1 /\ z.id \notin DOMAIN x.t[table]
      /\ \A k \in {"pubs", "works", "people", "library", "about"} \ {table} : z.t[k] = x.t[k]
      /\ DOMAIN z.t[table] = DOMAIN x.t[table] \union {z.id}
      /\ \A id \in DOMAIN x.t[table] : z.t[table][id] = x.t[table][id]
      /\ z.t.last = [x.t.last EXCEPT ![table] = z.id]
  BY InsertFollows DEF Tables
<1>2. z.events = x.events /\ z.merges = x.merges
  BY DEF IsInsertOf
<1>3. /\ IsWhole(y) /\ y.t = z.t /\ y.merges = x.merges /\ y.events = x.events \union {event}
      /\ event.action = "created" /\ event.on = e
  <2>1. IsRecordOf(z, y, "created", e, event)
    BY RecordIs
  <2> HIDE DEF y, event, e
  <2> QED BY <1>2, <2>1 DEF IsRecordOf
<1> HIDE DEF y, event
<1>4. DOMAIN KindOf = Tables /\ HasIds(x.t)
  BY DEF KindOf, Tables, IsWhole
<1>5. x.t.last \in [Tables -> Nat]
  BY <1>4 DEF HasIds, IsNumbered
<1>6. KeepsKnown(x, y) /\ KeepsEntries(x, y)
  BY <1>1, <1>3, <1>5 DEF KeepsKnown, KeepsEntries
<1>7. \A d \in Entities(y.t) : d \in Entities(x.t) \/ d = e
  <2> SUFFICES ASSUME NEW d \in Entities(y.t), d # e PROVE d \in Entities(x.t)
    OBVIOUS
  <2>1. PICK k \in Tables : \E id \in DOMAIN y.t[k] : d = <<k, id>>
    BY <1>4, EntitiesAre
  <2>2. PICK id \in DOMAIN y.t[k] : d = <<k, id>>
    BY <2>1
  <2>3. id \in DOMAIN x.t[k]
    BY <1>1, <1>3, <2>2 DEF Tables
  <2> QED BY <1>4, <2>2, <2>3, EntitiesAre
<1>8. \A d \in Entities(x.t) : d \in Entities(y.t) /\ y.t[d[1]][d[2]] = x.t[d[1]][d[2]]
  <2> SUFFICES ASSUME NEW d \in Entities(x.t)
               PROVE d \in Entities(y.t) /\ y.t[d[1]][d[2]] = x.t[d[1]][d[2]]
    OBVIOUS
  <2>1. PICK k \in Tables : \E id \in DOMAIN x.t[k] : d = <<k, id>>
    BY <1>4, EntitiesAre
  <2>2. PICK id \in DOMAIN x.t[k] : d = <<k, id>>
    BY <2>1
  <2>3. id \in DOMAIN y.t[k] /\ y.t[k][id] = x.t[k][id]
    BY <1>1, <1>3 DEF Tables
  <2> QED BY <1>4, <2>2, <2>3, EntitiesAre
<1>9. ~IsKnown(x.t, e)
  <2>1. z.id \notin 1 .. x.t.last[table]
    BY <1>1, <1>5
  <2> QED BY <2>1 DEF IsKnown
<1> HIDE DEF e
<1>10. TellsComing(x, y) /\ TellsGoing(x, y)
  BY <1>3, <1>7, <1>8, <1>9 DEF TellsComing, TellsGoing, Tells
<1>11. TellsGone(x, y)
  BY <1>3 DEF TellsGone
<1>12. TellsFields(x, y)
  <2>1. y.t.about = x.t.about
    BY <1>1, <1>3 DEF Tables
  <2> QED BY <1>8, <2>1 DEF TellsFields, Lasting, Library, Columns
<1>13. Tracks(x, y)
  BY <1>6, <1>10, <1>11, <1>12 DEF Tracks
<1>14. y.t.library = x.t.library
  BY <1>1, <1>3 DEF Tables
<1>15. GoesOn(x, y)
  BY <1>3, <1>13, <1>14 DEF GoesOn
<1> QED BY <1>15 DEF y, e

\* The library deleted, and everything with it.
IsGone(x, y) ==
    /\ IsWhole(y) /\ y.t.library = FALSE /\ Entities(y.t) = {} /\ y.merges = x.merges
    /\ Tells(y.events, "deleted", Library)

LEMMA LibraryDeletionTells ==
  ASSUME NEW x, IsWhole(x)
  PROVE IsGone(x, Record(DeleteLibrary(x), "user", "deleted", <<"about", 1>>, "none"))
<1> DEFINE tables == [x.t EXCEPT !.library = FALSE, !.works = <<>>, !.people = <<>>, !.pubs = <<>>]
           z == DeleteLibrary(x)
           event == Event("user", "deleted", <<"about", 1>>, "none")
           y == Record(z, "user", "deleted", <<"about", 1>>, "none")
<1>1. /\ DOMAIN x = {"t", "merges", "events", "ok", "id"} /\ HasIds(x.t)
      /\ {"pubs", "works", "people", "library", "about", "last"} \subseteq DOMAIN x.t
  BY IdsAre DEF IsWhole
<1>2. z = [x EXCEPT !.t = tables]
  BY DEF DeleteLibrary
<1>3. /\ DOMAIN tables = DOMAIN x.t /\ tables.library = FALSE /\ tables.last = x.t.last /\ tables.about = x.t.about
      /\ DOMAIN tables.works = {} /\ DOMAIN tables.people = {} /\ DOMAIN tables.pubs = {}
  BY <1>1
<1> HIDE DEF tables, z
<1>4. DOMAIN z = DOMAIN x /\ z.t = tables /\ z.merges = x.merges
  BY <1>1, <1>2
<1>5. HasIds(tables)
  BY <1>1, <1>3, IdsAre, IdsStay
<1>6. IsWhole(z)
  BY <1>1, <1>4, <1>5 DEF IsWhole
<1>7. /\ IsWhole(y) /\ y.t = tables /\ y.merges = x.merges /\ event \in y.events
      /\ event.action = "deleted" /\ event.on = Library
  <2>1. IsRecordOf(z, y, "deleted", <<"about", 1>>, event)
    BY <1>6, RecordIs
  <2> HIDE DEF y, event
  <2> QED BY <1>4, <2>1 DEF IsRecordOf, Library
<1> HIDE DEF y, event
<1>8. Entities(y.t) = {} /\ y.t.library = FALSE
  BY <1>3, <1>7 DEF Entities
<1>9. Tells(y.events, "deleted", Library)
  BY <1>7 DEF Tells
<1>10. IsGone(x, y)
  BY <1>7, <1>8, <1>9 DEF IsGone
<1> QED BY <1>10 DEF y, z

-----------------------------------------------------------------------------
(***************************************************************************)
(* What the steps of an edit tell                                          *)
(***************************************************************************)

\* What is loaded is compared with: the columns of its table.
HandleIs ==
    \/ handle = NoHandle
    \/ /\ handle = [on |-> handle.on, was |-> handle.was]
       /\ handle.on[1] \in DOMAIN Compared /\ DOMAIN handle.was = Compared[handle.on[1]]
       /\ handle.on = <<handle.on[1], handle.on[2]>>
       /\ handle.on[1] = "about" => handle.on = Library
\* The entries of an open edit account for what it did.
EditTells ==
    edit.open => IsWhole(edit.x) /\ edit.x.merges \in Seq(MergeIds) /\ IsAccounted(t, edit.x)
TInv == HasIds(t) /\ HandleIs /\ EditTells

(* A call that can be gone on from, or that deletes the library. *)
LEMMA CallsTell ==
  ASSUME IInv, TInv, NEW on, NEW y, Calls(on, y), GoesOn(edit.x, y) \/ IsGone(edit.x, y)
  PROVE TInv'
<1>1. edit' = [edit EXCEPT !.x = y] /\ edit.open /\ UNCHANGED <<t, handle>> /\ edit.x.t.library
  BY DEF Calls, IsThere
<1>2. edit = [open |-> TRUE, x |-> edit.x]
  BY <1>1, OpenSees DEF IInv
<1>3. edit'.x = y
  BY <1>1, <1>2
<1>4. IsWhole(edit.x) /\ edit.x.merges \in Seq(MergeIds) /\ IsAccounted(t, edit.x)
  BY <1>1 DEF TInv, EditTells
<1>5. t.library /\ Accounts(t, edit.x)
  BY <1>1, <1>4 DEF IsAccounted
<1>6. IsWhole(y) /\ y.merges \in Seq(MergeIds) /\ IsAccounted(t, y)
  <2>1. CASE GoesOn(edit.x, y)
    <3>1. Accounts(t, y)
      BY <1>4, <1>5, <2>1, AccountsOn DEF GoesOn, IsWhole
    <3> QED BY <1>1, <1>4, <1>5, <2>1, <3>1 DEF GoesOn, IsAccounted
  <2>2. CASE IsGone(edit.x, y)
    BY <1>4, <1>5, <2>2 DEF IsGone, IsAccounted
  <2> QED BY <2>1, <2>2
<1>7. EditTells'
  <2>1. IsWhole(y)' /\ (y.merges \in Seq(MergeIds))' /\ IsAccounted(t, y)'
    BY <1>1, <1>6 DEF IsWhole, IsAccounted
  <2>2. IsWhole(edit'.x) /\ edit'.x.merges \in Seq(MergeIds) /\ IsAccounted(t', edit'.x)
    BY <1>1, <1>3, <1>6
  <2> QED BY <2>2 DEF EditTells
<1>8. HasIds(t)' /\ HandleIs'
  BY <1>1 DEF TInv, HasIds, IsNumbered, HandleIs
<1> QED BY <1>7, <1>8 DEF TInv

(* A statement on a row, told if it changed it. *)
LEMMA SetsTellIt ==
  ASSUME IInv, TInv, NEW table, NEW id, NEW f, NEW z, Sets(<<table, id>>, f, z),
         IsRowChange(edit.x, z, table, id, f)
  PROVE TInv'
<1> DEFINE y == IF z.t = edit.x.t THEN z ELSE Record(z, "user", "updated", <<table, id>>, f)
<1>1. Calls(<<table, id>>, y)
  BY DEF Sets
<1>2. IsWhole(edit.x)
  BY <1>1 DEF Calls, TInv, EditTells
<1>3. GoesOn(edit.x, y)
  BY <1>2, SetsTell
<1> HIDE DEF y
<1> QED BY <1>1, <1>3, CallsTell

LEMMA SetRowTells ==
  ASSUME IInv, TInv, NEW table \in Tables \union {"about"}, NEW id, NEW f, NEW v, SetRow(<<table, id>>, f, v)
  PROVE TInv'
<1> DEFINE x == edit.x
           z == [x EXCEPT !.t = SetField(@, <<table, id>>, f, v)]
<1>1. Sets(<<table, id>>, f, z)
  BY DEF SetRow
<1>2. IsWhole(x) /\ id \in DOMAIN x.t[table]
  BY <1>1 DEF Sets, Calls, IsThere, TInv, EditTells
<1>3. z = [x EXCEPT !.t = [x.t EXCEPT ![table] = [x.t[table] EXCEPT ![id] = [x.t[table][id] EXCEPT ![f] = v]]]]
  <2>1. /\ DOMAIN x = {"t", "merges", "events", "ok", "id"}
        /\ {"pubs", "works", "people", "library", "about", "last"} \subseteq DOMAIN x.t
    BY <1>2, IdsAre DEF IsWhole
  <2> QED BY <1>2, <2>1 DEF SetField, Tables
<1> HIDE DEF z
<1>4. IsRowChange(x, z, table, id, f)
  <2> HIDE DEF x
  <2> QED BY <1>2, <1>3, FieldChanges
<1> QED BY <1>1, <1>4, SetsTellIt

LEMMA AddsOrRemovesTell ==
  ASSUME IInv, TInv, NEW table \in Tables \union {"about"}, NEW id, NEW f, NEW member
  PROVE /\ AddsOrRemoves(<<table, id>>, f, member) => TInv'
        /\ AddsOrRemovesLink(<<table, id>>, member) => TInv'
<1>1. ASSUME AddsOrRemoves(<<table, id>>, f, member) PROVE TInv'
  <2>1. PICK left : SetRow(<<table, id>>, f, left)
    BY <1>1 DEF AddsOrRemoves
  <2> QED BY <2>1, SetRowTells
<1>2. ASSUME AddsOrRemovesLink(<<table, id>>, member) PROVE TInv'
  <2>1. PICK left : SetRow(<<table, id>>, "links", left)
    BY <1>2 DEF AddsOrRemovesLink
  <2> QED BY <2>1, SetRowTells
<1> QED BY <1>1, <1>2

(* The calls on a publication. *)
LEMMA EditsPublicationTells ==
  ASSUME IInv, TInv, edit.open, EditsPublication
  PROVE TInv'
<1> DEFINE x == edit.x
<1>1. IsWhole(x)
  BY DEF TInv, EditTells
<1>2. PICK p \in DOMAIN x.t.pubs :
        EditsPublicationRow(p) \/ EditsPublicationLists(p) \/ EditsCopies(p) \/ DeletesPublication(p)
  BY DEF EditsPublication
<1>3. "pubs" \in Tables \union {"about"}
  BY DEF Tables
<1>4. CASE EditsPublicationRow(p)
  BY <1>3, <1>4, SetRowTells, AddsOrRemovesTell DEF EditsPublicationRow
<1>5. ASSUME NEW v, NEW f, NEW z, Sets(<<"pubs", p>>, f, z),
             \/ f = "works" /\ z \in {AddWork(x, p, v), RemoveWork(x, p, v)}
             \/ f = "credits" /\ z \in {AddCredit(x, p, v), RemoveCredit(x, p, v)}
             \/ f = "held" /\ z \in {AddHolding(x, p, v), RemoveHolding(x, p, v)}
      PROVE TInv'
  <2>1. IsRowChange(x, z, "pubs", p, f)
    BY <1>1, <1>2, <1>5, PublicationListsChange
  <2> QED BY <1>5, <2>1, SetsTellIt
<1>6. CASE EditsPublicationLists(p)
  <2> HIDE DEF x
  <2>1. \A f, member : AddsOrRemoves(<<"pubs", p>>, f, member) => TInv'
    BY <1>3, AddsOrRemovesTell
  <2> QED BY <1>5, <1>6, <2>1 DEF EditsPublicationLists, x
<1>7. CASE EditsCopies(p)
  <2>1. ASSUME NEW copy, NEW kind, Sets(<<"pubs", p>>, "held", AddHolding(RemoveHolding(x, p, copy), p, kind))
        PROVE TInv'
    <3> DEFINE y == RemoveHolding(x, p, copy)
               z == AddHolding(y, p, kind)
    <3>1. IsRowChange(x, y, "pubs", p, "held")
      BY <1>1, <1>2, PublicationListsChange
    <3> HIDE DEF y, x
    <3>2. IsWhole(y) /\ p \in DOMAIN y.t.pubs
      BY <1>2, <3>1 DEF IsRowChange, Tables
    <3>3. IsRowChange(y, z, "pubs", p, "held")
      BY <3>2, PublicationListsChange
    <3> HIDE DEF z
    <3>4. IsRowChange(x, z, "pubs", p, "held")
      BY <3>1, <3>3, ChangesOn
    <3> QED BY <2>1, <3>4, SetsTellIt DEF x, y, z
  <2> HIDE DEF x
  <2> QED BY <1>5, <1>7, <2>1 DEF EditsCopies, x
<1>8. CASE DeletesPublication(p)
  <2> DEFINE y == Record(DeletePublication(x, p), "user", "deleted", <<"pubs", p>>, "none")
  <2>1. Calls(<<"pubs", p>>, y)
    BY <1>8 DEF DeletesPublication
  <2>2. GoesOn(x, y)
    BY <1>1, <1>2, DeletionTells
  <2> HIDE DEF y
  <2> QED BY <2>1, <2>2, CallsTell
<1> QED BY <1>2, <1>4, <1>6, <1>7, <1>8

(* The calls on a work, a merge into another among them. *)
LEMMA EditsWorkTells ==
  ASSUME IInv, TInv, edit.open, EditsWork
  PROVE TInv'
<1> DEFINE x == edit.x
<1>1. IsWhole(x) /\ x.merges \in Seq(MergeIds)
  BY DEF TInv, EditTells
<1>2. PICK w \in DOMAIN x.t.works :
        \/ EditsWorkRow(w) \/ EditsWorkLists(w)
        \/ \E into \in DOMAIN x.t.works : MergesWorks(w, into)
  BY DEF EditsWork
<1>3. "works" \in Tables \union {"about"}
  BY DEF Tables
<1>4. CASE EditsWorkRow(w)
  BY <1>3, <1>4, SetRowTells DEF EditsWorkRow
<1>5. ASSUME NEW v, NEW f, NEW z, Sets(<<"works", w>>, f, z),
             \/ f = "composers" /\ z \in {AddComposer(x, w, v), RemoveComposer(x, w, v)}
             \/ f = "numbers" /\ z \in {AddNumber(x, w, v), RemoveNumber(x, w, v)}
      PROVE TInv'
  <2>1. IsRowChange(x, z, "works", w, f)
    BY <1>1, <1>2, <1>5, WorkListsChange
  <2> QED BY <1>5, <2>1, SetsTellIt
<1>6. CASE EditsWorkLists(w)
  <2> HIDE DEF x
  <2>1. \A f, member : /\ AddsOrRemoves(<<"works", w>>, f, member) => TInv'
                       /\ AddsOrRemovesLink(<<"works", w>>, member) => TInv'
    BY <1>3, AddsOrRemovesTell
  <2> QED BY <1>5, <1>6, <2>1 DEF EditsWorkLists, x
<1>7. ASSUME NEW into \in DOMAIN x.t.works, MergesWorks(w, into) PROVE TInv'
  <2> DEFINE y == Record(MergeWorks(x, w, into), "user", "merged", <<"works", into>>, "none")
  <2>1. Calls(<<"works", into>>, y)
    BY <1>7 DEF MergesWorks
  <2>2. GoesOn(x, y)
    BY <1>1, <1>2, MergeTells
  <2> HIDE DEF y
  <2> QED BY <2>1, <2>2, CallsTell
<1> QED BY <1>2, <1>4, <1>6, <1>7

(* The calls on a person, and on the library. *)
LEMMA EditsOthersTell ==
  ASSUME IInv, TInv, edit.open, EditsLibrary \/ \E who \in DOMAIN edit.x.t.people : EditsPerson(who)
  PROVE TInv'
<1>1. "people" \in Tables \union {"about"} /\ "about" \in Tables \union {"about"}
  BY DEF Tables
<1>2. ASSUME NEW who, EditsPerson(who) PROVE TInv'
  BY <1>1, <1>2, SetRowTells, AddsOrRemovesTell DEF EditsPerson
<1>3. CASE EditsLibrary
  <2>1. ASSUME Calls(<<"about", 1>>, Record(DeleteLibrary(edit.x), "user", "deleted", <<"about", 1>>, "none"))
        PROVE TInv'
    <3> DEFINE y == Record(DeleteLibrary(edit.x), "user", "deleted", <<"about", 1>>, "none")
    <3>1. IsWhole(edit.x)
      BY DEF TInv, EditTells
    <3>2. Calls(<<"about", 1>>, y)
      BY <2>1
    <3>3. IsGone(edit.x, y)
      BY <3>1, LibraryDeletionTells
    <3> HIDE DEF y
    <3> QED BY <3>2, <3>3, CallsTell
  <2>2. \A f, v : SetRow(<<"about", 1>>, f, v) => TInv'
    BY <1>1, SetRowTells
  <2> QED BY <1>3, <2>1, <2>2 DEF EditsLibrary
<1> QED BY <1>2, <1>3

(* What an edit creates. *)
LEMMA CreatesTell ==
  ASSUME IInv, TInv, edit.open, Creates
  PROVE TInv'
<1> DEFINE x == edit.x
<1>1. IsWhole(x)
  BY DEF TInv, EditTells
<1>2. ASSUME NEW table \in Tables, NEW row, NEW z, IsInsertOf(x, table, row, z),
             Calls(<<"about", 1>>, Record(z, "user", "created", <<table, z.id>>, "none"))
      PROVE TInv'
  <2> DEFINE y == Record(z, "user", "created", <<table, z.id>>, "none")
  <2>1. IsWhole(z)
    <3>1. Follows(x, z)
      BY <1>1, <1>2, InsertFollows DEF Tables
    <3> QED BY <3>1 DEF Follows, Later
  <2>2. GoesOn(x, y)
    BY <1>1, <1>2, <2>1, CreationTells
  <2>3. Calls(<<"about", 1>>, y)
    BY <1>2
  <2> HIDE DEF y
  <2> QED BY <2>2, <2>3, CallsTell
<1>3. \A row : /\ IsInsertOf(x, "works", row, InsertWork(x, row))
               /\ IsInsertOf(x, "people", row, CreatePerson(x, row))
               /\ IsInsertOf(x, "pubs", With(row, "works", {}), InsertPublication(x, row))
  BY <1>1, Inserts
<1>4. \A row :
        /\ Calls(<<"about", 1>>, Record(InsertPublication(x, row), "user", "created", <<"pubs", InsertPublication(x, row).id>>, "none")) => TInv'
        /\ Calls(<<"about", 1>>, Record(CreatePerson(x, row), "user", "created", <<"people", CreatePerson(x, row).id>>, "none")) => TInv'
        /\ Calls(<<"about", 1>>, Record(InsertWork(x, row), "user", "created", <<"works", InsertWork(x, row).id>>, "none")) => TInv'
  BY <1>2, <1>3 DEF Tables
<1> HIDE DEF x
<1>5. \/ \E row : Calls(<<"about", 1>>, Record(InsertPublication(x, row), "user", "created", <<"pubs", InsertPublication(x, row).id>>, "none"))
      \/ \E row : Calls(<<"about", 1>>, Record(CreatePerson(x, row), "user", "created", <<"people", CreatePerson(x, row).id>>, "none"))
      \/ \E row : Calls(<<"about", 1>>, Record(InsertWork(x, row), "user", "created", <<"works", InsertWork(x, row).id>>, "none"))
  BY Zenon DEF Creates, x
<1> QED BY <1>4, <1>5

(* The calls of an edit. *)
LEMMA EditsTell ==
  ASSUME IInv, TInv, Edits
  PROVE TInv'
BY EditsPublicationTells, EditsWorkTells, EditsOthersTell, CreatesTell DEF Edits

(* An edit begins with nothing told. *)
LEMMA OpenEditTells ==
  ASSUME IInv, TInv, OpenEdit
  PROVE TInv'
<1> DEFINE x == Transaction(t)
<1>1. edit' = [open |-> TRUE, x |-> x] /\ UNCHANGED <<t, handle>>
  BY DEF OpenEdit
<1>2. /\ DOMAIN x = {"t", "merges", "events", "ok", "id"} /\ x.t = t /\ x.merges = <<>> /\ x.events = {}
  BY DEF Transaction
<1> HIDE DEF x
<1>3. HasIds(t)
  BY DEF TInv
<1>4. IsWhole(x)
  BY <1>2, <1>3 DEF IsWhole
<1>5. Accounts(t, x)
  BY <1>2, <1>3, EntitiesKnown DEF Accounts, Tells, ChangesOf, Lasting
<1>6. IsAccounted(t, x)
  BY <1>2, <1>5 DEF IsAccounted
<1>7. EditTells'
  <2>1. edit'.x = x /\ t' = t
    BY <1>1
  <2>2. x.merges \in Seq(MergeIds)
    BY <1>2
  <2>3. IsWhole(edit'.x) /\ edit'.x.merges \in Seq(MergeIds) /\ IsAccounted(t', edit'.x)
    BY <1>4, <1>6, <2>1, <2>2
  <2> QED BY <2>3 DEF EditTells
<1>8. HasIds(t)' /\ HandleIs'
  BY <1>1 DEF TInv, HasIds, IsNumbered, HandleIs
<1> QED BY <1>7, <1>8 DEF TInv

\* What EditsTellWhatTheyDid says of a step.
EditTold ==
    edit.open /\ ~edit'.open /\ budget'.opens = budget.opens =>
      IF t.library /\ ~t'.library
      THEN Tells(told', "deleted", Library) /\ Entities(t') = {}
      ELSE LET merges == edit.x.merges
               absorbed == {<<"works", m.from>> : m \in ToSet(merges)}
           IN /\ \A e \in Entities(t') : e \in Entities(t) \/ Tells(told', "created", e)
              /\ \A e \in Entities(t) \ Entities(t') :
                    e \in absorbed \/ Tells(told', "deleted", e)
              /\ \A e \in Entities(t') : ~Tells(told', "deleted", e)
              /\ \A e \in Lasting(t, t') : \A f \in ChangesOf(t, t', e) :
                    TellsField(told', e, f) \/ IsMerged(told', merges, t, e, f)

(* What an edit committed tells is what it did. *)
LEMMA CommitTells ==
  ASSUME IInv, TInv, CommitEdit
  PROVE TInv' /\ EditTold
<1> DEFINE x == edit.x
           y == Collected(x)
<1>1. edit.open /\ t' = y.t /\ told' = y.events /\ edit' = NoEdit /\ handle' = handle
  BY DEF CommitEdit, Committed
<1>2. IsWhole(x) /\ IsAccounted(t, x)
  BY <1>1 DEF TInv, EditTells
<1>3. IsCollected(x, y) /\ Tracks(x, y)
  BY <1>2, CollectionTells, CollectionTracks
<1> HIDE DEF y
<1>4. TInv'
  <2>1. HasIds(t)'
    BY <1>1, <1>3 DEF IsCollected, IsWhole, HasIds, IsNumbered
  <2>2. HandleIs'
    BY <1>1 DEF TInv, HandleIs
  <2>3. EditTells'
    BY <1>1 DEF EditTells, NoEdit
  <2> QED BY <2>1, <2>2, <2>3 DEF TInv
<1>5. y.merges = x.merges /\ y.t.library = x.t.library
  BY <1>3 DEF IsCollected
<1>6. CASE t.library /\ ~x.t.library
  <2>1. Tells(x.events, "deleted", Library) /\ Entities(x.t) = {}
    BY <1>2, <1>6 DEF IsAccounted
  <2>2. Tells(y.events, "deleted", Library)
    BY <1>3, <2>1 DEF Tells, Tracks, KeepsEntries
  <2>3. Entities(y.t) = {}
    <3>1. Entities(y.t) \subseteq Entities(x.t)
      <4>1. DOMAIN y.t.pubs \subseteq DOMAIN x.t.pubs /\ DOMAIN y.t.works \subseteq DOMAIN x.t.works
            /\ DOMAIN y.t.people \subseteq DOMAIN x.t.people
        BY <1>3 DEF IsCollected, Tables
      <4> QED BY <4>1 DEF Entities
    <3> QED BY <2>1, <3>1
  <2> QED BY <1>1, <1>4, <1>5, <1>6, <2>2, <2>3 DEF EditTold
<1>7. CASE ~(t.library /\ ~x.t.library)
  <2>1. Accounts(t, x)
    BY <1>2, <1>7 DEF IsAccounted
  <2>2. Accounts(t, y)
    BY <1>2, <1>3, <2>1, AccountsOn DEF IsWhole
  <2>3. \A e \in Entities(y.t) : e \in Entities(t) \/ Tells(y.events, "created", e)
    BY <2>2 DEF Accounts
  <2>4. \A e \in Entities(t) \ Entities(y.t) :
          e \in {<<"works", m.from>> : m \in ToSet(x.merges)} \/ Tells(y.events, "deleted", e)
    BY <1>5, <2>2 DEF Accounts, Absorbs
  <2>5. \A e \in Entities(y.t) : ~Tells(y.events, "deleted", e)
    BY <2>2 DEF Accounts
  <2>6. \A e \in Lasting(t, y.t) : \A f \in ChangesOf(t, y.t, e) :
          TellsField(y.events, e, f) \/ IsMerged(y.events, x.merges, t, e, f)
    BY <1>5, <2>2 DEF Accounts, IsTold
  <2> QED BY <1>1, <1>4, <1>5, <1>7, <2>3, <2>4, <2>5, <2>6 DEF EditTold
<1> QED BY <1>6, <1>7

-----------------------------------------------------------------------------
(***************************************************************************)
(* What saves tell                                                         *)
(***************************************************************************)

\* What UpdatesTellUnlessStale says of a save: of the rows it removed,
TellsLost ==
    \A d \in Entities(t) \ Entities(t') :
      \/ Tells(told', "deleted", d) \/ Tells(told', "deleted", Library)
      \/ d[1] = "works" /\ HasMerged(told')
\* and of the entity it saved, if nothing else was created or merged by it.
IsOther == \E ev \in told' : ev.source = "user" /\ ev.action \in {"created", "merged"}
TellsFresh ==
    /\ \A f \in DOMAIN handle.was : handle.was[f] = Loaded(t, handle.on)[f] =>
         (TellsField(told', handle.on, f) <=> Loaded(t', handle.on)[f] # Loaded(t, handle.on)[f])
    /\ handle.on[1] = "pubs" /\ t'.pubs[handle.on[2]].works # t.pubs[handle.on[2]].works =>
         HasMerged(told') \/ TellsField(told', handle.on, "works")
SaveTold ==
    /\ handle' # Panicked
    /\ TellsLost
    /\ handle'.on = handle.on /\ handle.on # NoHandle.on /\ IsThere(t', handle.on) /\ ~IsOther => TellsFresh

(* No edit is open while a save writes. *)
LEMMA WritesTell ==
  ASSUME TInv, Writes, HasIds(t'), HandleIs'
  PROVE TInv'
<1>1. ~edit.open /\ edit' = edit
  BY DEF Writes
<1>2. HasIds(t)'
  BY DEF HasIds, IsNumbered
<1> QED BY <1>1, <1>2 DEF TInv, EditTells

(* A handle that is none, one that is as it was, and one that was reloaded. *)
LEMMA HandlesAre ==
  /\ handle' = NoHandle => HandleIs' /\ handle' # Panicked /\ ~(handle'.on = handle.on /\ handle.on # NoHandle.on)
  /\ HandleIs /\ handle' = handle => HandleIs' /\ handle' # Panicked
  /\ \A tables, on :
       /\ handle' = [on |-> on, was |-> Loaded(tables, on)] /\ on = <<on[1], on[2]>>
       /\ on[1] \in {"pubs", "works", "people"} \/ on = Library
       => HandleIs' /\ handle' # Panicked
<1>1. \A tables, on : DOMAIN Loaded(tables, on) = Compared[on[1]]
  BY DEF Loaded
<1>2. DOMAIN Compared = {"pubs", "works", "people", "about"}
  BY DEF Compared
<1>3. ASSUME handle' = NoHandle
      PROVE HandleIs' /\ handle' # Panicked /\ ~(handle'.on = handle.on /\ handle.on # NoHandle.on)
  BY <1>3 DEF HandleIs, NoHandle, Panicked
<1>4. ASSUME HandleIs, handle' = handle PROVE HandleIs' /\ handle' # Panicked
  <2>1. HandleIs'
    BY <1>4 DEF HandleIs
  <2>2. CASE handle = NoHandle
    BY <1>4, <2>1, <2>2 DEF NoHandle, Panicked
  <2>3. CASE handle.on[1] \in DOMAIN Compared
    <3>1. handle.on # <<"panicked", 0>>
      BY <1>2, <2>3
    <3> QED BY <1>4, <2>1, <3>1 DEF Panicked
  <2>4. handle = NoHandle \/ handle.on[1] \in DOMAIN Compared
    BY <1>4 DEF HandleIs
  <2>5. handle' # Panicked
    BY <2>2, <2>3, <2>4
  <2> QED BY <2>1, <2>5
<1>5. ASSUME NEW tables, NEW on, handle' = [on |-> on, was |-> Loaded(tables, on)], on = <<on[1], on[2]>>,
             on[1] \in {"pubs", "works", "people"} \/ on = Library
      PROVE HandleIs' /\ handle' # Panicked
  <2> DEFINE was == Loaded(tables, on)
  <2>1. on[1] \in {"pubs", "works", "people", "about"} /\ (on[1] = "about" => on = Library)
    BY <1>5 DEF Library
  <2>2. DOMAIN was = Compared[on[1]]
    BY <1>1
  <2> HIDE DEF was
  <2>3. handle'.on = on /\ handle'.was = was /\ handle' = [on |-> on, was |-> was]
    BY <1>5 DEF was
  <2>4. HandleIs'
    <3>1. /\ handle' = [on |-> handle'.on, was |-> handle'.was]
          /\ handle'.on[1] \in DOMAIN Compared' /\ DOMAIN handle'.was = Compared'[handle'.on[1]]
          /\ handle'.on = <<handle'.on[1], handle'.on[2]>>
          /\ handle'.on[1] = "about" => handle'.on = Library
      BY <1>2, <1>5, <2>1, <2>2, <2>3
    <3> QED BY <3>1 DEF HandleIs
  <2>5. on # <<"panicked", 0>>
    BY <2>1
  <2>6. handle' # Panicked
    BY <2>3, <2>5 DEF Panicked
  <2> QED BY <2>4, <2>6
<1> QED BY <1>3, <1>4, <1>5

(* A form refused changes nothing. *)
LEMMA RefusesTell ==
  ASSUME TInv, Writes, Refuses
  PROVE TInv' /\ SaveTold
<1>1. handle' = NoHandle /\ told' = {} /\ t' = t
  BY DEF Refuses
<1>2. HandleIs' /\ handle' # Panicked /\ ~(handle'.on = handle.on /\ handle.on # NoHandle.on)
  BY <1>1, HandlesAre
<1>3. HasIds(t')
  BY <1>1 DEF TInv
<1>4. TInv'
  BY <1>2, <1>3, WritesTell
<1> QED BY <1>1, <1>2, <1>4 DEF SaveTold, TellsLost

\* A log with no entry of a field.
NoUpdates(log) == \A ev \in log : ev.action # "updated"

(* What is updated is told of field by field. *)
LEMMA UpdatedTells ==
  ASSUME NEW log, NoUpdates(log), NEW fields
  PROVE \A f : TellsField(log \union Updated(fields), handle.on, f) <=> f \in fields
<1>1. \A f : /\ Event("user", "updated", handle.on, f).action = "updated"
             /\ Event("user", "updated", handle.on, f).on = handle.on
             /\ Event("user", "updated", handle.on, f).field = f
  BY DEF Event
<1> QED BY <1>1 DEF Updated, NoUpdates, TellsField

(* What is written and then collected loses nothing untold. *)
LEMMA CollectedLoses ==
  ASSUME NEW w, Later(Transaction(t), w), NEW x, IsCollected(w, x)
  PROVE /\ \A d \in Entities(t) \ Entities(x.t) :
              Tells(x.events, "deleted", d) \/ (d[1] = "works" /\ HasMerged(x.events))
        /\ NoUpdates(x.events)
<1>1. Transaction(t).t = t /\ Transaction(t).events = {}
  BY DEF Transaction
<1>2. /\ DOMAIN t.pubs \subseteq DOMAIN w.t.pubs /\ DOMAIN t.people \subseteq DOMAIN w.t.people
      /\ DOMAIN t.works \subseteq DOMAIN w.t.works \/ HasMerged(w.events)
      /\ \A ev \in w.events : ev.action = "merged"
  BY <1>1 DEF Later, IsMerge
<1>3. \A d \in Entities(t) : d \in Entities(w.t) \/ (d[1] = "works" /\ HasMerged(w.events))
  BY <1>2 DEF Entities
<1>4. \A e : Event("orphan_cleanup", "deleted", e, "none").action = "deleted"
             /\ Event("orphan_cleanup", "deleted", e, "none").on = e
  BY DEF Event
<1>5. \A d \in Entities(w.t) \ Entities(x.t) : Tells(x.events, "deleted", d)
  BY <1>4 DEF IsCollected, Tells
<1>6. HasMerged(w.events) => HasMerged(x.events)
  BY DEF IsCollected, HasMerged
<1>7. NoUpdates(x.events)
  BY <1>2, <1>4 DEF IsCollected, NoUpdates
<1> QED BY <1>3, <1>5, <1>6, <1>7

(* A save that commits, and reloads what it saved or the work that absorbed it. *)
LEMMA CommitsTell ==
  ASSUME TInv, Writes, NEW x, HasIds(x.t), NoUpdates(x.events), NEW fields, NEW now,
         handle.on[1] \in DOMAIN Compared, now[1] = handle.on[1], now = handle.on \/ now = <<"works", now[2]>>,
         Commits(x, Updated(fields), now),
         \A d \in Entities(t) \ Entities(x.t) :
              Tells(x.events, "deleted", d) \/ (d[1] = "works" /\ HasMerged(x.events)),
         now = handle.on /\ IsThere(x.t, now) =>
           /\ \A f \in Compared[now[1]] : f \in fields <=> f \in ChangedFields(x.t)
           /\ now[1] = "pubs" /\ x.t.pubs[now[2]].works # t.pubs[now[2]].works => "works" \in fields
  PROVE TInv' /\ SaveTold
<1> DEFINE e == handle.on
<1>1. t' = x.t /\ told' = x.events \union Updated(fields) /\ handle' = [on |-> now, was |-> Loaded(x.t, now)]
  BY DEF Commits
<1>2. /\ DOMAIN handle.was = Compared[e[1]] /\ e = <<e[1], e[2]>> /\ (e[1] = "about" => e = Library)
  <2>1. handle # NoHandle
    BY DEF NoHandle, Compared
  <2> QED BY <2>1 DEF TInv, HandleIs
<1>3. HandleIs' /\ handle' # Panicked
  <2>1. CASE now = e
    <3>1. e[1] \in {"pubs", "works", "people", "about"}
      BY DEF Compared
    <3> HIDE DEF e
    <3>2. now = <<now[1], now[2]>> /\ (now[1] \in {"pubs", "works", "people"} \/ now = Library)
      BY <1>2, <2>1, <3>1
    <3> QED BY <1>1, <3>2, HandlesAre
  <2>2. CASE now = <<"works", now[2]>>
    <3>1. now = <<now[1], now[2]>> /\ now[1] \in {"pubs", "works", "people"}
      BY <2>2
    <3> QED BY <1>1, <3>1, HandlesAre
  <2> QED BY <2>1, <2>2
<1>4. TInv'
  BY <1>1, <1>3, WritesTell
<1>5. \A f : TellsField(told', e, f) <=> f \in fields
  BY <1>1, UpdatedTells
<1>6. TellsLost
  BY <1>1 DEF TellsLost, Tells, HasMerged
<1>7. ASSUME now = e, IsThere(x.t, e) PROVE TellsFresh
  <2>1. \A f \in Compared[e[1]] : f \in ChangedFields(x.t) <=> Loaded(x.t, e)[f] # handle.was[f]
    <3>1. DOMAIN Loaded(x.t, e) = Compared[e[1]]
      BY DEF Loaded
    <3> QED BY <3>1 DEF ChangedFields
  <2>2. \A f \in DOMAIN handle.was : handle.was[f] = Loaded(t, e)[f] =>
          (TellsField(told', e, f) <=> Loaded(t', e)[f] # Loaded(t, e)[f])
    BY <1>1, <1>2, <1>5, <1>7, <2>1
  <2>3. e[1] = "pubs" /\ t'.pubs[e[2]].works # t.pubs[e[2]].works => TellsField(told', e, "works")
    BY <1>1, <1>5, <1>7
  <2> QED BY <2>2, <2>3 DEF TellsFresh
<1>8. handle'.on = now
  BY <1>1
<1> QED BY <1>1, <1>3, <1>4, <1>6, <1>7, <1>8 DEF SaveTold

-----------------------------------------------------------------------------
(***************************************************************************)
(* What each save tells                                                    *)
(***************************************************************************)

(* A save's own transaction. *)
LEMMA OwnTransaction ==
  ASSUME HasIds(t)
  PROVE /\ IsWhole(Transaction(t)) /\ Transaction(t).t = t /\ Transaction(t).events = {}
        /\ Transaction(t).merges = <<>>
BY DEF Transaction, IsWhole

(* A row written over in it. *)
LEMMA RowIsWritten ==
  ASSUME HasIds(t), NEW table \in {"people", "about"}, NEW id \in DOMAIN t[table], NEW row, NEW x,
         x = [Transaction(t) EXCEPT !.t = [t EXCEPT ![table] = [t[table] EXCEPT ![id] = row]]]
  PROVE HasIds(x.t) /\ x.events = {} /\ Entities(x.t) = Entities(t)
<1> DEFINE rows == [t[table] EXCEPT ![id] = row]
<1>1. DOMAIN rows = DOMAIN t[table]
  OBVIOUS
<1> HIDE DEF rows
<1>2. {"pubs", "works", "people", "library", "about", "last"} \subseteq DOMAIN t /\ 1 \in DOMAIN t.about
  BY IdsAre
<1>3. x.t = [t EXCEPT ![table] = rows] /\ x.events = {}
  BY DEF Transaction, rows
<1>4. /\ DOMAIN x.t = DOMAIN t /\ x.t.last = t.last /\ x.t.pubs = t.pubs /\ x.t.works = t.works
      /\ DOMAIN x.t.people = DOMAIN t.people /\ DOMAIN x.t.about = DOMAIN t.about
  BY <1>1, <1>2, <1>3
<1>5. HasIds(x.t)
  BY <1>2, <1>4, IdsStay
<1> QED BY <1>3, <1>4, <1>5 DEF Entities

(* Person::update *)
LEMMA SavePersonTells ==
  ASSUME IInv, TInv, NEW name, NEW urls, SavePerson(name, urls)
  PROVE TInv' /\ SaveTold
<1> DEFINE row == [name |-> name, links |-> Links("people", urls)]
           who == handle.on[2]
           x == [Transaction(t) EXCEPT !.t.people[who] = row]
<1>1. /\ Writes /\ handle.on[1] = "people"
      /\ Refuses \/ (IsThere(t, handle.on) /\ Commits(x, Updated(ChangedFields(x.t)), handle.on))
  BY DEF SavePerson
<1>2. CASE Refuses
  BY <1>1, <1>2, RefusesTell
<1>3. CASE IsThere(t, handle.on) /\ Commits(x, Updated(ChangedFields(x.t)), handle.on)
  <2> HIDE DEF row
  <2>1. who \in DOMAIN t.people /\ HasIds(t)
    BY <1>1, <1>3 DEF IsThere, TInv
  <2>2. x = [Transaction(t) EXCEPT !.t = [t EXCEPT !["people"] = [t["people"] EXCEPT ![who] = row]]]
    <3>1. {"pubs", "works", "people", "library", "about", "last"} \subseteq DOMAIN t
      BY <2>1, IdsAre
    <3> QED BY <2>1, <3>1 DEF Transaction
  <2> HIDE DEF x
  <2>3. HasIds(x.t) /\ x.events = {} /\ Entities(x.t) = Entities(t)
    BY <2>1, <2>2, RowIsWritten
  <2>4. NoUpdates(x.events) /\ handle.on[1] \in DOMAIN Compared
    BY <1>1, <2>3 DEF NoUpdates, Compared
  <2> QED BY <1>1, <1>3, <2>3, <2>4, CommitsTell
<1> QED BY <1>1, <1>2, <1>3

(* Library::update *)
LEMMA SaveLibraryTells ==
  ASSUME IInv, TInv, NEW name, NEW private, SaveLibrary(name, private)
  PROVE TInv' /\ SaveTold
<1> DEFINE row == [name |-> name, private |-> private]
           x == [Transaction(t) EXCEPT !.t.about[1] = row]
<1>1. /\ Writes /\ handle.on[1] = "about"
      /\ Refuses \/ Commits(x, Updated(ChangedFields(x.t)), handle.on)
  BY DEF SaveLibrary
<1>2. CASE Refuses
  BY <1>1, <1>2, RefusesTell
<1>3. CASE Commits(x, Updated(ChangedFields(x.t)), handle.on)
  <2> HIDE DEF row
  <2>1. {"pubs", "works", "people", "library", "about", "last"} \subseteq DOMAIN t /\ HasIds(t)
        /\ 1 \in DOMAIN t.about
    BY IdsAre DEF TInv
  <2>2. x = [Transaction(t) EXCEPT !.t = [t EXCEPT !["about"] = [t["about"] EXCEPT ![1] = row]]]
    BY <2>1 DEF Transaction
  <2> HIDE DEF x
  <2>3. HasIds(x.t) /\ x.events = {} /\ Entities(x.t) = Entities(t)
    BY <2>1, <2>2, RowIsWritten
  <2>4. NoUpdates(x.events) /\ handle.on[1] \in DOMAIN Compared
    BY <1>1, <2>3 DEF NoUpdates, Compared
  <2> QED BY <1>1, <1>3, <2>3, <2>4, CommitsTell
<1> QED BY <1>1, <1>2, <1>3

(* Publication::delete: what the cleanup took is told of as well. *)
LEMMA RemovePublicationTells ==
  ASSUME IInv, TInv, RemovePublication
  PROVE TInv' /\ SaveTold
<1> DEFINE p == handle.on[2]
           pubs == Restrict(t.pubs, DOMAIN t.pubs \ {p})
           z == DeletePublication(Transaction(t), p)
           x == Collected(z)
           event == Event("user", "deleted", handle.on, "none")
<1>1. /\ Writes /\ handle.on[1] = "pubs"
      /\ \/ Refuses
         \/ /\ t' = x.t /\ told' = Record(x, "user", "deleted", handle.on, "none").events
            /\ handle' = NoHandle
  BY DEF RemovePublication, Deletes
<1>2. CASE Refuses
  BY <1>1, <1>2, RefusesTell
<1>3. CASE t' = x.t /\ told' = Record(x, "user", "deleted", handle.on, "none").events /\ handle' = NoHandle
  <2>1. /\ HasIds(t) /\ IsWhole(Transaction(t)) /\ Transaction(t).t = t /\ Transaction(t).events = {}
    BY OwnTransaction DEF TInv
  <2>2. {"pubs", "works", "people", "library", "about", "last"} \subseteq DOMAIN t /\ 1 \in DOMAIN t.about
    BY <2>1, IdsAre
  <2>3. DOMAIN pubs = DOMAIN t.pubs \ {p}
    BY DEF Restrict
  <2>4. z = [Transaction(t) EXCEPT !.t = [t EXCEPT !.pubs = pubs]]
    BY <2>1, <2>2 DEF DeletePublication, IsWhole
  <2> HIDE DEF pubs, z
  <2>5. /\ DOMAIN z = {"t", "merges", "events", "ok", "id"} /\ z.events = {} /\ DOMAIN z.t = DOMAIN t
        /\ z.t.pubs = pubs /\ z.t.works = t.works /\ z.t.people = t.people /\ z.t.about = t.about
        /\ z.t.last = t.last
    BY <2>1, <2>2, <2>4 DEF IsWhole
  <2>6. IsWhole(z)
    <3>1. HasIds(z.t)
      BY <2>1, <2>2, <2>3, <2>5, IdsStay
    <3> QED BY <2>5, <3>1 DEF IsWhole
  <2>7. IsCollected(z, x)
    BY <2>6, CollectionTells
  <2> HIDE DEF x
  <2>8. IsRecordOf(x, Record(x, "user", "deleted", handle.on, "none"), "deleted", handle.on, event)
    BY <2>7, RecordIs DEF IsCollected
  <2>9. told' = x.events \union {event} /\ event.action = "deleted" /\ event.on = handle.on
    BY <1>3, <2>8 DEF IsRecordOf
  <2> HIDE DEF event
  <2>10. handle.on = <<"pubs", p>>
    BY <1>1 DEF TInv, HandleIs, NoHandle
  <2>11. \A d \in Entities(t) \ Entities(z.t) : d = handle.on
    BY <2>3, <2>5, <2>10 DEF Entities
  <2>12. \A e : Event("orphan_cleanup", "deleted", e, "none").action = "deleted"
                /\ Event("orphan_cleanup", "deleted", e, "none").on = e
    BY DEF Event
  <2>13. \A d \in Entities(z.t) \ Entities(x.t) : Tells(x.events, "deleted", d)
    BY <2>7, <2>12 DEF IsCollected, Tells
  <2>14. TellsLost
    BY <1>3, <2>9, <2>11, <2>13 DEF TellsLost, Tells
  <2>15. HandleIs' /\ handle' # Panicked /\ ~(handle'.on = handle.on /\ handle.on # NoHandle.on)
    BY <1>3, HandlesAre
  <2>16. TInv'
    BY <1>1, <1>3, <2>7, <2>15, WritesTell DEF IsCollected, IsWhole
  <2> QED BY <2>14, <2>15, <2>16 DEF SaveTold
<1> QED BY <1>1, <1>2, <1>3

(* Library::delete *)
LEMMA RemoveLibraryTells ==
  ASSUME IInv, TInv, RemoveLibrary
  PROVE TInv' /\ SaveTold
<1> DEFINE x == DeleteLibrary(Transaction(t))
           y == Record(x, "user", "deleted", handle.on, "none")
<1>1. /\ Writes /\ handle.on[1] = "about"
      /\ Refuses \/ (t' = x.t /\ told' = y.events /\ handle' = NoHandle)
  BY DEF RemoveLibrary, Deletes
<1>2. CASE Refuses
  BY <1>1, <1>2, RefusesTell
<1>3. CASE t' = x.t /\ told' = y.events /\ handle' = NoHandle
  <2>1. /\ HasIds(t) /\ IsWhole(Transaction(t)) /\ Transaction(t).t = t /\ Transaction(t).events = {}
    BY OwnTransaction DEF TInv
  <2>2. {"pubs", "works", "people", "library", "about", "last"} \subseteq DOMAIN t /\ 1 \in DOMAIN t.about
    BY <2>1, IdsAre
  <2>3. x = [Transaction(t) EXCEPT !.t = [t EXCEPT !.library = FALSE, !.works = <<>>, !.people = <<>>, !.pubs = <<>>]]
    BY <2>1, <2>2 DEF DeleteLibrary, IsWhole
  <2> HIDE DEF x
  <2>4. /\ DOMAIN x = {"t", "merges", "events", "ok", "id"} /\ DOMAIN x.t = DOMAIN t
        /\ x.t.pubs = <<>> /\ x.t.works = <<>> /\ x.t.people = <<>> /\ x.t.about = t.about
        /\ x.t.last = t.last
    BY <2>1, <2>2, <2>3 DEF IsWhole
  <2>5. HasIds(x.t)
    <3>1. DOMAIN x.t.pubs = {} /\ DOMAIN x.t.works = {} /\ DOMAIN x.t.people = {}
      BY <2>4
    <3> QED BY <2>1, <2>2, <2>4, <3>1, IdsStay
  <2>6. handle.on = Library
    BY <1>1 DEF TInv, HandleIs, NoHandle
  <2>7. Tells(told', "deleted", Library)
    <3> DEFINE event == Event("user", "deleted", handle.on, "none")
    <3>1. IsWhole(x)
      BY <2>4, <2>5 DEF IsWhole
    <3>2. IsRecordOf(x, y, "deleted", handle.on, event)
      BY <3>1, RecordIs
    <3> HIDE DEF event, y
    <3> QED BY <1>3, <2>6, <3>2 DEF IsRecordOf, Tells
  <2>8. HandleIs' /\ handle' # Panicked /\ ~(handle'.on = handle.on /\ handle.on # NoHandle.on)
    BY <1>3, HandlesAre
  <2>9. TInv'
    BY <1>1, <1>3, <2>5, <2>8, WritesTell
  <2> QED BY <2>7, <2>8, <2>9 DEF SaveTold, TellsLost
<1> QED BY <1>1, <1>2, <1>3

(* Library::merge_works: whatever the work gained is told by the merge. *)
LEMMA MergeStoredTells ==
  ASSUME IInv, TInv, NEW from, NEW into, MergeStored(from, into)
  PROVE TInv' /\ SaveTold
<1> DEFINE z == MergeWorks(Transaction(t), from, into)
           x == Collected(z)
           event == Event("user", "merged", <<"works", into>>, "none")
           y == Record(x, "user", "merged", <<"works", into>>, "none")
<1>1. Writes /\ t' = x.t /\ told' = y.events /\ handle' = handle
  BY DEF MergeStored
<1>2. /\ IsWhole(Transaction(t)) /\ Transaction(t).t = t /\ Transaction(t).events = {}
  BY OwnTransaction DEF TInv
<1>3. IsMergeOf(Transaction(t), from, into, z)
  BY <1>2, MergeLeaves
<1> HIDE DEF z
<1>4. /\ IsWhole(z) /\ z.events = {} /\ z.t.people = t.people /\ DOMAIN z.t.pubs = DOMAIN t.pubs
  BY <1>2, <1>3 DEF IsMergeOf
<1>5. IsCollected(z, x)
  BY <1>4, CollectionTells
<1> HIDE DEF x
<1>6. IsRecordOf(x, y, "merged", <<"works", into>>, event) /\ event.source = "user"
  BY <1>5, RecordIs DEF IsCollected, Event
<1> HIDE DEF y, event
<1>7. told' = x.events \union {event} /\ event.action = "merged" /\ event.source = "user"
  BY <1>1, <1>6 DEF IsRecordOf
<1>8. HasMerged(told') /\ IsOther
  BY <1>7 DEF HasMerged, IsOther
<1>9. \A d \in Entities(t) : d \in Entities(z.t) \/ d[1] = "works"
  BY <1>4 DEF Entities
<1>10. \A e : Event("orphan_cleanup", "deleted", e, "none").action = "deleted"
              /\ Event("orphan_cleanup", "deleted", e, "none").on = e
  BY DEF Event
<1>11. \A d \in Entities(z.t) \ Entities(x.t) : Tells(told', "deleted", d)
  BY <1>5, <1>7, <1>10 DEF IsCollected, Tells
<1>12. TellsLost
  BY <1>1, <1>8, <1>9, <1>11 DEF TellsLost
<1>13. HandleIs' /\ handle' # Panicked
  BY <1>1, HandlesAre DEF TInv
<1>14. TInv'
  BY <1>1, <1>5, <1>13, WritesTell DEF IsCollected, IsWhole
<1> QED BY <1>8, <1>12, <1>13, <1>14 DEF SaveTold

(* The people of a publication's form, and how many contents it has. *)
LEMMA FormsAre ==
  ASSUME HasIds(t), NEW post \in PublicationForms
  PROVE LET people == post.credits \union UNION {c.composers : c \in ToSet(post.contents)}
            made == CreateNewPersons(Transaction(t), people)
            contents == [k \in DOMAIN post.contents |-> Resolved(made, "works", post.contents[k])]
            row == Resolved(made, "pubs", Restrict(post, DOMAIN post \ {"contents"}))
        IN /\ Later(Transaction(t), made.x)
           /\ DOMAIN contents = 1 .. Len(post.contents) /\ Len(post.contents) \in Nat
           /\ "held" \in DOMAIN row /\ row.held = post.held
<1> DEFINE people == post.credits \union UNION {c.composers : c \in ToSet(post.contents)}
           made == CreateNewPersons(Transaction(t), people)
           contents == [k \in DOMAIN post.contents |-> Resolved(made, "works", post.contents[k])]
           form == Restrict(post, DOMAIN post \ {"contents"})
           credits == {made.id[who] : who \in form.credits}
           links == Links("pubs", form.links)
           row == Resolved(made, "pubs", form)
<1>1. people \in Parties
  BY PartiesOf
<1> HIDE DEF people
<1>2. Later(Transaction(t), made.x)
  BY <1>1, OwnTransaction, CreateNewPersonsFollow DEF Follows
<1>3. post.contents \in Seq(WorkForms) /\ DOMAIN post = {"title", "tags", "identifiers", "links", "credits", "held", "contents"}
  BY DEF PublicationForms
<1>4. DOMAIN contents = 1 .. Len(post.contents) /\ Len(post.contents) \in Nat
  BY <1>3
<1>5. "held" \in DOMAIN form /\ form.held = post.held
  BY <1>3 DEF Restrict
<1> HIDE DEF form
<1>6. row = [[form EXCEPT !.credits = credits] EXCEPT !.links = links]
  <2>1. row = [form EXCEPT !["credits"] = {made.id[who] : who \in form["credits"]}, !.links = Links("pubs", @)]
    BY DEF Resolved
  <2> HIDE DEF made
  <2> QED BY <2>1
<1> HIDE DEF credits, links, row
<1>7. "held" \in DOMAIN row /\ row.held = post.held
  BY <1>5, <1>6
<1> QED BY <1>2, <1>4, <1>7 DEF people, made, contents, row, form

(* Library::create_publication *)
LEMMA NewPublicationTells ==
  ASSUME IInv, TInv, NEW post \in PublicationForms, NewPublication(post)
  PROVE TInv' /\ SaveTold
<1> DEFINE people == post.credits \union UNION {c.composers : c \in ToSet(post.contents)}
           made == CreateNewPersons(Transaction(t), people)
           row == Resolved(made, "pubs", Restrict(post, DOMAIN post \ {"contents"}))
           contents == [k \in DOMAIN post.contents |-> Resolved(made, "works", post.contents[k])]
           x == CreatePublication(made.x, row, contents).x
           e == <<"pubs", x.t.last.pubs>>
           event == Event("user", "created", e, "none")
           y == Record(x, "user", "created", e, "none")
<1>1. Writes /\ (Refuses \/ (t' = x.t /\ told' = y.events /\ handle' = handle))
  BY DEF NewPublication
<1>2. CASE Refuses
  BY <1>1, <1>2, RefusesTell
<1>3. CASE t' = x.t /\ told' = y.events /\ handle' = handle
  <2>1. HasIds(t) /\ Transaction(t).t = t /\ Transaction(t).events = {}
    BY OwnTransaction DEF TInv
  <2>2. /\ Later(Transaction(t), made.x) /\ DOMAIN contents = 1 .. Len(post.contents)
        /\ Len(post.contents) \in Nat
    BY <2>1, FormsAre
  <2> HIDE DEF people, made, row, contents
  <2>3. Later(made.x, x)
    <3>1. IsWhole(made.x)
      BY <2>2 DEF Later
    <3> QED BY <2>2, <3>1, CreatePublicationLater
  <2> HIDE DEF x
  <2>4. Later(Transaction(t), x)
    BY <2>2, <2>3, FollowsOn
  <2>5. IsRecordOf(x, y, "created", e, event) /\ event.source = "user"
    BY <2>4, RecordIs DEF Later, Event
  <2> HIDE DEF y, event, e
  <2>6. told' = x.events \union {event} /\ event.action = "created" /\ event.source = "user"
    BY <1>3, <2>5 DEF IsRecordOf
  <2>7. IsOther
    BY <2>6 DEF IsOther
  <2>8. TellsLost
    <3>1. \A d \in Entities(t) : d \in Entities(x.t) \/ (d[1] = "works" /\ HasMerged(x.events))
      BY <2>1, <2>4 DEF Later, Entities
    <3> QED BY <1>3, <2>6, <3>1 DEF TellsLost, HasMerged
  <2>9. HandleIs' /\ handle' # Panicked
    BY <1>3, HandlesAre DEF TInv
  <2>10. TInv'
    BY <1>1, <1>3, <2>4, <2>9, WritesTell DEF Later, IsWhole
  <2> QED BY <2>7, <2>8, <2>9, <2>10 DEF SaveTold
<1> QED BY <1>1, <1>2, <1>3

(* Publication::update: the publication is held as the form says, and so is not collected. *)
LEMMA SavePublicationTells ==
  ASSUME IInv, TInv, NEW post \in PublicationForms, SavePublication(post)
  PROVE TInv' /\ SaveTold
<1> DEFINE p == handle.on[2]
           people == post.credits \union UNION {c.composers : c \in ToSet(post.contents)}
           made == CreateNewPersons(Transaction(t), people)
           row == Resolved(made, "pubs", Restrict(post, DOMAIN post \ {"contents"}))
           contents == [k \in DOMAIN post.contents |-> Resolved(made, "works", post.contents[k])]
           written == WritePublication(made.x, p, row, contents)
           x == Collected(written)
           works == IF x.t.pubs[p].works = t.pubs[p].works THEN {} ELSE {"works"}
           fields == ChangedFields(x.t) \union works
<1>1. /\ Writes /\ handle.on[1] = "pubs"
      /\ \/ Refuses
         \/ /\ IsThere(t, handle.on) /\ post.held # {} /\ written.ok
            /\ p \in DOMAIN x.t.pubs => Commits(x, Updated(fields), handle.on)
  BY DEF SavePublication, ParsesPublication, ParsesHoldings
<1>2. CASE Refuses
  BY <1>1, <1>2, RefusesTell
<1>3. CASE /\ IsThere(t, handle.on) /\ post.held # {} /\ written.ok
           /\ p \in DOMAIN x.t.pubs => Commits(x, Updated(fields), handle.on)
  <2>1. HasIds(t) /\ Transaction(t).t = t /\ p \in DOMAIN t.pubs
    BY <1>1, <1>3, OwnTransaction DEF TInv, IsThere
  <2>2. /\ Later(Transaction(t), made.x) /\ DOMAIN contents = 1 .. Len(post.contents)
        /\ Len(post.contents) \in Nat
        /\ "held" \in DOMAIN row /\ row.held = post.held
    BY <2>1, FormsAre
  <2> HIDE DEF people, made, row, contents
  <2>3. Later(made.x, written) /\ IsHeldAs(made.x, written, p, row)
    <3>1. IsWhole(made.x)
      BY <2>2 DEF Later
    <3> QED BY <2>2, <3>1, WritePublicationLater
  <2> HIDE DEF written
  <2>4. Later(Transaction(t), written) /\ IsWhole(written)
    BY <2>2, <2>3, FollowsOn DEF Later
  <2>5. p \in HeldPubs(written.t)
    <3>1. p \in DOMAIN made.x.t.pubs
      BY <2>1, <2>2 DEF Later
    <3>2. written.ok # FALSE
      BY <1>3
    <3>3. p \in DOMAIN written.t.pubs /\ written.t.pubs[p].held = row.held
      BY <2>2, <2>3, <3>1, <3>2 DEF IsHeldAs
    <3> QED BY <1>3, <2>2, <3>3 DEF HeldPubs
  <2>6. IsCollected(written, x)
    BY <2>4, CollectionTells
  <2> HIDE DEF x
  <2>7. Commits(x, Updated(fields), handle.on)
    BY <1>3, <2>5, <2>6 DEF IsCollected
  <2>8. /\ NoUpdates(x.events)
        /\ \A d \in Entities(t) \ Entities(x.t) :
              Tells(x.events, "deleted", d) \/ (d[1] = "works" /\ HasMerged(x.events))
    BY <2>4, <2>6, CollectedLoses
  <2>9. HasIds(x.t) /\ handle.on[1] \in DOMAIN Compared
    BY <1>1, <2>6 DEF IsCollected, IsWhole, Compared
  <2>10. /\ \A f \in Compared[handle.on[1]] : f \in fields <=> f \in ChangedFields(x.t)
         /\ x.t.pubs[p].works # t.pubs[p].works => "works" \in fields
    <3>1. "works" \notin Compared[handle.on[1]]
      BY <1>1 DEF Compared
    <3> QED BY <3>1
  <2> HIDE DEF fields, p
  <2> QED BY <1>1, <2>7, <2>8, <2>9, <2>10, CommitsTell DEF p
<1> QED BY <1>1, <1>2, <1>3

(* A work that is written is compared as it is left. *)
LEMMA WorkIsCompared ==
  ASSUME NEW x, NEW y, IsCollected(x, y), NEW w \in DOMAIN y.t.works,
         x.t.works[w].composers \subseteq DOMAIN x.t.people
  PROVE Loaded(y.t, <<"works", w>>) = Loaded(x.t, <<"works", w>>)
<1> DEFINE e == <<"works", w>>
           row == x.t.works[w]
           composers(tables) == {<<who, tables.people[who].name>> : who \in row.composers}
           urls == [k \in DOMAIN row.links |-> row.links[k].url]
           Shown(tables, f) == CASE f = "links" -> urls
                                 [] f \in {"credits", "composers"} -> {<<who, tables.people[who].name>> : who \in row[f]}
                                 [] OTHER -> row[f]
<1>1. y.t.works[w] = row
  BY DEF IsCollected, Tables
<1>2. \A who \in row.composers : y.t.people[who] = x.t.people[who]
  BY DEF IsCollected, Tables
<1>3. composers(y.t) = composers(x.t)
  BY <1>2
<1>4. Loaded(y.t, e) = [f \in Compared["works"] |-> Shown(y.t, f)]
  BY <1>1 DEF Loaded
<1>5. Loaded(x.t, e) = [f \in Compared["works"] |-> Shown(x.t, f)]
  BY DEF Loaded
<1>6. "credits" \notin Compared["works"]
  BY DEF Compared
<1>7. \A f \in Compared["works"] : Shown(y.t, f) = Shown(x.t, f)
  <2> SUFFICES ASSUME NEW f \in Compared["works"] PROVE Shown(y.t, f) = Shown(x.t, f)
    OBVIOUS
  <2>1. CASE f = "composers"
    <3>1. Shown(y.t, f) = composers(y.t) /\ Shown(x.t, f) = composers(x.t)
      BY <2>1
    <3> QED BY <1>3, <3>1
  <2>2. CASE f # "composers"
    <3>1. f \notin {"credits", "composers"}
      BY <1>6, <2>2
    <3> HIDE DEF urls, row
    <3> QED BY <3>1
  <2> QED BY <2>1, <2>2
<1> HIDE DEF Shown
<1> QED BY <1>4, <1>5, <1>7

(* What WriteWork wrote, of a work that is there. *)
LEMMA WorkIsWritten ==
  ASSUME NEW x, IsWhole(x), NEW w \in DOMAIN x.t.works, NEW post \in WorkForms, NEW made,
         WriteWork(x, w, Resolved(made, "works", post)).ok
  PROVE LET y == WriteWork(x, w, Resolved(made, "works", post)) IN
        w \in DOMAIN y.t.works /\ y.t.works[w].composers \subseteq DOMAIN y.t.people
<1> DEFINE input == Resolved(made, "works", post)
           composers == {made.id[who] : who \in post.composers}
           row == RowOf(input)
           y == WriteWork(x, w, input)
           z == [x EXCEPT !.t.works[w] = row]
<1>1. DOMAIN post = {"ref", "title", "tags", "numbers", "links", "composers"}
  BY DEF WorkForms
<1>2. input = [[post EXCEPT !.composers = composers] EXCEPT !.links = Links("works", post.links)]
  <2> DEFINE links == Links("works", post.links)
  <2>1. input = [post EXCEPT !["composers"] = {made.id[who] : who \in post["composers"]}, !.links = Links("works", @)]
    BY DEF Resolved
  <2>2. input = [[post EXCEPT !.composers = composers] EXCEPT !.links = Links("works", post.links)]
    BY <1>1, <2>1
  <2> QED BY <2>2
<1> HIDE DEF composers
<1>3. DOMAIN input = DOMAIN post /\ input.composers = composers
  BY <1>1, <1>2
<1> HIDE DEF input
<1>4. "composers" \in DOMAIN row /\ row.composers = input.composers
  BY <1>1, <1>3 DEF RowOf, Restrict
<1>5. /\ DOMAIN x = {"t", "merges", "events", "ok", "id"}
      /\ {"pubs", "works", "people", "library", "about", "last"} \subseteq DOMAIN x.t
  BY IdsAre DEF IsWhole
<1> HIDE DEF row
<1>6. y = Fail(x) \/ (y = z /\ input.composers \subseteq DOMAIN x.t.people)
  BY DEF WriteWork, HasWork, row
<1>7. z.t.works = [x.t.works EXCEPT ![w] = row] /\ z.t.people = x.t.people
  BY <1>5
<1>8. z.t.works[w] = row /\ w \in DOMAIN z.t.works
  BY <1>7
<1>9. Fail(x).ok = FALSE
  BY StillFollows
<1>10. y # Fail(x)
  <2>1. y.ok
    BY DEF input
  <2> HIDE DEF y
  <2> QED BY <1>9, <2>1
<1> HIDE DEF y, z
<1>11. w \in DOMAIN y.t.works /\ y.t.works[w].composers \subseteq DOMAIN y.t.people
  BY <1>4, <1>6, <1>7, <1>8, <1>10
<1> QED BY <1>11 DEF y, input

(* Work::update: compared before the work is absorbed, if it is. *)
LEMMA SaveWorkTells ==
  ASSUME IInv, TInv, NEW post \in WorkForms, SaveWork(post)
  PROVE TInv' /\ SaveTold
<1> DEFINE w == handle.on[2]
           made == CreateNewPersons(Transaction(t), post.composers)
           input == Resolved(made, "works", post)
           written == WriteWork(made.x, w, input)
           absorbed == AbsorbIntoDuplicate(written, w)
           x == Collected(absorbed)
           fields == ChangedFields(written.t)
           now == <<"works", absorbed.id>>
<1>1. /\ Writes /\ handle.on[1] = "works"
      /\ Refuses \/ (IsThere(t, handle.on) /\ written.ok /\ Commits(x, Updated(fields), now))
  BY DEF SaveWork
<1>2. CASE Refuses
  BY <1>1, <1>2, RefusesTell
<1>3. CASE IsThere(t, handle.on) /\ written.ok /\ Commits(x, Updated(fields), now)
  <2>1. HasIds(t) /\ IsWhole(Transaction(t)) /\ Transaction(t).t = t /\ w \in DOMAIN t.works
    BY <1>1, <1>3, OwnTransaction DEF TInv, IsThere
  <2>2. post.composers \in Parties
    BY DEF WorkForms
  <2>3. Later(Transaction(t), made.x) /\ made.x.t.works = t.works
    <3>1. Later(Transaction(t), made.x)
      BY <2>1, <2>2, CreateNewPersonsFollow DEF Follows
    <3>2. made.x.t.works = t.works
      <4>1. Sees(Transaction(t))
        BY TransactionSees DEF IInv
      <4> QED BY <2>1, <2>2, <4>1, CreateNewPersonsSees
    <3> QED BY <3>1, <3>2
  <2>4. w \in DOMAIN written.t.works /\ written.t.works[w].composers \subseteq DOMAIN written.t.people
    <3>1. IsWhole(made.x) /\ w \in DOMAIN made.x.t.works
      BY <2>1, <2>3 DEF Later
    <3>2. WriteWork(made.x, w, Resolved(made, "works", post)).ok
      BY <1>3
    <3> QED BY <3>1, <3>2, WorkIsWritten
  <2> HIDE DEF made, input
  <2>5. Later(made.x, written)
    BY <2>3, WriteWorkFollows DEF Later, Follows
  <2> HIDE DEF written
  <2>6. Later(Transaction(t), written) /\ IsWhole(written)
    BY <2>3, <2>5, FollowsOn DEF Later
  <2>7. Later(written, absorbed) /\ IsWhole(absorbed)
    BY <2>6, AbsorbFollows DEF Follows, Later
  <2>8. absorbed = Returns(written, w) \/ w \notin DOMAIN absorbed.t.works
    <3> DEFINE into == Min(Duplicates(written.t, w))
               merged == MergeWorks(written, w, into)
               y == Returns(Record(merged, "merge", "merged", <<"works", into>>, "none"), into)
    <3>1. absorbed \in {Returns(written, w), y}
      BY DEF AbsorbIntoDuplicate
    <3> HIDE DEF into
    <3>2. IsMergeOf(written, w, into, merged)
      BY <2>6, MergeLeaves
    <3> HIDE DEF merged
    <3>3. w \notin DOMAIN merged.t.works /\ IsWhole(merged)
      BY <3>2 DEF IsMergeOf
    <3>4. y.t = merged.t
      BY <3>3 DEF Returns, Record, IsWhole
    <3> HIDE DEF absorbed, y
    <3> QED BY <3>1, <3>3, <3>4
  <2>9. Returns(written, w).t = written.t
    BY <2>6 DEF Returns, IsWhole
  <2> HIDE DEF absorbed
  <2>10. IsCollected(absorbed, x)
    BY <2>7, CollectionTells
  <2> HIDE DEF x
  <2>11. Later(Transaction(t), absorbed)
    BY <2>6, <2>7, FollowsOn
  <2>12. /\ NoUpdates(x.events)
         /\ \A d \in Entities(t) \ Entities(x.t) :
               Tells(x.events, "deleted", d) \/ (d[1] = "works" /\ HasMerged(x.events))
    BY <2>10, <2>11, CollectedLoses
  <2>13. handle.on = <<"works", w>>
    BY <1>1 DEF TInv, HandleIs, NoHandle
  <2>14. ASSUME now = handle.on, IsThere(x.t, now)
         PROVE \A f \in Compared[now[1]] : f \in fields <=> f \in ChangedFields(x.t)
    <3>1. w \in DOMAIN x.t.works
      BY <2>13, <2>14 DEF IsThere
    <3>2. w \in DOMAIN absorbed.t.works
      BY <2>10, <3>1 DEF IsCollected, Tables
    <3>3. absorbed.t = written.t
      BY <2>8, <2>9, <3>2
    <3>4. Loaded(x.t, <<"works", w>>) = Loaded(absorbed.t, <<"works", w>>)
      BY <2>4, <2>10, <3>1, <3>3, WorkIsCompared
    <3>5. Loaded(x.t, handle.on) = Loaded(written.t, handle.on)
      BY <2>13, <3>3, <3>4
    <3> QED BY <3>5 DEF ChangedFields
  <2>15. HasIds(x.t) /\ handle.on[1] \in DOMAIN Compared
    BY <1>1, <2>10 DEF IsCollected, IsWhole, Compared
  <2>16. now[1] = handle.on[1] /\ now = <<"works", now[2]>> /\ now[1] # "pubs"
    BY <1>1
  <2> HIDE DEF fields, now
  <2> QED BY <1>1, <1>3, <2>12, <2>14, <2>15, <2>16, CommitsTell
<1> QED BY <1>1, <1>2, <1>3

(* Whatever a page saves. *)
LEMMA SavesTell ==
  ASSUME IInv, TInv, Save
  PROVE TInv' /\ SaveTold
BY SavePublicationTells, NewPublicationTells, SaveWorkTells, SavePersonTells, SaveLibraryTells,
   RemovePublicationTells, RemoveLibraryTells, MergeStoredTells DEF Save

-----------------------------------------------------------------------------
(***************************************************************************)
(* What every step tells                                                   *)
(***************************************************************************)

(* Tables and an edit that a step leaves alone. *)
LEMMA StaysTold ==
  ASSUME TInv, UNCHANGED <<t, edit>>, HandleIs'
  PROVE TInv'
<1>1. HasIds(t)'
  BY DEF TInv, HasIds, IsNumbered
<1>2. EditTells'
  <2>1. edit'.open => IsWhole(edit'.x) /\ edit'.x.merges \in Seq(MergeIds) /\ IsAccounted(t', edit'.x)
    BY DEF TInv, EditTells
  <2> QED BY <2>1 DEF EditTells
<1> QED BY <1>1, <1>2 DEF TInv

\* What the calls of an edit leave alone.
OnlyCalls == edit'.open /\ budget'.saves = budget.saves

(* No call of an edit ends it, and none is a save. *)
LEMMA EditsOnlyCall ==
  ASSUME IInv, Edits
  PROVE OnlyCalls
<1>1. \A on, x : Calls(on, x) => OnlyCalls
  <2> SUFFICES ASSUME NEW on, NEW x, Calls(on, x) PROVE OnlyCalls
    OBVIOUS
  <2>1. edit' = [edit EXCEPT !.x = x] /\ edit.open /\ Spends("calls")
    BY DEF Calls
  <2>2. edit = [open |-> TRUE, x |-> edit.x]
    BY <2>1, OpenSees DEF IInv
  <2>3. edit'.open
    BY <2>1, <2>2
  <2>4. budget'.saves = budget.saves
    BY <2>1, SpendsBounded DEF IInv, Bounds
  <2> QED BY <2>3, <2>4 DEF OnlyCalls
<1>2. \A e, f, x : Sets(e, f, x) => OnlyCalls
  BY <1>1 DEF Sets
<1>3. \A e, f, v : SetRow(e, f, v) => OnlyCalls
  BY <1>2 DEF SetRow
<1>4. \A e, f, v : (AddsOrRemoves(e, f, v) => OnlyCalls) /\ (AddsOrRemovesLink(e, v) => OnlyCalls)
  BY <1>3 DEF AddsOrRemoves, AddsOrRemovesLink
<1>5. EditsPublication => OnlyCalls
  <2>1. \A p : EditsPublicationRow(p) => OnlyCalls
    BY <1>3, <1>4, Zenon DEF EditsPublicationRow
  <2>2. \A p : EditsPublicationLists(p) => OnlyCalls
    BY <1>2, <1>4, Zenon DEF EditsPublicationLists
  <2>3. \A p : EditsCopies(p) => OnlyCalls
    BY <1>2, Zenon DEF EditsCopies
  <2>4. \A p : DeletesPublication(p) => OnlyCalls
    BY <1>1, Zenon DEF DeletesPublication
  <2> QED BY <2>1, <2>2, <2>3, <2>4 DEF EditsPublication
<1>6. EditsWork => OnlyCalls
  <2>1. \A w : EditsWorkRow(w) => OnlyCalls
    BY <1>3, Zenon DEF EditsWorkRow
  <2>2. \A w : EditsWorkLists(w) => OnlyCalls
    BY <1>2, <1>4, Zenon DEF EditsWorkLists
  <2>3. \A from, into : MergesWorks(from, into) => OnlyCalls
    BY <1>1, Zenon DEF MergesWorks
  <2> QED BY <2>1, <2>2, <2>3 DEF EditsWork
<1>7. \A who : EditsPerson(who) => OnlyCalls
  BY <1>3, <1>4, Zenon DEF EditsPerson
<1>8. EditsLibrary => OnlyCalls
  BY <1>1, <1>3, Zenon DEF EditsLibrary
<1>9. Creates => OnlyCalls
  BY <1>1, Zenon DEF Creates
<1> QED BY <1>5, <1>6, <1>7, <1>8, <1>9 DEF Edits

(* A load remembers what it shows. *)
LEMMA LoadTells ==
  ASSUME IInv, TInv, Load
  PROVE TInv' /\ edit' = edit /\ budget'.saves = budget.saves
<1>1. PICK e : Loads(e) /\ e = <<e[1], e[2]>> /\ (e[1] \in {"pubs", "works", "people"} \/ e = Library)
  <2>1. ASSUME NEW p, LoadPublication(p) \/ LoadWork(p) \/ LoadPerson(p)
        PROVE \E d : Loads(d) /\ d = <<d[1], d[2]>> /\ (d[1] \in {"pubs", "works", "people"} \/ d = Library)
    BY <2>1 DEF LoadPublication, LoadWork, LoadPerson
  <2>2. ASSUME LoadLibrary
        PROVE \E d : Loads(d) /\ d = <<d[1], d[2]>> /\ (d[1] \in {"pubs", "works", "people"} \/ d = Library)
    BY <2>2 DEF LoadLibrary, Library
  <2> QED BY <2>1, <2>2 DEF Load
<1>2. handle' = [on |-> e, was |-> Loaded(t, e)] /\ UNCHANGED <<t, edit>> /\ Spends("loads")
  BY <1>1 DEF Loads
<1>3. HandleIs'
  BY <1>1, <1>2, HandlesAre
<1>4. budget'.saves = budget.saves
  BY <1>2, SpendsBounded DEF IInv, Bounds
<1> QED BY <1>2, <1>3, <1>4, StaysTold

(* What an edit dropped did is not told, and not done. *)
LEMMA DropTells ==
  ASSUME IInv, TInv, DropEdit
  PROVE TInv' /\ EditTold
<1>1. edit' = NoEdit /\ t' = t /\ told' = {} /\ handle' = handle
  BY DEF DropEdit
<1>2. TInv'
  <2>1. HasIds(t)' /\ HandleIs'
    BY <1>1 DEF TInv, HasIds, IsNumbered, HandleIs
  <2>2. EditTells'
    BY <1>1 DEF EditTells, NoEdit
  <2> QED BY <2>1, <2>2 DEF TInv
<1>3. EditTold
  <2>1. \A e : ChangesOf(t, t', e) = {}
    BY <1>1 DEF ChangesOf
  <2> QED BY <1>1, <2>1 DEF EditTold, Tells
<1> QED BY <1>2, <1>3

(* An opening changes links, and no ids; it ends whatever edit was open. *)
LEMMA ReopenTells ==
  ASSUME IInv, TInv, Reopen
  PROVE TInv' /\ budget'.opens # budget.opens /\ budget'.saves = budget.saves
<1> DEFINE now == Relinked(t, Results(binary'.version, t))
<1>1. t' = now /\ LinksAreStored(t)
  BY ReopenSees DEF IInv
<1>2. edit' = NoEdit /\ handle' = NoHandle /\ Spends("opens")
  BY DEF Reopen
<1>3. HasIds(t)
  BY DEF TInv
<1>4. HasIds(now)
  <2>1. \A table \in DOMAIN KindOf : DOMAIN now[table] = DOMAIN t[table]
    BY <1>1, RelinkedSound
  <2>2. {"pubs", "works", "people"} = DOMAIN KindOf
    BY DEF KindOf
  <2>3. {"pubs", "works", "people", "library", "about", "last"} \subseteq DOMAIN t /\ 1 \in DOMAIN t.about
    BY <1>3, IdsAre
  <2>4. DOMAIN now = DOMAIN t /\ now.last = t.last /\ now.about = t.about
    BY <2>3 DEF Relinked
  <2> HIDE DEF now
  <2>5. DOMAIN now.pubs = DOMAIN t.pubs /\ DOMAIN now.works = DOMAIN t.works /\ DOMAIN now.people = DOMAIN t.people
    BY <2>1, <2>2
  <2> QED BY <1>3, <2>3, <2>4, <2>5, IdsStay
<1> HIDE DEF now
<1>5. TInv'
  <2>1. HasIds(t')
    BY <1>1, <1>4
  <2>2. HasIds(t)'
    BY <2>1 DEF HasIds, IsNumbered
  <2>3. EditTells'
    BY <1>2 DEF EditTells, NoEdit
  <2>4. HandleIs'
    BY <1>2 DEF HandleIs, NoHandle
  <2> QED BY <2>2, <2>3, <2>4 DEF TInv
<1>6. budget'.saves = budget.saves
  BY <1>2, SpendsBounded DEF IInv, Bounds
<1>7. budget'.opens # budget.opens
  <2>1. budget.opens \in Nat /\ DOMAIN budget = Bounds
    BY DEF IInv, IsBounded, Bounds
  <2> QED BY <1>2, <2>1 DEF Spends, Bounds
<1> QED BY <1>5, <1>6, <1>7

(* Every step: an edit that ended told what it did, and a step that saved told what it saved. *)
LEMMA StepTells ==
  ASSUME IInv, TInv, [Next]_vars
  PROVE TInv' /\ EditTold /\ (SaveTold \/ budget'.saves = budget.saves)
<1>1. ASSUME edit' = edit PROVE EditTold
  BY <1>1 DEF EditTold
<1>2. CASE UNCHANGED vars
  <2>1. UNCHANGED <<t, edit, handle, budget>>
    BY <1>2 DEF vars
  <2>2. HandleIs'
    BY <2>1 DEF TInv, HandleIs
  <2> QED BY <1>1, <2>1, <2>2, StaysTold
<1>3. CASE Load
  BY <1>1, <1>3, LoadTells
<1>4. CASE Save
  <2>1. TInv' /\ SaveTold
    BY <1>4, SavesTell
  <2>2. edit' = edit
    BY <1>4 DEF Save, SavePublication, NewPublication, SaveWork, SavePerson, SaveLibrary, RemovePublication,
                RemoveLibrary, Deletes, MergeStored, Writes
  <2> QED BY <1>1, <2>1, <2>2
<1>5. CASE OpenEdit
  <2>1. TInv' /\ ~edit.open /\ Spends("edits")
    BY <1>5, OpenEditTells DEF OpenEdit
  <2>2. budget'.saves = budget.saves
    BY <2>1, SpendsBounded DEF IInv, Bounds
  <2> QED BY <2>1, <2>2 DEF EditTold
<1>6. CASE Edits
  <2>1. TInv' /\ OnlyCalls
    BY <1>6, EditsTell, EditsOnlyCall
  <2> QED BY <2>1 DEF OnlyCalls, EditTold
<1>7. CASE CommitEdit
  <2>1. budget' = budget
    BY <1>7 DEF CommitEdit
  <2> QED BY <1>7, <2>1, CommitTells
<1>8. CASE DropEdit
  <2>1. budget' = budget
    BY <1>8 DEF DropEdit
  <2> QED BY <1>8, <2>1, DropTells
<1>9. CASE Reopen
  BY <1>9, ReopenTells DEF EditTold
<1> QED BY <1>2, <1>3, <1>4, <1>5, <1>6, <1>7, <1>8, <1>9 DEF Next

(* At the start nothing is loaded, and no edit is open. *)
LEMMA StartsTold == Init => TInv
<1> SUFFICES ASSUME Init PROVE TInv
  OBVIOUS
<1>1. PICK start \in Starts : t = start.tables
  BY DEF Init
<1>2. HasIds(t)
  BY <1>1, StartsAreStored DEF HasIds, LinksAreStored
<1> QED BY <1>2 DEF Init, TInv, HandleIs, EditTells, NoEdit

(* However many calls an ArchiveEdit makes, in whatever order, and whatever its commit cleans  *)
(* up, its entries account for the difference between the tables it began with and those it    *)
(* left (ArchiveEdit, record_if_changed and collect_orphans): every row that came, every row   *)
(* that went, and every field of a row that stayed.  For every catalog and length of the edit. *)
THEOREM EditsTellAll == Spec => EditsTellWhatTheyDid
<1>1. Init => IInv /\ TInv
  BY StartsSound, StartsTold
<1>2. IInv /\ TInv /\ [Next]_vars => (IInv /\ TInv)' /\ EditTold
  BY StepKeeps, StepTells
<1>3. Spec => [][EditTold]_vars
  <2> HIDE DEF EditTold
  <2> QED BY <1>1, <1>2, PTL DEF Spec
<1> QED BY <1>3 DEF EditsTellWhatTheyDid, EditTold

(* No save panics or removes a row untold, and of the entity it saved it tells a field exactly *)
(* when it changed it, unless someone else had changed that field since it was loaded          *)
(* (changed_fields, and the update of each entity).  For every form, duplicates and cleanup    *)
(* included.                                                                                   *)
THEOREM UpdatesTellAll == Spec => UpdatesTellUnlessStale
<1> DEFINE Told ==
         budget'.saves < budget.saves =>
         LET e == handle.on
             merged == \E ev \in told' : ev.action = "merged"
             other == \E ev \in told' : ev.source = "user" /\ ev.action \in {"created", "merged"}
             fresh == {f \in DOMAIN handle.was : handle.was[f] = Loaded(t, e)[f]}
             changed == {f \in DOMAIN handle.was : Loaded(t', e)[f] # Loaded(t, e)[f]}
         IN /\ handle' # Panicked
            /\ \A d \in Entities(t) \ Entities(t') :
                  \/ Tells(told', "deleted", d) \/ Tells(told', "deleted", Library)
                  \/ d[1] = "works" /\ merged
            /\ handle'.on = e /\ e # NoHandle.on /\ IsThere(t', e) /\ ~other =>
                  /\ \A f \in fresh : TellsField(told', e, f) <=> f \in changed
                  /\ e[1] = "pubs" /\ t'.pubs[e[2]].works # t.pubs[e[2]].works =>
                        merged \/ TellsField(told', e, "works")
<1>1. Init => IInv /\ TInv
  BY StartsSound, StartsTold
<1>2. IInv /\ TInv /\ [Next]_vars => (IInv /\ TInv)'
  BY StepKeeps, StepTells
<1>3. IInv /\ TInv /\ [Next]_vars => Told
  <2> SUFFICES ASSUME IInv, TInv, [Next]_vars, budget'.saves < budget.saves PROVE Told
    OBVIOUS
  <2>1. budget.saves \in Nat
    BY DEF IInv, IsBounded, Bounds
  <2>2. SaveTold
    BY <2>1, StepTells
  <2>3. handle' # Panicked
    BY <2>2 DEF SaveTold
  <2>4. TellsLost
    BY <2>2 DEF SaveTold
  <2>5. ASSUME handle'.on = handle.on, handle.on # NoHandle.on, IsThere(t', handle.on), ~IsOther
        PROVE TellsFresh
    BY <2>2, <2>5 DEF SaveTold
  <2> QED BY <2>3, <2>4, <2>5 DEF TellsLost, TellsFresh, HasMerged, IsOther
<1>4. Spec => [][Told]_vars
  <2> HIDE DEF Told
  <2> QED BY <1>1, <1>2, <1>3, PTL DEF Spec
<1> QED BY <1>4, PTL DEF UpdatesTellUnlessStale

=============================================================================
