------------------------- MODULE PendingImportsProofs -------------------------
(***************************************************************************)
(* The safety of PendingImports, for any requests, names, numbers, posts   *)
(* and tables to start from.                                               *)
(*                                                                         *)
(* The operators of the store and of the tables go through lists with      *)
(* FoldLeft.  What such a fold does is proved without recursion: a fold is *)
(* a choice of a function on the sets of positions, that function exists   *)
(* by induction over the positions, and along the prefixes of the list it  *)
(* is the trajectory of the step.  The provers take no operator as an      *)
(* argument, so the steps that are folded have names here (StepOf), the    *)
(* three facts are proved once for whatever has a name, and each FoldLeft  *)
(* of the model is shown to be one of them.                                *)
(***************************************************************************)
EXTENDS PendingImports, WellFoundedInduction, FiniteSetTheorems, TLAPS

-----------------------------------------------------------------------------
(***************************************************************************)
(* Naturals                                                                *)
(***************************************************************************)

(* A set of naturals has a least element. *)
LEMMA Smallest ==
  ASSUME NEW T \in SUBSET Nat, T # {}
  PROVE \E n \in T : \A m \in T : n <= m
<1> DEFINE R == OpToRel(<,Nat)
<1>1. IsWellFoundedOn(R, Nat)
  BY NatLessThanWellFounded
<1>2. \A x, y \in Nat : x < y => <<x, y>> \in R
  BY DEF OpToRel
<1> HIDE DEF R
<1>3. PICK n \in T : \A m \in T : ~ (<<m, n>> \in R)
  BY <1>1, WFMin
<1>4. ASSUME NEW m \in T PROVE n <= m
  <2>1. m \in Nat /\ n \in Nat
    OBVIOUS
  <2>2. <<m, n>> \notin R
    BY <1>3
  <2>3. ~(m < n)
    BY <1>2, <2>1, <2>2
  <2> QED BY <2>1, <2>3
<1> QED BY <1>4

(* What holds of 0 and goes from k - 1 to k holds up to n. *)
LEMMA Induction ==
  ASSUME NEW n \in Nat, NEW T, 0 \in T, \A k \in 1..n : k-1 \in T => k \in T
  PROVE \A k \in 0..n : k \in T
<1> SUFFICES ASSUME (0..n) \ T # {} PROVE FALSE
  OBVIOUS
<1> DEFINE U == (0..n) \ T
<1>1. U \in SUBSET Nat /\ U # {}
  OBVIOUS
<1> HIDE DEF U
<1>2. PICK k \in U : \A m \in U : k <= m
  BY <1>1, Smallest
<1>3. k # 0 /\ k - 1 \in 0..n /\ k \in 1..n
  BY <1>2 DEF U
<1>4. k - 1 \notin U
  BY <1>2, <1>3, <1>1
<1> QED BY <1>2, <1>3, <1>4 DEF U

(* The largest of 1 .. k + 1 is k + 1, and without it they are 1 .. k. *)
LEMMA MaxOf ==
  ASSUME NEW k \in Nat, NEW s \in SUBSET (1..(k+1)), k + 1 \in s
  PROVE Max(s) = k + 1 /\ s \ {k+1} \in SUBSET (1..k)
<1>1. \A x \in s : (\A y \in s : x >= y) <=> x = k + 1
  OBVIOUS
<1>2. Max(s) = k + 1
  BY <1>1 DEF Max
<1> QED BY <1>2

(* A non-empty set of positions has a last one. *)
LEMMA MaxIn ==
  ASSUME NEW k \in Nat, NEW s \in SUBSET (1..k), s # {}
  PROVE Max(s) \in s
<1> DEFINE U == {m \in 0..k : \A x \in s : x <= k - m}
<1>1. \E x \in s : \A y \in s : x >= y
  <2> SUFFICES ASSUME \A x \in s : \E y \in s : x < y PROVE FALSE
    OBVIOUS
  <2>1. 0 \in U
    OBVIOUS
  <2>2. ASSUME NEW m \in 1..k, m - 1 \in U PROVE m \in U
    <3>1. \A x \in s : x <= k - (m - 1)
      BY <2>2
    <3>2. ASSUME NEW x \in s PROVE x <= k - m
      <4>1. PICK y \in s : x < y
        OBVIOUS
      <4>2. x \in Int /\ y \in Int /\ y <= k - (m - 1)
        BY <3>1
      <4> QED BY <4>1, <4>2
    <3> QED BY <3>2
  <2> HIDE DEF U
  <2>3. k \in U
    BY <2>1, <2>2, Induction
  <2>4. PICK x \in s : TRUE
    OBVIOUS
  <2>5. x <= k - k /\ x \in 1..k
    BY <2>3, <2>4 DEF U
  <2> QED BY <2>5
<1> QED BY <1>1 DEF Max

(* What a fold that takes the last position first is left with. *)
LEMMA Parts ==
  ASSUME NEW k \in Nat \ {0}, NEW s \in SUBSET (1..k)
  PROVE /\ k \in s => /\ Max(s) = k /\ k \notin s \ {k}
                     /\ s \ {k} \in SUBSET (1..k) /\ s \ {k} \in SUBSET (1..(k-1))
       /\ k \notin s => /\ s \in SUBSET (1..(k-1)) /\ k \notin s \ {Max(s)}
                        /\ s \ {Max(s)} \in SUBSET (1..k)
<1>1. k \in s => Max(s) = k /\ s \ {k} \in SUBSET (1..(k-1))
  <2>1. k - 1 \in Nat /\ (k-1) + 1 = k
    OBVIOUS
  <2> QED BY <2>1, MaxOf
<1>2. k \notin s => s \in SUBSET (1..(k-1))
  OBVIOUS
<1>3. \A x : s \ {x} \in SUBSET (1..k)
  OBVIOUS
<1> QED BY <1>1, <1>2, <1>3

(* The last of the positions up to one of them. *)
LEMMA LastOf ==
  ASSUME NEW k \in Nat, k > 0, NEW s \in SUBSET (1..k), k \in s
  PROVE Max(s) = k
<1>1. k - 1 \in Nat /\ (k - 1) + 1 = k
  OBVIOUS
<1>2. s \in SUBSET (1..((k - 1) + 1)) /\ (k - 1) + 1 \in s
  BY <1>1
<1>3. Max(s) = (k - 1) + 1
  BY <1>1, <1>2, MaxOf
<1> QED BY <1>1, <1>3

(* The last position of a prefix, and the prefix before it. *)
LEMMA Prefix ==
  ASSUME NEW n \in Nat, NEW k \in 1..n
  PROVE Max(1..k) = k /\ (1..k) \ {k} = 1..(k-1) /\ 1..k # {} /\ 1..k \in SUBSET (1..n)
<1>1. k - 1 \in Nat /\ (k-1)+1 = k /\ 1..k \in SUBSET (1..(k-1+1)) /\ (k-1)+1 \in 1..k
  OBVIOUS
<1>2. Max(1..k) = k
  BY <1>1, MaxOf
<1>3. \A x \in 1..k : x # k => x \in 1..(k-1)
  OBVIOUS
<1>4. (1..k) \ {k} = 1..(k-1)
  BY <1>3
<1> QED BY <1>2, <1>4

-----------------------------------------------------------------------------
(***************************************************************************)
(* Folds                                                                   *)
(***************************************************************************)

Once(seen, r) == IF Contains(seen, r) THEN seen ELSE Append(seen, r)

\* The steps that the model folds, with what each takes beside the list.
StepOf(fold, a, x) ==
    CASE fold[1] = "dedupe" -> Once(a, x)
      [] fold[1] = "relink" -> Relink(a, x)
      [] fold[1] = "credit" -> ResolveCredit(a, fold[2], x)
      [] fold[1] = "list"   -> ResolveList(a, fold[2], x)
      [] fold[1] = "fill"   -> FillIn(a, x)
      [] fold[1] = "person" -> CreateNewPerson(a, x)
      [] fold[1] = "add"    -> AddContent(a, fold[2], x)
      [] fold[1] = "write"  -> WriteContent(a, fold[2], fold[3], x)

\* What the function that a fold chooses has at a set of positions.
Folded(fold, base, seq, g, s) ==
    IF s = {} THEN base ELSE StepOf(fold, g[s \ {Max(s)}], seq[Max(s)])

IsFold(fold, base, seq, n, g) ==
    \A s \in SUBSET (1..n) : g[s] = Folded(fold, base, seq, g, s)

(* The function that a fold chooses exists. *)
LEMMA FoldExists ==
  ASSUME NEW fold, NEW base, NEW seq, NEW n \in Nat
  PROVE \E g : /\ g = [s \in SUBSET (1..n) |-> g[s]]
               /\ \A s \in SUBSET (1..n) : g[s] = Folded(fold, base, seq, g, s)
<1> DEFINE F(g, s) == Folded(fold, base, seq, g, s)
           T == {k \in 0..n : \E g : \A s \in SUBSET (1..k) : g[s] = F(g, s)}
<1>0. 1..0 = {}
  OBVIOUS
<1>1. 0 \in T
  <2> DEFINE g == [s \in SUBSET (1..0) |-> base]
  <2>1. \A s \in SUBSET (1..0) : g[s] = F(g, s)
    BY <1>0 DEF Folded
  <2> HIDE DEF g, F
  <2>2. \E i : \A s \in SUBSET (1..0) : i[s] = F(i, s)
    BY <2>1
  <2> QED BY <2>2
<1>2. ASSUME NEW k \in 1..n, k-1 \in T PROVE k \in T
  <2>1. PICK g : \A s \in SUBSET (1..(k-1)) : g[s] = F(g, s)
    BY <1>2
  <2> DEFINE h == [s \in SUBSET (1..k) |->
                     IF k \in s THEN StepOf(fold, g[s \ {k}], seq[k]) ELSE g[s]]
  <2>2. ASSUME NEW s \in SUBSET (1..k) PROVE h[s] = F(h, s)
    <3>1. CASE k \in s
      <4>1. Max(s) = k
        BY <3>1, LastOf
      <4>2. h[s] = StepOf(fold, g[s \ {k}], seq[k])
        BY <3>1
      <4>3. h[s \ {k}] = g[s \ {k}]
        OBVIOUS
      <4> QED BY <3>1, <4>1, <4>2, <4>3 DEF Folded
    <3>2. CASE k \notin s
      <4>1. h[s] = g[s] /\ h[s \ {Max(s)}] = g[s \ {Max(s)}] /\ s \in SUBSET (1..(k-1))
        BY <3>2, Parts
      <4> QED BY <4>1, <2>1 DEF Folded
    <3> QED BY <3>1, <3>2
  <2> HIDE DEF h, F
  <2>3. \E i : \A s \in SUBSET (1..k) : i[s] = F(i, s)
    BY <2>2
  <2> QED BY <2>3
<1>3. PICK g : \A s \in SUBSET (1..n) : g[s] = F(g, s)
  <2> HIDE DEF T
  <2>1. n \in T
    BY <1>1, <1>2, Induction
  <2> QED BY <2>1 DEF T
<1> DEFINE i == [s \in SUBSET (1..n) |-> g[s]]
<1>4. /\ i = [s \in SUBSET (1..n) |-> i[s]]
      /\ \A s \in SUBSET (1..n) : i[s] = F(i, s)
  <2>1. \A s \in SUBSET (1..n) : s \ {Max(s)} \in SUBSET (1..n)
    OBVIOUS
  <2> QED BY <2>1, <1>3 DEF Folded
<1> HIDE DEF i
<1> QED BY <1>4

\* What a fold has after each of the first n of a list.
Trace(fold, base, seq, n, h) ==
    h[0] = base /\ \A k \in 1..n : h[k] = StepOf(fold, h[k-1], seq[k])

(* Along the prefixes, it is the trajectory of the step. *)
LEMMA FoldTrajectory ==
  ASSUME NEW fold, NEW base, NEW seq, NEW n \in Nat, NEW it,
         IsFold(fold, base, seq, n, it)
  PROVE /\ it[1..0] = base
        /\ \A k \in 1..n : it[1..k] = StepOf(fold, it[1..(k-1)], seq[k])
<1>1. it[1..0] = base
  <2>1. 1..0 = {}
    OBVIOUS
  <2> QED BY <2>1 DEF Folded, IsFold
<1>2. ASSUME NEW k \in 1..n PROVE it[1..k] = StepOf(fold, it[1..(k-1)], seq[k])
  <2>1. Max(1..k) = k /\ (1..k) \ {k} = 1..(k-1) /\ 1..k # {} /\ 1..k \in SUBSET (1..n)
    BY Prefix
  <2>2. it[1..k] = Folded(fold, base, seq, it, 1..k)
    BY <2>1 DEF IsFold
  <2> QED BY <2>1, <2>2 DEF Folded
<1> QED BY <1>1, <1>2

(* ImportEntry::dedupe is a fold, *)
LEMMA DedupeFold ==
  ASSUME NEW seq, NEW n \in Nat, DOMAIN seq = 1..n
  PROVE /\ \E h : Trace(<<"dedupe">>, <<>>, seq, n, h) /\ h[n] = Dedupe(seq)
        /\ \A a, x : StepOf(<<"dedupe">>, a, x) = Once(a, x)
<1> DEFINE fold == <<"dedupe">>
           it == CHOOSE i : i = [s \in SUBSET (1..n) |->
                                   IF s = {} THEN <<>> ELSE Once(i[s \ {Max(s)}], seq[Max(s)])]
<1>1. \A a, x : StepOf(fold, a, x) = Once(a, x)
  BY DEF StepOf
<1>2. Dedupe(seq) = it[1..n]
  BY DEF Dedupe, FoldLeft, MapThenFoldSet, Once
<1> HIDE DEF fold
<1>3. PICK g : /\ g = [s \in SUBSET (1..n) |-> g[s]]
               /\ \A s \in SUBSET (1..n) : g[s] = Folded(fold, <<>>, seq, g, s)
  BY FoldExists
<1>4. g = [s \in SUBSET (1..n) |->
             IF s = {} THEN <<>> ELSE Once(g[s \ {Max(s)}], seq[Max(s)])]
  BY <1>1, <1>3 DEF Folded
<1>5. it = [s \in SUBSET (1..n) |->
              IF s = {} THEN <<>> ELSE Once(it[s \ {Max(s)}], seq[Max(s)])]
  BY <1>4
<1> HIDE DEF it
<1>6. IsFold(fold, <<>>, seq, n, it)
  BY <1>1, <1>5 DEF Folded, IsFold
<1> DEFINE h == [k \in 0..n |-> it[1..k]]
<1>7. /\ it[1..0] = <<>>
      /\ \A k \in 1..n : it[1..k] = StepOf(fold, it[1..(k-1)], seq[k])
  BY <1>6, FoldTrajectory
<1>8. Trace(fold, <<>>, seq, n, h) /\ h[n] = Dedupe(seq)
  BY <1>2, <1>7 DEF Trace
<1> HIDE DEF h
<1> QED BY <1>1, <1>8 DEF fold

(* and so are the relinking of a list from merge to merge, *)
LEMMA RelinkFold ==
  ASSUME NEW base, NEW seq, NEW n \in Nat, DOMAIN seq = 1..n
  PROVE /\ \E h : Trace(<<"relink">>, base, seq, n, h) /\ h[n] = Relinked(base, seq)
        /\ \A a, x : StepOf(<<"relink">>, a, x) = Relink(a, x)
<1> DEFINE fold == <<"relink">>
           it == CHOOSE i : i = [s \in SUBSET (1..n) |->
                                   IF s = {} THEN base ELSE Relink(i[s \ {Max(s)}], seq[Max(s)])]
<1>1. \A a, x : StepOf(fold, a, x) = Relink(a, x)
  BY DEF StepOf
<1>2. Relinked(base, seq) = it[1..n]
  BY DEF Relinked, FoldLeft, MapThenFoldSet
<1> HIDE DEF fold
<1>3. PICK g : /\ g = [s \in SUBSET (1..n) |-> g[s]]
               /\ \A s \in SUBSET (1..n) : g[s] = Folded(fold, base, seq, g, s)
  BY FoldExists
<1>4. g = [s \in SUBSET (1..n) |->
             IF s = {} THEN base ELSE Relink(g[s \ {Max(s)}], seq[Max(s)])]
  BY <1>1, <1>3 DEF Folded
<1>5. it = [s \in SUBSET (1..n) |->
              IF s = {} THEN base ELSE Relink(it[s \ {Max(s)}], seq[Max(s)])]
  BY <1>4
<1> HIDE DEF it
<1>6. IsFold(fold, base, seq, n, it)
  BY <1>1, <1>5 DEF Folded, IsFold
<1> DEFINE h == [k \in 0..n |-> it[1..k]]
<1>7. /\ it[1..0] = base
      /\ \A k \in 1..n : it[1..k] = StepOf(fold, it[1..(k-1)], seq[k])
  BY <1>6, FoldTrajectory
<1>8. Trace(fold, base, seq, n, h) /\ h[n] = Relinked(base, seq)
  BY <1>2, <1>7 DEF Trace
<1> HIDE DEF h
<1> QED BY <1>1, <1>8 DEF fold

(* the credits of a list, *)
LEMMA CreditFold ==
  ASSUME NEW base, NEW people, NEW seq, NEW n \in Nat, DOMAIN seq = 1..n
  PROVE /\ \E h : Trace(<<"credit", people>>, base, seq, n, h) /\ h[n] = ResolveCredits(base, people, seq)
        /\ \A a, x : StepOf(<<"credit", people>>, a, x) = ResolveCredit(a, people, x)
<1> DEFINE fold == <<"credit", people>>
           it == CHOOSE i : i = [s \in SUBSET (1..n) |->
                                   IF s = {} THEN base ELSE ResolveCredit(i[s \ {Max(s)}], people, seq[Max(s)])]
<1>1. \A a, x : StepOf(fold, a, x) = ResolveCredit(a, people, x)
  BY DEF StepOf
<1>2. ResolveCredits(base, people, seq) = it[1..n]
  BY DEF ResolveCredits, FoldLeft, MapThenFoldSet
<1> HIDE DEF fold
<1>3. PICK g : /\ g = [s \in SUBSET (1..n) |-> g[s]]
               /\ \A s \in SUBSET (1..n) : g[s] = Folded(fold, base, seq, g, s)
  BY FoldExists
<1>4. g = [s \in SUBSET (1..n) |->
             IF s = {} THEN base ELSE ResolveCredit(g[s \ {Max(s)}], people, seq[Max(s)])]
  BY <1>1, <1>3 DEF Folded
<1>5. it = [s \in SUBSET (1..n) |->
              IF s = {} THEN base ELSE ResolveCredit(it[s \ {Max(s)}], people, seq[Max(s)])]
  BY <1>4
<1> HIDE DEF it
<1>6. IsFold(fold, base, seq, n, it)
  BY <1>1, <1>5 DEF Folded, IsFold
<1> DEFINE h == [k \in 0..n |-> it[1..k]]
<1>7. /\ it[1..0] = base
      /\ \A k \in 1..n : it[1..k] = StepOf(fold, it[1..(k-1)], seq[k])
  BY <1>6, FoldTrajectory
<1>8. Trace(fold, base, seq, n, h) /\ h[n] = ResolveCredits(base, people, seq)
  BY <1>2, <1>7 DEF Trace
<1> HIDE DEF h
<1> QED BY <1>1, <1>8 DEF fold

\* What ResolveLists starts from.
StartOf(d) == [persons |-> d.persons, lastId |-> d.lastId, created |-> <<>>,
               list |-> <<>>, lists |-> <<>>]

(* the lists of a form, *)
LEMMA ListFold ==
  ASSUME NEW d, NEW people, NEW seq, NEW n \in Nat, DOMAIN seq = 1..n
  PROVE /\ \E h : Trace(<<"list", people>>, StartOf(d), seq, n, h) /\ h[n] = ResolveLists(d, people, seq)
        /\ \A a, x : StepOf(<<"list", people>>, a, x) = ResolveList(a, people, x)
<1> DEFINE fold == <<"list", people>>
           it == CHOOSE i : i = [s \in SUBSET (1..n) |->
                                   IF s = {} THEN StartOf(d) ELSE ResolveList(i[s \ {Max(s)}], people, seq[Max(s)])]
<1>1. \A a, x : StepOf(fold, a, x) = ResolveList(a, people, x)
  BY DEF StepOf
<1>2. ResolveLists(d, people, seq) = it[1..n]
  BY DEF ResolveLists, StartOf, FoldLeft, MapThenFoldSet
<1> HIDE DEF fold
<1>3. PICK g : /\ g = [s \in SUBSET (1..n) |-> g[s]]
               /\ \A s \in SUBSET (1..n) : g[s] = Folded(fold, StartOf(d), seq, g, s)
  BY FoldExists
<1>4. g = [s \in SUBSET (1..n) |->
             IF s = {} THEN StartOf(d) ELSE ResolveList(g[s \ {Max(s)}], people, seq[Max(s)])]
  BY <1>1, <1>3 DEF Folded
<1>5. it = [s \in SUBSET (1..n) |->
              IF s = {} THEN StartOf(d) ELSE ResolveList(it[s \ {Max(s)}], people, seq[Max(s)])]
  BY <1>4
<1> HIDE DEF it
<1>6. IsFold(fold, StartOf(d), seq, n, it)
  BY <1>1, <1>5 DEF Folded, IsFold
<1> DEFINE h == [k \in 0..n |-> it[1..k]]
<1>7. /\ it[1..0] = StartOf(d)
      /\ \A k \in 1..n : it[1..k] = StepOf(fold, it[1..(k-1)], seq[k])
  BY <1>6, FoldTrajectory
<1>8. Trace(fold, StartOf(d), seq, n, h) /\ h[n] = ResolveLists(d, people, seq)
  BY <1>2, <1>7 DEF Trace
<1> HIDE DEF h
<1> QED BY <1>1, <1>8 DEF fold

(* the contents of a claimed import, *)
LEMMA FillFold ==
  ASSUME NEW seq, NEW n \in Nat, DOMAIN seq = 1..n
  PROVE /\ \E h : Trace(<<"fill">>, <<>>, seq, n, h) /\ h[n] = Filled(seq)
        /\ \A a, x : StepOf(<<"fill">>, a, x) = FillIn(a, x)
<1> DEFINE fold == <<"fill">>
           it == CHOOSE i : i = [s \in SUBSET (1..n) |->
                                   IF s = {} THEN <<>> ELSE FillIn(i[s \ {Max(s)}], seq[Max(s)])]
<1>1. \A a, x : StepOf(fold, a, x) = FillIn(a, x)
  BY DEF StepOf
<1>2. Filled(seq) = it[1..n]
  BY DEF Filled, FoldLeft, MapThenFoldSet
<1> HIDE DEF fold
<1>3. PICK g : /\ g = [s \in SUBSET (1..n) |-> g[s]]
               /\ \A s \in SUBSET (1..n) : g[s] = Folded(fold, <<>>, seq, g, s)
  BY FoldExists
<1>4. g = [s \in SUBSET (1..n) |->
             IF s = {} THEN <<>> ELSE FillIn(g[s \ {Max(s)}], seq[Max(s)])]
  BY <1>1, <1>3 DEF Folded
<1>5. it = [s \in SUBSET (1..n) |->
              IF s = {} THEN <<>> ELSE FillIn(it[s \ {Max(s)}], seq[Max(s)])]
  BY <1>4
<1> HIDE DEF it
<1>6. IsFold(fold, <<>>, seq, n, it)
  BY <1>1, <1>5 DEF Folded, IsFold
<1> DEFINE h == [k \in 0..n |-> it[1..k]]
<1>7. /\ it[1..0] = <<>>
      /\ \A k \in 1..n : it[1..k] = StepOf(fold, it[1..(k-1)], seq[k])
  BY <1>6, FoldTrajectory
<1>8. Trace(fold, <<>>, seq, n, h) /\ h[n] = Filled(seq)
  BY <1>2, <1>7 DEF Trace
<1> HIDE DEF h
<1> QED BY <1>1, <1>8 DEF fold

(* the new people of a form, *)
LEMMA PersonFold ==
  ASSUME NEW base, NEW seq, NEW n \in Nat, DOMAIN seq = 1..n
  PROVE /\ \E h : Trace(<<"person">>, base, seq, n, h) /\ h[n] = CreateEach(base, seq)
        /\ \A a, x : StepOf(<<"person">>, a, x) = CreateNewPerson(a, x)
<1> DEFINE fold == <<"person">>
           it == CHOOSE i : i = [s \in SUBSET (1..n) |->
                                   IF s = {} THEN base ELSE CreateNewPerson(i[s \ {Max(s)}], seq[Max(s)])]
<1>1. \A a, x : StepOf(fold, a, x) = CreateNewPerson(a, x)
  BY DEF StepOf
<1>2. CreateEach(base, seq) = it[1..n]
  BY DEF CreateEach, FoldLeft, MapThenFoldSet
<1> HIDE DEF fold
<1>3. PICK g : /\ g = [s \in SUBSET (1..n) |-> g[s]]
               /\ \A s \in SUBSET (1..n) : g[s] = Folded(fold, base, seq, g, s)
  BY FoldExists
<1>4. g = [s \in SUBSET (1..n) |->
             IF s = {} THEN base ELSE CreateNewPerson(g[s \ {Max(s)}], seq[Max(s)])]
  BY <1>1, <1>3 DEF Folded
<1>5. it = [s \in SUBSET (1..n) |->
              IF s = {} THEN base ELSE CreateNewPerson(it[s \ {Max(s)}], seq[Max(s)])]
  BY <1>4
<1> HIDE DEF it
<1>6. IsFold(fold, base, seq, n, it)
  BY <1>1, <1>5 DEF Folded, IsFold
<1> DEFINE h == [k \in 0..n |-> it[1..k]]
<1>7. /\ it[1..0] = base
      /\ \A k \in 1..n : it[1..k] = StepOf(fold, it[1..(k-1)], seq[k])
  BY <1>6, FoldTrajectory
<1>8. Trace(fold, base, seq, n, h) /\ h[n] = CreateEach(base, seq)
  BY <1>2, <1>7 DEF Trace
<1> HIDE DEF h
<1> QED BY <1>1, <1>8 DEF fold

(* the contents of a new publication, *)
LEMMA AddFold ==
  ASSUME NEW base, NEW p, NEW seq, NEW n \in Nat, DOMAIN seq = 1..n
  PROVE /\ \E h : Trace(<<"add", p>>, base, seq, n, h) /\ h[n] = AddContents(base, p, seq)
        /\ \A a, x : StepOf(<<"add", p>>, a, x) = AddContent(a, p, x)
<1> DEFINE fold == <<"add", p>>
           it == CHOOSE i : i = [s \in SUBSET (1..n) |->
                                   IF s = {} THEN base ELSE AddContent(i[s \ {Max(s)}], p, seq[Max(s)])]
<1>1. \A a, x : StepOf(fold, a, x) = AddContent(a, p, x)
  BY DEF StepOf
<1>2. AddContents(base, p, seq) = it[1..n]
  BY DEF AddContents, FoldLeft, MapThenFoldSet
<1> HIDE DEF fold
<1>3. PICK g : /\ g = [s \in SUBSET (1..n) |-> g[s]]
               /\ \A s \in SUBSET (1..n) : g[s] = Folded(fold, base, seq, g, s)
  BY FoldExists
<1>4. g = [s \in SUBSET (1..n) |->
             IF s = {} THEN base ELSE AddContent(g[s \ {Max(s)}], p, seq[Max(s)])]
  BY <1>1, <1>3 DEF Folded
<1>5. it = [s \in SUBSET (1..n) |->
              IF s = {} THEN base ELSE AddContent(it[s \ {Max(s)}], p, seq[Max(s)])]
  BY <1>4
<1> HIDE DEF it
<1>6. IsFold(fold, base, seq, n, it)
  BY <1>1, <1>5 DEF Folded, IsFold
<1> DEFINE h == [k \in 0..n |-> it[1..k]]
<1>7. /\ it[1..0] = base
      /\ \A k \in 1..n : it[1..k] = StepOf(fold, it[1..(k-1)], seq[k])
  BY <1>6, FoldTrajectory
<1>8. Trace(fold, base, seq, n, h) /\ h[n] = AddContents(base, p, seq)
  BY <1>2, <1>7 DEF Trace
<1> HIDE DEF h
<1> QED BY <1>1, <1>8 DEF fold

(* and those of an edited one. *)
LEMMA WriteFold ==
  ASSUME NEW base, NEW p, NEW before, NEW seq, NEW n \in Nat, DOMAIN seq = 1..n
  PROVE /\ \E h : Trace(<<"write", p, before>>, base, seq, n, h) /\ h[n] = WriteContents(base, p, before, seq)
        /\ \A a, x : StepOf(<<"write", p, before>>, a, x) = WriteContent(a, p, before, x)
<1> DEFINE fold == <<"write", p, before>>
           it == CHOOSE i : i = [s \in SUBSET (1..n) |->
                                   IF s = {} THEN base ELSE WriteContent(i[s \ {Max(s)}], p, before, seq[Max(s)])]
<1>1. \A a, x : StepOf(fold, a, x) = WriteContent(a, p, before, x)
  BY DEF StepOf
<1>2. WriteContents(base, p, before, seq) = it[1..n]
  BY DEF WriteContents, FoldLeft, MapThenFoldSet
<1> HIDE DEF fold
<1>3. PICK g : /\ g = [s \in SUBSET (1..n) |-> g[s]]
               /\ \A s \in SUBSET (1..n) : g[s] = Folded(fold, base, seq, g, s)
  BY FoldExists
<1>4. g = [s \in SUBSET (1..n) |->
             IF s = {} THEN base ELSE WriteContent(g[s \ {Max(s)}], p, before, seq[Max(s)])]
  BY <1>1, <1>3 DEF Folded
<1>5. it = [s \in SUBSET (1..n) |->
              IF s = {} THEN base ELSE WriteContent(it[s \ {Max(s)}], p, before, seq[Max(s)])]
  BY <1>4
<1> HIDE DEF it
<1>6. IsFold(fold, base, seq, n, it)
  BY <1>1, <1>5 DEF Folded, IsFold
<1> DEFINE h == [k \in 0..n |-> it[1..k]]
<1>7. /\ it[1..0] = base
      /\ \A k \in 1..n : it[1..k] = StepOf(fold, it[1..(k-1)], seq[k])
  BY <1>6, FoldTrajectory
<1>8. Trace(fold, base, seq, n, h) /\ h[n] = WriteContents(base, p, before, seq)
  BY <1>2, <1>7 DEF Trace
<1> HIDE DEF h
<1> QED BY <1>1, <1>8 DEF fold

-----------------------------------------------------------------------------
(***************************************************************************)
(* Lists without duplicates                                                *)
(***************************************************************************)

(* A list has the elements of its positions, and one longer has one more. *)
LEMMA Appended ==
  ASSUME NEW S, NEW s \in Seq(S), NEW e \in S
  PROVE /\ Append(s, e) \in Seq(S)
        /\ DOMAIN Append(s, e) = 1 .. Len(s) + 1 /\ Len(Append(s, e)) = Len(s) + 1
        /\ \A k \in 1 .. Len(s) : Append(s, e)[k] = s[k]
        /\ Append(s, e)[Len(s) + 1] = e
        /\ ToSet(Append(s, e)) = ToSet(s) \union {e}
<1>1. /\ Append(s, e) \in Seq(S)
      /\ DOMAIN Append(s, e) = 1 .. Len(s) + 1 /\ Len(Append(s, e)) = Len(s) + 1
      /\ \A k \in 1 .. Len(s) : Append(s, e)[k] = s[k]
      /\ Append(s, e)[Len(s) + 1] = e
  OBVIOUS
<1>2. DOMAIN s = 1 .. Len(s) /\ Len(s) \in Nat
  OBVIOUS
<1> DEFINE a == Append(s, e)
<1>3. DOMAIN a = 1 .. Len(s) + 1 /\ a[Len(s) + 1] = e /\ \A k \in 1 .. Len(s) : a[k] = s[k]
  BY <1>1
<1> HIDE DEF a
<1>4. ASSUME NEW k \in 1 .. Len(s) + 1 PROVE k \in 1 .. Len(s) \/ k = Len(s) + 1
  BY <1>2
<1>5. ToSet(a) = ToSet(s) \union {e}
  BY <1>2, <1>3, <1>4 DEF ToSet
<1> QED BY <1>1, <1>5 DEF a

(* Dedupe keeps what a list has, once. *)
LEMMA DedupeSound ==
  ASSUME NEW S, NEW refs \in Seq(S)
  PROVE /\ Dedupe(refs) \in Seq(S)
        /\ IsInjective(Dedupe(refs))
        /\ ToSet(Dedupe(refs)) = ToSet(refs)
<1> DEFINE n == Len(refs)
<1>1. n \in Nat /\ DOMAIN refs = 1 .. n /\ \A k \in 1 .. n : refs[k] \in S
  OBVIOUS
<1> HIDE DEF n
<1>a. PICK h : Trace(<<"dedupe">>, <<>>, refs, n, h) /\ h[n] = Dedupe(refs)
  BY <1>1, DedupeFold
<1>2. /\ h[0] = <<>> /\ h[n] = Dedupe(refs)
      /\ \A k \in 1 .. n : h[k] = Once(h[k-1], refs[k])
  BY <1>1, <1>a, DedupeFold DEF Trace
<1> DEFINE Good(k) == /\ h[k] \in Seq(S) /\ IsInjective(h[k])
                      /\ ToSet(h[k]) = {refs[j] : j \in 1 .. k}
           T == {k \in 0 .. n : Good(k)}
<1>3. 0 \in T
  <2>1. h[0] \in Seq(S) /\ DOMAIN h[0] = {} /\ 1 .. 0 = {}
    BY <1>2
  <2>2. Good(0)
    BY <2>1 DEF ToSet, IsInjective
  <2> QED BY <2>2, <1>1
<1>4. ASSUME NEW k \in 1 .. n, k - 1 \in T PROVE k \in T
  <2> DEFINE s == h[k-1]
             r == refs[k]
  <2>1. s \in Seq(S) /\ IsInjective(s) /\ ToSet(s) = {refs[j] : j \in 1 .. (k-1)} /\ r \in S
    BY <1>1, <1>4
  <2>2. {refs[j] : j \in 1 .. k} = {refs[j] : j \in 1 .. (k-1)} \union {r}
    BY <1>1
  <2>3. h[k] = Once(s, r)
    BY <1>2
  <2> HIDE DEF s, r
  <2>4. Contains(s, r) <=> r \in ToSet(s)
    <3>1. DOMAIN s = 1 .. Len(s)
      BY <2>1
    <3> QED BY <3>1 DEF Contains, ToSet
  <2>5. CASE r \in ToSet(s)
    <3>1. h[k] = s
      BY <2>3, <2>4, <2>5 DEF Once
    <3>2. ToSet(s) = {refs[j] : j \in 1 .. k}
      BY <2>1, <2>2, <2>5
    <3> QED BY <3>1, <3>2, <2>1
  <2>6. CASE r \notin ToSet(s)
    <3>1. h[k] = Append(s, r)
      BY <2>3, <2>4, <2>6 DEF Once
    <3>2. h[k] \in Seq(S) /\ ToSet(h[k]) = ToSet(s) \union {r}
      BY <3>1, <2>1, Appended
    <3>8. ToSet(h[k]) = {refs[j] : j \in 1 .. k}
      BY <3>2, <2>1, <2>2
    <3>3. /\ DOMAIN h[k] = 1 .. Len(s) + 1 /\ h[k][Len(s) + 1] = r
          /\ \A j \in 1 .. Len(s) : h[k][j] = s[j]
      BY <3>1, <2>1, Appended
    <3>4. DOMAIN s = 1 .. Len(s) /\ Len(s) \in Nat
      BY <2>1
    <3>5. \A j \in 1 .. Len(s) : s[j] # r
      BY <2>6, <3>4 DEF ToSet
    <3>6. \A a, b \in 1 .. Len(s) : s[a] = s[b] => a = b
      BY <2>1, <3>4 DEF IsInjective
    <3>7. ASSUME NEW a \in 1 .. Len(s) + 1, NEW b \in 1 .. Len(s) + 1, h[k][a] = h[k][b]
          PROVE a = b
      <4>1. /\ a \in 1 .. Len(s) \/ a = Len(s) + 1
            /\ b \in 1 .. Len(s) \/ b = Len(s) + 1
        BY <3>4
      <4> QED BY <3>3, <3>5, <3>6, <3>7, <4>1
    <3> QED BY <3>2, <3>3, <3>7, <3>8 DEF IsInjective
  <2> QED BY <2>5, <2>6
<1> HIDE DEF T
<1>5. n \in T
  BY <1>1, <1>3, <1>4, Induction
<1>6. ToSet(refs) = {refs[j] : j \in 1 .. n}
  BY <1>1 DEF ToSet
<1> QED BY <1>2, <1>5, <1>6 DEF T

Refs == {"stored", "draft"} \X Nat
Merges == Seq([from : Nat, into : Nat])

\* Lists of works that hold the same drafts.
SameDrafts(refs, others) ==
    \A w : DraftWork(w) \in ToSet(refs) <=> DraftWork(w) \in ToSet(others)
IsContents(refs) == refs \in Seq(Refs) /\ IsInjective(refs)

(* Relinking a merge changes no draft, and lists nothing twice. *)
LEMMA RelinkSound ==
  ASSUME NEW refs \in Seq(Refs), NEW m \in [from : Nat, into : Nat]
  PROVE IsContents(Relink(refs, m)) /\ SameDrafts(Relink(refs, m), refs)
<1> DEFINE new == [k \in DOMAIN refs |-> IF refs[k] = StoredWork(m.from) THEN StoredWork(m.into)
                                         ELSE refs[k]]
<1>1. DOMAIN refs = 1 .. Len(refs) /\ Len(refs) \in Nat /\ \A k \in DOMAIN refs : refs[k] \in Refs
  OBVIOUS
<1>2. StoredWork(m.into) \in Refs
  BY DEF StoredWork, Refs
<1>3. new \in Seq(Refs)
  BY <1>1, <1>2
<1>4. \A k \in DOMAIN refs : \A w : new[k] = DraftWork(w) <=> refs[k] = DraftWork(w)
  BY DEF StoredWork, DraftWork
<1>5. DOMAIN new = DOMAIN refs
  OBVIOUS
<1> HIDE DEF new
<1>6. SameDrafts(new, refs)
  BY <1>4, <1>5 DEF SameDrafts, ToSet
<1>7. Relink(refs, m) = Dedupe(new)
  BY DEF Relink, new
<1> QED BY <1>3, <1>6, <1>7, DedupeSound DEF IsContents, SameDrafts

(* Nor does relinking several, one after the other. *)
LEMMA RelinkedSound ==
  ASSUME NEW refs, IsContents(refs), NEW merges \in Merges
  PROVE IsContents(Relinked(refs, merges)) /\ SameDrafts(Relinked(refs, merges), refs)
<1> DEFINE n == Len(merges)
           M == [from : Nat, into : Nat]
<1>0. merges \in Seq(M)
  BY DEF Merges
<1> HIDE DEF M
<1>1. n \in Nat /\ DOMAIN merges = 1 .. n
  BY <1>0
<1>2. \A k \in 1 .. n : merges[k] \in M
  BY <1>0, <1>1
<1> HIDE DEF n
<1>a. PICK h : Trace(<<"relink">>, refs, merges, n, h) /\ h[n] = Relinked(refs, merges)
  BY <1>1, RelinkFold
<1>3. /\ h[0] = refs /\ h[n] = Relinked(refs, merges)
      /\ \A k \in 1 .. n : h[k] = Relink(h[k-1], merges[k])
  BY <1>1, <1>a, RelinkFold DEF Trace
<1> DEFINE T == {k \in 0 .. n : IsContents(h[k]) /\ SameDrafts(h[k], refs)}
<1>4. 0 \in T
  BY <1>1, <1>3 DEF SameDrafts
<1>5. ASSUME NEW k \in 1 .. n, k - 1 \in T PROVE k \in T
  <2>1. IsContents(h[k-1]) /\ SameDrafts(h[k-1], refs)
    BY <1>5
  <2>2. merges[k] \in [from : Nat, into : Nat]
    BY <1>2 DEF M
  <2>3. /\ IsContents(Relink(h[k-1], merges[k]))
        /\ SameDrafts(Relink(h[k-1], merges[k]), h[k-1])
    BY <2>1, <2>2, RelinkSound DEF IsContents
  <2>4. h[k] = Relink(h[k-1], merges[k])
    BY <1>3
  <2>5. SameDrafts(h[k], refs)
    BY <2>1, <2>3, <2>4 DEF SameDrafts
  <2>6. k \in 0 .. n /\ IsContents(h[k])
    BY <1>1, <2>3, <2>4
  <2> QED BY <2>5, <2>6
<1> HIDE DEF T
<1>6. n \in T
  BY <1>1, <1>4, <1>5, Induction
<1> QED BY <1>3, <1>6 DEF T

(* Relinking an accepted import's works leaves the others' as drafts, and no new ones. *)
LEMMA RelinkContentsSound ==
  ASSUME NEW refs \in Seq(Refs), NEW works \in SUBSET (Nat \X Nat)
  PROVE /\ IsContents(RelinkContents(refs, works))
        /\ \A w : DraftWork(w) \in ToSet(RelinkContents(refs, works)) => DraftWork(w) \in ToSet(refs)
<1> DEFINE of(k) == CHOOSE w \in works : refs[k] = DraftWork(w[1])
           new == [k \in DOMAIN refs |->
                     IF \E w \in works : refs[k] = DraftWork(w[1]) THEN StoredWork(of(k)[2])
                     ELSE refs[k]]
<1>1. DOMAIN refs = 1 .. Len(refs) /\ Len(refs) \in Nat /\ \A k \in DOMAIN refs : refs[k] \in Refs
  OBVIOUS
<1>2. ASSUME NEW k \in DOMAIN refs, \E w \in works : refs[k] = DraftWork(w[1])
      PROVE StoredWork(of(k)[2]) \in Refs
  <2>1. of(k) \in works
    BY <1>2
  <2> HIDE DEF of
  <2> QED BY <2>1 DEF StoredWork, Refs
<1> HIDE DEF of
<1>3. new \in Seq(Refs)
  BY <1>1, <1>2
<1>4. \A k \in DOMAIN refs : \A w : new[k] = DraftWork(w) => refs[k] = DraftWork(w)
  BY DEF StoredWork, DraftWork
<1>5. DOMAIN new = DOMAIN refs
  OBVIOUS
<1> HIDE DEF new
<1>6. \A w : DraftWork(w) \in ToSet(new) => DraftWork(w) \in ToSet(refs)
  BY <1>4, <1>5 DEF ToSet
<1>7. RelinkContents(refs, works) = Dedupe(new)
  BY DEF RelinkContents, new, of
<1> QED BY <1>3, <1>6, <1>7, DedupeSound DEF IsContents

-----------------------------------------------------------------------------
(***************************************************************************)
(* The store                                                               *)
(***************************************************************************)

Entries == [accepting : BOOLEAN, saved : BOOLEAN, credits : Seq(Credit), contents : Seq(Refs)]
DraftRows == [credits : Seq(Credit), numbers : SUBSET Numbers]

\* The ids of a store are its counter's.
IsStore(d) ==
    /\ d = [imports |-> d.imports, works |-> d.works, persons |-> d.persons, lastId |-> d.lastId]
    /\ d.lastId \in Nat
    /\ d.imports \in [DOMAIN d.imports -> Entries] /\ DOMAIN d.imports \subseteq 1 .. d.lastId
    /\ d.works \in [DOMAIN d.works -> DraftRows] /\ DOMAIN d.works \subseteq 1 .. d.lastId
    /\ d.persons \in [DOMAIN d.persons -> Names] /\ DOMAIN d.persons \subseteq 1 .. d.lastId

\* The draft people of a list are held.
KnowsAll(persons, credits) ==
    \A k \in DOMAIN credits :
       credits[k].person[1] = "draft" => credits[k].person[2] \in DOMAIN persons

\* Whatever a store refers to, it holds; and no import lists a work twice.
Resolves(d) ==
    /\ \A i \in DOMAIN d.imports : IsInjective(d.imports[i].contents)
    /\ \A i \in DOMAIN d.imports : \A w : DraftWork(w) \in ToSet(d.imports[i].contents)
                                         => w \in DOMAIN d.works
    /\ \A i \in DOMAIN d.imports : KnowsAll(d.persons, d.imports[i].credits)
    /\ \A w \in DOMAIN d.works : KnowsAll(d.persons, d.works[w].credits)

\* And it holds nothing else (DraftsAreKeptWhileNeeded).
Kept(d) ==
    /\ Resolves(d)
    /\ DOMAIN d.works \subseteq DraftsContained(d)
    /\ DOMAIN d.persons \subseteq DraftsCredited(d)

(* Whom a list credits, position by position. *)
LEMMA DraftsOfCredits ==
  ASSUME NEW credits \in Seq(Credit), NEW persons
  PROVE /\ KnowsAll(persons, credits) <=>
             \A x \in {c.person : c \in ToSet(credits)} : x[1] = "draft" => x[2] \in DOMAIN persons
        /\ \A k \in DOMAIN credits : credits[k].person \in Person
        /\ \A k \in DOMAIN credits : credits[k].person[1] = "draft"
              => credits[k].person = DraftPerson(credits[k].person[2])
<1>1. DOMAIN credits = 1 .. Len(credits) /\ \A k \in DOMAIN credits : credits[k] \in Credit
  OBVIOUS
<1>2. \A k \in DOMAIN credits : credits[k].person \in Person
  BY <1>1 DEF Credit
<1>3. \A x \in Person : x[1] = "draft" => x = DraftPerson(x[2])
  BY DEF Person, DraftPerson, NewPerson, Unresolved
<1>4. {c.person : c \in ToSet(credits)} = {credits[k].person : k \in DOMAIN credits}
  BY DEF ToSet
<1> QED BY <1>2, <1>3, <1>4 DEF KnowsAll

(* What the property says is what the store keeps. *)
LEMMA KeptIsTheProperty ==
  ASSUME IsStore(drafts)
  PROVE DraftsAreKeptWhileNeeded <=> Kept(drafts)
<1>1. \A i \in DOMAIN drafts.imports : /\ drafts.imports[i].credits \in Seq(Credit)
                                       /\ drafts.imports[i].contents \in Seq(Refs)
  BY DEF IsStore, Entries
<1>2. \A w \in DOMAIN drafts.works : drafts.works[w].credits \in Seq(Credit)
  BY DEF IsStore, DraftRows
<1>3. \A i \in DOMAIN drafts.imports : KnowsAll(drafts.persons, drafts.imports[i].credits)
        <=> \A x \in CreditedBy(drafts, i) : x[1] = "draft" => x[2] \in DOMAIN drafts.persons
  BY <1>1, DraftsOfCredits DEF CreditedBy
<1>4. \A w \in DOMAIN drafts.works : KnowsAll(drafts.persons, drafts.works[w].credits)
        <=> \A x \in CreditedByWork(drafts, w) : x[1] = "draft" => x[2] \in DOMAIN drafts.persons
  BY <1>2, DraftsOfCredits DEF CreditedByWork
<1>5. ASSUME NEW i \in DOMAIN drafts.imports
      PROVE (\A w : DraftWork(w) \in ToSet(drafts.imports[i].contents) => w \in DOMAIN drafts.works)
        <=> \A r \in ToSet(drafts.imports[i].contents) : r[1] = "draft" => r[2] \in DOMAIN drafts.works
  <2>1. \A r \in ToSet(drafts.imports[i].contents) : r \in Refs
    BY <1>1 DEF ToSet
  <2>2. \A r \in Refs : r[1] = "draft" => r = DraftWork(r[2])
    BY DEF Refs, DraftWork
  <2>3. \A w : DraftWork(w)[1] = "draft" /\ DraftWork(w)[2] = w
    BY DEF DraftWork
  <2> QED BY <2>1, <2>2, <2>3
<1>6. DraftsContained(drafts) \subseteq DOMAIN drafts.works
  BY DEF DraftsContained
<1>7. DraftsCredited(drafts) \subseteq DOMAIN drafts.persons
  BY DEF DraftsCredited
<1> QED BY <1>3, <1>4, <1>5, <1>6, <1>7 DEF DraftsAreKeptWhileNeeded, Kept, Resolves

(* LibraryDrafts::collect keeps what is needed, and only that. *)
LEMMA CollectSound ==
  ASSUME NEW d, IsStore(d), Resolves(d)
  PROVE /\ IsStore(CollectDrafts(d)) /\ Kept(CollectDrafts(d))
        /\ CollectDrafts(d).imports = d.imports /\ CollectDrafts(d).lastId = d.lastId
        /\ CollectDrafts(d).persons = Restrict(d.persons, DOMAIN CollectDrafts(d).persons)
<1> DEFINE w == CollectDraftWorks(d)
           p == CollectDraftPersons(w)
<1>1. /\ w = [imports |-> d.imports, works |-> Restrict(d.works, DraftsContained(d)),
              persons |-> d.persons, lastId |-> d.lastId]
  BY DEF IsStore, CollectDraftWorks
<1>2. /\ w.imports = d.imports /\ w.persons = d.persons /\ w.lastId = d.lastId
      /\ DOMAIN w.works = DraftsContained(d)
      /\ \A x \in DOMAIN w.works : w.works[x] = d.works[x]
      /\ w.works = [x \in DraftsContained(d) |-> d.works[x]]
  BY <1>1 DEF Restrict
<1>3. DraftsContained(d) \subseteq DOMAIN d.works
  BY DEF DraftsContained
<1>4. IsStore(w)
  <2>1. w.works \in [DOMAIN w.works -> DraftRows]
    BY <1>2, <1>3 DEF IsStore
  <2> QED BY <1>1, <1>2, <1>3, <2>1 DEF IsStore
<1> HIDE DEF w
<1>5. /\ p = [imports |-> w.imports, works |-> w.works,
              persons |-> Restrict(w.persons, DraftsCredited(w)), lastId |-> w.lastId]
  BY <1>4 DEF IsStore, CollectDraftPersons
<1>6. /\ p.imports = w.imports /\ p.works = w.works /\ p.lastId = w.lastId
      /\ DOMAIN p.persons = DraftsCredited(w)
      /\ p.persons = [x \in DraftsCredited(w) |-> w.persons[x]]
  BY <1>5 DEF Restrict
<1>7. DraftsCredited(w) \subseteq DOMAIN w.persons
  BY DEF DraftsCredited
<1>8. IsStore(p)
  <2>1. p.persons \in [DOMAIN p.persons -> Names]
    BY <1>4, <1>6, <1>7 DEF IsStore
  <2> QED BY <1>4, <1>5, <1>6, <1>7, <2>1 DEF IsStore
<1> HIDE DEF p
<1>9. DOMAIN p.works = DraftsContained(p)
  BY <1>2, <1>3, <1>6 DEF DraftsContained
<1>10. DOMAIN p.persons = DraftsCredited(p)
  BY <1>6, <1>7 DEF DraftsCredited, CreditedBy, CreditedByWork
<1>11. \A i \in DOMAIN p.imports : \A x : DraftWork(x) \in ToSet(p.imports[i].contents)
                                         => x \in DOMAIN p.works
  BY <1>2, <1>6 DEF Resolves, DraftsContained
<1>12. ASSUME NEW i \in DOMAIN p.imports PROVE KnowsAll(p.persons, p.imports[i].credits)
  <2> DEFINE credits == p.imports[i].credits
  <2>1. credits \in Seq(Credit) /\ credits = w.imports[i].credits /\ i \in DOMAIN w.imports
    BY <1>6, <1>8 DEF IsStore, Entries
  <2>2. KnowsAll(w.persons, credits)
    BY <1>2, <1>6 DEF Resolves
  <2>3. ASSUME NEW k \in DOMAIN credits, credits[k].person[1] = "draft"
        PROVE credits[k].person[2] \in DraftsCredited(w)
    <3>1. credits[k].person[2] \in DOMAIN w.persons
      BY <2>2, <2>3 DEF KnowsAll
    <3>2. DraftPerson(credits[k].person[2]) = credits[k].person
      BY <2>1, <2>3, DraftsOfCredits
    <3>3. credits[k].person \in CreditedBy(w, i)
      BY <2>1 DEF CreditedBy, ToSet
    <3> QED BY <2>1, <3>1, <3>2, <3>3 DEF DraftsCredited
  <2> QED BY <1>6, <2>3 DEF KnowsAll
<1>13. ASSUME NEW x \in DOMAIN p.works PROVE KnowsAll(p.persons, p.works[x].credits)
  <2> DEFINE credits == p.works[x].credits
  <2>1. credits \in Seq(Credit) /\ credits = w.works[x].credits /\ x \in DOMAIN w.works
    BY <1>6, <1>8 DEF IsStore, DraftRows
  <2>2. KnowsAll(w.persons, credits)
    BY <1>2, <1>3, <1>6 DEF Resolves
  <2>3. ASSUME NEW k \in DOMAIN credits, credits[k].person[1] = "draft"
        PROVE credits[k].person[2] \in DraftsCredited(w)
    <3>1. credits[k].person[2] \in DOMAIN w.persons
      BY <2>2, <2>3 DEF KnowsAll
    <3>2. DraftPerson(credits[k].person[2]) = credits[k].person
      BY <2>1, <2>3, DraftsOfCredits
    <3>3. credits[k].person \in CreditedByWork(w, x)
      BY <2>1 DEF CreditedByWork, ToSet
    <3> QED BY <2>1, <3>1, <3>2, <3>3 DEF DraftsCredited
  <2> QED BY <1>6, <2>3 DEF KnowsAll
<1>14. \A i \in DOMAIN p.imports : IsInjective(p.imports[i].contents)
  BY <1>2, <1>6 DEF Resolves
<1>15. Kept(p)
  BY <1>9, <1>10, <1>11, <1>12, <1>13, <1>14 DEF Kept, Resolves
<1>16. CollectDrafts(d) = p
  BY DEF CollectDrafts, p, w
<1> QED BY <1>2, <1>6, <1>8, <1>15, <1>16 DEF Restrict

-----------------------------------------------------------------------------
(***************************************************************************)
(* What the store's functions but save make of it                          *)
(***************************************************************************)

\* The imports of a store are those of another, but for what they contain.
SameClaims(e, d) ==
    /\ DOMAIN e.imports = DOMAIN d.imports
    /\ \A i \in DOMAIN d.imports : e.imports[i].accepting = d.imports[i].accepting

(* A new import is empty, and its id is new. *)
LEMMA StartSound ==
  ASSUME NEW d, IsStore(d), Kept(d)
  PROVE LET e == StartImport(d) IN
        /\ IsStore(e) /\ Kept(e)
        /\ e.lastId = d.lastId + 1 /\ e.lastId \notin DOMAIN d.imports
        /\ DOMAIN e.imports = DOMAIN d.imports \union {e.lastId}
        /\ ~e.imports[e.lastId].accepting
        /\ \A i \in DOMAIN d.imports : e.imports[i] = d.imports[i]
<1> DEFINE e == StartImport(d)
           id == d.lastId + 1
<1>1. id \in Nat /\ id \notin 1 .. d.lastId /\ 1 .. id = (1 .. d.lastId) \union {id}
  BY DEF IsStore
<1>2. e = [imports |-> With(d.imports, id, NewImport), works |-> d.works,
           persons |-> d.persons, lastId |-> id]
  <2> DEFINE imports == With(d.imports, id, NewImport)
  <2>1. e = [[d EXCEPT !.imports = imports] EXCEPT !.lastId = id]
    BY DEF StartImport
  <2> HIDE DEF imports, id, e
  <2> QED BY <2>1 DEF IsStore, imports
<1>3. NewImport \in Entries
  <2>1. <<>> \in Seq(Credit) /\ <<>> \in Seq(Refs)
    OBVIOUS
  <2> QED BY <2>1 DEF NewImport, Entries
<1>4. /\ DOMAIN e.imports = DOMAIN d.imports \union {id}
      /\ e.imports[id] = NewImport
      /\ \A i \in DOMAIN d.imports : e.imports[i] = d.imports[i]
      /\ e.imports \in [DOMAIN e.imports -> Entries]
  BY <1>1, <1>2, <1>3 DEF IsStore, With
<1>5. e.works = d.works /\ e.persons = d.persons /\ e.lastId = id
  BY <1>2
<1>6. DOMAIN d.works \subseteq 1 .. id /\ DOMAIN d.persons \subseteq 1 .. id
      /\ DOMAIN e.imports \subseteq 1 .. id
  BY <1>1, <1>4 DEF IsStore
<1>7. IsStore(e)
  <2>1. e = [imports |-> e.imports, works |-> e.works, persons |-> e.persons, lastId |-> e.lastId]
    BY <1>2
  <2> HIDE DEF e
  <2> QED BY <2>1, <1>1, <1>4, <1>5, <1>6 DEF IsStore
<1>8. id \notin DOMAIN d.imports
  BY <1>1 DEF IsStore
<1> HIDE DEF e, id
<1>9. /\ DOMAIN NewImport.contents = {} /\ DOMAIN NewImport.credits = {} /\ ~NewImport.accepting
      /\ ToSet(NewImport.contents) = {}
  BY DEF NewImport, ToSet
<1>10. Resolves(e)
  <2>1. \A i \in DOMAIN e.imports : i \in DOMAIN d.imports \/ e.imports[i] = NewImport
    BY <1>4
  <2>2. \A i \in DOMAIN e.imports : IsInjective(e.imports[i].contents)
    BY <2>1, <1>4, <1>9 DEF Kept, Resolves, IsInjective
  <2>3. \A i \in DOMAIN e.imports : KnowsAll(e.persons, e.imports[i].credits)
    BY <2>1, <1>4, <1>5, <1>9 DEF Kept, Resolves, KnowsAll
  <2>4. \A i \in DOMAIN e.imports : \A w : DraftWork(w) \in ToSet(e.imports[i].contents)
                                         => w \in DOMAIN e.works
    BY <2>1, <1>4, <1>5, <1>9 DEF Kept, Resolves
  <2> QED BY <2>2, <2>3, <2>4, <1>5 DEF Kept, Resolves
<1>11. DOMAIN e.works \subseteq DraftsContained(e)
  BY <1>4, <1>5 DEF Kept, DraftsContained
<1>12. DOMAIN e.persons \subseteq DraftsCredited(e)
  <2>1. \A i \in DOMAIN d.imports : CreditedBy(e, i) = CreditedBy(d, i)
    BY <1>4 DEF CreditedBy
  <2>2. \A w \in DOMAIN d.works : CreditedByWork(e, w) = CreditedByWork(d, w)
    BY <1>5 DEF CreditedByWork
  <2> QED BY <2>1, <2>2, <1>4, <1>5 DEF Kept, DraftsCredited
<1> QED BY <1>4, <1>5, <1>7, <1>8, <1>9, <1>10, <1>11, <1>12 DEF Kept, e, id

(* A change of the imports that keeps what each refers to keeps the drafts. *)
LEMMA SameReferences ==
  ASSUME NEW d, IsStore(d), Kept(d), NEW e, IsStore(e), e.works = d.works, e.persons = d.persons,
         DOMAIN e.imports = DOMAIN d.imports,
         \A i \in DOMAIN d.imports :
            /\ e.imports[i].credits = d.imports[i].credits
            /\ IsInjective(e.imports[i].contents)
            /\ SameDrafts(e.imports[i].contents, d.imports[i].contents)
  PROVE Kept(e)
<1>1. Resolves(e)
  BY DEF Kept, Resolves, SameDrafts
<1>2. DOMAIN e.works \subseteq DraftsContained(e)
  BY DEF Kept, DraftsContained, SameDrafts
<1>3. DOMAIN e.persons \subseteq DraftsCredited(e)
  <2>1. \A i \in DOMAIN d.imports : CreditedBy(e, i) = CreditedBy(d, i)
    BY DEF CreditedBy
  <2>2. \A w \in DOMAIN d.works : CreditedByWork(e, w) = CreditedByWork(d, w)
    BY DEF CreditedByWork
  <2> QED BY <2>1, <2>2 DEF Kept, DraftsCredited
<1> QED BY <1>1, <1>2, <1>3 DEF Kept

(* Claiming an import and giving the claim up change nothing else. *)
LEMMA AcceptingSound ==
  ASSUME NEW d, IsStore(d), Kept(d), NEW i \in DOMAIN d.imports, NEW b \in BOOLEAN
  PROVE LET e == [d EXCEPT !.imports[i].accepting = b] IN
        /\ IsStore(e) /\ Kept(e) /\ e.lastId = d.lastId /\ e.persons = d.persons
        /\ DOMAIN e.imports = DOMAIN d.imports
        /\ e.imports[i].accepting = b
        /\ \A j \in DOMAIN d.imports \ {i} : e.imports[j] = d.imports[j]
<1> DEFINE e == [d EXCEPT !.imports[i].accepting = b]
<1>1. e = [imports |-> [d.imports EXCEPT ![i] = [@ EXCEPT !.accepting = b]], works |-> d.works,
           persons |-> d.persons, lastId |-> d.lastId]
  BY DEF IsStore
<1>2. d.imports[i] \in Entries
  BY DEF IsStore
<1>3. [d.imports[i] EXCEPT !.accepting = b] \in Entries
  BY <1>2 DEF Entries
<1>4. /\ e.works = d.works /\ e.persons = d.persons /\ e.lastId = d.lastId
      /\ DOMAIN e.imports = DOMAIN d.imports
      /\ e.imports \in [DOMAIN d.imports -> Entries]
      /\ e.imports[i] = [d.imports[i] EXCEPT !.accepting = b]
      /\ \A j \in DOMAIN d.imports \ {i} : e.imports[j] = d.imports[j]
  BY <1>1, <1>3 DEF IsStore
<1>5. e = [imports |-> e.imports, works |-> e.works, persons |-> e.persons, lastId |-> e.lastId]
  BY <1>1
<1> HIDE DEF e
<1>6. IsStore(e)
  BY <1>4, <1>5 DEF IsStore
<1>7. e.imports[i].accepting = b /\ e.imports[i].credits = d.imports[i].credits
      /\ e.imports[i].contents = d.imports[i].contents
  BY <1>2, <1>4 DEF Entries
<1>8. \A j \in DOMAIN d.imports : /\ e.imports[j].credits = d.imports[j].credits
                                  /\ e.imports[j].contents = d.imports[j].contents
  BY <1>4, <1>7
<1>9. Kept(e)
  <2>1. \A j \in DOMAIN d.imports :
           /\ IsInjective(e.imports[j].contents)
           /\ SameDrafts(e.imports[j].contents, d.imports[j].contents)
    BY <1>8 DEF Kept, Resolves, SameDrafts
  <2> QED BY <1>4, <1>6, <1>8, <2>1, SameReferences
<1> QED BY <1>4, <1>6, <1>7, <1>9 DEF e

(* A library's drafts all go with it. *)
LEMMA DropSound ==
  ASSUME NEW d, IsStore(d)
  PROVE LET e == DropLibrary(d) IN
        IsStore(e) /\ Kept(e) /\ DOMAIN e.imports = {} /\ e.lastId = d.lastId
<1> DEFINE e == DropLibrary(d)
<1>1. e = [imports |-> <<>>, works |-> <<>>, persons |-> <<>>, lastId |-> d.lastId]
  BY DEF DropLibrary, EmptyStore
<1>2. DOMAIN <<>> = {} /\ \A S : <<>> \in [{} -> S]
  OBVIOUS
<1>3. DOMAIN e.imports = {} /\ DOMAIN e.works = {} /\ DOMAIN e.persons = {} /\ e.lastId = d.lastId
      /\ e = [imports |-> e.imports, works |-> e.works, persons |-> e.persons, lastId |-> e.lastId]
      /\ e.imports \in [{} -> Entries] /\ e.works \in [{} -> DraftRows] /\ e.persons \in [{} -> Names]
  BY <1>1, <1>2
<1> HIDE DEF e
<1>4. IsStore(e) /\ Kept(e)
  BY <1>3 DEF IsStore, Kept, Resolves
<1> QED BY <1>3, <1>4 DEF e

(* Discarding an import takes it away, and what only it needed. *)
LEMMA ForgetSound ==
  ASSUME NEW d, IsStore(d), Kept(d), NEW i
  PROVE LET e == Forget(d, i) IN
        /\ IsStore(e) /\ Kept(e) /\ e.lastId = d.lastId
        /\ DOMAIN e.imports = DOMAIN d.imports \ {i}
        /\ \A j \in DOMAIN e.imports : e.imports[j] = d.imports[j]
<1> DEFINE w == [d EXCEPT !.imports = Restrict(@, DOMAIN @ \ {i})]
<1>1. w = [imports |-> [j \in DOMAIN d.imports \ {i} |-> d.imports[j]], works |-> d.works,
           persons |-> d.persons, lastId |-> d.lastId]
  BY DEF IsStore, Restrict
<1>2. /\ w.works = d.works /\ w.persons = d.persons /\ w.lastId = d.lastId
      /\ DOMAIN w.imports = DOMAIN d.imports \ {i}
      /\ w.imports \in [DOMAIN w.imports -> Entries]
      /\ \A j \in DOMAIN w.imports : w.imports[j] = d.imports[j]
      /\ w = [imports |-> w.imports, works |-> w.works, persons |-> w.persons, lastId |-> w.lastId]
  BY <1>1 DEF IsStore
<1> HIDE DEF w
<1>3. IsStore(w)
  BY <1>2 DEF IsStore
<1>4. Resolves(w)
  BY <1>2 DEF Kept, Resolves
<1>5. Forget(d, i) = CollectDrafts(w)
  BY DEF Forget, w
<1> QED BY <1>2, <1>3, <1>4, <1>5, CollectSound

(* Merged works are relinked, and the drafts stay. *)
LEMMA RelinkWorksSound ==
  ASSUME NEW d, IsStore(d), Kept(d), NEW merges \in Merges
  PROVE LET e == RelinkWorks(d, merges) IN
        IsStore(e) /\ Kept(e) /\ SameClaims(e, d) /\ e.lastId = d.lastId
<1> DEFINE e == RelinkWorks(d, merges)
<1>1. e = [imports |-> [i \in DOMAIN d.imports |-> RelinkEntry(d.imports[i], merges)],
           works |-> d.works, persons |-> d.persons, lastId |-> d.lastId]
  <2> DEFINE imports == [i \in DOMAIN d.imports |-> RelinkEntry(d.imports[i], merges)]
  <2>1. e = [d EXCEPT !.imports = imports]
    BY DEF RelinkWorks
  <2> HIDE DEF imports, e
  <2>2. e = [imports |-> imports, works |-> d.works, persons |-> d.persons, lastId |-> d.lastId]
    BY <2>1 DEF IsStore
  <2> QED BY <2>2 DEF imports
<1>2. ASSUME NEW i \in DOMAIN d.imports
      PROVE /\ e.imports[i] \in Entries
            /\ e.imports[i].credits = d.imports[i].credits
            /\ e.imports[i].accepting = d.imports[i].accepting
            /\ IsInjective(e.imports[i].contents)
            /\ SameDrafts(e.imports[i].contents, d.imports[i].contents)
  <2> DEFINE refs == d.imports[i].contents
             new == Relinked(refs, merges)
  <2>1. d.imports[i] \in Entries
    BY DEF IsStore
  <2>2. e.imports[i] = [d.imports[i] EXCEPT !.contents = new]
    BY <1>1 DEF RelinkEntry
  <2>3. IsContents(refs)
    BY <2>1 DEF Entries, IsContents, Kept, Resolves
  <2>4. new \in Seq(Refs) /\ IsInjective(new) /\ SameDrafts(new, refs)
    BY <2>3, RelinkedSound DEF IsContents
  <2> HIDE DEF new, refs, e
  <2>5. [d.imports[i] EXCEPT !.contents = new] \in Entries
    BY <2>1, <2>4 DEF Entries
  <2>6. /\ e.imports[i].contents = new
        /\ e.imports[i].credits = d.imports[i].credits
        /\ e.imports[i].accepting = d.imports[i].accepting
    BY <2>1, <2>2 DEF Entries
  <2> QED BY <2>2, <2>4, <2>5, <2>6 DEF refs
<1>3. /\ e.works = d.works /\ e.persons = d.persons /\ e.lastId = d.lastId
      /\ DOMAIN e.imports = DOMAIN d.imports
      /\ e.imports = [i \in DOMAIN d.imports |-> e.imports[i]]
      /\ e = [imports |-> e.imports, works |-> e.works, persons |-> e.persons, lastId |-> e.lastId]
  BY <1>1
<1> HIDE DEF e
<1>4. e.imports \in [DOMAIN d.imports -> Entries]
  BY <1>2, <1>3
<1>5. IsStore(e)
  BY <1>3, <1>4 DEF IsStore
<1>6. Kept(e)
  BY <1>2, <1>3, <1>5, SameReferences
<1> QED BY <1>2, <1>3, <1>5, <1>6 DEF e, SameClaims

(* Relinking an accepted import's people leaves the others' as drafts, and no new ones. *)
LEMMA RelinkCreditsSound ==
  ASSUME NEW credits \in Seq(Credit), NEW made \in SUBSET (Nat \X Nat), NEW persons,
         KnowsAll(persons, credits)
  PROVE /\ RelinkCredits(credits, made) \in Seq(Credit)
        /\ KnowsAll(persons, RelinkCredits(credits, made))
<1> DEFINE of(k) == CHOOSE p \in made : credits[k].person = DraftPerson(p[1])
           isMade(k) == \E p \in made : credits[k].person = DraftPerson(p[1])
           new == RelinkCredits(credits, made)
<1>1. DOMAIN credits = 1 .. Len(credits) /\ Len(credits) \in Nat /\ \A k \in DOMAIN credits : credits[k] \in Credit
  OBVIOUS
<1>2. DOMAIN new = DOMAIN credits
  BY DEF RelinkCredits
<1>3. ASSUME NEW k \in DOMAIN credits
      PROVE IF isMade(k) THEN new[k] = [credits[k] EXCEPT !.person = Linked(of(k)[2])]
            ELSE new[k] = credits[k]
  BY DEF RelinkCredits
<1>4. new = [k \in DOMAIN credits |-> new[k]]
  BY DEF RelinkCredits
<1>5. \A k \in DOMAIN credits : isMade(k) => of(k) \in Nat \X Nat
  OBVIOUS
<1> HIDE DEF new, of, isMade
<1>6. ASSUME NEW k \in DOMAIN credits, isMade(k)
      PROVE new[k] \in Credit /\ new[k].person[1] # "draft"
  <2>1. Linked(of(k)[2]) \in Person /\ Linked(of(k)[2])[1] # "draft"
    BY <1>5, <1>6 DEF Linked, Person
  <2>2. new[k] = [credits[k] EXCEPT !.person = Linked(of(k)[2])]
    BY <1>3, <1>6
  <2>3. credits[k] \in Credit
    BY <1>1
  <2> HIDE DEF Linked
  <2> QED BY <2>1, <2>2, <2>3 DEF Credit
<1>7. \A k \in DOMAIN credits : new[k] \in Credit
  BY <1>1, <1>3, <1>6
<1>8. new \in Seq(Credit)
  BY <1>1, <1>4, <1>7
<1>9. KnowsAll(persons, new)
  BY <1>2, <1>3, <1>6 DEF KnowsAll
<1> QED BY <1>8, <1>9 DEF new

\* An import is gone, and what the others claim is as it was.
IsWithout(e, d, i) ==
    /\ IsStore(e) /\ Kept(e) /\ e.lastId = d.lastId
    /\ DOMAIN e.imports = DOMAIN d.imports \ {i}
    /\ \A j \in DOMAIN e.imports : e.imports[j].accepting = d.imports[j].accepting

(* DraftStore::accept takes the import, and leaves the others what they refer to. *)
LEMMA AcceptSound ==
  ASSUME NEW d, IsStore(d), Kept(d), NEW i, NEW works \in SUBSET (Nat \X Nat),
         NEW persons \in SUBSET (Nat \X Nat)
  PROVE IsWithout(Accept(d, i, works, persons), d, i)
<1> DEFINE I == [j \in DOMAIN d.imports \ {i} |-> AcceptEntry(d.imports[j], works, persons)]
           W == [w \in DOMAIN d.works |-> AcceptWork(d.works[w], persons)]
           e == [imports |-> I, works |-> W, persons |-> d.persons, lastId |-> d.lastId]
<1>1. Accept(d, i, works, persons) = CollectDrafts(e)
  <2> HIDE DEF I, W
  <2>1. PICK f : f = [[d EXCEPT !.imports = I] EXCEPT !.works = W]
    OBVIOUS
  <2>2. f = [imports |-> I, works |-> W, persons |-> d.persons, lastId |-> d.lastId]
    BY <2>1 DEF IsStore
  <2>3. Accept(d, i, works, persons) = CollectDrafts([[d EXCEPT !.imports = I] EXCEPT !.works = W])
    BY DEF Accept, I, W
  <2> QED BY <2>1, <2>2, <2>3
<1>2. ASSUME NEW j \in DOMAIN d.imports \ {i}
      PROVE /\ I[j] \in Entries /\ I[j].accepting = d.imports[j].accepting
            /\ IsInjective(I[j].contents) /\ KnowsAll(d.persons, I[j].credits)
            /\ \A w : DraftWork(w) \in ToSet(I[j].contents) => DraftWork(w) \in ToSet(d.imports[j].contents)
  <2> DEFINE old == d.imports[j]
             contents == RelinkContents(old.contents, works)
             credits == RelinkCredits(old.credits, persons)
  <2>1. old \in Entries /\ KnowsAll(d.persons, old.credits)
    BY DEF IsStore, Kept, Resolves
  <2>2. /\ contents \in Seq(Refs) /\ IsInjective(contents)
        /\ \A w : DraftWork(w) \in ToSet(contents) => DraftWork(w) \in ToSet(old.contents)
    BY <2>1, RelinkContentsSound DEF Entries, IsContents
  <2>3. credits \in Seq(Credit) /\ KnowsAll(d.persons, credits)
    BY <2>1, RelinkCreditsSound DEF Entries
  <2>4. I[j] = [[old EXCEPT !.contents = contents] EXCEPT !.credits = credits]
    BY DEF AcceptEntry
  <2> HIDE DEF old, contents, credits, I
  <2>5. /\ I[j] \in Entries /\ I[j].accepting = old.accepting
        /\ I[j].contents = contents /\ I[j].credits = credits
    BY <2>1, <2>2, <2>3, <2>4 DEF Entries
  <2> QED BY <2>2, <2>3, <2>5 DEF old
<1>3. ASSUME NEW w \in DOMAIN d.works
      PROVE W[w] \in DraftRows /\ KnowsAll(d.persons, W[w].credits)
  <2> DEFINE old == d.works[w]
             credits == RelinkCredits(old.credits, persons)
  <2>1. old \in DraftRows /\ KnowsAll(d.persons, old.credits)
    BY DEF IsStore, Kept, Resolves
  <2>2. credits \in Seq(Credit) /\ KnowsAll(d.persons, credits)
    BY <2>1, RelinkCreditsSound DEF DraftRows
  <2>3. W[w] = [old EXCEPT !.credits = credits]
    BY DEF AcceptWork
  <2> HIDE DEF old, credits, W
  <2> QED BY <2>1, <2>2, <2>3 DEF DraftRows
<1>4. /\ e.imports = I /\ e.works = W /\ e.persons = d.persons /\ e.lastId = d.lastId
      /\ DOMAIN I = DOMAIN d.imports \ {i} /\ DOMAIN W = DOMAIN d.works
      /\ I = [j \in DOMAIN I |-> I[j]] /\ W = [w \in DOMAIN W |-> W[w]]
      /\ e = [imports |-> e.imports, works |-> e.works, persons |-> e.persons, lastId |-> e.lastId]
  OBVIOUS
<1> HIDE DEF e, I, W
<1>5. I \in [DOMAIN I -> Entries] /\ W \in [DOMAIN W -> DraftRows]
  BY <1>2, <1>3, <1>4
<1>6. IsStore(e)
  BY <1>4, <1>5 DEF IsStore
<1>7. Resolves(e)
  BY <1>2, <1>3, <1>4 DEF Resolves, Kept
<1>8. /\ IsStore(CollectDrafts(e)) /\ Kept(CollectDrafts(e))
      /\ CollectDrafts(e).imports = e.imports /\ CollectDrafts(e).lastId = e.lastId
  BY <1>6, <1>7, CollectSound
<1>9. IsWithout(CollectDrafts(e), d, i)
  BY <1>2, <1>4, <1>8 DEF IsWithout
<1> QED BY <1>1, <1>9

-----------------------------------------------------------------------------
(***************************************************************************)
(* Saving: whom the credits name                                           *)
(***************************************************************************)

\* A save in progress: it only adds people, and names no draft that is not there.
IsResolving(a) ==
    /\ a = [persons |-> a.persons, lastId |-> a.lastId, created |-> a.created,
            list |-> a.list, lists |-> a.lists]
    /\ a.lastId \in Nat
    /\ a.persons \in [DOMAIN a.persons -> Names] /\ DOMAIN a.persons \subseteq 1 .. a.lastId
    /\ \A n \in DOMAIN a.created : a.created[n] \in DOMAIN a.persons
    /\ a.list \in Seq(Credit) /\ KnowsAll(a.persons, a.list)
    /\ a.lists \in Seq(Seq(Credit))
    /\ \A k \in DOMAIN a.lists : KnowsAll(a.persons, a.lists[k])

Grows(a, b) == DOMAIN a.persons \subseteq DOMAIN b.persons /\ a.lastId <= b.lastId

(* A name refers to someone there is, or to no one. *)
LEMMA ReferentSound ==
  ASSUME NEW a, IsResolving(a), NEW people, DOMAIN people \subseteq Nat, NEW c \in Credit
  PROVE /\ Referent(a, people, c) \in Person
        /\ Referent(a, people, c)[1] = "draft" => Referent(a, people, c)[2] \in DOMAIN a.persons
<1> DEFINE Good(who) == who \in Person /\ (who[1] = "draft" => who[2] \in DOMAIN a.persons)
           all == Namesakes(a, people, c.name)
<1>1. Good(NewPerson) /\ Good(Unresolved)
  BY DEF Person, NewPerson, Unresolved
<1>2. ASSUME NEW who \in all PROVE Good(who)
  <2>1. \/ \E x \in DOMAIN people : who = Linked(x)
        \/ \E x \in DOMAIN a.persons : who = DraftPerson(x)
    BY DEF Namesakes
  <2>2. DOMAIN a.persons \subseteq Nat
    BY DEF IsResolving
  <2> QED BY <2>1, <2>2 DEF Linked, DraftPerson, Person
<1>3. IsThere(a, people, c.person) => Good(c.person)
  BY DEF IsThere, Credit
<1> HIDE DEF Good
<1>4. Good(ResolveName(a, people, c.name))
  <2>1. CASE all = {}
    BY <2>1, <1>1, FS_EmptySet DEF ResolveName
  <2>2. CASE all # {} /\ Cardinality(all) = 1
    <3>1. ResolveName(a, people, c.name) = CHOOSE x \in all : TRUE
      BY <2>2 DEF ResolveName
    <3>2. (CHOOSE x \in all : TRUE) \in all
      BY <2>2
    <3> QED BY <3>1, <3>2, <1>2
  <2>3. CASE all # {} /\ Cardinality(all) # 1
    BY <2>3, <1>1 DEF ResolveName
  <2> QED BY <2>1, <2>2, <2>3
<1>5. Good(Referent(a, people, c))
  BY <1>1, <1>3, <1>4 DEF Referent
<1> QED BY <1>5 DEF Good

(* A credit is resolved to someone the store has, if need be a new draft. *)
LEMMA ResolveCreditSound ==
  ASSUME NEW a, IsResolving(a), NEW people, DOMAIN people \subseteq Nat, NEW c \in Credit
  PROVE LET b == ResolveCredit(a, people, c) IN
        IsResolving(b) /\ Grows(a, b) /\ b.lists = a.lists
<1> DEFINE b == ResolveCredit(a, people, c)
           who == Referent(a, people, c)
           id == a.lastId + 1
<1>1. who \in Person /\ (who[1] = "draft" => who[2] \in DOMAIN a.persons)
  BY ReferentSound
<1>2. c.name \in Names
  BY DEF Credit
<1>3. ASSUME NEW persons, NEW x \in Person, KnowsAll(persons, a.list),
             x[1] = "draft" => x[2] \in DOMAIN persons
      PROVE LET list == Append(a.list, [name |-> c.name, person |-> x]) IN
            list \in Seq(Credit) /\ KnowsAll(persons, list)
  <2> DEFINE e == [name |-> c.name, person |-> x]
             list == Append(a.list, e)
  <2>1. e \in Credit /\ e.person = x
    BY <1>2 DEF Credit
  <2>2. a.list \in Seq(Credit)
    BY DEF IsResolving
  <2> HIDE DEF e
  <2>3. /\ list \in Seq(Credit)
        /\ DOMAIN list = 1 .. Len(a.list) + 1
        /\ \A k \in 1 .. Len(a.list) : list[k] = a.list[k]
        /\ list[Len(a.list) + 1] = e
    BY <2>1, <2>2, Appended
  <2>4. DOMAIN a.list = 1 .. Len(a.list) /\ Len(a.list) \in Nat
    BY <2>2
  <2> HIDE DEF list
  <2>5. \A k \in DOMAIN list : k \in DOMAIN a.list \/ k = Len(a.list) + 1
    BY <2>3, <2>4
  <2>6. KnowsAll(persons, list)
    BY <1>3, <2>1, <2>3, <2>4, <2>5 DEF KnowsAll
  <2> QED BY <2>3, <2>6 DEF list, e
<1>4. ASSUME NEW x \in Person, x[1] = "draft" => x[2] \in DOMAIN a.persons,
             b = [a EXCEPT !.list = Append(@, [name |-> c.name, person |-> x])]
      PROVE IsResolving(b) /\ Grows(a, b) /\ b.lists = a.lists
  <2> DEFINE list == Append(a.list, [name |-> c.name, person |-> x])
  <2>1. list \in Seq(Credit) /\ KnowsAll(a.persons, list)
    BY <1>3, <1>4 DEF IsResolving
  <2>2. b = [a EXCEPT !.list = list]
    BY <1>4
  <2> HIDE DEF b, list
  <2>3. b = [persons |-> a.persons, lastId |-> a.lastId, created |-> a.created,
             list |-> list, lists |-> a.lists]
    BY <2>2 DEF IsResolving
  <2> QED BY <2>1, <2>3 DEF IsResolving, Grows
<1>5. CASE who # NewPerson
  <2>1. b = [a EXCEPT !.list = Append(@, [name |-> c.name, person |-> who])]
    BY <1>5 DEF ResolveCredit
  <2> QED BY <1>1, <1>4, <2>1
<1>6. CASE who = NewPerson /\ c.name \in DOMAIN a.created
  <2> DEFINE x == DraftPerson(a.created[c.name])
  <2>1. b = [a EXCEPT !.list = Append(@, [name |-> c.name, person |-> x])]
    BY <1>6 DEF ResolveCredit
  <2>2. x \in Person /\ x[2] \in DOMAIN a.persons
    BY <1>6 DEF IsResolving, Person, DraftPerson
  <2> QED BY <1>4, <2>1, <2>2
<1>7. CASE who = NewPerson /\ c.name \notin DOMAIN a.created
  <2> DEFINE x == DraftPerson(id)
             persons == With(a.persons, id, c.name)
             created == With(a.created, c.name, id)
             list == Append(a.list, [name |-> c.name, person |-> x])
  <2>1. b = [[[[a EXCEPT !.lastId = id] EXCEPT !.persons = persons]
                EXCEPT !.created = created] EXCEPT !.list = list]
    BY <1>7 DEF ResolveCredit
  <2>2. id \in Nat /\ 1 .. id = (1 .. a.lastId) \union {id} /\ a.lastId <= id /\ id \notin 1 .. a.lastId
    BY DEF IsResolving
  <2>3. /\ DOMAIN persons = DOMAIN a.persons \union {id}
        /\ persons \in [DOMAIN persons -> Names]
    BY <1>2, <2>2 DEF With, IsResolving
  <2>4. \A n \in DOMAIN created : created[n] \in DOMAIN persons
    BY <2>3 DEF With, IsResolving
  <2>5. x \in Person /\ x[2] = id
    BY <2>2 DEF Person, DraftPerson
  <2>6. KnowsAll(persons, a.list) /\ \A k \in DOMAIN a.lists : KnowsAll(persons, a.lists[k])
    BY <2>3 DEF IsResolving, KnowsAll
  <2> HIDE DEF persons, created, x, id
  <2>7. list \in Seq(Credit) /\ KnowsAll(persons, list)
    BY <1>3, <2>3, <2>5, <2>6
  <2> HIDE DEF b, list
  <2>8. b = [persons |-> persons, lastId |-> id, created |-> created,
             list |-> list, lists |-> a.lists]
    BY <2>1 DEF IsResolving
  <2>9. DOMAIN persons \subseteq 1 .. id
    BY <2>2, <2>3 DEF IsResolving
  <2>10. /\ b.persons = persons /\ b.lastId = id /\ b.created = created
         /\ b.list = list /\ b.lists = a.lists
    BY <2>8
  <2>11. IsResolving(b)
    <3>1. a.lists \in Seq(Seq(Credit))
      BY DEF IsResolving
    <3> QED BY <3>1, <2>2, <2>3, <2>4, <2>6, <2>7, <2>8, <2>9, <2>10 DEF IsResolving
  <2> QED BY <2>2, <2>3, <2>10, <2>11 DEF Grows, b
<1> QED BY <1>5, <1>6, <1>7

(* So is each of a list, *)
LEMMA ResolveCreditsSound ==
  ASSUME NEW a, IsResolving(a), NEW people, DOMAIN people \subseteq Nat, NEW list \in Seq(Credit)
  PROVE LET b == ResolveCredits(a, people, list) IN
        IsResolving(b) /\ Grows(a, b) /\ b.lists = a.lists
<1> DEFINE n == Len(list)
<1>1. n \in Nat /\ DOMAIN list = 1 .. n /\ \A k \in 1 .. n : list[k] \in Credit
  OBVIOUS
<1> HIDE DEF n
<1>2. PICK h : Trace(<<"credit", people>>, a, list, n, h) /\ h[n] = ResolveCredits(a, people, list)
  BY <1>1, CreditFold
<1>3. h[0] = a /\ \A k \in 1 .. n : h[k] = ResolveCredit(h[k-1], people, list[k])
  BY <1>1, <1>2, CreditFold DEF Trace
<1> DEFINE T == {k \in 0 .. n : IsResolving(h[k]) /\ Grows(a, h[k]) /\ h[k].lists = a.lists}
<1>4. 0 \in T
  BY <1>1, <1>3 DEF Grows, IsResolving
<1>5. ASSUME NEW k \in 1 .. n, k - 1 \in T PROVE k \in T
  <2> DEFINE b == h[k-1]
             c == ResolveCredit(b, people, list[k])
  <2>1. IsResolving(b) /\ Grows(a, b) /\ b.lists = a.lists
    BY <1>5
  <2>2. IsResolving(c) /\ Grows(b, c) /\ c.lists = b.lists
    BY <1>1, <2>1, ResolveCreditSound
  <2>3. h[k] = c
    BY <1>3
  <2> HIDE DEF b, c
  <2>4. Grows(a, c)
    BY <2>1, <2>2 DEF Grows, IsResolving
  <2> QED BY <2>1, <2>2, <2>3, <2>4
<1> HIDE DEF T
<1>6. n \in T
  BY <1>1, <1>4, <1>5, Induction
<1> QED BY <1>2, <1>6 DEF T

(* and of each list. *)
LEMMA ResolveListSound ==
  ASSUME NEW a, IsResolving(a), NEW people, DOMAIN people \subseteq Nat, NEW list \in Seq(Credit)
  PROVE LET b == ResolveList(a, people, list) IN
        IsResolving(b) /\ Grows(a, b) /\ Len(b.lists) = Len(a.lists) + 1
<1> DEFINE s == [a EXCEPT !.list = <<>>]
           c == ResolveCredits(s, people, list)
           b == ResolveList(a, people, list)
<1>1. s = [persons |-> a.persons, lastId |-> a.lastId, created |-> a.created,
           list |-> <<>>, lists |-> a.lists]
  BY DEF IsResolving
<1>2. <<>> \in Seq(Credit) /\ KnowsAll(a.persons, <<>>)
  BY DEF KnowsAll
<1>3. IsResolving(s) /\ Grows(a, s) /\ s.lists = a.lists
  BY <1>1, <1>2 DEF IsResolving, Grows
<1> HIDE DEF s
<1>4. IsResolving(c) /\ Grows(s, c) /\ c.lists = a.lists
  BY <1>3, ResolveCreditsSound
<1>5. b = [c EXCEPT !.lists = Append(c.lists, c.list)]
  BY DEF ResolveList, s
<1> HIDE DEF b, c
<1> DEFINE lists == Append(c.lists, c.list)
           S == Seq(Credit)
<1>6. c.lists \in Seq(S) /\ c.list \in S
  BY <1>4 DEF IsResolving
<1>7. DOMAIN c.lists = 1 .. Len(c.lists) /\ Len(c.lists) \in Nat
  BY <1>6
<1> HIDE DEF S
<1>8. /\ lists \in Seq(S) /\ Len(lists) = Len(c.lists) + 1
      /\ DOMAIN lists = 1 .. Len(c.lists) + 1
      /\ \A k \in 1 .. Len(c.lists) : lists[k] = c.lists[k]
      /\ lists[Len(c.lists) + 1] = c.list
  BY <1>6, Appended
<1> HIDE DEF lists
<1>9. \A k \in DOMAIN lists : k \in DOMAIN c.lists \/ k = Len(c.lists) + 1
  BY <1>7, <1>8
<1>10. \A k \in DOMAIN lists : KnowsAll(c.persons, lists[k])
  BY <1>4, <1>7, <1>8, <1>9 DEF IsResolving
<1>11. b = [persons |-> c.persons, lastId |-> c.lastId, created |-> c.created,
            list |-> c.list, lists |-> lists]
  BY <1>4, <1>5 DEF IsResolving, lists
<1>12. IsResolving(b)
  BY <1>4, <1>8, <1>10, <1>11 DEF IsResolving, S
<1>13. Grows(a, b) /\ Len(b.lists) = Len(a.lists) + 1
  BY <1>3, <1>4, <1>8, <1>11 DEF Grows, IsResolving
<1> QED BY <1>12, <1>13 DEF b

(* All the lists of a form are resolved, each to a list of its own. *)
LEMMA ResolveListsSound ==
  ASSUME NEW d, IsStore(d), NEW people, DOMAIN people \subseteq Nat, NEW lists \in Seq(Seq(Credit))
  PROVE LET b == ResolveLists(d, people, lists) IN
        IsResolving(b) /\ Grows(d, b) /\ Len(b.lists) = Len(lists)
<1> DEFINE n == Len(lists)
           S == Seq(Credit)
<1>0. lists \in Seq(S)
  OBVIOUS
<1> HIDE DEF S
<1>1. n \in Nat /\ DOMAIN lists = 1 .. n
  BY <1>0
<1>2. \A k \in 1 .. n : lists[k] \in S
  BY <1>0, <1>1
<1> HIDE DEF n
<1>3. PICK h : Trace(<<"list", people>>, StartOf(d), lists, n, h) /\ h[n] = ResolveLists(d, people, lists)
  BY <1>1, ListFold
<1>4. h[0] = StartOf(d) /\ \A k \in 1 .. n : h[k] = ResolveList(h[k-1], people, lists[k])
  BY <1>1, <1>3, ListFold DEF Trace
<1> DEFINE T == {k \in 0 .. n : IsResolving(h[k]) /\ Grows(d, h[k]) /\ Len(h[k].lists) = k}
<1>5. 0 \in T
  <2> DEFINE s == StartOf(d)
  <2>1. /\ s = [persons |-> d.persons, lastId |-> d.lastId, created |-> <<>>,
                list |-> <<>>, lists |-> <<>>]
        /\ DOMAIN <<>> = {}
    BY DEF StartOf
  <2> HIDE DEF s
  <2>2. <<>> \in Seq(Credit) /\ <<>> \in Seq(Seq(Credit)) /\ Len(<<>>) = 0
    OBVIOUS
  <2>3. IsResolving(s)
    BY <2>1, <2>2 DEF IsResolving, IsStore, KnowsAll
  <2>4. Grows(d, s) /\ Len(s.lists) = 0
    BY <2>1, <2>2 DEF Grows, IsStore
  <2> QED BY <2>3, <2>4, <1>1, <1>4 DEF s
<1>6. ASSUME NEW k \in 1 .. n, k - 1 \in T PROVE k \in T
  <2> DEFINE b == h[k-1]
             c == ResolveList(b, people, lists[k])
  <2>1. IsResolving(b) /\ Grows(d, b) /\ Len(b.lists) = k - 1
    BY <1>6
  <2>2. IsResolving(c) /\ Grows(b, c) /\ Len(c.lists) = Len(b.lists) + 1
    BY <1>2, <2>1, ResolveListSound DEF S
  <2>3. h[k] = c
    BY <1>4
  <2> HIDE DEF b, c
  <2>4. Grows(d, c)
    BY <2>1, <2>2 DEF Grows, IsResolving, IsStore
  <2>5. Len(c.lists) = k
    BY <2>1, <2>2
  <2> QED BY <2>2, <2>3, <2>4, <2>5
<1> HIDE DEF T
<1>7. n \in T
  <2>1. n \in Nat /\ 0 \in T /\ \A k \in 1 .. n : k - 1 \in T => k \in T
    BY <1>1, <1>5, <1>6
  <2>2. \A k \in 0 .. n : k \in T
    BY <2>1, Induction
  <2> QED BY <2>1, <2>2
<1> QED BY <1>3, <1>7 DEF T, n

-----------------------------------------------------------------------------
(***************************************************************************)
(* Saving: which works it contains                                         *)
(***************************************************************************)

Forms == [credits : Seq(Credit), contents : Seq(Content)]

(* How many of a set of positions there are up to one of them. *)
LEMMA CountUpTo ==
  ASSUME NEW n \in Nat, NEW s \in SUBSET (1 .. n), NEW k \in 1 .. n
  PROVE /\ Cardinality(s) \in Nat /\ Cardinality(s \intersect 1 .. k) \in Nat
        /\ Cardinality(s \intersect 1 .. k) <= Cardinality(s)
        /\ k \in s => Cardinality(s \intersect 1 .. k) >= 1
<1>1. IsFiniteSet(1 .. n)
  BY FS_Interval
<1>2. IsFiniteSet(s)
  BY <1>1, FS_Subset
<1> DEFINE u == s \intersect 1 .. k
<1>3. u \in SUBSET s
  OBVIOUS
<1>4. k \in s => k \in u
  OBVIOUS
<1> HIDE DEF u
<1>5. IsFiniteSet(u) /\ Cardinality(u) <= Cardinality(s)
  BY <1>2, <1>3, FS_Subset
<1>6. Cardinality(s) \in Nat /\ Cardinality(u) \in Nat
  BY <1>2, <1>5, FS_CardinalityType
<1>7. k \in s => Cardinality(u) # 0
  BY <1>4, <1>5, FS_EmptySet
<1> QED BY <1>5, <1>6, <1>7 DEF u

\* What a save read as stored.
AreStored(people, there) == DOMAIN people \subseteq Nat /\ there \subseteq Nat

(* DraftStore::save: the import has what the form says, each reference to a draft there is. *)
LEMMA SaveSound ==
  ASSUME NEW d, IsStore(d), Kept(d), NEW i \in DOMAIN d.imports, NEW post \in Forms,
         NEW people, NEW there, AreStored(people, there)
  PROVE LET e == Save(d, i, post, people, there) IN
        /\ IsStore(e) /\ Kept(e) /\ d.lastId <= e.lastId
        /\ DOMAIN e.imports = DOMAIN d.imports
        /\ ~e.imports[i].accepting
        /\ \A j \in DOMAIN d.imports \ {i} : e.imports[j] = d.imports[j]
<1> USE DEF AreStored
<1> DEFINE rows == post.contents
           n == Len(rows)
           lists == <<post.credits>> \o [k \in DOMAIN rows |-> rows[k].credits]
           resolved == ResolveLists(d, people, lists)
           IsStored(k) == rows[k].ref[1] = "stored" /\ rows[k].ref[2] \in there
           IsKnown(k) == rows[k].ref[1] = "draft" /\ rows[k].ref[2] \in DOMAIN d.works
           new == {k \in DOMAIN rows : ~IsStored(k) /\ ~IsKnown(k)}
           id(k) == IF IsKnown(k) THEN rows[k].ref[2]
                    ELSE resolved.lastId + Cardinality(new \intersect 1 .. k)
           written == {k \in DOMAIN rows : ~IsStored(k)}
           work(k) == [credits |-> resolved.lists[k + 1], numbers |-> rows[k].numbers]
           refs == [k \in DOMAIN rows |-> IF IsStored(k) THEN rows[k].ref ELSE DraftWork(id(k))]
           entry == [accepting |-> FALSE, saved |-> TRUE, credits |-> resolved.lists[1],
                     contents |-> Dedupe(refs)]
           I == [d.imports EXCEPT ![i] = entry]
           W == [w \in DOMAIN d.works \union {id(k) : k \in written} |->
                       IF \E k \in written : id(k) = w
                       THEN work(Max({k \in written : id(k) = w}))
                       ELSE d.works[w]]
           last == resolved.lastId + Cardinality(new)
           e == [imports |-> I, works |-> W, persons |-> resolved.persons, lastId |-> last]
<1>1. Save(d, i, post, people, there) = CollectDrafts(e)
  BY DEF Save
<1>2. /\ n \in Nat /\ DOMAIN rows = 1 .. n
      /\ \A k \in 1 .. n : rows[k] \in Content
      /\ post.credits \in Seq(Credit)
  BY DEF Forms
<1>3. \A k \in 1 .. n : /\ rows[k].credits \in Seq(Credit) /\ rows[k].numbers \in SUBSET Numbers
                        /\ rows[k].ref \in ({"stored", "draft"} \X Nat) \union {NewWork}
  BY <1>2 DEF Content
<1>4. IsResolving(resolved) /\ Grows(d, resolved) /\ Len(resolved.lists) = n + 1
  <2> DEFINE S == Seq(Credit)
             tail == [k \in DOMAIN rows |-> rows[k].credits]
  <2>1. tail \in Seq(S) /\ Len(tail) = n
    BY <1>2, <1>3
  <2>2. <<post.credits>> \in Seq(S) /\ Len(<<post.credits>>) = 1
    BY <1>2
  <2> HIDE DEF S, tail
  <2>3. <<post.credits>> \o tail \in Seq(S) /\ Len(<<post.credits>> \o tail) = 1 + n
    BY <2>1, <2>2
  <2>4. lists \in Seq(S) /\ Len(lists) = n + 1
    BY <2>3, <1>2 DEF tail
  <2> HIDE DEF lists, n
  <2> QED BY <2>4, ResolveListsSound DEF S
<1> HIDE DEF rows, n, lists, resolved
<1>5. /\ resolved.lastId \in Nat /\ d.lastId \in Nat /\ d.lastId <= resolved.lastId
      /\ DOMAIN d.persons \subseteq DOMAIN resolved.persons
      /\ DOMAIN resolved.persons \subseteq 1 .. resolved.lastId
      /\ resolved.persons \in [DOMAIN resolved.persons -> Names]
  BY <1>4 DEF IsResolving, Grows, IsStore
<1>6. \A k \in 1 .. n + 1 : /\ resolved.lists[k] \in Seq(Credit)
                            /\ KnowsAll(resolved.persons, resolved.lists[k])
  <2>1. resolved.lists \in Seq(Seq(Credit))
    BY <1>4 DEF IsResolving
  <2>2. DOMAIN resolved.lists = 1 .. n + 1
    BY <1>4, <2>1
  <2> QED BY <1>4, <2>1, <2>2 DEF IsResolving
<1>7. /\ Cardinality(new) \in Nat /\ last \in Nat /\ resolved.lastId <= last
      /\ \A k \in 1 .. n : Cardinality(new \intersect 1 .. k) \in 0 .. Cardinality(new)
      /\ \A k \in new : Cardinality(new \intersect 1 .. k) \in 1 .. Cardinality(new)
  <2>1. new \in SUBSET (1 .. n)
    BY <1>2
  <2> HIDE DEF new
  <2>2. Cardinality(new) \in Nat
    <3>1. IsFiniteSet(1 .. n)
      BY <1>2, FS_Interval
    <3>2. IsFiniteSet(new)
      BY <2>1, <3>1, FS_Subset
    <3> QED BY <3>2, FS_CardinalityType
  <2>3. ASSUME NEW k \in 1 .. n
        PROVE /\ Cardinality(new \intersect 1 .. k) \in 0 .. Cardinality(new)
              /\ k \in new => Cardinality(new \intersect 1 .. k) \in 1 .. Cardinality(new)
    BY <1>2, <2>1, CountUpTo
  <2> QED BY <1>5, <2>1, <2>2, <2>3
<1>8. /\ \A k \in written : id(k) \in 1 .. last
      /\ DOMAIN d.works \subseteq 1 .. last /\ DOMAIN resolved.persons \subseteq 1 .. last
      /\ DOMAIN d.imports \subseteq 1 .. last
  <2>1. \A k \in written : IsKnown(k) \/ k \in new
    OBVIOUS
  <2>2. DOMAIN d.works \subseteq 1 .. d.lastId /\ DOMAIN d.imports \subseteq 1 .. d.lastId
    BY DEF IsStore
  <2> HIDE DEF new, IsStored
  <2>3. \A k \in new : resolved.lastId + Cardinality(new \intersect 1 .. k) \in 1 .. last
    BY <1>5, <1>7
  <2>4. 1 .. d.lastId \subseteq 1 .. last /\ 1 .. resolved.lastId \subseteq 1 .. last
    BY <1>5, <1>7
  <2> HIDE DEF last
  <2> QED BY <1>5, <2>1, <2>2, <2>3, <2>4
<1> HIDE DEF new, last
<1>9. \A k \in 1 .. n : work(k) \in DraftRows /\ KnowsAll(resolved.persons, work(k).credits)
  <2>1. ASSUME NEW k \in 1 .. n PROVE work(k) \in DraftRows /\ KnowsAll(resolved.persons, work(k).credits)
    <3>1. k + 1 \in 1 .. n + 1
      BY <1>2
    <3>2. /\ resolved.lists[k + 1] \in Seq(Credit) /\ rows[k].numbers \in SUBSET Numbers
          /\ KnowsAll(resolved.persons, resolved.lists[k + 1])
      BY <1>3, <1>6, <3>1
    <3> QED BY <3>2 DEF DraftRows
  <2> QED BY <2>1
<1>10. ASSUME NEW w \in DOMAIN W
       PROVE W[w] \in DraftRows /\ KnowsAll(resolved.persons, W[w].credits)
  <2>1. CASE \E k \in written : id(k) = w
    <3> DEFINE s == {k \in written : id(k) = w}
    <3>1. s \in SUBSET (1 .. n) /\ s # {}
      BY <1>2, <2>1
    <3>2. Max(s) \in s
      BY <1>2, <3>1, MaxIn
    <3>3. W[w] = work(Max(s))
      BY <2>1
    <3> HIDE DEF s, W, work
    <3> QED BY <1>9, <3>1, <3>2, <3>3
  <2>2. CASE ~ \E k \in written : id(k) = w
    <3>1. W[w] = d.works[w] /\ w \in DOMAIN d.works
      BY <2>2
    <3>2. d.works[w] \in DraftRows /\ KnowsAll(d.persons, d.works[w].credits)
      BY <3>1 DEF IsStore, Kept, Resolves
    <3> HIDE DEF W
    <3> QED BY <1>5, <3>1, <3>2 DEF KnowsAll
  <2> QED BY <2>1, <2>2
<1>11. refs \in Seq(Refs)
  <2>1. ASSUME NEW k \in 1 .. n PROVE refs[k] \in Refs
    <3>1. CASE IsStored(k)
      BY <1>2, <1>3, <3>1 DEF NewWork, Refs
    <3>2. CASE ~IsStored(k)
      <4>1. id(k) \in Nat
        BY <1>2, <1>8, <3>2
      <4> HIDE DEF id
      <4> QED BY <1>2, <3>2, <4>1 DEF DraftWork, Refs
    <3> QED BY <3>1, <3>2
  <2>2. refs = [k \in 1 .. n |-> refs[k]]
    BY <1>2
  <2> HIDE DEF refs
  <2> QED BY <1>2, <2>1, <2>2
<1>12. ASSUME NEW w, DraftWork(w) \in ToSet(refs) PROVE w \in DOMAIN W
  <2>1. PICK k \in DOMAIN rows : DraftWork(w) = refs[k]
    BY <1>12 DEF ToSet
  <2>2. ~IsStored(k)
    BY <2>1 DEF DraftWork
  <2>3. DraftWork(w) = DraftWork(id(k))
    BY <2>1, <2>2
  <2>4. w = id(k)
    BY <2>3 DEF DraftWork
  <2> QED BY <2>2, <2>4
<1>13. /\ Dedupe(refs) \in Seq(Refs) /\ IsInjective(Dedupe(refs))
       /\ \A w : DraftWork(w) \in ToSet(Dedupe(refs)) => w \in DOMAIN W
  BY <1>11, <1>12, DedupeSound
<1>14. DOMAIN W = DOMAIN d.works \union {id(k) : k \in written} /\ W = [w \in DOMAIN W |-> W[w]]
  OBVIOUS
<1> HIDE DEF W, refs, written, id, work
<1>15. DOMAIN W \subseteq 1 .. last
  BY <1>8, <1>14
<1>16. DOMAIN d.works \subseteq DOMAIN W
  BY <1>14
<1>17. entry \in Entries /\ ~entry.accepting /\ KnowsAll(resolved.persons, entry.credits)
       /\ entry.contents = Dedupe(refs)
  <2>1. 1 \in 1 .. n + 1
    BY <1>2
  <2> QED BY <1>6, <1>13, <2>1 DEF Entries
<1> HIDE DEF entry
<1>18. /\ DOMAIN I = DOMAIN d.imports /\ I[i] = entry
       /\ \A j \in DOMAIN d.imports \ {i} : I[j] = d.imports[j]
       /\ I \in [DOMAIN I -> Entries]
  BY <1>17 DEF IsStore
<1>19. /\ e.imports = I /\ e.works = W /\ e.persons = resolved.persons /\ e.lastId = last
       /\ e = [imports |-> e.imports, works |-> e.works, persons |-> e.persons, lastId |-> e.lastId]
  OBVIOUS
<1> HIDE DEF e, I
<1>20. IsStore(e)
  <2>1. W \in [DOMAIN W -> DraftRows]
    BY <1>10, <1>14
  <2> QED BY <1>5, <1>7, <1>8, <1>15, <1>18, <1>19, <2>1 DEF IsStore
<1>21. Resolves(e)
  <2>1. \A j \in DOMAIN I : IsInjective(I[j].contents)
    BY <1>13, <1>17, <1>18 DEF Kept, Resolves
  <2>2. \A j \in DOMAIN I : \A w : DraftWork(w) \in ToSet(I[j].contents) => w \in DOMAIN W
    BY <1>13, <1>16, <1>17, <1>18 DEF Kept, Resolves
  <2>3. \A j \in DOMAIN I : KnowsAll(resolved.persons, I[j].credits)
    <3>1. \A j \in DOMAIN d.imports : KnowsAll(resolved.persons, d.imports[j].credits)
      BY <1>5 DEF Kept, Resolves, KnowsAll
    <3> QED BY <1>17, <1>18, <3>1
  <2> QED BY <2>1, <2>2, <2>3, <1>10, <1>19 DEF Resolves
<1>22. /\ IsStore(CollectDrafts(e)) /\ Kept(CollectDrafts(e))
       /\ CollectDrafts(e).imports = I /\ CollectDrafts(e).lastId = last
  BY <1>19, <1>20, <1>21, CollectSound
<1> QED BY <1>1, <1>5, <1>7, <1>17, <1>18, <1>22

-----------------------------------------------------------------------------
(***************************************************************************)
(* The tables                                                              *)
(***************************************************************************)

\* What is written to a work, and which it is.
IsInput(input) ==
    /\ RowOf(input) = [composers |-> input.composers, numbers |-> input.numbers]
    /\ RowOf(input) \in WorkRows
IsContent(input) == IsInput(input) /\ input.ref \in Refs \union {NewWork}

\* What a transaction sees, and what it reports.
IsTx(x) ==
    /\ x = [t |-> x.t, merges |-> x.merges, events |-> x.events, ok |-> x.ok, id |-> x.id]
    /\ IsTables(x.t) /\ x.merges \in Merges /\ x.ok \in BOOLEAN /\ x.id \in Nat

\* Every reference is to a row that is there, except those of one work.
ReferBut(tables, w) ==
    /\ \A v \in DOMAIN tables.works \ {w} : tables.works[v].composers \subseteq DOMAIN tables.people
    /\ \A p \in DOMAIN tables.pubs : /\ tables.pubs[p].works \subseteq DOMAIN tables.works
                                     /\ tables.pubs[p].credits \subseteq DOMAIN tables.people

\* As long as its statements succeeded, what it sees is consistent.
Sound(x) == IsTx(x) /\ x.t.library /\ (x.ok => IsConsistent(x.t))

\* What leads from one state of a transaction to another: the publications and the people
\* stay, and a work that no publication contains is not left.
Continues(x, y) ==
    /\ Sound(y)
    /\ DOMAIN y.t.pubs = DOMAIN x.t.pubs /\ y.t.people = x.t.people
    /\ y.ok => x.ok /\ (IsCollected(x.t) => IsCollected(y.t))

(* The tables as five fields. *)
LEMMA TablesOf ==
  ASSUME NEW tables, IsTables(tables)
  PROVE /\ tables.works \in [DOMAIN tables.works -> WorkRows]
        /\ tables.people \in [DOMAIN tables.people -> Names]
        /\ tables.pubs \in [DOMAIN tables.pubs -> PubRows]
        /\ tables.last.works \in Nat /\ tables.last.people \in Nat /\ tables.last.pubs \in Nat
        /\ DOMAIN tables.works \subseteq Nat /\ DOMAIN tables.people \subseteq Nat
        /\ DOMAIN tables.pubs \subseteq Nat
        /\ \A w \in DOMAIN tables.works : /\ tables.works[w].composers \subseteq Nat
                                          /\ tables.works[w].numbers \subseteq Numbers
        /\ \A p \in DOMAIN tables.pubs : /\ tables.pubs[p].works \subseteq Nat
                                         /\ tables.pubs[p].credits \subseteq Nat
                                         /\ tables.pubs[p].held \subseteq {Copy}
<1>1. /\ tables.works \in [DOMAIN tables.works -> WorkRows]
      /\ tables.people \in [DOMAIN tables.people -> Names]
      /\ tables.pubs \in [DOMAIN tables.pubs -> PubRows]
  BY DEF IsTables
<1>2. tables.last.works \in Nat /\ tables.last.people \in Nat /\ tables.last.pubs \in Nat
  BY DEF IsTables
<1>3. /\ DOMAIN tables.works \subseteq 1 .. tables.last.works
      /\ DOMAIN tables.people \subseteq 1 .. tables.last.people
      /\ DOMAIN tables.pubs \subseteq 1 .. tables.last.pubs
  BY DEF IsTables
<1>4. /\ DOMAIN tables.works \subseteq Nat /\ DOMAIN tables.people \subseteq Nat
      /\ DOMAIN tables.pubs \subseteq Nat
  BY <1>2, <1>3
<1>5. \A w \in DOMAIN tables.works : tables.works[w] \in WorkRows
  BY <1>1
<1>6. \A p \in DOMAIN tables.pubs : tables.pubs[p] \in PubRows
  BY <1>1
<1> QED BY <1>1, <1>2, <1>4, <1>5, <1>6 DEF WorkRows, PubRows

(* Collected, row by row. *)
LEMMA CollectedMeans ==
  ASSUME NEW tables
  PROVE IsCollected(tables) <=>
          /\ \A p \in DOMAIN tables.pubs : tables.pubs[p].held # {}
          /\ \A p \in DOMAIN tables.pubs : tables.pubs[p].works \subseteq DOMAIN tables.works
          /\ \A w \in DOMAIN tables.works : \E p \in DOMAIN tables.pubs : w \in tables.pubs[p].works
<1>1. HeldPubs(tables) = DOMAIN tables.pubs <=> \A p \in DOMAIN tables.pubs : tables.pubs[p].held # {}
  BY DEF HeldPubs
<1>2. \A w : w \in ContainedWorks(tables) <=> \E p \in DOMAIN tables.pubs : w \in tables.pubs[p].works
  BY DEF ContainedWorks
<1>3. ContainedWorks(tables) = DOMAIN tables.works <=>
        /\ \A p \in DOMAIN tables.pubs : tables.pubs[p].works \subseteq DOMAIN tables.works
        /\ \A w \in DOMAIN tables.works : \E p \in DOMAIN tables.pubs : w \in tables.pubs[p].works
  BY <1>2
<1> QED BY <1>1, <1>3 DEF IsCollected

(* With is what its name says. *)
LEMMA WithIs ==
  ASSUME NEW f, NEW k, NEW v
  PROVE LET g == With(f, k, v) IN
        /\ DOMAIN g = DOMAIN f \union {k} /\ g[k] = v /\ g = [x \in DOMAIN g |-> g[x]]
        /\ \A x \in DOMAIN f : x # k => g[x] = f[x]
  BY DEF With

(* A merge leaves the tables typed, and all that referred to the work refers to the survivor. *)
LEMMA MergeWorksSound ==
  ASSUME NEW x, IsTx(x), NEW from \in DOMAIN x.t.works, NEW into \in DOMAIN x.t.works \ {from}
  PROVE LET y == MergeWorks(x, from, into) IN
        /\ IsTx(y) /\ y.ok = x.ok /\ y.t.library = x.t.library /\ y.t.people = x.t.people
        /\ DOMAIN y.t.pubs = DOMAIN x.t.pubs
        /\ IsConsistent(x.t) => IsConsistent(y.t)
        /\ IsCollected(x.t) => IsCollected(y.t)
<1> DEFINE y == MergeWorks(x, from, into)
           gains == [composers |-> x.t.works[into].composers \union x.t.works[from].composers,
                     numbers |-> x.t.works[into].numbers \union x.t.works[from].numbers]
           works == [w \in DOMAIN x.t.works \ {from} |-> IF w = into THEN gains ELSE x.t.works[w]]
           pubs == [p \in DOMAIN x.t.pubs |-> MergeContents(x.t.pubs[p], from, into)]
           merges == Append(x.merges, [from |-> from, into |-> into])
<1>1. x.t.works \in [DOMAIN x.t.works -> WorkRows] /\ x.t.pubs \in [DOMAIN x.t.pubs -> PubRows]
  BY TablesOf DEF IsTx
<1>2. x.t.works[from] \in WorkRows /\ x.t.works[into] \in WorkRows
  BY <1>1
<1>3. gains = [f \in DOMAIN x.t.works[into] |-> Gained(f, x.t.works[into][f], x.t.works[from][f])]
  <2>1. DOMAIN x.t.works[into] = {"composers", "numbers"}
    BY <1>2 DEF WorkRows
  <2>2. DOMAIN gains = {"composers", "numbers"}
    OBVIOUS
  <2>3. /\ Gained("composers", x.t.works[into]["composers"], x.t.works[from]["composers"]) = gains["composers"]
        /\ Gained("numbers", x.t.works[into]["numbers"], x.t.works[from]["numbers"]) = gains["numbers"]
    BY DEF Gained
  <2> QED BY <2>1, <2>2, <2>3
<1>4. y = [t |-> [library |-> x.t.library, works |-> works, people |-> x.t.people, pubs |-> pubs,
                  last |-> x.t.last],
           merges |-> merges, events |-> x.events, ok |-> x.ok, id |-> x.id]
  <2>1. y = [[[x EXCEPT !.t.works = works] EXCEPT !.t.pubs = pubs] EXCEPT !.merges = merges]
    BY <1>3 DEF MergeWorks
  <2> HIDE DEF y, works, pubs, merges
  <2>2. /\ x = [t |-> x.t, merges |-> x.merges, events |-> x.events, ok |-> x.ok, id |-> x.id]
        /\ x.t = [library |-> x.t.library, works |-> x.t.works, people |-> x.t.people,
                  pubs |-> x.t.pubs, last |-> x.t.last]
    BY DEF IsTx, IsTables
  <2> QED BY <2>1, <2>2
<1> HIDE DEF y
<1>5. merges \in Merges
  <2>1. [from |-> from, into |-> into] \in [from : Nat, into : Nat]
    BY TablesOf DEF IsTx
  <2> QED BY <2>1 DEF IsTx, Merges
<1>6. gains \in WorkRows
  BY <1>2 DEF WorkRows
<1>7. works \in [DOMAIN works -> WorkRows] /\ DOMAIN works = DOMAIN x.t.works \ {from}
  BY <1>1, <1>6
<1>8. \A p \in DOMAIN x.t.pubs :
        /\ pubs[p].works = IF from \in x.t.pubs[p].works THEN (x.t.pubs[p].works \ {from}) \union {into}
                           ELSE x.t.pubs[p].works
        /\ pubs[p].credits = x.t.pubs[p].credits /\ pubs[p].held = x.t.pubs[p].held
        /\ pubs[p] \in PubRows
  <2>1. ASSUME NEW p \in DOMAIN x.t.pubs
        PROVE /\ pubs[p] = [works |-> IF from \in x.t.pubs[p].works THEN (x.t.pubs[p].works \ {from}) \union {into}
                                      ELSE x.t.pubs[p].works,
                            credits |-> x.t.pubs[p].credits, held |-> x.t.pubs[p].held]
              /\ pubs[p] \in PubRows
    <3>1. x.t.pubs[p] \in PubRows
      BY <1>1
    <3>2. pubs[p] = [works |-> IF from \in x.t.pubs[p].works THEN (x.t.pubs[p].works \ {from}) \union {into}
                               ELSE x.t.pubs[p].works,
                     credits |-> x.t.pubs[p].credits, held |-> x.t.pubs[p].held]
      BY <3>1 DEF PubRows, MergeContents
    <3>3. into \in Nat
      BY TablesOf DEF IsTx
    <3> HIDE DEF pubs
    <3> QED BY <3>1, <3>2, <3>3 DEF PubRows
  <2> HIDE DEF pubs
  <2>2. ASSUME NEW p \in DOMAIN x.t.pubs
        PROVE /\ pubs[p].works = IF from \in x.t.pubs[p].works THEN (x.t.pubs[p].works \ {from}) \union {into}
                                 ELSE x.t.pubs[p].works
              /\ pubs[p].credits = x.t.pubs[p].credits /\ pubs[p].held = x.t.pubs[p].held
    <3> DEFINE W == IF from \in x.t.pubs[p].works THEN (x.t.pubs[p].works \ {from}) \union {into}
                    ELSE x.t.pubs[p].works
    <3>1. pubs[p] = [works |-> W, credits |-> x.t.pubs[p].credits, held |-> x.t.pubs[p].held]
      BY <2>1
    <3> HIDE DEF W
    <3>2. pubs[p].works = W /\ pubs[p].credits = x.t.pubs[p].credits /\ pubs[p].held = x.t.pubs[p].held
      BY <3>1
    <3> QED BY <3>2 DEF W
  <2> QED BY <2>1, <2>2
<1>9. pubs \in [DOMAIN pubs -> PubRows] /\ DOMAIN pubs = DOMAIN x.t.pubs
  BY <1>8
<1>10. /\ \A w \in DOMAIN works \ {into} : works[w] = x.t.works[w]
       /\ works[into] = gains
       /\ gains.composers = x.t.works[into].composers \union x.t.works[from].composers
  OBVIOUS
<1> HIDE DEF works, pubs, gains, merges
<1>11. y.t.works = works /\ y.t.pubs = pubs /\ y.t.people = x.t.people
       /\ y.t.library = x.t.library /\ y.t.last = x.t.last /\ y.ok = x.ok
       /\ y.merges = merges /\ y.id = x.id
       /\ y.t = [library |-> y.t.library, works |-> y.t.works, people |-> y.t.people, pubs |-> y.t.pubs,
                 last |-> y.t.last]
       /\ y = [t |-> y.t, merges |-> y.merges, events |-> y.events, ok |-> y.ok, id |-> y.id]
  BY <1>4
<1>12. IsTx(y)
  <2>1. IsTables(y.t)
    BY <1>7, <1>9, <1>11 DEF IsTables, IsTx
  <2> QED BY <1>5, <1>11, <2>1 DEF IsTx
<1>13. ASSUME IsConsistent(x.t) PROVE IsConsistent(y.t)
  <2>1. \A w \in DOMAIN works : works[w].composers \subseteq DOMAIN x.t.people
    BY <1>7, <1>10, <1>13 DEF IsConsistent
  <2>a. \A p \in DOMAIN x.t.pubs : /\ x.t.pubs[p].works \subseteq DOMAIN x.t.works
                                   /\ x.t.pubs[p].credits \subseteq DOMAIN x.t.people
    BY <1>13 DEF IsConsistent
  <2>2. \A p \in DOMAIN pubs : pubs[p].works \subseteq DOMAIN works /\ pubs[p].credits \subseteq DOMAIN x.t.people
    <3> HIDE DEF pubs, works
    <3>1. ASSUME NEW p \in DOMAIN pubs
          PROVE pubs[p].works \subseteq DOMAIN works /\ pubs[p].credits \subseteq DOMAIN x.t.people
      <4>1. p \in DOMAIN x.t.pubs
        BY <1>9
      <4>2. /\ pubs[p].works = IF from \in x.t.pubs[p].works THEN (x.t.pubs[p].works \ {from}) \union {into}
                               ELSE x.t.pubs[p].works
            /\ pubs[p].credits = x.t.pubs[p].credits
        BY <1>8, <4>1
      <4>3. x.t.pubs[p].works \subseteq DOMAIN x.t.works /\ x.t.pubs[p].credits \subseteq DOMAIN x.t.people
        BY <2>a, <4>1
      <4>4. DOMAIN works = DOMAIN x.t.works \ {from} /\ into \in DOMAIN works
        BY <1>7
      <4> QED BY <4>2, <4>3, <4>4
    <3> QED BY <3>1
  <2>3. x.t.library
    BY <1>13 DEF IsConsistent
  <2> QED BY <1>11, <2>1, <2>2, <2>3 DEF IsConsistent
<1>14. ASSUME IsCollected(x.t) PROVE IsCollected(y.t)
  <2>1. /\ \A p \in DOMAIN x.t.pubs : x.t.pubs[p].held # {}
        /\ \A p \in DOMAIN x.t.pubs : x.t.pubs[p].works \subseteq DOMAIN x.t.works
        /\ \A w \in DOMAIN x.t.works : \E p \in DOMAIN x.t.pubs : w \in x.t.pubs[p].works
    BY <1>14, CollectedMeans
  <2>2. /\ \A p \in DOMAIN pubs : pubs[p].held # {}
        /\ \A p \in DOMAIN pubs : pubs[p].works \subseteq DOMAIN works
        /\ \A w \in DOMAIN works : \E p \in DOMAIN pubs : w \in pubs[p].works
    <3>1. \A p \in DOMAIN pubs : pubs[p].held # {}
      BY <1>8, <1>9, <2>1
    <3>2. ASSUME NEW p \in DOMAIN pubs, NEW w \in pubs[p].works PROVE w \in DOMAIN works
      <4>1. w = into \/ w \in x.t.pubs[p].works
        BY <1>8, <1>9
      <4>2. w # from
        BY <1>8, <1>9
      <4>3. w \in DOMAIN x.t.works
        BY <1>9, <2>1, <4>1
      <4> QED BY <1>7, <4>2, <4>3
    <3>3. ASSUME NEW w \in DOMAIN works PROVE \E p \in DOMAIN pubs : w \in pubs[p].works
      <4>1. PICK p \in DOMAIN x.t.pubs : w \in x.t.pubs[p].works
        BY <1>7, <2>1
      <4> QED BY <1>7, <1>8, <1>9, <4>1
    <3> QED BY <3>1, <3>2, <3>3
  <2> QED BY <1>11, <2>2, CollectedMeans
<1> QED BY <1>9, <1>11, <1>12, <1>13, <1>14 DEF y

\* The rows of a table, with ids that were given out.
IsWorks(works, last) == works \in [DOMAIN works -> WorkRows] /\ DOMAIN works \subseteq 1 .. last
IsPubs(pubs, last) == pubs \in [DOMAIN pubs -> PubRows] /\ DOMAIN pubs \subseteq 1 .. last
IsPeople(people, last) == people \in [DOMAIN people -> Names] /\ DOMAIN people \subseteq 1 .. last

WithPubs(x, pubs) == [x EXCEPT !.t.pubs = pubs]

(* A transaction whose works, whose publications or whose people are others. *)
LEMMA SetWorks ==
  ASSUME NEW x, IsTx(x), NEW works, IsWorks(works, x.t.last.works)
  PROVE LET y == [x EXCEPT !.t.works = works] IN
        /\ IsTx(y) /\ y.t.works = works /\ y.t.pubs = x.t.pubs /\ y.t.people = x.t.people
        /\ y.t.library = x.t.library /\ y.t.last = x.t.last /\ y.ok = x.ok /\ y.id = x.id
<1> DEFINE y == [x EXCEPT !.t.works = works]
<1>1. y = [t |-> [library |-> x.t.library, works |-> works, people |-> x.t.people, pubs |-> x.t.pubs,
                  last |-> x.t.last],
           merges |-> x.merges, events |-> x.events, ok |-> x.ok, id |-> x.id]
  BY DEF IsTx, IsTables
<1> HIDE DEF y
<1>2. /\ y.t.works = works /\ y.t.pubs = x.t.pubs /\ y.t.people = x.t.people
      /\ y.t.library = x.t.library /\ y.t.last = x.t.last /\ y.ok = x.ok /\ y.id = x.id
      /\ y.merges = x.merges
      /\ y.t = [library |-> y.t.library, works |-> y.t.works, people |-> y.t.people, pubs |-> y.t.pubs,
                last |-> y.t.last]
      /\ y = [t |-> y.t, merges |-> y.merges, events |-> y.events, ok |-> y.ok, id |-> y.id]
  BY <1>1
<1>3. IsTables(y.t)
  BY <1>2 DEF IsTables, IsTx, IsWorks, IsPubs
<1> QED BY <1>2, <1>3 DEF IsTx, y

(* See SetWorks. *)
LEMMA SetPubs ==
  ASSUME NEW x, IsTx(x), NEW pubs, IsPubs(pubs, x.t.last.pubs)
  PROVE LET y == WithPubs(x, pubs) IN
        /\ IsTx(y) /\ y.t.pubs = pubs /\ y.t.works = x.t.works /\ y.t.people = x.t.people
        /\ y.t.library = x.t.library /\ y.t.last = x.t.last /\ y.ok = x.ok /\ y.id = x.id
<1> DEFINE y == WithPubs(x, pubs)
<1>1. y = [t |-> [library |-> x.t.library, works |-> x.t.works, people |-> x.t.people, pubs |-> pubs,
                  last |-> x.t.last],
           merges |-> x.merges, events |-> x.events, ok |-> x.ok, id |-> x.id]
  BY DEF IsTx, IsTables, WithPubs
<1> HIDE DEF y
<1>2. /\ y.t.works = x.t.works /\ y.t.pubs = pubs /\ y.t.people = x.t.people
      /\ y.t.library = x.t.library /\ y.t.last = x.t.last /\ y.ok = x.ok /\ y.id = x.id
      /\ y.merges = x.merges
      /\ y.t = [library |-> y.t.library, works |-> y.t.works, people |-> y.t.people, pubs |-> y.t.pubs,
                last |-> y.t.last]
      /\ y = [t |-> y.t, merges |-> y.merges, events |-> y.events, ok |-> y.ok, id |-> y.id]
  BY <1>1
<1>3. IsTables(y.t)
  BY <1>2 DEF IsTables, IsTx, IsWorks, IsPubs
<1> QED BY <1>2, <1>3 DEF IsTx, y

(* What a call returns, and whether it failed, is no matter of the tables. *)
LEMMA ReturnsSound ==
  ASSUME NEW x, IsTx(x), NEW id \in Nat
  PROVE /\ IsTx(Returns(x, id)) /\ Returns(x, id).t = x.t /\ Returns(x, id).ok = x.ok
        /\ Returns(x, id).id = id
        /\ IsTx(Fail(x)) /\ Fail(x).t = x.t /\ ~Fail(x).ok
<1> DEFINE y == Returns(x, id)
           z == Fail(x)
<1>1. y = [t |-> x.t, merges |-> x.merges, events |-> x.events, ok |-> x.ok, id |-> id]
  BY DEF Returns, IsTx
<1>2. z = [t |-> x.t, merges |-> x.merges, events |-> x.events, ok |-> FALSE, id |-> x.id]
  <2>1. z = [x EXCEPT !.ok = FALSE]
    BY DEF Fail
  <2>2. x = [t |-> x.t, merges |-> x.merges, events |-> x.events, ok |-> x.ok, id |-> x.id]
    BY DEF IsTx
  <2> HIDE DEF z
  <2> QED BY <2>1, <2>2
<1> HIDE DEF y, z
<1>3. /\ y.t = x.t /\ y.ok = x.ok /\ y.id = id /\ y.merges = x.merges
      /\ y = [t |-> y.t, merges |-> y.merges, events |-> y.events, ok |-> y.ok, id |-> y.id]
  BY <1>1
<1>4. /\ z.t = x.t /\ z.ok = FALSE /\ z.id = x.id /\ z.merges = x.merges
      /\ z = [t |-> z.t, merges |-> z.merges, events |-> z.events, ok |-> z.ok, id |-> z.id]
  BY <1>2
<1>5. IsTx(y) /\ IsTx(z)
  BY <1>3, <1>4 DEF IsTx
<1> QED BY <1>3, <1>4, <1>5 DEF y, z

(* What a transaction records is not either. *)
LEMMA RecordSound ==
  ASSUME NEW x, IsTx(x), NEW source, NEW action, NEW on, NEW field
  PROVE LET y == Record(x, source, action, on, field) IN
        IsTx(y) /\ y.t = x.t /\ y.ok = x.ok
<1> DEFINE y == Record(x, source, action, on, field)
           events == x.events \union {Event(source, action, on, field)}
<1>1. y = [t |-> x.t, merges |-> x.merges, events |-> events, ok |-> x.ok, id |-> x.id]
  BY DEF Record, IsTx
<1> HIDE DEF y, events
<1>2. /\ y.t = x.t /\ y.ok = x.ok /\ y.id = x.id /\ y.merges = x.merges
      /\ y = [t |-> y.t, merges |-> y.merges, events |-> y.events, ok |-> y.ok, id |-> y.id]
  BY <1>1
<1>3. IsTx(y)
  BY <1>2 DEF IsTx
<1> QED BY <1>2, <1>3 DEF y

(* A row is written over, if the people it names are there. *)
LEMMA WriteWorkSound ==
  ASSUME NEW x, IsTx(x), x.t.library, NEW w, x.ok => ReferBut(x.t, w), NEW input, IsInput(input)
  PROVE Continues(x, WriteWork(x, w, input))
<1> DEFINE y == WriteWork(x, w, input)
<1>1. CASE ~HasWork(x.t, w) /\ ~HasChildren(RowOf(input))
  <2>1. y = x
    BY <1>1 DEF WriteWork
  <2>2. x.ok => IsConsistent(x.t)
    BY <1>1 DEF ReferBut, IsConsistent, HasWork
  <2> QED BY <2>1, <2>2 DEF Continues, Sound
<1>2. CASE /\ ~(~HasWork(x.t, w) /\ ~HasChildren(RowOf(input)))
           /\ ~HasWork(x.t, w) \/ ~input.composers \subseteq DOMAIN x.t.people
  <2>1. y = Fail(x)
    BY <1>2 DEF WriteWork
  <2>2. IsTx(Fail(x)) /\ Fail(x).t = x.t /\ ~Fail(x).ok
    BY ReturnsSound, 0 \in Nat
  <2> HIDE DEF y
  <2> QED BY <2>1, <2>2 DEF Continues, Sound, y
<1>3. CASE HasWork(x.t, w) /\ input.composers \subseteq DOMAIN x.t.people
  <2> DEFINE works == [x.t.works EXCEPT ![w] = RowOf(input)]
  <2>1. y = [x EXCEPT !.t.works = works]
    <3>1. y = [x EXCEPT !.t.works[w] = RowOf(input)]
      BY <1>3 DEF WriteWork
    <3> HIDE DEF y
    <3> QED BY <3>1
  <2>2. x.t.works \in [DOMAIN x.t.works -> WorkRows] /\ DOMAIN x.t.works \subseteq 1 .. x.t.last.works
    BY DEF IsTx, IsTables
  <2>3. /\ works \in [DOMAIN works -> WorkRows] /\ DOMAIN works = DOMAIN x.t.works
        /\ works[w] = RowOf(input) /\ \A v \in DOMAIN works \ {w} : works[v] = x.t.works[v]
    BY <1>3, <2>2 DEF IsInput, HasWork
  <2> HIDE DEF y, works
  <2>4. /\ IsTx(y) /\ y.t.works = works /\ y.t.pubs = x.t.pubs /\ y.t.people = x.t.people
        /\ y.t.library = x.t.library /\ y.ok = x.ok
    <3>1. IsWorks(works, x.t.last.works)
      BY <2>2, <2>3 DEF IsWorks
    <3> DEFINE z == [x EXCEPT !.t.works = works]
    <3>2. /\ IsTx(z) /\ z.t.works = works /\ z.t.pubs = x.t.pubs /\ z.t.people = x.t.people
          /\ z.t.library = x.t.library /\ z.ok = x.ok
      BY <3>1, SetWorks
    <3> HIDE DEF z
    <3> QED BY <2>1, <3>2 DEF z
  <2>5. x.ok => IsConsistent(y.t)
    <3>1. works[w].composers = input.composers
      BY <2>3 DEF IsInput
    <3> QED BY <1>3, <2>3, <2>4, <3>1 DEF ReferBut, IsConsistent
  <2>6. IsCollected(x.t) => IsCollected(y.t)
    BY <2>3, <2>4, CollectedMeans
  <2> QED BY <2>4, <2>5, <2>6 DEF Continues, Sound, y
<1> QED BY <1>1, <1>2, <1>3

(* A work that duplicates another becomes it. *)
LEMMA AbsorbSound ==
  ASSUME NEW x, Sound(x), NEW w \in DOMAIN x.t.works
  PROVE Continues(x, AbsorbIntoDuplicate(x, w))
<1> DEFINE y == AbsorbIntoDuplicate(x, w)
           duplicates == Duplicates(x.t, w)
           into == Min(duplicates)
           merged == MergeWorks(x, w, into)
           recorded == Record(merged, "merge", "merged", <<"works", into>>, "none")
<1>1. IsTx(x) /\ w \in Nat /\ DOMAIN x.t.works \subseteq Nat
  BY TablesOf DEF Sound, IsTx
<1>2. CASE duplicates = {}
  <2>1. y = Returns(x, w)
    BY <1>2 DEF AbsorbIntoDuplicate
  <2>2. IsTx(Returns(x, w)) /\ Returns(x, w).t = x.t /\ Returns(x, w).ok = x.ok
    BY <1>1, ReturnsSound
  <2> HIDE DEF y
  <2> QED BY <2>1, <2>2 DEF Continues, Sound, y
<1>3. CASE duplicates # {}
  <2>1. y = Returns(recorded, into)
    BY <1>3 DEF AbsorbIntoDuplicate
  <2>2. duplicates \subseteq DOMAIN x.t.works \ {w}
    BY DEF Duplicates
  <2> HIDE DEF duplicates
  <2>3. into \in duplicates
    <3>1. \E n \in duplicates : \A m \in duplicates : n <= m
      BY <1>1, <1>3, <2>2, Smallest
    <3> QED BY <3>1 DEF Min
  <2> HIDE DEF into, merged, recorded
  <2>4. /\ IsTx(merged) /\ merged.ok = x.ok /\ merged.t.library = x.t.library
        /\ merged.t.people = x.t.people /\ DOMAIN merged.t.pubs = DOMAIN x.t.pubs
        /\ IsConsistent(x.t) => IsConsistent(merged.t)
        /\ IsCollected(x.t) => IsCollected(merged.t)
    BY <1>1, <2>2, <2>3, MergeWorksSound DEF merged
  <2>5. IsTx(recorded) /\ recorded.t = merged.t /\ recorded.ok = merged.ok
    BY <2>4, RecordSound DEF recorded
  <2>6. IsTx(y) /\ y.t = recorded.t /\ y.ok = recorded.ok
    BY <1>1, <2>1, <2>2, <2>3, <2>5, ReturnsSound
  <2> HIDE DEF y
  <2> QED BY <2>4, <2>5, <2>6 DEF Continues, Sound, y
<1> QED BY <1>2, <1>3

(* Writing a work, and recognising what it became. *)
LEMMA WriteLinkedWorkSound ==
  ASSUME NEW x, IsTx(x), x.t.library, NEW w \in Nat, x.ok => ReferBut(x.t, w),
         NEW input, IsInput(input)
  PROVE Continues(x, WriteLinkedWork(x, w, input))
<1> DEFINE y == WriteLinkedWork(x, w, input)
           written == WriteWork(x, w, input)
<1>1. Continues(x, written)
  BY WriteWorkSound
<1>2. CASE written.ok /\ HasWork(written.t, w)
  <2>1. y = AbsorbIntoDuplicate(written, w)
    BY <1>2 DEF WriteLinkedWork
  <2> HIDE DEF written
  <2>2. Continues(written, AbsorbIntoDuplicate(written, w))
    BY <1>1, <1>2, AbsorbSound DEF HasWork, Continues
  <2> HIDE DEF y
  <2> QED BY <1>1, <2>1, <2>2 DEF Continues, y
<1>3. CASE ~(written.ok /\ HasWork(written.t, w))
  <2>1. y = Returns(written, w)
    BY <1>3 DEF WriteLinkedWork
  <2> HIDE DEF written
  <2>2. IsTx(y) /\ y.t = written.t /\ y.ok = written.ok
    BY <1>1, <2>1, ReturnsSound DEF Continues, Sound
  <2> HIDE DEF y
  <2> QED BY <1>1, <2>2 DEF Continues, Sound, y
<1> QED BY <1>2, <1>3

\* Every work is contained, except possibly one.
ContainsBut(tables, w) ==
    /\ \A p \in DOMAIN tables.pubs : tables.pubs[p].held # {}
    /\ \A p \in DOMAIN tables.pubs : tables.pubs[p].works \subseteq DOMAIN tables.works
    /\ \A v \in DOMAIN tables.works \ {w} : \E p \in DOMAIN tables.pubs : v \in tables.pubs[p].works

(* A row of a publication that is written but for its contents. *)
LEMMA WithContents ==
  ASSUME NEW row, NEW works \in SUBSET Nat, row.credits \subseteq Nat, row.held \subseteq {Copy},
         DOMAIN row \union {"works"} = {"works", "credits", "held"}
  PROVE LET pub == With(row, "works", works) IN
        pub \in PubRows /\ pub.works = works /\ pub.credits = row.credits /\ pub.held = row.held
<1> DEFINE pub == With(row, "works", works)
<1>1. pub = [works |-> works, credits |-> row.credits, held |-> row.held]
  BY DEF With
<1> HIDE DEF pub
<1>2. pub.works = works /\ pub.credits = row.credits /\ pub.held = row.held
  BY <1>1
<1>3. pub \in PubRows
  BY <1>1 DEF PubRows
<1> QED BY <1>2, <1>3 DEF pub

(* Linking: a work is contained in one publication more. *)
LEMMA LinkWorkSound ==
  ASSUME NEW x, IsTx(x), NEW p \in DOMAIN x.t.pubs, NEW w \in DOMAIN x.t.works
  PROVE LET y == LinkWork(x, p, w) IN
        /\ IsTx(y) /\ y.t.library = x.t.library /\ y.t.people = x.t.people
        /\ y.t.works = x.t.works /\ DOMAIN y.t.pubs = DOMAIN x.t.pubs
        /\ y.ok => x.ok
        /\ \A v : ReferBut(x.t, v) => ReferBut(y.t, v)
        /\ y.ok /\ ContainsBut(x.t, w) => IsCollected(y.t)
<1> DEFINE y == LinkWork(x, p, w)
<1>1. CASE w \in x.t.pubs[p].works
  <2>1. y = Fail(x)
    BY <1>1 DEF LinkWork
  <2>2. IsTx(Fail(x)) /\ Fail(x).t = x.t /\ ~Fail(x).ok
    BY ReturnsSound, 0 \in Nat
  <2> HIDE DEF y
  <2> QED BY <2>1, <2>2 DEF y
<1>2. CASE w \notin x.t.pubs[p].works
  <2> DEFINE row == With(x.t.pubs[p], "works", x.t.pubs[p].works \union {w})
             pubs == [x.t.pubs EXCEPT ![p] = row]
  <2>1. y = WithPubs(x, pubs)
    <3>1. y = [x EXCEPT !.t.pubs[p] = row]
      BY <1>2 DEF LinkWork
    <3> HIDE DEF y, row
    <3> QED BY <3>1 DEF WithPubs
  <2>2. IsPubs(x.t.pubs, x.t.last.pubs) /\ x.t.pubs[p] \in PubRows /\ w \in Nat
    <3>1. IsPubs(x.t.pubs, x.t.last.pubs)
      BY DEF IsTx, IsTables, IsPubs
    <3>2. x.t.pubs[p] \in PubRows
      BY <3>1 DEF IsPubs
    <3> QED BY <3>1, <3>2, TablesOf DEF IsTx
  <2>3. row \in PubRows /\ row.works = x.t.pubs[p].works \union {w}
        /\ row.credits = x.t.pubs[p].credits /\ row.held = x.t.pubs[p].held
    <3> DEFINE old == x.t.pubs[p]
               works == old.works \union {w}
    <3>1. /\ old.credits \subseteq Nat /\ old.held \subseteq {Copy} /\ works \in SUBSET Nat
          /\ DOMAIN old \union {"works"} = {"works", "credits", "held"}
      BY <2>2 DEF PubRows
    <3> HIDE DEF old, works
    <3>2. LET pub == With(old, "works", works) IN
          pub \in PubRows /\ pub.works = works /\ pub.credits = old.credits /\ pub.held = old.held
      BY <3>1, WithContents
    <3> QED BY <3>2 DEF old, works
  <2> HIDE DEF row
  <2>4. /\ pubs[p] = row /\ \A q \in DOMAIN x.t.pubs \ {p} : pubs[q] = x.t.pubs[q]
        /\ DOMAIN pubs = DOMAIN x.t.pubs
        /\ IsPubs(pubs, x.t.last.pubs)
    BY <2>2, <2>3 DEF IsPubs
  <2> HIDE DEF pubs, y
  <2>5. /\ IsTx(y) /\ y.t.pubs = pubs /\ y.t.works = x.t.works /\ y.t.people = x.t.people
        /\ y.t.library = x.t.library /\ y.ok = x.ok
    <3> DEFINE z == WithPubs(x, pubs)
    <3>1. /\ IsTx(z) /\ z.t.pubs = pubs /\ z.t.works = x.t.works /\ z.t.people = x.t.people
          /\ z.t.library = x.t.library /\ z.ok = x.ok
      BY <2>4, SetPubs
    <3> HIDE DEF z
    <3> QED BY <2>1, <3>1 DEF z
  <2>6. \A v : ReferBut(x.t, v) => ReferBut(y.t, v)
    <3>1. ASSUME NEW v, ReferBut(x.t, v), NEW q \in DOMAIN pubs
          PROVE pubs[q].works \subseteq DOMAIN x.t.works /\ pubs[q].credits \subseteq DOMAIN x.t.people
      <4>1. x.t.pubs[q].works \subseteq DOMAIN x.t.works /\ x.t.pubs[q].credits \subseteq DOMAIN x.t.people
        BY <2>4, <3>1 DEF ReferBut
      <4>2. CASE q = p
        BY <2>3, <2>4, <4>1, <4>2
      <4>3. CASE q # p
        BY <2>4, <4>1, <4>3
      <4> QED BY <4>2, <4>3
    <3> QED BY <2>5, <3>1 DEF ReferBut
  <2>7. ContainsBut(x.t, w) => IsCollected(y.t)
    <3>1. SUFFICES ASSUME ContainsBut(x.t, w) PROVE IsCollected(y.t)
      OBVIOUS
    <3>2. ASSUME NEW q \in DOMAIN pubs
          PROVE pubs[q].held # {} /\ pubs[q].works \subseteq DOMAIN x.t.works
                /\ x.t.pubs[q].works \subseteq pubs[q].works
      BY <2>3, <2>4, <3>1 DEF ContainsBut
    <3>3. w \in pubs[p].works
      BY <2>3, <2>4
    <3>4. ASSUME NEW v \in DOMAIN x.t.works PROVE \E q \in DOMAIN pubs : v \in pubs[q].works
      <4>1. CASE v = w
        BY <2>4, <3>3, <4>1
      <4>2. CASE v # w
        <5>1. PICK q \in DOMAIN x.t.pubs : v \in x.t.pubs[q].works
          BY <3>1, <4>2 DEF ContainsBut
        <5> QED BY <2>4, <3>2, <5>1
      <4> QED BY <4>1, <4>2
    <3> QED BY <2>5, <3>2, <3>4, CollectedMeans
  <2> QED BY <2>4, <2>5, <2>6, <2>7 DEF y
<1> QED BY <1>1, <1>2

(* A new row has an id that no row had. *)
LEMMA InsertWorkSound ==
  ASSUME NEW x, IsTx(x), NEW row \in WorkRows
  PROVE LET y == InsertWork(x, row) IN
        /\ IsTx(y) /\ y.t.library = x.t.library /\ y.t.people = x.t.people /\ y.t.pubs = x.t.pubs
        /\ y.ok = x.ok /\ y.id \in Nat /\ y.id \notin DOMAIN x.t.works
        /\ y.t.works = With(x.t.works, y.id, row)
<1> DEFINE y == InsertWork(x, row)
           id == x.t.last.works + 1
           works == With(x.t.works, id, row)
           last == [works |-> id, people |-> x.t.last.people, pubs |-> x.t.last.pubs]
<1>1. y = [t |-> [library |-> x.t.library, works |-> works, people |-> x.t.people, pubs |-> x.t.pubs,
                  last |-> last],
           merges |-> x.merges, events |-> x.events, ok |-> x.ok, id |-> id]
  <2>1. y = [[[x EXCEPT !.t.works = works] EXCEPT !.t.last.works = id] EXCEPT !.id = id]
    BY DEF InsertWork, Returns
  <2>2. /\ x = [t |-> x.t, merges |-> x.merges, events |-> x.events, ok |-> x.ok, id |-> x.id]
        /\ x.t = [library |-> x.t.library, works |-> x.t.works, people |-> x.t.people,
                  pubs |-> x.t.pubs, last |-> x.t.last]
        /\ x.t.last = [works |-> x.t.last.works, people |-> x.t.last.people, pubs |-> x.t.last.pubs]
    BY DEF IsTx, IsTables
  <2> HIDE DEF y, works, id
  <2> QED BY <2>1, <2>2
<1>2. /\ x.t.last.works \in Nat /\ x.t.last.people \in Nat /\ x.t.last.pubs \in Nat
      /\ IsWorks(x.t.works, x.t.last.works)
      /\ IsPubs(x.t.pubs, x.t.last.pubs) /\ IsPeople(x.t.people, x.t.last.people)
      /\ x.t.library \in BOOLEAN
  BY DEF IsTx, IsTables, IsWorks, IsPubs, IsPeople
<1>3. id \in Nat /\ id \notin 1 .. x.t.last.works /\ 1 .. id = 1 .. x.t.last.works \union {id}
  BY <1>2
<1> HIDE DEF y, id
<1>4. IsWorks(works, id)
  BY <1>2, <1>3 DEF IsWorks, With
<1>5. last \in [works : Nat, people : Nat, pubs : Nat] /\ last.works = id
      /\ last.people = x.t.last.people /\ last.pubs = x.t.last.pubs
  BY <1>2, <1>3
<1> HIDE DEF works, last
<1>6. /\ y.t.works = works /\ y.t.pubs = x.t.pubs /\ y.t.people = x.t.people
      /\ y.t.library = x.t.library /\ y.t.last = last /\ y.ok = x.ok /\ y.id = id
      /\ y.merges = x.merges
      /\ y.t = [library |-> y.t.library, works |-> y.t.works, people |-> y.t.people, pubs |-> y.t.pubs,
                last |-> y.t.last]
      /\ y = [t |-> y.t, merges |-> y.merges, events |-> y.events, ok |-> y.ok, id |-> y.id]
  BY <1>1
<1>7. IsTables(y.t)
  BY <1>2, <1>4, <1>5, <1>6 DEF IsTables, IsWorks, IsPubs, IsPeople
<1>8. IsTx(y)
  BY <1>3, <1>6, <1>7 DEF IsTx
<1>9. id \notin DOMAIN x.t.works
  BY <1>2, <1>3 DEF IsWorks
<1> QED BY <1>3, <1>6, <1>8, <1>9 DEF y, works

(* work::create_work_in_publication *)
LEMMA CreateWorkInSound ==
  ASSUME NEW x, Sound(x), NEW p \in DOMAIN x.t.pubs, NEW input, IsInput(input)
  PROVE Continues(x, CreateWorkIn(x, p, input))
<1> DEFINE created == InsertWork(x, RowOf(input))
           w == created.id
           linked == LinkWork(created, p, w)
           y == WriteLinkedWork(linked, w, input)
<1>1. CreateWorkIn(x, p, input) = y
  BY DEF CreateWorkIn
<1>2. /\ IsTx(created) /\ created.t.library /\ created.t.people = x.t.people
      /\ created.t.pubs = x.t.pubs /\ created.ok = x.ok /\ w \in Nat /\ w \notin DOMAIN x.t.works
      /\ created.t.works = With(x.t.works, w, RowOf(input))
  BY InsertWorkSound DEF Sound, IsInput
<1>3. /\ DOMAIN created.t.works = DOMAIN x.t.works \union {w}
      /\ \A v \in DOMAIN x.t.works : created.t.works[v] = x.t.works[v]
  BY <1>2 DEF With
<1> HIDE DEF created
<1>4. x.ok => ReferBut(created.t, w)
  BY <1>2, <1>3 DEF ReferBut, Sound, IsConsistent
<1>5. IsCollected(x.t) => ContainsBut(created.t, w)
  BY <1>2, <1>3, CollectedMeans DEF ContainsBut
<1>6. /\ IsTx(linked) /\ linked.t.library /\ linked.t.people = x.t.people
      /\ DOMAIN linked.t.pubs = DOMAIN x.t.pubs
      /\ linked.ok => x.ok
      /\ x.ok => ReferBut(linked.t, w)
      /\ linked.ok /\ IsCollected(x.t) => IsCollected(linked.t)
  <2>1. w \in DOMAIN created.t.works /\ p \in DOMAIN created.t.pubs
    BY <1>2, <1>3
  <2> HIDE DEF w
  <2>2. /\ IsTx(linked) /\ linked.t.library = created.t.library
        /\ linked.t.people = created.t.people
        /\ DOMAIN linked.t.pubs = DOMAIN created.t.pubs /\ (linked.ok => created.ok)
        /\ \A v : ReferBut(created.t, v) => ReferBut(linked.t, v)
        /\ linked.ok /\ ContainsBut(created.t, w) => IsCollected(linked.t)
    BY <1>2, <2>1, LinkWorkSound
  <2> HIDE DEF linked
  <2> QED BY <1>2, <1>4, <1>5, <2>2
<1> HIDE DEF linked, w
<1>7. Continues(linked, y)
  BY <1>2, <1>6, WriteLinkedWorkSound
<1> HIDE DEF y
<1>8. Continues(x, y)
  BY <1>6, <1>7 DEF Continues
<1> QED BY <1>1, <1>8

(* work::link_or_create_work *)
LEMMA LinkOrCreateWorkSound ==
  ASSUME NEW x, Sound(x), NEW p \in DOMAIN x.t.pubs, NEW input, IsContent(input)
  PROVE Continues(x, LinkOrCreateWork(x, p, input))
<1> DEFINE y == LinkOrCreateWork(x, p, input)
<1>1. CASE ~x.ok
  <2>1. y = x
    BY <1>1 DEF LinkOrCreateWork
  <2> QED BY <1>1, <2>1 DEF Continues
<1>2. CASE x.ok /\ input.ref[1] = "stored" /\ HasWork(x.t, input.ref[2])
  <2> DEFINE w == input.ref[2]
             linked == LinkWork(x, p, w)
  <2>1. y = IF linked.ok THEN WriteLinkedWork(linked, w, input) ELSE linked
    BY <1>2 DEF LinkOrCreateWork
  <2>2. IsTx(x) /\ w \in DOMAIN x.t.works /\ w \in Nat /\ ReferBut(x.t, w)
    BY <1>2, TablesOf DEF HasWork, Sound, IsTx, IsConsistent, ReferBut
  <2>3. IsCollected(x.t) => ContainsBut(x.t, w)
    BY CollectedMeans DEF ContainsBut
  <2> HIDE DEF y, w
  <2>4. /\ IsTx(linked) /\ linked.t.library /\ linked.t.people = x.t.people
        /\ DOMAIN linked.t.pubs = DOMAIN x.t.pubs
        /\ linked.ok => x.ok
        /\ ReferBut(linked.t, w)
        /\ linked.ok /\ IsCollected(x.t) => IsCollected(linked.t)
    BY <2>2, <2>3, LinkWorkSound DEF Sound
  <2> HIDE DEF linked
  <2>5. CASE ~linked.ok
    BY <2>1, <2>4, <2>5 DEF Continues, Sound, y
  <2>6. CASE linked.ok
    <3>1. Continues(linked, WriteLinkedWork(linked, w, input))
      BY <2>2, <2>4, WriteLinkedWorkSound DEF IsContent
    <3> QED BY <2>1, <2>4, <2>6, <3>1 DEF Continues, y
  <2> QED BY <2>5, <2>6
<1>3. CASE x.ok /\ ~(input.ref[1] = "stored" /\ HasWork(x.t, input.ref[2]))
  <2>1. y = CreateWorkIn(x, p, input)
    BY <1>3 DEF LinkOrCreateWork
  <2> HIDE DEF y
  <2> QED BY <2>1, CreateWorkInSound DEF IsContent, y
<1> QED BY <1>1, <1>2, <1>3

\* The rows of a form, in order.
IsContentList(contents) ==
    /\ Len(contents) \in Nat /\ DOMAIN contents = 1 .. Len(contents)
    /\ \A k \in DOMAIN contents : IsContent(contents[k])

(* The contents of a new publication: one work for each. *)
LEMMA AddContentsSound ==
  ASSUME NEW x, Sound(x), NEW p \in DOMAIN x.t.pubs, NEW contents, IsContentList(contents)
  PROVE LET a == AddContents([x |-> x, ids |-> <<>>], p, contents) IN
        Continues(x, a.x) /\ a.ids \in Seq(Nat) /\ Len(a.ids) = Len(contents)
<1> DEFINE n == Len(contents)
           base == [x |-> x, ids |-> <<>>]
<1>1. n \in Nat /\ DOMAIN contents = 1 .. n /\ \A k \in 1 .. n : IsContent(contents[k])
  BY DEF IsContentList
<1>2. base.x = x /\ base.ids = <<>>
  OBVIOUS
<1> HIDE DEF n, base
<1>3. PICK h : Trace(<<"add", p>>, base, contents, n, h) /\ h[n] = AddContents(base, p, contents)
  BY <1>1, AddFold
<1>4. h[0] = base /\ \A k \in 1 .. n : h[k] = AddContent(h[k-1], p, contents[k])
  BY <1>1, <1>3, AddFold DEF Trace
<1> DEFINE T == {k \in 0 .. n : Continues(x, h[k].x) /\ h[k].ids \in Seq(Nat) /\ Len(h[k].ids) = k}
<1>5. 0 \in T
  <2>1. Continues(x, x)
    BY DEF Continues
  <2>2. <<>> \in Seq(Nat) /\ Len(<<>>) = 0
    OBVIOUS
  <2>3. h[0].x = x /\ h[0].ids = <<>>
    BY <1>2, <1>4
  <2>4. Continues(x, h[0].x) /\ h[0].ids \in Seq(Nat) /\ Len(h[0].ids) = 0
    BY <2>1, <2>2, <2>3
  <2> QED BY <1>1, <2>4
<1>6. ASSUME NEW k \in 1 .. n, k - 1 \in T PROVE k \in T
  <2> DEFINE a == h[k-1]
             y == LinkOrCreateWork(a.x, p, contents[k])
  <2>1. Continues(x, a.x) /\ a.ids \in Seq(Nat) /\ Len(a.ids) = k - 1
    BY <1>6
  <2>2. h[k] = [x |-> y, ids |-> Append(a.ids, y.id)]
    BY <1>4 DEF AddContent
  <2> HIDE DEF a
  <2>3. Continues(a.x, y)
    BY <1>1, <2>1, LinkOrCreateWorkSound DEF Continues
  <2> HIDE DEF y
  <2>4. y.id \in Nat
    BY <2>3 DEF Continues, Sound, IsTx
  <2>5. Append(a.ids, y.id) \in Seq(Nat) /\ Len(Append(a.ids, y.id)) = k
    BY <2>1, <2>4
  <2>6. Continues(x, y)
    BY <2>1, <2>3 DEF Continues
  <2>7. h[k].x = y /\ h[k].ids = Append(a.ids, y.id)
    BY <2>2
  <2>8. Continues(x, h[k].x) /\ h[k].ids \in Seq(Nat) /\ Len(h[k].ids) = k
    BY <2>5, <2>6, <2>7
  <2> QED BY <1>1, <2>8
<1> HIDE DEF T
<1>7. n \in T
  <2>1. n \in Nat /\ 0 \in T /\ \A k \in 1 .. n : k - 1 \in T => k \in T
    BY <1>1, <1>5, <1>6
  <2>2. \A k \in 0 .. n : k \in T
    BY <2>1, Induction
  <2> QED BY <2>1, <2>2
<1>8. h[n] = AddContents([x |-> x, ids |-> <<>>], p, contents)
  BY <1>3 DEF base
<1> QED BY <1>7, <1>8 DEF T, n

(* The contents of a publication that is written again. *)
LEMMA WriteContentsSound ==
  ASSUME NEW x, Sound(x), NEW p \in DOMAIN x.t.pubs, NEW before, before \subseteq Nat,
         NEW contents, IsContentList(contents)
  PROVE Continues(x, WriteContents(x, p, before, contents))
<1> DEFINE n == Len(contents)
<1>1. n \in Nat /\ DOMAIN contents = 1 .. n /\ \A k \in 1 .. n : IsContent(contents[k])
  BY DEF IsContentList
<1> HIDE DEF n
<1>3. PICK h : Trace(<<"write", p, before>>, x, contents, n, h) /\ h[n] = WriteContents(x, p, before, contents)
  BY <1>1, WriteFold
<1>4. h[0] = x /\ \A k \in 1 .. n : h[k] = WriteContent(h[k-1], p, before, contents[k])
  BY <1>1, <1>3, WriteFold DEF Trace
<1> DEFINE T == {k \in 0 .. n : Continues(x, h[k])}
<1>5. 0 \in T
  <2>1. Continues(x, x)
    BY DEF Continues
  <2> QED BY <1>1, <1>4, <2>1
<1>6. ASSUME NEW k \in 1 .. n, k - 1 \in T PROVE k \in T
  <2> DEFINE a == h[k-1]
             input == contents[k]
  <2>1. Continues(x, a)
    BY <1>6
  <2>2. h[k] = WriteContent(a, p, before, input) /\ IsContent(input)
    BY <1>1, <1>4
  <2> HIDE DEF a, input
  <2>3. CASE a.ok /\ input.ref[1] = "stored" /\ input.ref[2] \in before
    <3>1. h[k] = WriteLinkedWork(a, input.ref[2], input)
      BY <2>2, <2>3 DEF WriteContent
    <3>2. IsTx(a) /\ a.t.library /\ input.ref[2] \in Nat /\ ReferBut(a.t, input.ref[2])
      BY <2>1, <2>3 DEF Continues, Sound, IsConsistent, ReferBut
    <3>3. Continues(a, h[k])
      BY <2>2, <3>1, <3>2, WriteLinkedWorkSound DEF IsContent
    <3>4. Continues(x, h[k])
      BY <2>1, <3>3 DEF Continues
    <3> QED BY <1>1, <3>4
  <2>4. CASE ~(a.ok /\ input.ref[1] = "stored" /\ input.ref[2] \in before)
    <3>1. h[k] = LinkOrCreateWork(a, p, input)
      BY <2>2, <2>4 DEF WriteContent
    <3>2. Continues(a, h[k])
      BY <2>1, <2>2, <3>1, LinkOrCreateWorkSound DEF Continues
    <3>3. Continues(x, h[k])
      BY <2>1, <3>2 DEF Continues
    <3> QED BY <1>1, <3>3
  <2> QED BY <2>3, <2>4
<1> HIDE DEF T
<1>7. n \in T
  <2>1. n \in Nat /\ 0 \in T /\ \A k \in 1 .. n : k - 1 \in T => k \in T
    BY <1>1, <1>5, <1>6
  <2>2. \A k \in 0 .. n : k \in T
    BY <2>1, Induction
  <2> QED BY <2>1, <2>2
<1> QED BY <1>3, <1>7 DEF T

\* One row of a table written over.
WithPub(x, p, row) == [x EXCEPT !.t.pubs[p] = row]
WithWork(x, w, row) == [x EXCEPT !.t.works[w] = row]

(* The rest of the tables is as it was. *)
LEMMA SetPub ==
  ASSUME NEW x, IsTx(x), NEW p \in DOMAIN x.t.pubs, NEW row \in PubRows
  PROVE LET y == WithPub(x, p, row) IN
        /\ IsTx(y) /\ y.t.works = x.t.works /\ y.t.people = x.t.people
        /\ y.t.library = x.t.library /\ y.ok = x.ok
        /\ DOMAIN y.t.pubs = DOMAIN x.t.pubs /\ y.t.pubs[p] = row
        /\ \A q \in DOMAIN x.t.pubs \ {p} : y.t.pubs[q] = x.t.pubs[q]
<1> DEFINE pubs == [x.t.pubs EXCEPT ![p] = row]
           z == WithPubs(x, pubs)
<1>1. WithPub(x, p, row) = z
  BY DEF WithPub, WithPubs
<1>2. IsPubs(x.t.pubs, x.t.last.pubs)
  BY DEF IsTx, IsTables, IsPubs
<1>3. /\ pubs[p] = row /\ \A q \in DOMAIN x.t.pubs \ {p} : pubs[q] = x.t.pubs[q]
      /\ DOMAIN pubs = DOMAIN x.t.pubs /\ IsPubs(pubs, x.t.last.pubs)
  BY <1>2 DEF IsPubs
<1> HIDE DEF pubs
<1>4. /\ IsTx(z) /\ z.t.pubs = pubs /\ z.t.works = x.t.works /\ z.t.people = x.t.people
      /\ z.t.library = x.t.library /\ z.ok = x.ok
  BY <1>3, SetPubs
<1> HIDE DEF z
<1> QED BY <1>1, <1>3, <1>4

(* See SetPub. *)
LEMMA SetWork ==
  ASSUME NEW x, IsTx(x), NEW w \in DOMAIN x.t.works, NEW row \in WorkRows
  PROVE LET y == WithWork(x, w, row) IN
        /\ IsTx(y) /\ y.t.pubs = x.t.pubs /\ y.t.people = x.t.people
        /\ y.t.library = x.t.library /\ y.ok = x.ok
        /\ DOMAIN y.t.works = DOMAIN x.t.works /\ y.t.works[w] = row
        /\ \A v \in DOMAIN x.t.works \ {w} : y.t.works[v] = x.t.works[v]
<1> DEFINE works == [x.t.works EXCEPT ![w] = row]
           z == [x EXCEPT !.t.works = works]
<1>1. WithWork(x, w, row) = z
  BY DEF WithWork
<1>2. IsWorks(x.t.works, x.t.last.works)
  BY DEF IsTx, IsTables, IsWorks
<1>3. /\ works[w] = row /\ \A v \in DOMAIN x.t.works \ {w} : works[v] = x.t.works[v]
      /\ DOMAIN works = DOMAIN x.t.works /\ IsWorks(works, x.t.last.works)
  BY <1>2 DEF IsWorks
<1> HIDE DEF works
<1>4. /\ IsTx(z) /\ z.t.works = works /\ z.t.pubs = x.t.pubs /\ z.t.people = x.t.people
      /\ z.t.library = x.t.library /\ z.ok = x.ok
  BY <1>3, SetWorks
<1> HIDE DEF z
<1> QED BY <1>1, <1>3, <1>4

\* What a form, or an import, writes of a publication beside its contents.
IsForm(row) ==
    DOMAIN row = {"credits", "held"} /\ row.credits \subseteq Nat /\ row.held = {Copy}

(* A new publication has an id that none had, and no contents. *)
LEMMA InsertPublicationSound ==
  ASSUME NEW x, IsTx(x), NEW row, IsForm(row)
  PROVE LET y == InsertPublication(x, row) IN
        /\ IsTx(y) /\ y.t.library = x.t.library /\ y.t.people = x.t.people /\ y.t.works = x.t.works
        /\ y.ok = x.ok /\ y.id \in Nat /\ y.id \notin DOMAIN x.t.pubs
        /\ DOMAIN y.t.pubs = DOMAIN x.t.pubs \union {y.id}
        /\ \A p \in DOMAIN x.t.pubs : y.t.pubs[p] = x.t.pubs[p]
        /\ y.t.pubs[y.id].works = {} /\ y.t.pubs[y.id].held = {Copy}
        /\ y.t.pubs[y.id].credits = row.credits
<1> DEFINE y == InsertPublication(x, row)
           p == x.t.last.pubs + 1
           pub == With(row, "works", {})
           pubs == With(x.t.pubs, p, pub)
           last == [works |-> x.t.last.works, people |-> x.t.last.people, pubs |-> p]
<1>1. y = [t |-> [library |-> x.t.library, works |-> x.t.works, people |-> x.t.people, pubs |-> pubs,
                  last |-> last],
           merges |-> x.merges, events |-> x.events, ok |-> x.ok, id |-> p]
  <2>1. y = [[[x EXCEPT !.t.pubs = pubs] EXCEPT !.t.last.pubs = p] EXCEPT !.id = p]
    BY DEF InsertPublication, Returns
  <2>2. /\ x = [t |-> x.t, merges |-> x.merges, events |-> x.events, ok |-> x.ok, id |-> x.id]
        /\ x.t = [library |-> x.t.library, works |-> x.t.works, people |-> x.t.people,
                  pubs |-> x.t.pubs, last |-> x.t.last]
        /\ x.t.last = [works |-> x.t.last.works, people |-> x.t.last.people, pubs |-> x.t.last.pubs]
    BY DEF IsTx, IsTables
  <2> HIDE DEF y, pubs, p
  <2> QED BY <2>1, <2>2
<1>2. /\ x.t.last.works \in Nat /\ x.t.last.people \in Nat /\ x.t.last.pubs \in Nat
      /\ IsWorks(x.t.works, x.t.last.works)
      /\ IsPubs(x.t.pubs, x.t.last.pubs) /\ IsPeople(x.t.people, x.t.last.people)
      /\ x.t.library \in BOOLEAN
  BY DEF IsTx, IsTables, IsWorks, IsPubs, IsPeople
<1>3. p \in Nat /\ p \notin 1 .. x.t.last.pubs /\ 1 .. p = 1 .. x.t.last.pubs \union {p}
  BY <1>2
<1>4. pub \in PubRows /\ pub.works = {} /\ pub.credits = row.credits /\ pub.held = row.held
  <2>1. /\ {} \in SUBSET Nat /\ row.credits \subseteq Nat /\ row.held \subseteq {Copy}
        /\ DOMAIN row \union {"works"} = {"works", "credits", "held"}
    BY DEF IsForm
  <2> HIDE DEF pub
  <2>2. LET z == With(row, "works", {}) IN
        z \in PubRows /\ z.works = {} /\ z.credits = row.credits /\ z.held = row.held
    BY <2>1, WithContents
  <2> QED BY <2>2 DEF pub
<1> HIDE DEF y, p, pub
<1>5. p \notin DOMAIN x.t.pubs
  BY <1>2, <1>3 DEF IsPubs
<1>6. /\ IsPubs(pubs, p) /\ DOMAIN pubs = DOMAIN x.t.pubs \union {p} /\ pubs[p] = pub
      /\ \A q \in DOMAIN x.t.pubs : pubs[q] = x.t.pubs[q]
  BY <1>2, <1>3, <1>4, <1>5 DEF IsPubs, With
<1>7. last \in [works : Nat, people : Nat, pubs : Nat] /\ last.pubs = p
      /\ last.people = x.t.last.people /\ last.works = x.t.last.works
  BY <1>2, <1>3
<1> HIDE DEF pubs, last
<1>8. /\ y.t.works = x.t.works /\ y.t.pubs = pubs /\ y.t.people = x.t.people
      /\ y.t.library = x.t.library /\ y.t.last = last /\ y.ok = x.ok /\ y.id = p
      /\ y.merges = x.merges
      /\ y.t = [library |-> y.t.library, works |-> y.t.works, people |-> y.t.people, pubs |-> y.t.pubs,
                last |-> y.t.last]
      /\ y = [t |-> y.t, merges |-> y.merges, events |-> y.events, ok |-> y.ok, id |-> y.id]
  BY <1>1
<1>9. IsTables(y.t)
  BY <1>2, <1>6, <1>7, <1>8 DEF IsTables, IsWorks, IsPubs, IsPeople
<1>10. IsTx(y)
  BY <1>3, <1>8, <1>9 DEF IsTx
<1>11. row.held = {Copy}
  BY DEF IsForm
<1> QED BY <1>3, <1>4, <1>5, <1>6, <1>8, <1>10, <1>11 DEF y

\* Consistent but for whom one publication credits.
CreditsBut(tables, p) ==
    /\ \A w \in DOMAIN tables.works : tables.works[w].composers \subseteq DOMAIN tables.people
    /\ \A q \in DOMAIN tables.pubs : tables.pubs[q].works \subseteq DOMAIN tables.works
    /\ \A q \in DOMAIN tables.pubs \ {p} : tables.pubs[q].credits \subseteq DOMAIN tables.people

(* Everything about a publication but its contents is written over. *)
LEMMA WriteChildrenSound ==
  ASSUME NEW x, IsTx(x), x.t.library, NEW p \in DOMAIN x.t.pubs, x.ok => CreditsBut(x.t, p),
         NEW row, IsForm(row)
  PROVE LET y == WriteChildren(x, p, row) IN
        Continues(x, y) /\ y.t.works = x.t.works /\ y.t.pubs[p].works = x.t.pubs[p].works
<1> DEFINE y == WriteChildren(x, p, row)
           works == x.t.pubs[p].works
           pub == With(row, "works", works)
<1>1. CASE ~ row.credits \subseteq DOMAIN x.t.people
  <2>1. y = Fail(x)
    BY <1>1 DEF WriteChildren
  <2>2. IsTx(Fail(x)) /\ Fail(x).t = x.t /\ ~Fail(x).ok
    BY ReturnsSound, 0 \in Nat
  <2> HIDE DEF y
  <2> QED BY <2>1, <2>2 DEF Continues, Sound, y
<1>2. CASE row.credits \subseteq DOMAIN x.t.people
  <2>1. y = WithPub(x, p, pub)
    BY <1>2 DEF WriteChildren, WithPub
  <2>2. pub \in PubRows /\ pub.works = works /\ pub.credits = row.credits /\ pub.held = {Copy}
    <3>1. /\ row.credits \subseteq Nat /\ row.held \subseteq {Copy} /\ row.held = {Copy}
          /\ works \in SUBSET Nat
          /\ DOMAIN row \union {"works"} = {"works", "credits", "held"}
      BY TablesOf DEF IsForm, IsTx
    <3> HIDE DEF pub, works
    <3>2. LET z == With(row, "works", works) IN
          z \in PubRows /\ z.works = works /\ z.credits = row.credits /\ z.held = row.held
      BY <3>1, WithContents
    <3> QED BY <3>1, <3>2 DEF pub
  <2> HIDE DEF y, pub
  <2>3. /\ IsTx(y) /\ y.t.works = x.t.works /\ y.t.people = x.t.people
        /\ y.t.library = x.t.library /\ y.ok = x.ok
        /\ DOMAIN y.t.pubs = DOMAIN x.t.pubs /\ y.t.pubs[p] = pub
        /\ \A q \in DOMAIN x.t.pubs \ {p} : y.t.pubs[q] = x.t.pubs[q]
    <3> DEFINE z == WithPub(x, p, pub)
    <3>1. pub \in PubRows
      BY <2>2
    <3>2. /\ IsTx(z) /\ z.t.works = x.t.works /\ z.t.people = x.t.people
          /\ z.t.library = x.t.library
      <4>1. IsTx(z)
        BY <3>1, SetPub
      <4>2. z.t.works = x.t.works /\ z.t.people = x.t.people
        BY <3>1, SetPub
      <4>3. z.t.library = x.t.library
        BY <3>1, SetPub
      <4> QED BY <4>1, <4>2, <4>3
    <3>3. z.ok = x.ok
      BY <3>1, SetPub
    <3>4. DOMAIN z.t.pubs = DOMAIN x.t.pubs /\ z.t.pubs[p] = pub
      BY <3>1, SetPub
    <3>5. \A q \in DOMAIN x.t.pubs \ {p} : z.t.pubs[q] = x.t.pubs[q]
      BY <3>1, SetPub
    <3> HIDE DEF z
    <3> QED BY <2>1, <3>2, <3>3, <3>4, <3>5 DEF z
  <2>4. x.ok => IsConsistent(y.t)
    BY <1>2, <2>2, <2>3 DEF CreditsBut, IsConsistent
  <2>5. IsCollected(x.t) => IsCollected(y.t)
    <3>1. \A q \in DOMAIN x.t.pubs : /\ y.t.pubs[q].works = x.t.pubs[q].works
                                     /\ x.t.pubs[q].held # {} => y.t.pubs[q].held # {}
      BY <2>2, <2>3
    <3> QED BY <2>3, <3>1, CollectedMeans
  <2> QED BY <2>2, <2>3, <2>4, <2>5 DEF Continues, Sound, y
<1> QED BY <1>1, <1>2

(* publication::create_publication *)
LEMMA CreatePublicationSound ==
  ASSUME NEW x, Sound(x), NEW row, IsForm(row), NEW contents, IsContentList(contents)
  PROVE LET a == CreatePublication(x, row, contents) IN
        /\ Sound(a.x) /\ a.ids \in Seq(Nat) /\ Len(a.ids) = Len(contents)
        /\ a.x.ok /\ IsCollected(x.t) => IsCollected(a.x.t)
<1> DEFINE inserted == InsertPublication(x, row)
           p == inserted.id
           written == WriteChildren(inserted, p, row)
           a == AddContents([x |-> written, ids |-> <<>>], p, contents)
<1>1. CreatePublication(x, row, contents) = a
  BY DEF CreatePublication, Sound
<1>2. /\ IsTx(inserted) /\ inserted.t.library /\ inserted.t.people = x.t.people
      /\ inserted.t.works = x.t.works
      /\ inserted.ok = x.ok /\ p \in Nat /\ p \notin DOMAIN x.t.pubs
      /\ DOMAIN inserted.t.pubs = DOMAIN x.t.pubs \union {p}
      /\ \A q \in DOMAIN x.t.pubs : inserted.t.pubs[q] = x.t.pubs[q]
      /\ inserted.t.pubs[p].works = {} /\ inserted.t.pubs[p].held = {Copy}
      /\ inserted.t.pubs[p].credits = row.credits
  BY InsertPublicationSound DEF Sound
<1> HIDE DEF inserted, p
<1>3. x.ok => CreditsBut(inserted.t, p)
  BY <1>2 DEF CreditsBut, Sound, IsConsistent
<1>4. IsCollected(x.t) => IsCollected(inserted.t)
  <2>1. SUFFICES ASSUME IsCollected(x.t) PROVE IsCollected(inserted.t)
    OBVIOUS
  <2>2. /\ \A q \in DOMAIN x.t.pubs : x.t.pubs[q].held # {}
        /\ \A q \in DOMAIN x.t.pubs : x.t.pubs[q].works \subseteq DOMAIN x.t.works
        /\ \A w \in DOMAIN x.t.works : \E q \in DOMAIN x.t.pubs : w \in x.t.pubs[q].works
    BY <2>1, CollectedMeans
  <2>3. \A q \in DOMAIN inserted.t.pubs : inserted.t.pubs[q].held # {}
    BY <1>2, <2>2
  <2>4. \A q \in DOMAIN inserted.t.pubs : inserted.t.pubs[q].works \subseteq DOMAIN inserted.t.works
    BY <1>2, <2>2
  <2>5. \A w \in DOMAIN inserted.t.works : \E q \in DOMAIN inserted.t.pubs : w \in inserted.t.pubs[q].works
    BY <1>2, <2>2
  <2> QED BY <2>3, <2>4, <2>5, CollectedMeans
<1>5. p \in DOMAIN inserted.t.pubs
  BY <1>2
<1>6. Continues(inserted, written)
  BY <1>2, <1>3, <1>5, WriteChildrenSound
<1> HIDE DEF written
<1>7. Continues(written, a.x) /\ a.ids \in Seq(Nat) /\ Len(a.ids) = Len(contents)
  <2>1. Sound(written) /\ p \in DOMAIN written.t.pubs
    BY <1>5, <1>6 DEF Continues
  <2> QED BY <2>1, AddContentsSound
<1> HIDE DEF a
<1> QED BY <1>1, <1>4, <1>6, <1>7 DEF Continues

(* Publication::update, up to its collection. *)
LEMMA WritePublicationSound ==
  ASSUME NEW x, Sound(x), NEW p \in DOMAIN x.t.pubs, NEW row, IsForm(row),
         NEW contents, IsContentList(contents)
  PROVE Sound(WritePublication(x, p, row, contents))
<1> DEFINE before == x.t.pubs[p].works
           named == {c.ref[2] : c \in {c \in ToSet(contents) : c.ref[1] = "stored"}}
           written == WriteChildren(x, p, row)
           works == before \intersect named
           old == written.t.pubs[p]
           pub == With(old, "works", works)
           unlinked == WithPub(written, p, pub)
<1>1. WritePublication(x, p, row, contents) = WriteContents(unlinked, p, before, contents)
  BY DEF WritePublication, WithPub
<1>2. Continues(x, written)
  <2>1. IsTx(x) /\ x.t.library /\ (x.ok => CreditsBut(x.t, p))
    BY DEF Sound, IsConsistent, CreditsBut
  <2> HIDE DEF written
  <2>2. LET y == WriteChildren(x, p, row) IN Continues(x, y)
    BY <2>1, WriteChildrenSound
  <2> QED BY <2>2 DEF written
<1>3. written.t.pubs[p].works = before
  <2>1. IsTx(x) /\ x.t.library /\ (x.ok => CreditsBut(x.t, p))
    BY DEF Sound, IsConsistent, CreditsBut
  <2> HIDE DEF written
  <2>2. LET y == WriteChildren(x, p, row) IN y.t.pubs[p].works = x.t.pubs[p].works
    BY <2>1, WriteChildrenSound
  <2> QED BY <2>2 DEF written
<1>4. IsTx(written) /\ p \in DOMAIN written.t.pubs /\ before \subseteq Nat
  BY <1>2, TablesOf DEF Continues, Sound, IsTx
<1> HIDE DEF written
<1>5. old \in PubRows
  BY <1>4, TablesOf DEF IsTx
<1>6. pub \in PubRows /\ pub.works = works /\ pub.credits = old.credits /\ pub.held = old.held
  <2>1. /\ old.credits \subseteq Nat /\ old.held \subseteq {Copy} /\ works \in SUBSET Nat
        /\ DOMAIN old \union {"works"} = {"works", "credits", "held"}
    BY <1>4, <1>5 DEF PubRows
  <2> HIDE DEF old, works
  <2>2. LET z == With(old, "works", works) IN
        z \in PubRows /\ z.works = works /\ z.credits = old.credits /\ z.held = old.held
    BY <2>1, WithContents
  <2> QED BY <2>2
<1> HIDE DEF pub
<1>7. /\ IsTx(unlinked) /\ unlinked.t.works = written.t.works /\ unlinked.t.people = written.t.people
      /\ unlinked.t.library = written.t.library /\ unlinked.ok = written.ok
      /\ DOMAIN unlinked.t.pubs = DOMAIN written.t.pubs /\ unlinked.t.pubs[p] = pub
      /\ \A q \in DOMAIN written.t.pubs \ {p} : unlinked.t.pubs[q] = written.t.pubs[q]
  BY <1>4, <1>6, SetPub
<1> HIDE DEF unlinked
<1>8. Sound(unlinked)
  <2>1. pub.works \subseteq old.works /\ pub.credits = old.credits
    BY <1>3, <1>6
  <2>2. unlinked.ok => IsConsistent(unlinked.t)
    BY <1>2, <1>4, <1>7, <2>1 DEF Continues, Sound, IsConsistent
  <2> QED BY <1>2, <1>7, <2>2 DEF Continues, Sound
<1>9. p \in DOMAIN unlinked.t.pubs
  BY <1>4, <1>7
<1> HIDE DEF before
<1>10. Continues(unlinked, WriteContents(unlinked, p, before, contents))
  BY <1>4, <1>8, <1>9, WriteContentsSound
<1> QED BY <1>1, <1>10 DEF Continues

(* A person more. *)
LEMMA CreatePersonSound ==
  ASSUME NEW x, Sound(x), NEW row \in Names
  PROVE LET y == CreatePerson(x, row) IN
        /\ Sound(y) /\ y.t.pubs = x.t.pubs /\ y.t.works = x.t.works /\ y.ok = x.ok /\ y.id \in Nat
<1> DEFINE y == CreatePerson(x, row)
           id == x.t.last.people + 1
           people == With(x.t.people, id, row)
           last == [works |-> x.t.last.works, people |-> id, pubs |-> x.t.last.pubs]
<1>0. IsTx(x) /\ x.t.library
  BY DEF Sound
<1>1. y = [t |-> [library |-> x.t.library, works |-> x.t.works, people |-> people, pubs |-> x.t.pubs,
                  last |-> last],
           merges |-> x.merges, events |-> x.events, ok |-> x.ok, id |-> id]
  <2>1. y = [[[x EXCEPT !.t.people = people] EXCEPT !.t.last.people = id] EXCEPT !.id = id]
    BY DEF CreatePerson, Returns
  <2>2. /\ x = [t |-> x.t, merges |-> x.merges, events |-> x.events, ok |-> x.ok, id |-> x.id]
        /\ x.t = [library |-> x.t.library, works |-> x.t.works, people |-> x.t.people,
                  pubs |-> x.t.pubs, last |-> x.t.last]
        /\ x.t.last = [works |-> x.t.last.works, people |-> x.t.last.people, pubs |-> x.t.last.pubs]
    BY <1>0 DEF IsTx, IsTables
  <2> HIDE DEF y, people, id
  <2> QED BY <2>1, <2>2
<1>2. /\ x.t.last.works \in Nat /\ x.t.last.people \in Nat /\ x.t.last.pubs \in Nat
      /\ IsWorks(x.t.works, x.t.last.works)
      /\ IsPubs(x.t.pubs, x.t.last.pubs) /\ IsPeople(x.t.people, x.t.last.people)
      /\ x.t.library \in BOOLEAN
  BY <1>0 DEF IsTx, IsTables, IsWorks, IsPubs, IsPeople
<1>3. id \in Nat /\ id \notin 1 .. x.t.last.people /\ 1 .. id = 1 .. x.t.last.people \union {id}
  BY <1>2
<1> HIDE DEF y, id
<1>4. IsPeople(people, id) /\ DOMAIN x.t.people \subseteq DOMAIN people
  BY <1>2, <1>3 DEF IsPeople, With
<1>5. last \in [works : Nat, people : Nat, pubs : Nat] /\ last.people = id
      /\ last.works = x.t.last.works /\ last.pubs = x.t.last.pubs
  BY <1>2, <1>3
<1> HIDE DEF people, last
<1>6. /\ y.t.works = x.t.works /\ y.t.pubs = x.t.pubs /\ y.t.people = people
      /\ y.t.library = x.t.library /\ y.t.last = last /\ y.ok = x.ok /\ y.id = id
      /\ y.merges = x.merges
      /\ y.t = [library |-> y.t.library, works |-> y.t.works, people |-> y.t.people, pubs |-> y.t.pubs,
                last |-> y.t.last]
      /\ y = [t |-> y.t, merges |-> y.merges, events |-> y.events, ok |-> y.ok, id |-> y.id]
  BY <1>1
<1>7. IsTables(y.t)
  BY <1>2, <1>4, <1>5, <1>6 DEF IsTables, IsWorks, IsPubs, IsPeople
<1>8. IsTx(y)
  BY <1>0, <1>3, <1>6, <1>7 DEF IsTx
<1>9. x.ok => IsConsistent(y.t)
  BY <1>0, <1>4, <1>6 DEF Sound, IsConsistent
<1> QED BY <1>0, <1>3, <1>6, <1>8, <1>9 DEF y, Sound

\* Whom a form credits: the id of a person, or the name of a new one.
ArePersons(persons) ==
    /\ IsFiniteSet(persons)
    /\ \A p \in persons : IF p[1] = "new" THEN p[2] \in Names ELSE p[2] \in Nat

(* person::create_new_persons: an id for each. *)
LEMMA CreateNewPersonsSound ==
  ASSUME NEW x, Sound(x), NEW persons, ArePersons(persons)
  PROVE LET a == CreateNewPersons(x, persons) IN
        /\ Sound(a.x) /\ a.x.t.pubs = x.t.pubs /\ a.x.t.works = x.t.works /\ a.x.ok = x.ok
        /\ Range(a.id) \subseteq Nat
<1> DEFINE new == {p \in persons : p[1] = "new"}
           seq == SetToSeq(new)
           n == Cardinality(new)
           base == [x |-> x, id |-> [p \in persons \ new |-> p[2]]]
<1>1. CreateNewPersons(x, persons) = CreateEach(base, seq)
  BY DEF CreateNewPersons
<1>2. n \in Nat /\ seq \in [1 .. n -> new]
  <2>1. new \in SUBSET persons /\ IsFiniteSet(persons)
    BY DEF ArePersons
  <2>2. IsFiniteSet(new)
    BY <2>1, FS_Subset
  <2> HIDE DEF new
  <2>3. n \in Nat /\ ExistsBijection(1 .. n, new)
    BY <2>2, FS_CardinalityType
  <2>4. \E f \in [1 .. n -> new] : IsInjective(f)
    BY <2>3 DEF ExistsBijection, Bijection, Injection
  <2> QED BY <2>3, <2>4 DEF SetToSeq
<1>3. DOMAIN seq = 1 .. n /\ \A k \in 1 .. n : seq[k][2] \in Names
  BY <1>2 DEF ArePersons
<1>4. base.x = x /\ \A p \in DOMAIN base.id : base.id[p] \in Nat
  BY DEF ArePersons
<1> HIDE DEF seq, n, base
<1>5. PICK h : Trace(<<"person">>, base, seq, n, h) /\ h[n] = CreateEach(base, seq)
  BY <1>2, <1>3, PersonFold
<1>6. h[0] = base /\ \A k \in 1 .. n : h[k] = CreateNewPerson(h[k-1], seq[k])
  BY <1>2, <1>3, <1>5, PersonFold DEF Trace
<1> DEFINE Made(a) == /\ Sound(a.x) /\ a.x.t.pubs = x.t.pubs /\ a.x.t.works = x.t.works
                      /\ a.x.ok = x.ok
                      /\ \A p \in DOMAIN a.id : a.id[p] \in Nat
           T == {k \in 0 .. n : Made(h[k])}
<1>7. 0 \in T
  <2>1. Made(h[0])
    BY <1>4, <1>6
  <2> QED BY <1>2, <2>1
<1>8. ASSUME NEW k \in 1 .. n, k - 1 \in T PROVE k \in T
  <2> DEFINE a == h[k-1]
             name == seq[k][2]
             y == CreatePerson(a.x, name)
             id == With(a.id, seq[k], y.id)
  <2>1. Made(a) /\ name \in Names
    BY <1>3, <1>8
  <2>2. h[k] = [x |-> y, id |-> id]
    BY <1>6 DEF CreateNewPerson
  <2> HIDE DEF a, name
  <2>3. Sound(y) /\ y.t.pubs = a.x.t.pubs /\ y.t.works = a.x.t.works /\ y.ok = a.x.ok /\ y.id \in Nat
    BY <2>1, CreatePersonSound
  <2> HIDE DEF y
  <2>4. \A p \in DOMAIN id : id[p] \in Nat
    BY <2>1, <2>3 DEF With
  <2> HIDE DEF id
  <2>5. h[k].x = y /\ h[k].id = id
    BY <2>2
  <2>6. Made(h[k])
    BY <2>1, <2>3, <2>4, <2>5
  <2> QED BY <1>2, <2>6
<1> HIDE DEF T
<1>9. n \in T
  <2>1. n \in Nat /\ 0 \in T /\ \A k \in 1 .. n : k - 1 \in T => k \in T
    BY <1>2, <1>7, <1>8
  <2>2. \A k \in 0 .. n : k \in T
    BY <2>1, Induction
  <2> QED BY <2>1, <2>2
<1>10. Made(h[n])
  BY <1>9 DEF T
<1>11. Range(h[n].id) \subseteq Nat
  BY <1>10 DEF Range
<1> QED BY <1>1, <1>5, <1>10, <1>11

(* Whom the tables credit, row by row. *)
LEMMA CreditedMeans ==
  ASSUME NEW tables
  PROVE \A x : x \in CreditedPeople(tables) <=>
                  \/ \E p \in DOMAIN tables.pubs : x \in tables.pubs[p].credits
                  \/ \E w \in DOMAIN tables.works : x \in tables.works[w].composers
  BY DEF CreditedPeople

(* library::collect_orphans leaves nothing that is not needed, and nothing without what it  *)
(* needs.                                                                                   *)
LEMMA CollectOrphansSound ==
  ASSUME NEW tables, IsTables(tables), IsConsistent(tables)
  PROVE LET left == CollectOrphans(tables) IN
        /\ IsTables(left) /\ IsConsistent(left) /\ IsCollected(left)
        /\ DOMAIN left.people \subseteq CreditedPeople(left)
<1> DEFINE pubs == Restrict(tables.pubs, HeldPubs(tables))
           a == [library |-> tables.library, works |-> tables.works, people |-> tables.people,
                 pubs |-> pubs, last |-> tables.last]
           works == Restrict(tables.works, DOMAIN tables.works \intersect ContainedWorks(a))
           b == [library |-> tables.library, works |-> works, people |-> tables.people,
                 pubs |-> pubs, last |-> tables.last]
           people == Restrict(tables.people, DOMAIN tables.people \intersect CreditedPeople(b))
           c == [library |-> tables.library, works |-> works, people |-> people,
                 pubs |-> pubs, last |-> tables.last]
<1>1. tables = [library |-> tables.library, works |-> tables.works, people |-> tables.people,
                pubs |-> tables.pubs, last |-> tables.last]
  BY DEF IsTables
<1>2. CollectPubs(tables) = a
  BY <1>1 DEF CollectPubs
<1>3. CollectWorks(a) = b
  <2> DEFINE W == works
  <2>1. CollectWorks(a) = [a EXCEPT !.works = W]
    BY DEF CollectWorks
  <2> HIDE DEF pubs, W
  <2> QED BY <2>1 DEF W
<1>4. CollectPeople(b) = c
  <2> DEFINE P == people
  <2>1. CollectPeople(b) = [b EXCEPT !.people = P]
    BY DEF CollectPeople
  <2> HIDE DEF pubs, works, P
  <2> QED BY <2>1 DEF P
<1>5. CollectOrphans(tables) = c
  <2> HIDE DEF a, b, c
  <2> QED BY <1>2, <1>3, <1>4 DEF CollectOrphans
<1>6. /\ IsWorks(tables.works, tables.last.works) /\ IsPubs(tables.pubs, tables.last.pubs)
      /\ IsPeople(tables.people, tables.last.people)
      /\ tables.last \in [works : Nat, people : Nat, pubs : Nat] /\ tables.library \in BOOLEAN
  BY DEF IsTables, IsWorks, IsPubs, IsPeople
<1>7. /\ DOMAIN pubs = HeldPubs(tables) /\ DOMAIN pubs \subseteq DOMAIN tables.pubs
      /\ \A p \in DOMAIN pubs : pubs[p] = tables.pubs[p] /\ pubs[p].held # {}
      /\ IsPubs(pubs, tables.last.pubs)
  BY <1>6 DEF Restrict, HeldPubs, IsPubs
<1>8. /\ a.pubs = pubs /\ b.pubs = pubs /\ c.pubs = pubs
      /\ b.works = works /\ c.works = works /\ c.people = people
      /\ c.library = tables.library /\ c.last = tables.last
      /\ c = [library |-> c.library, works |-> c.works, people |-> c.people, pubs |-> c.pubs,
              last |-> c.last]
  OBVIOUS
<1> HIDE DEF a, b, c, pubs
<1>9. \A w : w \in ContainedWorks(a) <=> \E p \in DOMAIN pubs : w \in pubs[p].works
  BY <1>8 DEF ContainedWorks
<1>10. ContainedWorks(a) \subseteq DOMAIN tables.works
  BY <1>7, <1>9 DEF IsConsistent
<1>11. /\ DOMAIN works = ContainedWorks(a)
       /\ \A w \in DOMAIN works : works[w] = tables.works[w]
       /\ IsWorks(works, tables.last.works)
  BY <1>6, <1>10 DEF Restrict, IsWorks
<1> HIDE DEF works
<1>12. \A x : x \in CreditedPeople(b) <=> \/ \E p \in DOMAIN pubs : x \in pubs[p].credits
                                         \/ \E w \in DOMAIN works : x \in works[w].composers
  <2>1. \A x : x \in CreditedPeople(b) <=> \/ \E p \in DOMAIN b.pubs : x \in b.pubs[p].credits
                                          \/ \E w \in DOMAIN b.works : x \in b.works[w].composers
    BY CreditedMeans
  <2> QED BY <1>8, <2>1
<1>13. CreditedPeople(b) \subseteq DOMAIN tables.people
  BY <1>7, <1>10, <1>11, <1>12 DEF IsConsistent
<1>14. DOMAIN people = CreditedPeople(b) /\ IsPeople(people, tables.last.people)
  BY <1>6, <1>13 DEF Restrict, IsPeople
<1> HIDE DEF people
<1>15. IsTables(c)
  BY <1>6, <1>7, <1>8, <1>11, <1>14 DEF IsTables, IsWorks, IsPubs, IsPeople
<1>16. IsConsistent(c)
  <2>1. \A w \in DOMAIN works : works[w].composers \subseteq DOMAIN people
    BY <1>12, <1>14
  <2>2. \A p \in DOMAIN pubs : pubs[p].works \subseteq DOMAIN works /\ pubs[p].credits \subseteq DOMAIN people
    BY <1>9, <1>11, <1>12, <1>14
  <2>3. ~tables.library => DOMAIN works = {} /\ DOMAIN people = {} /\ DOMAIN pubs = {}
    BY <1>7, <1>10, <1>11, <1>13, <1>14 DEF IsConsistent
  <2> QED BY <1>8, <2>1, <2>2, <2>3 DEF IsConsistent
<1>17. IsCollected(c)
  BY <1>7, <1>8, <1>9, <1>11, CollectedMeans
<1>18. DOMAIN c.people \subseteq CreditedPeople(c)
  <2>1. CreditedPeople(c) = CreditedPeople(b)
    BY <1>8 DEF CreditedPeople
  <2> QED BY <1>8, <1>14, <2>1
<1> QED BY <1>5, <1>15, <1>16, <1>17, <1>18

(* So does a transaction that collects before it commits. *)
LEMMA CollectedSound ==
  ASSUME NEW x, IsTx(x)
  PROVE LET y == Collected(x) IN
        /\ y.ok = x.ok /\ y.merges = x.merges
        /\ IsConsistent(x.t) => /\ IsTables(y.t) /\ IsConsistent(y.t) /\ IsCollected(y.t)
                               /\ DOMAIN y.t.people \subseteq CreditedPeople(y.t)
<1> DEFINE y == Collected(x)
           left == CollectOrphans(x.t)
           gone == Entities(x.t) \ Entities(left)
           events == x.events \union {Event("orphan_cleanup", "deleted", e, "none") : e \in gone}
<1>1. y = [[x EXCEPT !.t = left] EXCEPT !.events = events]
  BY DEF Collected
<1> HIDE DEF y, left, events
<1>2. y = [t |-> left, merges |-> x.merges, events |-> events, ok |-> x.ok, id |-> x.id]
  BY <1>1 DEF IsTx
<1>3. y.t = left /\ y.ok = x.ok /\ y.merges = x.merges
  BY <1>2
<1>4. IsTables(x.t)
  BY DEF IsTx
<1>5. IsConsistent(x.t) => /\ IsTables(left) /\ IsConsistent(left) /\ IsCollected(left)
                           /\ DOMAIN left.people \subseteq CreditedPeople(left)
  BY <1>4, CollectOrphansSound DEF left
<1> QED BY <1>3, <1>5 DEF y

-----------------------------------------------------------------------------
(***************************************************************************)
(* The edits of an ArchiveEdit                                             *)
(***************************************************************************)

\* What a call leaves of a transaction.
Edited(x, y) == Sound(y) /\ y.ok = x.ok

(* A row of a publication that names works and people that are there. *)
LEMMA PubEdited ==
  ASSUME NEW x, Sound(x), NEW p \in DOMAIN x.t.pubs, NEW works \in SUBSET Nat,
         NEW credits \in SUBSET Nat, NEW held \in SUBSET {Copy},
         works \subseteq x.t.pubs[p].works \union DOMAIN x.t.works,
         credits \subseteq x.t.pubs[p].credits \union DOMAIN x.t.people
  PROVE Edited(x, WithPub(x, p, [works |-> works, credits |-> credits, held |-> held]))
<1> DEFINE row == [works |-> works, credits |-> credits, held |-> held]
           y == WithPub(x, p, row)
<1>0. IsTx(x) /\ x.t.library /\ row \in PubRows
  BY DEF Sound, PubRows
<1>00. row.works = works /\ row.credits = credits
  OBVIOUS
<1> HIDE DEF row
<1>1. /\ IsTx(y) /\ y.t.works = x.t.works /\ y.t.people = x.t.people
      /\ y.t.library = x.t.library
  <2>1. IsTx(y)
    BY <1>0, SetPub
  <2>2. y.t.works = x.t.works /\ y.t.people = x.t.people
    BY <1>0, SetPub
  <2>3. y.t.library = x.t.library
    BY <1>0, SetPub
  <2> QED BY <2>1, <2>2, <2>3
<1>2. y.ok = x.ok
  BY <1>0, SetPub
<1>3. DOMAIN y.t.pubs = DOMAIN x.t.pubs /\ y.t.pubs[p] = row
  BY <1>0, SetPub
<1>4. \A q \in DOMAIN x.t.pubs \ {p} : y.t.pubs[q] = x.t.pubs[q]
  BY <1>0, SetPub
<1> HIDE DEF y
<1>5. ASSUME x.ok, IsConsistent(x.t) PROVE IsConsistent(y.t)
  <2>1. works \subseteq DOMAIN x.t.works /\ credits \subseteq DOMAIN x.t.people
    BY <1>5 DEF IsConsistent
  <2>2. \A q \in DOMAIN y.t.pubs : /\ y.t.pubs[q].works \subseteq DOMAIN x.t.works
                                   /\ y.t.pubs[q].credits \subseteq DOMAIN x.t.people
    <3>1. ASSUME NEW q \in DOMAIN x.t.pubs, q # p
          PROVE /\ y.t.pubs[q].works \subseteq DOMAIN x.t.works
                /\ y.t.pubs[q].credits \subseteq DOMAIN x.t.people
      BY <1>4, <1>5, <3>1 DEF IsConsistent
    <3>2. /\ y.t.pubs[p].works \subseteq DOMAIN x.t.works
          /\ y.t.pubs[p].credits \subseteq DOMAIN x.t.people
      BY <1>00, <1>3, <2>1
    <3> QED BY <1>3, <3>1, <3>2
  <2> QED BY <1>0, <1>1, <1>3, <1>5, <2>2 DEF IsConsistent
<1> QED BY <1>0, <1>1, <1>2, <1>5 DEF Sound, Edited, y, row

(* A row of a work that credits people who are there. *)
LEMMA WorkEdited ==
  ASSUME NEW x, Sound(x), NEW w \in DOMAIN x.t.works, NEW composers \in SUBSET Nat,
         NEW numbers \in SUBSET Numbers,
         composers \subseteq x.t.works[w].composers \union DOMAIN x.t.people
  PROVE Edited(x, WithWork(x, w, [composers |-> composers, numbers |-> numbers]))
<1> DEFINE row == [composers |-> composers, numbers |-> numbers]
           y == WithWork(x, w, row)
<1>0. IsTx(x) /\ x.t.library /\ row \in WorkRows
  BY DEF Sound, WorkRows
<1>00. row.composers = composers
  OBVIOUS
<1> HIDE DEF row
<1>1. /\ IsTx(y) /\ y.t.pubs = x.t.pubs /\ y.t.people = x.t.people
      /\ y.t.library = x.t.library
  <2>1. IsTx(y)
    BY <1>0, SetWork
  <2>2. y.t.pubs = x.t.pubs /\ y.t.people = x.t.people
    BY <1>0, SetWork
  <2>3. y.t.library = x.t.library
    BY <1>0, SetWork
  <2> QED BY <2>1, <2>2, <2>3
<1>2. y.ok = x.ok
  BY <1>0, SetWork
<1>3. DOMAIN y.t.works = DOMAIN x.t.works /\ y.t.works[w] = row
  BY <1>0, SetWork
<1>4. \A v \in DOMAIN x.t.works \ {w} : y.t.works[v] = x.t.works[v]
  BY <1>0, SetWork
<1> HIDE DEF y
<1>5. ASSUME x.ok, IsConsistent(x.t) PROVE IsConsistent(y.t)
  <2>1. composers \subseteq DOMAIN x.t.people
    BY <1>5 DEF IsConsistent
  <2>2. \A v \in DOMAIN y.t.works : y.t.works[v].composers \subseteq DOMAIN x.t.people
    <3>1. ASSUME NEW v \in DOMAIN x.t.works, v # w
          PROVE y.t.works[v].composers \subseteq DOMAIN x.t.people
      BY <1>4, <1>5, <3>1 DEF IsConsistent
    <3>2. y.t.works[w].composers \subseteq DOMAIN x.t.people
      BY <1>00, <1>3, <2>1
    <3> QED BY <1>3, <3>1, <3>2
  <2> QED BY <1>0, <1>1, <1>3, <1>5, <2>2 DEF IsConsistent
<1> QED BY <1>0, <1>1, <1>2, <1>5 DEF Sound, Edited, y, row

(* The calls on a publication. *)
LEMMA PubEditsSound ==
  ASSUME NEW x, Sound(x), NEW p \in DOMAIN x.t.pubs
  PROVE /\ \A w \in DOMAIN x.t.works : Edited(x, AddWork(x, p, w))
        /\ \A w : Edited(x, RemoveWork(x, p, w))
        /\ \A who \in DOMAIN x.t.people : Edited(x, AddCredit(x, p, who))
        /\ \A who : Edited(x, RemoveCredit(x, p, who))
        /\ Edited(x, AddHolding(x, p, Copy))
        /\ Edited(x, RemoveHolding(x, p, Copy))
<1> DEFINE pub == x.t.pubs[p]
           Row(works, credits, held) == [works |-> works, credits |-> credits, held |-> held]
<1>1. /\ pub = Row(pub.works, pub.credits, pub.held)
      /\ pub.works \in SUBSET Nat /\ pub.credits \in SUBSET Nat /\ pub.held \in SUBSET {Copy}
      /\ DOMAIN x.t.works \subseteq Nat /\ DOMAIN x.t.people \subseteq Nat
  <2>1. IsTables(x.t)
    BY DEF Sound, IsTx
  <2>2. pub \in PubRows
    BY <2>1, TablesOf
  <2> QED BY <2>1, <2>2, TablesOf DEF PubRows
<1>2. ASSUME NEW w \in DOMAIN x.t.works PROVE Edited(x, AddWork(x, p, w))
  <2> DEFINE row == Row(pub.works \union {w}, pub.credits, pub.held)
  <2>1. AddWork(x, p, w) = WithPub(x, p, row)
    <3>1. [pub EXCEPT !.works = pub.works \union {w}] = row
      BY <1>1
    <3>2. AddWork(x, p, w) = [x EXCEPT !.t.pubs[p] = [pub EXCEPT !.works = pub.works \union {w}]]
      BY DEF AddWork
    <3> HIDE DEF pub
    <3> QED BY <3>1, <3>2 DEF WithPub
  <2> QED BY <1>1, <2>1, PubEdited
<1>3. ASSUME NEW w PROVE Edited(x, RemoveWork(x, p, w))
  <2> DEFINE row == Row(pub.works \ {w}, pub.credits, pub.held)
  <2>1. RemoveWork(x, p, w) = WithPub(x, p, row)
    <3>1. [pub EXCEPT !.works = pub.works \ {w}] = row
      BY <1>1
    <3>2. RemoveWork(x, p, w) = [x EXCEPT !.t.pubs[p] = [pub EXCEPT !.works = pub.works \ {w}]]
      BY DEF RemoveWork
    <3> HIDE DEF pub
    <3> QED BY <3>1, <3>2 DEF WithPub
  <2> QED BY <1>1, <2>1, PubEdited
<1>4. ASSUME NEW who \in DOMAIN x.t.people PROVE Edited(x, AddCredit(x, p, who))
  <2> DEFINE row == Row(pub.works, pub.credits \union {who}, pub.held)
  <2>1. AddCredit(x, p, who) = WithPub(x, p, row)
    <3>1. [pub EXCEPT !.credits = pub.credits \union {who}] = row
      BY <1>1
    <3>2. AddCredit(x, p, who) = [x EXCEPT !.t.pubs[p] = [pub EXCEPT !.credits = pub.credits \union {who}]]
      BY DEF AddCredit
    <3> HIDE DEF pub
    <3> QED BY <3>1, <3>2 DEF WithPub
  <2> QED BY <1>1, <2>1, PubEdited
<1>5. ASSUME NEW who PROVE Edited(x, RemoveCredit(x, p, who))
  <2> DEFINE row == Row(pub.works, pub.credits \ {who}, pub.held)
  <2>1. RemoveCredit(x, p, who) = WithPub(x, p, row)
    <3>1. [pub EXCEPT !.credits = pub.credits \ {who}] = row
      BY <1>1
    <3>2. RemoveCredit(x, p, who) = [x EXCEPT !.t.pubs[p] = [pub EXCEPT !.credits = pub.credits \ {who}]]
      BY DEF RemoveCredit
    <3> HIDE DEF pub
    <3> QED BY <3>1, <3>2 DEF WithPub
  <2> QED BY <1>1, <2>1, PubEdited
<1>6. Edited(x, AddHolding(x, p, Copy))
  <2> DEFINE row == Row(pub.works, pub.credits, pub.held \union {Copy})
  <2>1. AddHolding(x, p, Copy) = WithPub(x, p, row)
    <3>1. [pub EXCEPT !.held = pub.held \union {Copy}] = row
      BY <1>1
    <3>2. AddHolding(x, p, Copy) = [x EXCEPT !.t.pubs[p] = [pub EXCEPT !.held = pub.held \union {Copy}]]
      BY DEF AddHolding
    <3> HIDE DEF pub
    <3> QED BY <3>1, <3>2 DEF WithPub
  <2> QED BY <1>1, <2>1, PubEdited
<1>7. Edited(x, RemoveHolding(x, p, Copy))
  <2> DEFINE row == Row(pub.works, pub.credits, pub.held \ {Copy})
  <2>1. RemoveHolding(x, p, Copy) = WithPub(x, p, row)
    <3>1. [pub EXCEPT !.held = pub.held \ {Copy}] = row
      BY <1>1
    <3>2. RemoveHolding(x, p, Copy) = [x EXCEPT !.t.pubs[p] = [pub EXCEPT !.held = pub.held \ {Copy}]]
      BY DEF RemoveHolding
    <3> HIDE DEF pub
    <3> QED BY <3>1, <3>2 DEF WithPub
  <2> QED BY <1>1, <2>1, PubEdited
<1> QED BY <1>2, <1>3, <1>4, <1>5, <1>6, <1>7

(* The calls on a work. *)
LEMMA WorkEditsSound ==
  ASSUME NEW x, Sound(x), NEW w \in DOMAIN x.t.works
  PROVE /\ \A who \in DOMAIN x.t.people : Edited(x, AddComposer(x, w, who))
        /\ \A who : Edited(x, RemoveComposer(x, w, who))
        /\ \A n \in Numbers : Edited(x, AddNumber(x, w, n))
        /\ \A n : Edited(x, RemoveNumber(x, w, n))
        /\ \A into \in DOMAIN x.t.works \ {w} : Edited(x, MergeWorks(x, w, into))
<1> DEFINE row == x.t.works[w]
           Row(composers, numbers) == [composers |-> composers, numbers |-> numbers]
<1>1. /\ row = Row(row.composers, row.numbers)
      /\ row.composers \in SUBSET Nat /\ row.numbers \in SUBSET Numbers
      /\ DOMAIN x.t.people \subseteq Nat
  <2>1. IsTables(x.t)
    BY DEF Sound, IsTx
  <2>2. row \in WorkRows
    BY <2>1, TablesOf
  <2> QED BY <2>1, <2>2, TablesOf DEF WorkRows
<1>2. ASSUME NEW who \in DOMAIN x.t.people PROVE Edited(x, AddComposer(x, w, who))
  <2> DEFINE new == Row(row.composers \union {who}, row.numbers)
  <2>1. AddComposer(x, w, who) = WithWork(x, w, new)
    <3>2. AddComposer(x, w, who) = [x EXCEPT !.t.works[w] = [row EXCEPT !.composers = row.composers \union {who}]]
      BY DEF AddComposer
    <3> HIDE DEF row
    <3>1. [row EXCEPT !.composers = row.composers \union {who}] = new
      BY <1>1
    <3> QED BY <3>1, <3>2 DEF WithWork
  <2> QED BY <1>1, <2>1, WorkEdited
<1>3. ASSUME NEW who PROVE Edited(x, RemoveComposer(x, w, who))
  <2> DEFINE new == Row(row.composers \ {who}, row.numbers)
  <2>1. RemoveComposer(x, w, who) = WithWork(x, w, new)
    <3>1. [row EXCEPT !.composers = row.composers \ {who}] = new
      BY <1>1
    <3>2. RemoveComposer(x, w, who) = [x EXCEPT !.t.works[w] = [row EXCEPT !.composers = row.composers \ {who}]]
      BY DEF RemoveComposer
    <3> HIDE DEF row
    <3> QED BY <3>1, <3>2 DEF WithWork
  <2> QED BY <1>1, <2>1, WorkEdited
<1>4. ASSUME NEW n \in Numbers PROVE Edited(x, AddNumber(x, w, n))
  <2> DEFINE numbers == row.numbers \union {n}
             new == Row(row.composers, numbers)
  <2>1. AddNumber(x, w, n) = WithWork(x, w, new)
    <3>1. AddNumber(x, w, n) = [x EXCEPT !.t.works[w] = [row EXCEPT !.numbers = numbers]]
      BY DEF AddNumber
    <3> HIDE DEF row, numbers
    <3>2. [row EXCEPT !.numbers = numbers] = new
      BY <1>1
    <3> QED BY <3>1, <3>2 DEF WithWork
  <2> QED BY <1>1, <2>1, WorkEdited
<1>5. ASSUME NEW n PROVE Edited(x, RemoveNumber(x, w, n))
  <2> DEFINE new == Row(row.composers, row.numbers \ {n})
  <2>1. RemoveNumber(x, w, n) = WithWork(x, w, new)
    <3>2. RemoveNumber(x, w, n) = [x EXCEPT !.t.works[w] = [row EXCEPT !.numbers = row.numbers \ {n}]]
      BY DEF RemoveNumber
    <3> HIDE DEF row
    <3>1. [row EXCEPT !.numbers = row.numbers \ {n}] = new
      BY <1>1
    <3> QED BY <3>1, <3>2 DEF WithWork
  <2> QED BY <1>1, <2>1, WorkEdited
<1>6. ASSUME NEW into \in DOMAIN x.t.works \ {w} PROVE Edited(x, MergeWorks(x, w, into))
  <2> DEFINE y == MergeWorks(x, w, into)
  <2>1. IsTx(y) /\ y.t.library = x.t.library /\ (IsConsistent(x.t) => IsConsistent(y.t))
    BY MergeWorksSound DEF Sound
  <2>2. y.ok = x.ok
    BY MergeWorksSound DEF Sound
  <2> HIDE DEF y
  <2> QED BY <2>1, <2>2 DEF Sound, Edited, y
<1> QED BY <1>2, <1>3, <1>4, <1>5, <1>6

(* The calls on the library: a row more, *)
LEMMA LibraryEditsSound ==
  ASSUME NEW x, Sound(x)
  PROVE /\ Edited(x, InsertPublication(x, [credits |-> {}, held |-> {Copy}]))
        /\ Edited(x, InsertWork(x, [composers |-> {}, numbers |-> {}]))
        /\ \A n \in Names : Edited(x, CreatePerson(x, n))
<1>0. IsTx(x) /\ x.t.library
  BY DEF Sound
<1>1. Edited(x, InsertPublication(x, [credits |-> {}, held |-> {Copy}]))
  <2> DEFINE row == [credits |-> {}, held |-> {Copy}]
             y == InsertPublication(x, row)
  <2>1. IsForm(row) /\ row.credits = {}
    BY DEF IsForm
  <2> HIDE DEF row
  <2>2. /\ IsTx(y) /\ y.t.library = x.t.library /\ y.t.people = x.t.people /\ y.t.works = x.t.works
    BY <1>0, <2>1, InsertPublicationSound
  <2>4. DOMAIN y.t.pubs = DOMAIN x.t.pubs \union {y.id}
    BY <1>0, <2>1, InsertPublicationSound
  <2>5. \A p \in DOMAIN x.t.pubs : y.t.pubs[p] = x.t.pubs[p]
    BY <1>0, <2>1, InsertPublicationSound
  <2>6. y.t.pubs[y.id].works = {} /\ y.t.pubs[y.id].credits = row.credits
    BY <1>0, <2>1, InsertPublicationSound
  <2>3. y.ok = x.ok
    BY <1>0, <2>1, InsertPublicationSound
  <2> HIDE DEF y
  <2>7. x.ok => IsConsistent(y.t)
    BY <1>0, <2>1, <2>2, <2>4, <2>5, <2>6 DEF Sound, IsConsistent
  <2> QED BY <1>0, <2>2, <2>3, <2>7 DEF Sound, Edited, y, row
<1>2. Edited(x, InsertWork(x, [composers |-> {}, numbers |-> {}]))
  <2> DEFINE row == [composers |-> {}, numbers |-> {}]
             y == InsertWork(x, row)
  <2>1. row \in WorkRows /\ row.composers = {}
    BY DEF WorkRows
  <2> HIDE DEF row
  <2>2. /\ IsTx(y) /\ y.t.library = x.t.library /\ y.t.people = x.t.people /\ y.t.pubs = x.t.pubs
        /\ y.t.works = With(x.t.works, y.id, row)
    BY <1>0, <2>1, InsertWorkSound
  <2>3. y.ok = x.ok
    BY <1>0, <2>1, InsertWorkSound
  <2> HIDE DEF y
  <2>4. x.ok => IsConsistent(y.t)
    BY <1>0, <2>1, <2>2 DEF Sound, IsConsistent, With
  <2> QED BY <1>0, <2>2, <2>3, <2>4 DEF Sound, Edited, y, row
<1>3. ASSUME NEW n \in Names PROVE Edited(x, CreatePerson(x, n))
  BY CreatePersonSound DEF Edited
<1> QED BY <1>1, <1>2, <1>3

(* a publication less, *)
LEMMA DeletePublicationSound ==
  ASSUME NEW x, Sound(x), NEW p
  PROVE Edited(x, DeletePublication(x, p))
<1> DEFINE pubs == Restrict(x.t.pubs, DOMAIN x.t.pubs \ {p})
           y == DeletePublication(x, p)
           z == WithPubs(x, pubs)
<1>0. IsTx(x) /\ x.t.library
  BY DEF Sound
<1>1. y = z
  BY DEF DeletePublication, WithPubs
<1>2. IsPubs(x.t.pubs, x.t.last.pubs)
  BY <1>0 DEF IsTx, IsTables, IsPubs
<1>3. /\ IsPubs(pubs, x.t.last.pubs) /\ DOMAIN pubs \subseteq DOMAIN x.t.pubs
      /\ \A q \in DOMAIN pubs : pubs[q] = x.t.pubs[q]
  BY <1>2 DEF IsPubs, Restrict
<1> HIDE DEF pubs, y
<1>4. /\ IsTx(z) /\ z.t.pubs = pubs /\ z.t.works = x.t.works /\ z.t.people = x.t.people
      /\ z.t.library = x.t.library
  BY <1>0, <1>3, SetPubs
<1>5. z.ok = x.ok
  BY <1>0, <1>3, SetPubs
<1> HIDE DEF z
<1>6. x.ok => IsConsistent(z.t)
  BY <1>0, <1>3, <1>4 DEF Sound, IsConsistent
<1> QED BY <1>0, <1>1, <1>4, <1>5, <1>6 DEF Sound, Edited, y

(* and everything. *)
LEMMA DeleteLibrarySound ==
  ASSUME NEW x, IsTx(x)
  PROVE LET y == DeleteLibrary(x) IN
        /\ IsTx(y) /\ y.ok = x.ok /\ y.merges = x.merges
        /\ IsConsistent(y.t) /\ IsCollected(y.t) /\ DOMAIN y.t.people = {}
<1> DEFINE y == DeleteLibrary(x)
<1>1. y = [t |-> [library |-> FALSE, works |-> <<>>, people |-> <<>>, pubs |-> <<>>, last |-> x.t.last],
           merges |-> x.merges, events |-> x.events, ok |-> x.ok, id |-> x.id]
  <2> DEFINE tables == [x.t EXCEPT !.library = FALSE, !.works = <<>>, !.people = <<>>, !.pubs = <<>>]
  <2>1. y = [x EXCEPT !.t = tables]
    BY DEF DeleteLibrary
  <2>2. x.t = [library |-> x.t.library, works |-> x.t.works, people |-> x.t.people,
               pubs |-> x.t.pubs, last |-> x.t.last]
    BY DEF IsTx, IsTables
  <2>3. tables = [library |-> FALSE, works |-> <<>>, people |-> <<>>, pubs |-> <<>>, last |-> x.t.last]
    <3> DEFINE none == <<>>
    <3>1. tables = [[[[x.t EXCEPT !.library = FALSE] EXCEPT !.works = none] EXCEPT !.people = none] EXCEPT !.pubs = none]
      OBVIOUS
    <3> HIDE DEF tables, none
    <3>2. tables = [library |-> FALSE, works |-> none, people |-> none, pubs |-> none, last |-> x.t.last]
      BY <2>2, <3>1
    <3> QED BY <3>2 DEF none
  <2> HIDE DEF y, tables
  <2> QED BY <2>1, <2>3 DEF IsTx
<1> HIDE DEF y
<1>2. /\ y.t.works = <<>> /\ y.t.pubs = <<>> /\ y.t.people = <<>>
      /\ y.t.library = FALSE /\ y.t.last = x.t.last /\ y.id = x.id
      /\ y.merges = x.merges
      /\ y.t = [library |-> y.t.library, works |-> y.t.works, people |-> y.t.people, pubs |-> y.t.pubs,
                last |-> y.t.last]
      /\ y = [t |-> y.t, merges |-> y.merges, events |-> y.events, ok |-> y.ok, id |-> y.id]
  BY <1>1
<1>3. y.ok = x.ok
  BY <1>1
<1>4. DOMAIN <<>> = {} /\ \A S : <<>> \in [{} -> S]
  OBVIOUS
<1>5. IsTables(y.t)
  BY <1>2, <1>4 DEF IsTables, IsTx
<1>6. IsTx(y)
  BY <1>2, <1>3, <1>5 DEF IsTx
<1>7. IsConsistent(y.t)
  BY <1>2, <1>4 DEF IsConsistent
<1>8. IsCollected(y.t)
  BY <1>2, <1>4, CollectedMeans
<1> QED BY <1>2, <1>3, <1>4, <1>6, <1>7, <1>8 DEF y

(* A transaction begins with the tables as they are. *)
LEMMA TransactionSound ==
  ASSUME NEW tables, IsTables(tables), IsConsistent(tables), tables.library
  PROVE /\ Sound(Transaction(tables)) /\ Transaction(tables).t = tables
        /\ Transaction(tables).ok /\ Transaction(tables).merges = <<>>
<1> DEFINE x == Transaction(tables)
<1>1. /\ x.t = tables /\ x.merges = <<>> /\ x.ok = TRUE /\ x.id = 0
      /\ x = [t |-> x.t, merges |-> x.merges, events |-> x.events, ok |-> x.ok, id |-> x.id]
  BY DEF Transaction
<1> HIDE DEF x
<1>2. IsTx(x)
  <2>1. <<>> \in Merges /\ 0 \in Nat /\ TRUE \in BOOLEAN
    BY DEF Merges
  <2> QED BY <1>1, <2>1 DEF IsTx
<1> QED BY <1>1, <1>2 DEF Sound, x

-----------------------------------------------------------------------------
(***************************************************************************)
(* The inductive invariant                                                 *)
(***************************************************************************)

\* What an accept takes with it, and what that is filled in to.
SnapshotRows == [ref : Refs, credits : Seq(Credit), numbers : SUBSET Numbers]
FilledRows == [ref : Refs, persons : SUBSET Person, numbers : SUBSET Numbers]

IsDrafted(f) == f \in [DOMAIN f -> Names] /\ DOMAIN f \subseteq Nat /\ IsFiniteSet(DOMAIN f)
Knows(drafted, persons) == \A x \in persons : x[1] = "draft" => x[2] \in DOMAIN drafted

IsSnapshot(draft) ==
    /\ IsDrafted(draft.drafted)
    /\ draft.credits \in Seq(Credit) /\ KnowsAll(draft.drafted, draft.credits)
    /\ draft.contents \in Seq(SnapshotRows)
    /\ \A k \in DOMAIN draft.contents : KnowsAll(draft.drafted, draft.contents[k].credits)

IsFilled(q) ==
    /\ IsDrafted(q.drafted)
    /\ q.persons \in SUBSET Person /\ Knows(q.drafted, q.persons)
    /\ q.contents \in Seq(FilledRows)
    /\ \A k \in DOMAIN q.contents : Knows(q.drafted, q.contents[k].persons)

\* An edit in progress: until it deletes the library it is a library's.
IsEdit(q) ==
    /\ q = [step |-> q.step, x |-> q.x, dropped |-> q.dropped, calls |-> q.calls]
    /\ IsTx(q.x) /\ (q.x.ok => IsConsistent(q.x.t))
    /\ q.dropped \in BOOLEAN /\ q.calls \in Nat
    /\ ~q.dropped => Sound(q.x)

Steps == {"idle", "starting", "saving", "claiming", "filling", "publishing", "committed",
          "telling", "editing"}
OnImport == {"saving", "claiming", "filling", "publishing", "committed"}

\* What a request is in the middle of.
IsRequest(q, last) ==
    /\ q.step \in Steps
    /\ q.step \in OnImport => q.import \in 1 .. last
    /\ q.step = "saving" => q.post \in Forms /\ AreStored(q.people, q.works)
    /\ q.step = "filling" => IsSnapshot(q.draft)
    /\ q.step = "publishing" => IsFilled(q)
    /\ q.step = "committed" => /\ q.works \in SUBSET (Nat \X Nat)
                               /\ q.persons \in SUBSET (Nat \X Nat)
                               /\ q.merges \in Merges
    /\ q.step = "telling" => q.merges \in Merges
    /\ q.step = "editing" => IsEdit(q)

TypeInv ==
    /\ IsTables(t) /\ IsConsistent(t) /\ IsCollected(t)
    /\ IsStore(drafts) /\ Kept(drafts)
    /\ requests = [r \in Requests |-> requests[r]]
    /\ \A r \in Requests : IsRequest(requests[r], drafts.lastId)
    /\ history = [published |-> history.published, discarded |-> history.discarded,
                  cut |-> history.cut]
    /\ history.published \in [ImportIds -> Nat]

\* Requests whose accept may still give up its claim.
GivesUp(r, i) == requests[r].step \in {"filling", "publishing"} /\ requests[r].import = i

\* Whoever has a claim has it alone, and the import shows it.
ClaimInv ==
    /\ \A r, s \in Requests : \A i \in 1 .. drafts.lastId :
          Claims(r, i) /\ Claims(s, i) => r = s
    /\ \A r \in Requests : \A i \in DOMAIN drafts.imports :
          Claims(r, i) => drafts.imports[i].accepting

\* An import that was published stays claimed as long as it is there, and nothing can give up
\* that claim; one that was discarded is gone for good, and nothing claims it.
EndInv ==
    /\ \A i \in ImportIds : history.published[i] > 0 =>
          /\ history.published[i] = 1 /\ i \notin history.discarded
          /\ i <= drafts.lastId
          /\ Has(drafts, i) => drafts.imports[i].accepting
          /\ \A r \in Requests : ~GivesUp(r, i)
    /\ \A i \in history.discarded :
          /\ i \in 1 .. drafts.lastId /\ ~Has(drafts, i)
          /\ \A r \in Requests : ~Claims(r, i)

IInv == TypeInv /\ ClaimInv /\ ClaimsAreGivenUp /\ EndInv

-----------------------------------------------------------------------------
(***************************************************************************)
(* An accept, from its claim to its commit                                 *)
(***************************************************************************)

(* A list of credits refers to people, and to draft people who are held. *)
LEMMA CreditedSound ==
  ASSUME NEW credits \in Seq(Credit), NEW drafted, KnowsAll(drafted, credits)
  PROVE Credited(credits) \in SUBSET Person /\ Knows(drafted, Credited(credits))
<1>1. Credited(credits) = {c.person : c \in ToSet(credits)}
  BY DEF Credited
<1>2. \A x \in Credited(credits) : x[1] = "draft" => x[2] \in DOMAIN drafted
  BY <1>1, DraftsOfCredits
<1>3. \A x \in Credited(credits) : x \in Person
  <2>1. \A k \in DOMAIN credits : credits[k].person \in Person
    BY DraftsOfCredits
  <2> QED BY <1>1, <2>1 DEF ToSet
<1> QED BY <1>2, <1>3 DEF Knows

(* begin_accept takes all that the import refers to, with whom that credits. *)
LEMMA SnapshotSound ==
  ASSUME NEW d, IsStore(d), Kept(d), NEW i \in DOMAIN d.imports
  PROVE IsSnapshot(Snapshot(d, i))
<1> DEFINE refs == d.imports[i].contents
           row(k) == [ref |-> refs[k],
                      credits |-> IF refs[k][1] = "draft" THEN d.works[refs[k][2]].credits ELSE <<>>,
                      numbers |-> IF refs[k][1] = "draft" THEN d.works[refs[k][2]].numbers ELSE {}]
           rows == [k \in DOMAIN refs |-> row(k)]
           s == Snapshot(d, i)
<1>1. s = [credits |-> d.imports[i].credits, contents |-> rows, drafted |-> d.persons]
  BY DEF Snapshot
<1>2. d.imports[i] \in Entries
  BY DEF IsStore
<1>3. refs \in Seq(Refs) /\ d.imports[i].credits \in Seq(Credit)
  BY <1>2 DEF Entries
<1>4. s.credits = d.imports[i].credits /\ s.contents = rows /\ s.drafted = d.persons
  BY <1>1
<1> HIDE DEF s, rows
<1>5. IsDrafted(d.persons)
  <2>1. d.persons \in [DOMAIN d.persons -> Names] /\ DOMAIN d.persons \subseteq 1 .. d.lastId
        /\ d.lastId \in Nat
    BY DEF IsStore
  <2>2. IsFiniteSet(1 .. d.lastId)
    BY <2>1, FS_Interval
  <2>3. IsFiniteSet(DOMAIN d.persons)
    BY <2>1, <2>2, FS_Subset
  <2> QED BY <2>1, <2>3 DEF IsDrafted
<1>6. KnowsAll(d.persons, d.imports[i].credits)
  BY DEF Kept, Resolves
<1>7. ASSUME NEW k \in DOMAIN refs
      PROVE row(k) \in SnapshotRows /\ KnowsAll(d.persons, row(k).credits)
  <2>1. refs[k] \in Refs
    BY <1>3
  <2>2. CASE refs[k][1] = "draft"
    <3> DEFINE w == refs[k][2]
    <3>1. refs[k] = DraftWork(w)
      BY <2>1, <2>2 DEF Refs, DraftWork
    <3>2. refs[k] \in ToSet(refs)
      BY DEF ToSet
    <3>3. \A v : DraftWork(v) \in ToSet(d.imports[i].contents) => v \in DOMAIN d.works
      BY DEF Kept, Resolves
    <3>4. w \in DOMAIN d.works
      BY <3>1, <3>2, <3>3
    <3>5. d.works[w] \in DraftRows
      BY <3>4 DEF IsStore
    <3>6. d.works[w].credits \in Seq(Credit) /\ d.works[w].numbers \in SUBSET Numbers
      BY <3>5 DEF DraftRows
    <3>7. KnowsAll(d.persons, d.works[w].credits)
      BY <3>4 DEF Kept, Resolves
    <3>8. row(k) = [ref |-> refs[k], credits |-> d.works[w].credits, numbers |-> d.works[w].numbers]
      BY <2>2
    <3> HIDE DEF row
    <3>9. row(k).credits = d.works[w].credits
      BY <3>8
    <3> DEFINE credits == d.works[w].credits
               numbers == d.works[w].numbers
    <3>11. row(k) = [ref |-> refs[k], credits |-> credits, numbers |-> numbers]
      BY <3>8
    <3>12. credits \in Seq(Credit) /\ numbers \in SUBSET Numbers
      BY <3>6
    <3> HIDE DEF credits, numbers
    <3>10. row(k) \in SnapshotRows
      BY <2>1, <3>11, <3>12 DEF SnapshotRows
    <3> QED BY <3>7, <3>9, <3>10
  <2>3. CASE refs[k][1] # "draft"
    <3>1. row(k) = [ref |-> refs[k], credits |-> <<>>, numbers |-> {}]
      BY <2>3
    <3>2. <<>> \in Seq(Credit) /\ KnowsAll(d.persons, <<>>)
      BY DEF KnowsAll
    <3> HIDE DEF row
    <3>3. row(k).credits = <<>>
      BY <3>1
    <3>4. row(k) \in SnapshotRows
      BY <2>1, <3>1, <3>2 DEF SnapshotRows
    <3> QED BY <3>2, <3>3, <3>4
  <2> QED BY <2>2, <2>3
<1>8. DOMAIN rows = DOMAIN refs /\ \A k \in DOMAIN refs : rows[k] = row(k)
  BY DEF rows
<1> HIDE DEF row
<1>9. rows \in Seq(SnapshotRows)
  <2>1. Len(refs) \in Nat /\ DOMAIN refs = 1 .. Len(refs)
    BY <1>3
  <2>2. rows = [k \in 1 .. Len(refs) |-> row(k)]
    BY <2>1 DEF rows
  <2>3. \A k \in 1 .. Len(refs) : row(k) \in SnapshotRows
    BY <1>7, <2>1
  <2>4. rows \in [1 .. Len(refs) -> SnapshotRows]
    BY <2>2, <2>3
  <2> QED BY <2>1, <2>4
<1>10. \A k \in DOMAIN rows : KnowsAll(d.persons, rows[k].credits)
  BY <1>7, <1>8
<1>11. IsDrafted(s.drafted) /\ s.credits \in Seq(Credit) /\ KnowsAll(s.drafted, s.credits)
  BY <1>3, <1>4, <1>5, <1>6
<1>12. s.contents \in Seq(SnapshotRows) /\ \A k \in DOMAIN s.contents : KnowsAll(s.drafted, s.contents[k].credits)
  BY <1>4, <1>9, <1>10
<1> QED BY <1>11, <1>12 DEF IsSnapshot, s

\* The rows that are filled in refer to no draft person that isn't held.
AreFilled(drafted, contents) ==
    /\ contents \in Seq(FilledRows)
    /\ \A k \in DOMAIN contents : Knows(drafted, contents[k].persons)

(* PendingImport::fill: a row for each draft work, and for each stored work that is there. *)
LEMMA FillInSound ==
  ASSUME IsTables(t), NEW drafted, NEW filled, AreFilled(drafted, filled),
         NEW c \in SnapshotRows, KnowsAll(drafted, c.credits)
  PROVE AreFilled(drafted, FillIn(filled, c))
<1>1. c.ref \in Refs /\ c.credits \in Seq(Credit) /\ c.numbers \in SUBSET Numbers
  BY DEF SnapshotRows
<1>2. ASSUME NEW persons \in SUBSET Person, Knows(drafted, persons), NEW numbers \in SUBSET Numbers
      PROVE AreFilled(drafted, Append(filled, [ref |-> c.ref, persons |-> persons, numbers |-> numbers]))
  <2> DEFINE row == [ref |-> c.ref, persons |-> persons, numbers |-> numbers]
  <2>1. row \in FilledRows /\ row.persons = persons
    BY <1>1 DEF FilledRows
  <2>2. filled \in Seq(FilledRows) /\ DOMAIN filled = 1 .. Len(filled) /\ Len(filled) \in Nat
    BY DEF AreFilled
  <2> HIDE DEF row
  <2> DEFINE more == Append(filled, row)
  <2>3. /\ more \in Seq(FilledRows) /\ DOMAIN more = 1 .. Len(filled) + 1
        /\ \A k \in 1 .. Len(filled) : more[k] = filled[k]
        /\ more[Len(filled) + 1] = row
    BY <2>1, <2>2, Appended
  <2> HIDE DEF more
  <2>4. ASSUME NEW k \in DOMAIN more PROVE Knows(drafted, more[k].persons)
    <3>1. CASE k \in 1 .. Len(filled)
      BY <2>2, <2>3, <3>1 DEF AreFilled
    <3>2. CASE k = Len(filled) + 1
      BY <1>2, <2>1, <2>3, <3>2
    <3> QED BY <2>2, <2>3, <3>1, <3>2
  <2>5. AreFilled(drafted, more)
    BY <2>3, <2>4 DEF AreFilled
  <2> QED BY <2>5 DEF more, row
<1>3. CASE c.ref[1] = "draft"
  <2>1. Credited(c.credits) \in SUBSET Person /\ Knows(drafted, Credited(c.credits))
    BY <1>1, CreditedSound
  <2>2. FillIn(filled, c) = Append(filled, [ref |-> c.ref, persons |-> Credited(c.credits),
                                            numbers |-> c.numbers])
    BY <1>3 DEF FillIn
  <2> QED BY <1>1, <1>2, <2>1, <2>2
<1>4. CASE c.ref[1] = "stored" /\ HasWork(t, c.ref[2])
  <2> DEFINE row == t.works[c.ref[2]]
             persons == {Linked(x) : x \in row.composers}
  <2>1. row.composers \subseteq Nat /\ row.numbers \in SUBSET Numbers
    BY <1>4, TablesOf DEF HasWork
  <2>2. persons \in SUBSET Person
    BY <2>1 DEF Person, Linked
  <2>3. Knows(drafted, persons)
    BY DEF Knows, Linked
  <2>4. FillIn(filled, c) = Append(filled, [ref |-> c.ref, persons |-> persons, numbers |-> row.numbers])
    BY <1>4 DEF FillIn
  <2> HIDE DEF persons, row
  <2> QED BY <1>2, <2>1, <2>2, <2>3, <2>4
<1>5. CASE c.ref[1] # "draft" /\ ~(c.ref[1] = "stored" /\ HasWork(t, c.ref[2]))
  BY <1>5 DEF FillIn
<1> QED BY <1>3, <1>4, <1>5

(* So does the whole, whatever became of the stored works since the claim. *)
LEMMA FilledSound ==
  ASSUME IsTables(t), NEW drafted, NEW contents \in Seq(SnapshotRows),
         \A k \in DOMAIN contents : KnowsAll(drafted, contents[k].credits)
  PROVE AreFilled(drafted, Filled(contents))
<1> DEFINE n == Len(contents)
<1>1. n \in Nat /\ DOMAIN contents = 1 .. n
  OBVIOUS
<1>2. \A k \in 1 .. n : contents[k] \in SnapshotRows /\ KnowsAll(drafted, contents[k].credits)
  BY <1>1
<1> HIDE DEF n
<1>3. PICK h : Trace(<<"fill">>, <<>>, contents, n, h) /\ h[n] = Filled(contents)
  BY <1>1, FillFold
<1>4. h[0] = <<>> /\ \A k \in 1 .. n : h[k] = FillIn(h[k-1], contents[k])
  BY <1>1, <1>3, FillFold DEF Trace
<1> DEFINE T == {k \in 0 .. n : AreFilled(drafted, h[k])}
<1>5. 0 \in T
  <2>1. <<>> \in Seq(FilledRows) /\ DOMAIN <<>> = {}
    OBVIOUS
  <2>2. AreFilled(drafted, <<>>)
    BY <2>1 DEF AreFilled
  <2> QED BY <1>1, <1>4, <2>2
<1>6. ASSUME NEW k \in 1 .. n, k - 1 \in T PROVE k \in T
  <2>1. AreFilled(drafted, h[k-1])
    BY <1>6
  <2>2. AreFilled(drafted, FillIn(h[k-1], contents[k]))
    BY <1>2, <2>1, FillInSound
  <2> QED BY <1>1, <1>4, <2>2
<1> HIDE DEF T
<1>7. n \in T
  <2>1. n \in Nat /\ 0 \in T /\ \A k \in 1 .. n : k - 1 \in T => k \in T
    BY <1>1, <1>5, <1>6
  <2>2. \A k \in 0 .. n : k \in T
    BY <2>1, Induction
  <2> QED BY <2>1, <2>2
<1> QED BY <1>3, <1>7 DEF T

(* import.rs:257: whoever an accept creates was there at the claim. *)
LEMMA FindsThem ==
  ASSUME NEW q, IsFilled(q)
  PROVE /\ FindsItsPersons(q)
        /\ DraftsToCreate(q) \subseteq Nat /\ IsFiniteSet(DraftsToCreate(q))
<1> DEFINE credited == q.persons \union UNION {c.persons : c \in ToSet(q.contents)}
<1>1. \A x \in credited : x[1] = "draft" => x[2] \in DOMAIN q.drafted
  <2> SUFFICES ASSUME NEW x \in credited, x[1] = "draft" PROVE x[2] \in DOMAIN q.drafted
    OBVIOUS
  <2>1. CASE x \in q.persons
    BY <2>1 DEF IsFilled, Knows
  <2>2. CASE x \in UNION {c.persons : c \in ToSet(q.contents)}
    <3>1. PICK k \in DOMAIN q.contents : x \in q.contents[k].persons
      BY <2>2 DEF ToSet
    <3> QED BY <3>1 DEF IsFilled, Knows
  <2> QED BY <2>1, <2>2
<1>2. DraftsToCreate(q) = {x[2] : x \in {x \in credited : x[1] = "draft"}}
  BY DEF DraftsToCreate
<1> HIDE DEF credited
<1>3. DraftsToCreate(q) \subseteq DOMAIN q.drafted
  BY <1>1, <1>2
<1>4. IsFiniteSet(DOMAIN q.drafted) /\ DOMAIN q.drafted \subseteq Nat
  BY DEF IsFilled, IsDrafted
<1>5. IsFiniteSet(DraftsToCreate(q))
  BY <1>3, <1>4, FS_Subset
<1> QED BY <1>3, <1>4, <1>5 DEF FindsItsPersons

\* How many of a set of numbers come no later than one of it.
Rank(s, x) == Cardinality({y \in s : y <= x})

(* A member's rank is a number from one to as many as there are. *)
LEMMA RankOf ==
  ASSUME NEW s \in SUBSET Nat, IsFiniteSet(s)
  PROVE Cardinality(s) \in Nat /\ \A x \in s : Rank(s, x) \in 1 .. Cardinality(s)
<1>1. Cardinality(s) \in Nat
  BY FS_CardinalityType
<1>2. ASSUME NEW x \in s PROVE Rank(s, x) \in 1 .. Cardinality(s)
  <2> DEFINE u == {y \in s : y <= x}
  <2>1. u \subseteq s /\ x \in u
    OBVIOUS
  <2> HIDE DEF u
  <2>2. IsFiniteSet(u) /\ Cardinality(u) <= Cardinality(s)
    BY <2>1, FS_Subset
  <2>3. Cardinality(u) \in Nat /\ Cardinality(u) # 0
    BY <2>1, <2>2, FS_CardinalityType, FS_EmptySet
  <2> QED BY <1>1, <2>2, <2>3 DEF Rank, u
<1> QED BY <1>1, <1>2

\* More people, under ids that were not given out before.
MorePeople(tables, people, n) == [tables EXCEPT !.people = people, !.last.people = @ + n]

(* They leave what refers to the others as it was. *)
LEMMA MorePeopleSound ==
  ASSUME NEW tables, IsTables(tables), IsConsistent(tables), tables.library, NEW people, NEW n \in Nat,
         IsPeople(people, tables.last.people + n), DOMAIN tables.people \subseteq DOMAIN people
  PROVE LET u == MorePeople(tables, people, n) IN
        IsTables(u) /\ IsConsistent(u) /\ u.library /\ u.works = tables.works /\ u.pubs = tables.pubs
<1> DEFINE u == MorePeople(tables, people, n)
           last == [works |-> tables.last.works, people |-> tables.last.people + n,
                    pubs |-> tables.last.pubs]
<1>1. u = [library |-> tables.library, works |-> tables.works, people |-> people,
           pubs |-> tables.pubs, last |-> last]
  <2>1. /\ tables = [library |-> tables.library, works |-> tables.works, people |-> tables.people,
                     pubs |-> tables.pubs, last |-> tables.last]
        /\ tables.last = [works |-> tables.last.works, people |-> tables.last.people,
                          pubs |-> tables.last.pubs]
    BY DEF IsTables
  <2>2. u = [[tables EXCEPT !.people = people] EXCEPT !.last.people = tables.last.people + n]
    BY <2>1 DEF MorePeople
  <2> HIDE DEF u
  <2> QED BY <2>1, <2>2
<1> HIDE DEF u
<1>2. /\ tables.last.works \in Nat /\ tables.last.people \in Nat /\ tables.last.pubs \in Nat
      /\ IsWorks(tables.works, tables.last.works) /\ IsPubs(tables.pubs, tables.last.pubs)
      /\ tables.library \in BOOLEAN
  BY DEF IsTables, IsWorks, IsPubs
<1>3. last \in [works : Nat, people : Nat, pubs : Nat] /\ last.people = tables.last.people + n
      /\ last.works = tables.last.works /\ last.pubs = tables.last.pubs
  BY <1>2
<1> HIDE DEF last
<1>4. /\ u.works = tables.works /\ u.pubs = tables.pubs /\ u.people = people
      /\ u.library = tables.library /\ u.last = last
      /\ u = [library |-> u.library, works |-> u.works, people |-> u.people, pubs |-> u.pubs,
              last |-> u.last]
  BY <1>1
<1>5. IsTables(u)
  BY <1>2, <1>3, <1>4 DEF IsTables, IsWorks, IsPubs, IsPeople
<1>6. IsConsistent(u)
  BY <1>4 DEF IsConsistent
<1> QED BY <1>4, <1>5, <1>6 DEF u

(* The accept's transaction: a person of the tables for each draft person. *)
LEMMA CreatePersonsSound ==
  ASSUME IsTables(t), IsConsistent(t), t.library, NEW q, IsFilled(q)
  PROVE LET a == CreatePersons(q) IN
        /\ Sound(a.x) /\ a.x.ok /\ a.x.t.pubs = t.pubs /\ a.x.t.works = t.works
        /\ a.persons \in SUBSET (Nat \X Nat)
        /\ \A x \in DraftsToCreate(q) : \E p \in a.persons : p[1] = x
<1> DEFINE a == CreatePersons(q)
           created == DraftsToCreate(q)
           n == Cardinality(created)
           id(x) == t.last.people + Rank(created, x)
           ids == {id(x) : x \in created}
           people == [y \in DOMAIN t.people \union ids |->
                        IF y \in ids THEN q.drafted[CHOOSE x \in created : id(x) = y]
                        ELSE t.people[y]]
           persons == {<<x, id(x)>> : x \in created}
<1>1. a.x = Transaction(MorePeople(t, people, n)) /\ a.persons = persons
  BY DEF CreatePersons, Rank, MorePeople
<1>2. /\ t.last.works \in Nat /\ t.last.people \in Nat /\ t.last.pubs \in Nat
      /\ IsWorks(t.works, t.last.works) /\ IsPubs(t.pubs, t.last.pubs)
      /\ IsPeople(t.people, t.last.people) /\ t.library \in BOOLEAN
  BY DEF IsTables, IsWorks, IsPubs, IsPeople
<1>3. created \in SUBSET Nat /\ IsFiniteSet(created) /\ created \subseteq DOMAIN q.drafted
  BY FindsThem DEF FindsItsPersons
<1> HIDE DEF a, created
<1>4. n \in Nat /\ \A x \in created : Rank(created, x) \in 1 .. n
  BY <1>3, RankOf
<1> HIDE DEF n
<1>5. ids \subseteq 1 .. t.last.people + n
  BY <1>2, <1>4
<1>6. people \in [DOMAIN people -> Names]
  <2>1. ASSUME NEW y \in ids PROVE q.drafted[CHOOSE x \in created : id(x) = y] \in Names
    <3>1. \E x \in created : id(x) = y
      OBVIOUS
    <3> HIDE DEF id
    <3>2. (CHOOSE x \in created : id(x) = y) \in created
      BY <3>1
    <3>3. q.drafted \in [DOMAIN q.drafted -> Names]
      BY DEF IsFilled, IsDrafted
    <3> QED BY <1>3, <3>2, <3>3
  <2>2. \A y \in DOMAIN t.people : t.people[y] \in Names
    BY <1>2 DEF IsPeople
  <2> HIDE DEF ids, id
  <2> QED BY <2>1, <2>2
<1>7. DOMAIN people = DOMAIN t.people \union ids
  OBVIOUS
<1>8. persons \in SUBSET (Nat \X Nat) /\ \A x \in created : \E p \in persons : p[1] = x
  <2>1. \A x \in created : x \in Nat /\ id(x) \in Nat
    BY <1>2, <1>3, <1>4
  <2> HIDE DEF id
  <2>2. ASSUME NEW x \in created PROVE \E p \in persons : p[1] = x
    <3>1. <<x, id(x)>> \in persons /\ <<x, id(x)>>[1] = x
      OBVIOUS
    <3> QED BY <3>1
  <2> QED BY <2>1, <2>2
<1> HIDE DEF people, ids, id, persons
<1>9. IsPeople(people, t.last.people + n)
  <2>1. DOMAIN t.people \subseteq 1 .. t.last.people + n
    BY <1>2, <1>4 DEF IsPeople
  <2> QED BY <1>5, <1>6, <1>7, <2>1 DEF IsPeople
<1> DEFINE tables == MorePeople(t, people, n)
<1>10. /\ IsTables(tables) /\ IsConsistent(tables) /\ tables.library
       /\ tables.works = t.works /\ tables.pubs = t.pubs
  BY <1>4, <1>7, <1>9, MorePeopleSound
<1> HIDE DEF tables
<1>11. Sound(Transaction(tables)) /\ Transaction(tables).t = tables /\ Transaction(tables).ok
  BY <1>10, TransactionSound
<1>12. a.x = Transaction(tables)
  BY <1>1 DEF tables
<1> QED BY <1>1, <1>8, <1>10, <1>11, <1>12 DEF a, created

(* What an input writes. *)
LEMMA InputOf ==
  ASSUME NEW ref, NEW composers \in SUBSET Nat, NEW numbers \in SUBSET Numbers
  PROVE /\ IsInput([ref |-> ref, composers |-> composers, numbers |-> numbers])
        /\ IsInput([composers |-> composers, numbers |-> numbers])
<1> DEFINE row == [composers |-> composers, numbers |-> numbers]
           input == [ref |-> ref, composers |-> composers, numbers |-> numbers]
<1>1. row \in WorkRows
  BY DEF WorkRows
<1>2. DOMAIN input \ {"ref"} = {"composers", "numbers"} /\ DOMAIN row \ {"ref"} = {"composers", "numbers"}
  OBVIOUS
<1>3. RowOf(input) = row
  <2>1. RowOf(input) = [f \in {"composers", "numbers"} |-> input[f]]
    BY <1>2 DEF RowOf, Restrict
  <2>2. input["composers"] = composers /\ input["numbers"] = numbers
    OBVIOUS
  <2> HIDE DEF input
  <2> QED BY <2>1, <2>2
<1>4. RowOf(row) = row
  <2>1. RowOf(row) = [f \in {"composers", "numbers"} |-> row[f]]
    BY <1>2 DEF RowOf, Restrict
  <2> QED BY <2>1
<1>5. input.composers = composers /\ input.numbers = numbers /\ row.composers = composers /\ row.numbers = numbers
  OBVIOUS
<1> HIDE DEF row, input
<1>6. row = [composers |-> composers, numbers |-> numbers]
  BY DEF row
<1> QED BY <1>1, <1>3, <1>4, <1>5, <1>6 DEF IsInput, row, input

\* What a commit leaves behind.
IsSettled(x) == IsTables(x.t) /\ IsConsistent(x.t) /\ IsCollected(x.t) /\ x.merges \in Merges

(* The accept's transaction, when each of its statements succeeds. *)
LEMMA PublicationSound ==
  ASSUME IsTables(t), IsConsistent(t), IsCollected(t), NEW q, IsFilled(q), Publication(q).x.ok
  PROVE LET made == Publication(q) IN
        /\ IsSettled(made.x)
        /\ made.works \in SUBSET (Nat \X Nat) /\ made.persons \in SUBSET (Nat \X Nat)
<1> DEFINE created == CreatePersons(q)
           IdOf(x) == IF x[1] = "draft" THEN (CHOOSE p \in created.persons : p[1] = x[2])[2]
                      ELSE x[2]
           input(c) == [ref |-> c.ref, numbers |-> c.numbers, composers |-> {IdOf(x) : x \in c.persons}]
           row == [credits |-> {IdOf(x) : x \in q.persons}, held |-> {Copy}]
           inputs == [k \in DOMAIN q.contents |-> input(q.contents[k])]
           made == CreatePublication(created.x, row, inputs)
           drafted == {k \in DOMAIN q.contents : q.contents[k].ref[1] = "draft"}
           works == IF made.x.ok THEN {<<q.contents[k].ref[2], made.ids[k]>> : k \in drafted} ELSE {}
           all == Publication(q)
<1>1. all = [x |-> made.x, persons |-> created.persons, works |-> works]
  BY DEF Publication
<1>2. all.x = made.x /\ all.persons = created.persons /\ all.works = works
  BY <1>1
<1> HIDE DEF all
<1>3. /\ q.persons \in SUBSET Person /\ q.contents \in Seq(FilledRows)
      /\ DOMAIN q.contents = 1 .. Len(q.contents) /\ Len(q.contents) \in Nat
  BY DEF IsFilled
<1>4. ASSUME t.library PROVE IsSettled(all.x) /\ all.works \in SUBSET (Nat \X Nat)
                             /\ all.persons \in SUBSET (Nat \X Nat)
  <2>1. /\ Sound(created.x) /\ created.x.ok /\ created.x.t.pubs = t.pubs /\ created.x.t.works = t.works
        /\ created.persons \in SUBSET (Nat \X Nat)
        /\ \A x \in DraftsToCreate(q) : \E p \in created.persons : p[1] = x
    BY <1>4, CreatePersonsSound
  <2>2. IsCollected(created.x.t)
    BY <2>1 DEF IsCollected, HeldPubs, ContainedWorks
  <2> HIDE DEF created
  <2>3. ASSUME NEW x \in Person, x[1] = "draft" => x[2] \in DraftsToCreate(q)
        PROVE IdOf(x) \in Nat
    <3>1. CASE x[1] = "draft"
      <4> DEFINE p == CHOOSE p \in created.persons : p[1] = x[2]
      <4>1. p \in created.persons
        BY <2>1, <2>3, <3>1
      <4> HIDE DEF p
      <4>2. p[2] \in Nat
        BY <2>1, <4>1
      <4> QED BY <3>1, <4>2 DEF p
    <3>2. CASE x[1] # "draft"
      <4>1. x[2] \in Nat
        BY DEF Person, NewPerson, Unresolved
      <4> QED BY <3>2, <4>1
    <3> QED BY <3>1, <3>2
  <2> HIDE DEF IdOf
  <2>4. \A x \in q.persons : IdOf(x) \in Nat
    <3>1. \A x \in q.persons : x[1] = "draft" => x[2] \in DraftsToCreate(q)
      BY DEF DraftsToCreate
    <3> QED BY <1>3, <2>3, <3>1
  <2>5. ASSUME NEW k \in DOMAIN q.contents
        PROVE \A x \in q.contents[k].persons : IdOf(x) \in Nat
    <3>1. q.contents[k] \in ToSet(q.contents)
      BY DEF ToSet
    <3>2. \A x \in q.contents[k].persons : x[1] = "draft" => x[2] \in DraftsToCreate(q)
      BY <3>1 DEF DraftsToCreate
    <3>3. q.contents[k] \in FilledRows
      BY <1>3
    <3>4. q.contents[k].persons \in SUBSET Person
      BY <3>3 DEF FilledRows
    <3> QED BY <2>3, <3>2, <3>4
  <2>6. IsForm(row)
    BY <2>4 DEF IsForm
  <2>7. ASSUME NEW k \in DOMAIN q.contents PROVE IsContent(input(q.contents[k]))
    <3> DEFINE c == q.contents[k]
               composers == {IdOf(x) : x \in c.persons}
    <3>1. c \in FilledRows
      BY <1>3
    <3>2. c.ref \in Refs /\ c.numbers \in SUBSET Numbers
      BY <3>1 DEF FilledRows
    <3>3. composers \in SUBSET Nat
      BY <2>5
    <3>4. input(c) = [ref |-> c.ref, composers |-> composers, numbers |-> c.numbers]
      OBVIOUS
    <3>5. input(c).ref = c.ref
      OBVIOUS
    <3> HIDE DEF composers, input
    <3>6. IsInput([ref |-> c.ref, composers |-> composers, numbers |-> c.numbers])
      BY <3>2, <3>3, InputOf
    <3>7. IsInput(input(c))
      BY <3>4, <3>6
    <3>8. IsContent(input(c))
      BY <3>2, <3>5, <3>7 DEF IsContent
    <3> QED BY <3>8
  <2>8. DOMAIN inputs = DOMAIN q.contents /\ Len(inputs) = Len(q.contents)
        /\ \A k \in DOMAIN inputs : inputs[k] = input(q.contents[k])
    <3>1. inputs = [k \in 1 .. Len(q.contents) |-> input(q.contents[k])]
      BY <1>3
    <3> HIDE DEF input
    <3> QED BY <1>3, <3>1
  <2> HIDE DEF inputs, input, row
  <2>9. IsContentList(inputs)
    BY <1>3, <2>7, <2>8 DEF IsContentList
  <2>10. Sound(made.x) /\ made.ids \in Seq(Nat) /\ Len(made.ids) = Len(inputs)
    BY <2>1, <2>6, <2>9, CreatePublicationSound
  <2>11. made.x.ok /\ IsCollected(created.x.t) => IsCollected(made.x.t)
    BY <2>1, <2>6, <2>9, CreatePublicationSound
  <2> HIDE DEF made
  <2>12. made.x.ok
    BY <1>2 DEF all
  <2>13. IsSettled(made.x)
    BY <2>2, <2>10, <2>11, <2>12 DEF IsSettled, Sound, IsTx
  <2>14. \A k \in DOMAIN q.contents : q.contents[k].ref[2] \in Nat /\ made.ids[k] \in Nat
    <3> SUFFICES ASSUME NEW k \in DOMAIN q.contents
                 PROVE q.contents[k].ref[2] \in Nat /\ made.ids[k] \in Nat
      OBVIOUS
    <3>1. q.contents[k] \in FilledRows
      BY <1>3
    <3>2. q.contents[k].ref \in Refs
      BY <3>1 DEF FilledRows
    <3>3. q.contents[k].ref[2] \in Nat
      BY <3>2 DEF Refs
    <3>4. k \in 1 .. Len(made.ids)
      BY <1>3, <2>8, <2>10
    <3>5. made.ids[k] \in Nat
      BY <2>10, <3>4
    <3> QED BY <3>3, <3>5
  <2>15. works \in SUBSET (Nat \X Nat)
    BY <2>12, <2>14
  <2> QED BY <1>2, <2>1, <2>13, <2>15
<1>5. t.library
  <2>1. PICK people, n : created.x = Transaction(MorePeople(t, people, n))
    BY DEF CreatePersons, MorePeople
  <2>2. MorePeople(t, people, n).library = t.library
    <3>1. t = [library |-> t.library, works |-> t.works, people |-> t.people,
               pubs |-> t.pubs, last |-> t.last]
      BY DEF IsTables
    <3>2. MorePeople(t, people, n) = [[t EXCEPT !.people = people] EXCEPT !.last.people = t.last.people + n]
      BY <3>1 DEF MorePeople
    <3> QED BY <3>1, <3>2
  <2> HIDE DEF created
  <2>3. created.x.t.library = t.library
    BY <2>1, <2>2 DEF Transaction
  <2>4. Fail(created.x).ok = FALSE
    BY <2>1 DEF Transaction, Fail
  <2> HIDE DEF row, inputs
  <2>5. ~t.library => made.x = Fail(created.x)
    BY <2>3 DEF CreatePublication
  <2> HIDE DEF made
  <2>6. made.x.ok
    BY <1>2 DEF all
  <2> QED BY <2>4, <2>5, <2>6
<1> QED BY <1>4, <1>5 DEF all

-----------------------------------------------------------------------------
(***************************************************************************)
(* What a change of the tables commits                                     *)
(***************************************************************************)

\* And nothing is left that nothing needs.
IsCleaned(x) == IsSettled(x) /\ DOMAIN x.t.people \subseteq CreditedPeople(x.t)

(* A transaction that was collected before its commit, and so is consistent. *)
LEMMA CleanedSound ==
  ASSUME NEW x, IsTx(x), x.ok => IsConsistent(x.t)
  PROVE Collected(x).ok => IsCleaned(Collected(x))
<1> DEFINE y == Collected(x)
<1>1. y.ok = x.ok
  BY CollectedSound
<1>2. y.merges = x.merges
  BY CollectedSound
<1>3. IsConsistent(x.t) => /\ IsTables(y.t) /\ IsConsistent(y.t) /\ IsCollected(y.t)
                           /\ DOMAIN y.t.people \subseteq CreditedPeople(y.t)
  BY CollectedSound
<1>4. x.merges \in Merges
  BY DEF IsTx
<1> HIDE DEF y
<1> QED BY <1>1, <1>2, <1>3, <1>4 DEF IsCleaned, IsSettled, y

(* Whom a form credits is a person of the tables, or a new one by name. *)
LEMMA ComposersSound ==
  ASSUME IsTables(t), NEW persons \in Composers
  PROVE ArePersons(persons)
<1>1. DOMAIN t.people \subseteq Nat
  BY TablesOf
<1>2. IsFiniteSet({}) /\ \A x : IsFiniteSet({x})
  BY FS_EmptySet, FS_Singleton
<1>3. CASE persons = {}
  BY <1>2, <1>3 DEF ArePersons
<1>4. ASSUME NEW x \in DOMAIN t.people, persons = {Linked(x)} PROVE ArePersons(persons)
  <2>1. Linked(x)[1] = "linked" /\ Linked(x)[2] = x /\ x \in Nat
    BY <1>1 DEF Linked
  <2>2. IsFiniteSet(persons)
    BY <1>2, <1>4
  <2>3. ASSUME NEW p \in persons PROVE p[1] # "new" /\ p[2] \in Nat
    BY <1>4, <2>1, <2>3
  <2> QED BY <2>2, <2>3 DEF ArePersons
<1>5. ASSUME NEW n \in Names, persons = {<<"new", n>>} PROVE ArePersons(persons)
  <2>1. IsFiniteSet(persons)
    BY <1>2, <1>5
  <2>2. ASSUME NEW p \in persons PROVE p[1] = "new" /\ p[2] \in Names
    BY <1>5, <2>2
  <2> QED BY <2>1, <2>2 DEF ArePersons
<1> QED BY <1>3, <1>4, <1>5 DEF Composers

(* Work::update *)
LEMMA EditWorkSound ==
  ASSUME IsTables(t), IsConsistent(t), t.library, NEW w \in DOMAIN t.works,
         NEW persons \in Composers, NEW numbers \in SUBSET Numbers
  PROVE LET resolved == CreateNewPersons(Transaction(t), persons)
            x == UpdateWork(resolved.x, w, [composers |-> Range(resolved.id), numbers |-> numbers])
        IN x.ok => IsCleaned(x)
<1> DEFINE resolved == CreateNewPersons(Transaction(t), persons)
           composers == Range(resolved.id)
           input == [composers |-> composers, numbers |-> numbers]
           written == WriteLinkedWork(resolved.x, w, input)
<1>1. Sound(Transaction(t))
  BY TransactionSound
<1>2. Sound(resolved.x) /\ composers \in SUBSET Nat
  BY <1>1, ComposersSound, CreateNewPersonsSound
<1> HIDE DEF resolved, composers
<1>3. IsInput(input)
  BY <1>2, InputOf
<1>4. w \in Nat
  BY TablesOf
<1>5. IsTx(resolved.x) /\ resolved.x.t.library /\ (resolved.x.ok => ReferBut(resolved.x.t, w))
  BY <1>2 DEF Sound, IsConsistent, ReferBut
<1> HIDE DEF input
<1>6. Continues(resolved.x, written)
  BY <1>3, <1>4, <1>5, WriteLinkedWorkSound
<1> HIDE DEF written
<1>7. IsTx(written) /\ (written.ok => IsConsistent(written.t))
  BY <1>6 DEF Continues, Sound
<1>8. Collected(written).ok => IsCleaned(Collected(written))
  BY <1>7, CleanedSound
<1> QED BY <1>8 DEF UpdateWork, written, input, composers, resolved

(* Library::merge_works *)
LEMMA MergeStoredSound ==
  ASSUME IsTables(t), IsConsistent(t), t.library,
         NEW from \in DOMAIN t.works, NEW into \in DOMAIN t.works, from # into
  PROVE LET x == Collected(MergeWorks(Transaction(t), from, into)) IN x.ok => IsCleaned(x)
<1> DEFINE y == MergeWorks(Transaction(t), from, into)
<1>1. Sound(Transaction(t)) /\ Transaction(t).t = t
  BY TransactionSound
<1>2. IsTx(Transaction(t)) /\ from \in DOMAIN Transaction(t).t.works
      /\ into \in DOMAIN Transaction(t).t.works \ {from}
  BY <1>1 DEF Sound
<1>3. IsTx(y)
  BY <1>2, MergeWorksSound
<1>4. IsConsistent(Transaction(t).t) => IsConsistent(y.t)
  BY <1>2, MergeWorksSound
<1> HIDE DEF y
<1>5. Collected(y).ok => IsCleaned(Collected(y))
  BY <1>1, <1>3, <1>4, CleanedSound
<1> QED BY <1>5 DEF y

\* What a publication's form writes about one of its works.
Written(resolved, row) ==
    [ref |-> row.ref,
     composers |-> IF row.ref = NewWork THEN Range(resolved.id)
                   ELSE IF HasWork(t, row.ref[2]) THEN t.works[row.ref[2]].composers
                   ELSE {},
     numbers |-> IF HasWork(t, row.ref[2]) THEN t.works[row.ref[2]].numbers
                 ELSE row.numbers]

(* It is well formed. *)
LEMMA WrittenSound ==
  ASSUME IsTables(t), NEW resolved, Range(resolved.id) \subseteq Nat, NEW row \in Content
  PROVE IsContent(Written(resolved, row))
<1> DEFINE stored == t.works[row.ref[2]]
           composers == IF row.ref = NewWork THEN Range(resolved.id)
                        ELSE IF HasWork(t, row.ref[2]) THEN stored.composers ELSE {}
           numbers == IF HasWork(t, row.ref[2]) THEN stored.numbers ELSE row.numbers
           c == Written(resolved, row)
<1>1. row.ref \in Refs \union {NewWork} /\ row.numbers \in SUBSET Numbers
  BY DEF Content, Refs
<1>2. HasWork(t, row.ref[2]) => stored.composers \subseteq Nat /\ stored.numbers \subseteq Numbers
  BY TablesOf DEF HasWork
<1>3. composers \in SUBSET Nat /\ numbers \in SUBSET Numbers
  BY <1>1, <1>2
<1>4. c = [ref |-> row.ref, composers |-> composers, numbers |-> numbers]
  BY DEF Written
<1> HIDE DEF composers, numbers, c
<1>5. c.ref = row.ref
  BY <1>4
<1>6. IsInput(c)
  BY <1>3, <1>4, InputOf
<1> QED BY <1>1, <1>5, <1>6 DEF IsContent, c

(* A page's listing is a sequence of contents. *)
LEMMA ListedSound ==
  ASSUME NEW rows \in Listed
  PROVE rows \in Seq(Content)
<1>1. CASE rows = <<>>
  BY <1>1
<1>2. ASSUME NEW post \in Posted, rows = post.contents PROVE rows \in Seq(Content)
  BY <1>2 DEF Posted
<1> QED BY <1>1, <1>2 DEF Listed

(* Publication::update *)
LEMMA EditPublicationSound ==
  ASSUME IsTables(t), IsConsistent(t), t.library, NEW p \in DOMAIN t.pubs,
         NEW persons \in Composers, NEW rows \in Listed
  PROVE LET resolved == CreateNewPersons(Transaction(t), persons)
            contents == [k \in DOMAIN rows |-> Written(resolved, rows[k])]
            form == [credits |-> Range(resolved.id), held |-> {Copy}]
            x == Collected(WritePublication(resolved.x, p, form, contents))
        IN x.ok => IsCleaned(x)
<1> DEFINE resolved == CreateNewPersons(Transaction(t), persons)
           composers == Range(resolved.id)
           contents == [k \in DOMAIN rows |-> Written(resolved, rows[k])]
           form == [credits |-> composers, held |-> {Copy}]
           written == WritePublication(resolved.x, p, form, contents)
<1>1. Sound(Transaction(t)) /\ Transaction(t).t = t
  BY TransactionSound
<1>2. Sound(resolved.x) /\ composers \in SUBSET Nat /\ resolved.x.t.pubs = t.pubs
  BY <1>1, ComposersSound, CreateNewPersonsSound
<1> HIDE DEF resolved
<1>3. IsForm(form)
  BY <1>2 DEF IsForm
<1>4. rows \in Seq(Content)
  BY ListedSound
<1>5. \A k \in DOMAIN rows : IsContent(Written(resolved, rows[k]))
  BY <1>2, <1>4, WrittenSound
<1>6. IsContentList(contents)
  <2>1. Len(rows) \in Nat /\ DOMAIN rows = 1 .. Len(rows)
    BY <1>4
  <2>2. contents = [k \in 1 .. Len(rows) |-> Written(resolved, rows[k])]
    BY <2>1
  <2>3. DOMAIN contents = 1 .. Len(rows) /\ Len(contents) = Len(rows)
    BY <2>1, <2>2
  <2> QED BY <1>5, <2>1, <2>3 DEF IsContentList
<1> HIDE DEF contents, form
<1>7. Sound(written)
  BY <1>2, <1>3, <1>6, WritePublicationSound
<1> HIDE DEF written
<1>8. Collected(written).ok => IsCleaned(Collected(written))
  BY <1>7, CleanedSound DEF Sound
<1> QED BY <1>8 DEF written, form, contents, composers, resolved

(* Publication::delete, and Library::delete. *)
LEMMA RemovalsSound ==
  ASSUME IsTables(t), IsConsistent(t), t.library
  PROVE /\ \A p : LET x == Collected(DeletePublication(Transaction(t), p)) IN x.ok => IsCleaned(x)
        /\ IsCleaned(DeleteLibrary(Transaction(t)))
<1>1. Sound(Transaction(t))
  BY TransactionSound
<1>2. ASSUME NEW p
      PROVE LET x == Collected(DeletePublication(Transaction(t), p)) IN x.ok => IsCleaned(x)
  <2> DEFINE y == DeletePublication(Transaction(t), p)
  <2>1. Edited(Transaction(t), y)
    BY <1>1, DeletePublicationSound
  <2> HIDE DEF y
  <2>2. IsTx(y) /\ (y.ok => IsConsistent(y.t))
    BY <2>1 DEF Edited, Sound
  <2>3. Collected(y).ok => IsCleaned(Collected(y))
    BY <2>2, CleanedSound
  <2> QED BY <2>3 DEF y
<1>3. IsCleaned(DeleteLibrary(Transaction(t)))
  <2> DEFINE y == DeleteLibrary(Transaction(t))
  <2>1. IsTx(Transaction(t))
    BY <1>1 DEF Sound
  <2>2. IsTx(y) /\ IsConsistent(y.t) /\ IsCollected(y.t) /\ DOMAIN y.t.people = {}
    BY <2>1, DeleteLibrarySound
  <2> HIDE DEF y
  <2>3. IsCleaned(y)
    BY <2>2 DEF IsCleaned, IsSettled, IsTx
  <2> QED BY <2>3 DEF y
<1> QED BY <1>2, <1>3

-----------------------------------------------------------------------------
(***************************************************************************)
(* Every step keeps it                                                     *)
(***************************************************************************)

Claiming == {"filling", "publishing", "committed"}

(* One request moves, and the store's ids go up: all requests are still what they should be. *)
LEMMA Moved ==
  ASSUME NEW last \in Nat, NEW more \in Nat, last <= more,
         requests = [r \in Requests |-> requests[r]],
         \A s \in Requests : IsRequest(requests[s], last),
         NEW r \in Requests, NEW to, IsRequest(to, more), Moves(r, to)
  PROVE /\ requests' = [s \in Requests |-> requests'[s]]
        /\ requests'[r] = to
        /\ \A s \in Requests : s # r => requests'[s] = requests[s]
        /\ \A s \in Requests : IsRequest(requests'[s], more)
<1>1. requests' = [requests EXCEPT ![r] = to] /\ DOMAIN requests = Requests
  BY DEF Moves
<1>2. requests' = [s \in Requests |-> IF s = r THEN to ELSE requests[s]]
  BY <1>1
<1>3. requests'[r] = to /\ \A s \in Requests : s # r => requests'[s] = requests[s]
  BY <1>2
<1>4. requests' = [s \in Requests |-> requests'[s]]
  BY <1>2
<1>5. ASSUME NEW s \in Requests PROVE IsRequest(requests'[s], more)
  <2>1. CASE s = r
    BY <1>3, <2>1
  <2>2. CASE s # r
    <3>1. IsRequest(requests[s], last) /\ requests'[s] = requests[s]
      BY <1>3, <2>2
    <3>2. 1 .. last \subseteq 1 .. more
      OBVIOUS
    <3> QED BY <3>1, <3>2 DEF IsRequest
  <2> QED BY <2>1, <2>2
<1> QED BY <1>3, <1>4, <1>5

(* A request that is in the middle of nothing. *)
LEMMA IdleSound ==
  ASSUME NEW last
  PROVE IsRequest(Idle, last) /\ Idle.step = "idle"
  BY DEF IsRequest, Idle, Steps, OnImport

\* The store keeps its claims: what is new is not claimed.
Keeps(d, e) ==
    /\ IsStore(e) /\ Kept(e) /\ d.lastId <= e.lastId
    /\ \A i \in DOMAIN e.imports :
          IF i \in DOMAIN d.imports THEN e.imports[i].accepting = d.imports[i].accepting
          ELSE i \notin 1 .. d.lastId /\ ~e.imports[i].accepting

\* The tables after a step are sound.
TablesInv == IsTables(t) /\ IsConsistent(t) /\ IsCollected(t)

(* A step of a request that neither has a claim nor takes one. *)
LEMMA Quiet ==
  ASSUME IInv, NEW r \in Requests, NEW to, Moves(r, to),
         requests[r].step \notin Claiming, to.step \notin Claiming,
         IsRequest(to, drafts'.lastId), Keeps(drafts, drafts'), TablesInv', history' = history
  PROVE IInv'
<1>1. /\ IsStore(drafts) /\ drafts.lastId \in Nat /\ drafts'.lastId \in Nat
      /\ IsStore(drafts') /\ Kept(drafts') /\ drafts.lastId <= drafts'.lastId
  BY DEF IInv, TypeInv, Keeps, IsStore
<1>2. /\ requests' = [s \in Requests |-> requests'[s]] /\ requests'[r] = to
      /\ \A s \in Requests : s # r => requests'[s] = requests[s]
      /\ \A s \in Requests : IsRequest(requests'[s], drafts'.lastId)
  BY <1>1, Moved DEF IInv, TypeInv
<1>3. TypeInv'
  BY <1>1, <1>2 DEF IInv, TypeInv, TablesInv
<1>4. \A s \in Requests : \A i : Claims(s, i)' <=> Claims(s, i)
  BY <1>2 DEF Claims, Claiming
<1>5. \A s \in Requests : \A i : Claims(s, i) => i \in 1 .. drafts.lastId
  BY DEF Claims, IInv, TypeInv, IsRequest, OnImport
<1>6. \A s \in Requests : \A i : GivesUp(s, i)' <=> GivesUp(s, i)
  BY <1>2 DEF GivesUp, Claiming
<1>7. DOMAIN drafts.imports \subseteq 1 .. drafts.lastId
  BY <1>1 DEF IsStore
<1>8. \A i \in DOMAIN drafts'.imports :
         /\ i \in DOMAIN drafts.imports => drafts'.imports[i].accepting = drafts.imports[i].accepting
         /\ i \notin DOMAIN drafts.imports => i \notin 1 .. drafts.lastId /\ ~drafts'.imports[i].accepting
  BY DEF Keeps
<1>9. ClaimInv'
  <2>1. ASSUME NEW s \in Requests, NEW u \in Requests, NEW i, Claims(s, i)', Claims(u, i)'
        PROVE s = u
    BY <1>4, <1>5, <2>1 DEF IInv, ClaimInv
  <2>2. ASSUME NEW s \in Requests, NEW i \in DOMAIN drafts'.imports, Claims(s, i)'
        PROVE drafts'.imports[i].accepting
    <3>1. Claims(s, i) /\ i \in 1 .. drafts.lastId
      BY <1>4, <1>5, <2>2
    <3>2. i \in DOMAIN drafts.imports
      BY <1>8, <3>1
    <3> QED BY <1>8, <3>1, <3>2 DEF IInv, ClaimInv
  <2> QED BY <2>1, <2>2 DEF ClaimInv
<1>10. ClaimsAreGivenUp'
  <2> SUFFICES ASSUME NEW i \in DOMAIN drafts'.imports, drafts'.imports[i].accepting
               PROVE i \in history'.cut \/ \E s \in Requests : Claims(s, i)'
    BY DEF ClaimsAreGivenUp
  <2>1. i \in DOMAIN drafts.imports /\ drafts.imports[i].accepting
    BY <1>8
  <2>2. i \in history.cut \/ \E s \in Requests : Claims(s, i)
    BY <2>1 DEF IInv, ClaimsAreGivenUp
  <2> QED BY <1>4, <2>2
<1>11. EndInv'
  <2>1. ASSUME NEW i \in ImportIds, history'.published[i] > 0
        PROVE /\ history'.published[i] = 1 /\ i \notin history'.discarded
              /\ i <= drafts'.lastId
              /\ Has(drafts', i) => drafts'.imports[i].accepting
              /\ \A s \in Requests : ~GivesUp(s, i)'
    <3>1. /\ history.published[i] = 1 /\ i \notin history.discarded
          /\ i <= drafts.lastId
          /\ Has(drafts, i) => drafts.imports[i].accepting
          /\ \A s \in Requests : ~GivesUp(s, i)
      BY <2>1 DEF IInv, EndInv
    <3>2. i \in 1 .. drafts.lastId /\ i <= drafts'.lastId
      BY <1>1, <3>1 DEF ImportIds
    <3>3. Has(drafts', i) => drafts'.imports[i].accepting
      BY <1>8, <3>1, <3>2 DEF Has
    <3> QED BY <1>6, <3>1, <3>2, <3>3
  <2>2. ASSUME NEW i \in history'.discarded
        PROVE /\ i \in 1 .. drafts'.lastId /\ ~Has(drafts', i)
              /\ \A s \in Requests : ~Claims(s, i)'
    <3>1. /\ i \in 1 .. drafts.lastId /\ ~Has(drafts, i)
          /\ \A s \in Requests : ~Claims(s, i)
      BY <2>2 DEF IInv, EndInv
    <3>2. i \in 1 .. drafts'.lastId
      BY <1>1, <3>1
    <3> QED BY <1>4, <1>8, <3>1, <3>2 DEF Has
  <2> QED BY <2>1, <2>2 DEF EndInv
<1> QED BY <1>3, <1>9, <1>10, <1>11 DEF IInv

(* What leaves the store alone, and what each step of the others does to it. *)
LEMMA KeepsSound ==
  ASSUME NEW d, IsStore(d), Kept(d)
  PROVE /\ Keeps(d, d)
        /\ Keeps(d, StartImport(d))
        /\ \A i, post, people, there :
              /\ Editable(d, i) /\ post \in Forms
              /\ AreStored(people, there)
              => Keeps(d, Save(d, i, post, people, there))
        /\ \A merges \in Merges : Keeps(d, RelinkWorks(d, merges))
        /\ \A merges \in Merges : Keeps(d, RelinkWorks(DropLibrary(d), merges))
<1>1. d.lastId \in Nat
  BY DEF IsStore
<1>2. Keeps(d, d)
  BY <1>1 DEF Keeps
<1>3. Keeps(d, StartImport(d))
  <2> DEFINE e == StartImport(d)
  <2>1. /\ IsStore(e) /\ Kept(e)
        /\ e.lastId = d.lastId + 1
        /\ DOMAIN e.imports = DOMAIN d.imports \union {e.lastId}
        /\ ~e.imports[e.lastId].accepting
        /\ \A i \in DOMAIN d.imports : e.imports[i] = d.imports[i]
    BY StartSound
  <2> HIDE DEF e
  <2>2. d.lastId <= e.lastId /\ e.lastId \notin 1 .. d.lastId
    BY <1>1, <2>1
  <2>3. Keeps(d, e)
    BY <2>1, <2>2 DEF Keeps
  <2> QED BY <2>3 DEF e
<1>4. ASSUME NEW i, NEW post, NEW people, NEW there, Editable(d, i), post \in Forms,
             AreStored(people, there)
      PROVE Keeps(d, Save(d, i, post, people, there))
  <2> DEFINE e == Save(d, i, post, people, there)
  <2>1. i \in DOMAIN d.imports /\ ~d.imports[i].accepting
    BY <1>4 DEF Editable, Has
  <2>2. /\ IsStore(e) /\ Kept(e) /\ d.lastId <= e.lastId
        /\ DOMAIN e.imports = DOMAIN d.imports
        /\ ~e.imports[i].accepting
    BY <1>4, <2>1, SaveSound
  <2>6. \A j \in DOMAIN d.imports \ {i} : e.imports[j] = d.imports[j]
    BY <1>4, <2>1, SaveSound
  <2> HIDE DEF e
  <2>3. \A j \in DOMAIN d.imports : d.imports[j].accepting \in BOOLEAN /\ e.imports[j].accepting \in BOOLEAN
    <3>1. \A j \in DOMAIN d.imports : d.imports[j] \in Entries /\ e.imports[j] \in Entries
      BY <2>2 DEF IsStore
    <3> QED BY <3>1 DEF Entries
  <2>4. \A j \in DOMAIN e.imports : e.imports[j].accepting = d.imports[j].accepting
    BY <2>1, <2>2, <2>3, <2>6
  <2>5. Keeps(d, e)
    BY <2>2, <2>4 DEF Keeps
  <2> QED BY <2>5 DEF e
<1>5. ASSUME NEW merges \in Merges PROVE Keeps(d, RelinkWorks(d, merges))
  <2> DEFINE e == RelinkWorks(d, merges)
  <2>1. IsStore(e) /\ Kept(e) /\ SameClaims(e, d) /\ e.lastId = d.lastId
    BY RelinkWorksSound
  <2> HIDE DEF e
  <2>2. Keeps(d, e)
    BY <1>1, <2>1 DEF Keeps, SameClaims
  <2> QED BY <2>2 DEF e
<1>6. ASSUME NEW merges \in Merges PROVE Keeps(d, RelinkWorks(DropLibrary(d), merges))
  <2> DEFINE f == DropLibrary(d)
             e == RelinkWorks(f, merges)
  <2>1. IsStore(f) /\ Kept(f) /\ DOMAIN f.imports = {} /\ f.lastId = d.lastId
    BY DropSound
  <2> HIDE DEF f
  <2>2. IsStore(e) /\ Kept(e) /\ SameClaims(e, f) /\ e.lastId = f.lastId
    BY <2>1, RelinkWorksSound
  <2> HIDE DEF e
  <2>3. DOMAIN e.imports = {}
    BY <2>1, <2>2 DEF SameClaims
  <2>4. Keeps(d, e)
    BY <1>1, <2>1, <2>2, <2>3 DEF Keeps
  <2> QED BY <2>4 DEF e, f
<1> QED BY <1>2, <1>3, <1>4, <1>5, <1>6

(* What the invariant says of what a step leaves alone. *)
LEMMA Unchanged ==
  ASSUME IInv
  PROVE /\ TablesInv /\ IsStore(drafts) /\ Kept(drafts) /\ Keeps(drafts, drafts)
        /\ drafts.lastId \in Nat /\ DOMAIN drafts.imports \subseteq 1 .. drafts.lastId
        /\ t' = t => TablesInv'
<1>1. TablesInv /\ IsStore(drafts) /\ Kept(drafts)
  BY DEF IInv, TypeInv, TablesInv
<1>2. Keeps(drafts, drafts)
  BY <1>1, KeepsSound
<1>3. drafts.lastId \in Nat /\ DOMAIN drafts.imports \subseteq 1 .. drafts.lastId
  BY <1>1 DEF IsStore
<1> QED BY <1>1, <1>2, <1>3 DEF TablesInv

(* ReadLibrary, Start, ReadStored and SaveDraft: no claim is given or taken. *)
LEMMA WorksKeepsInv ==
  ASSUME IInv, NEW r \in Requests, Works(r)
  PROVE IInv' /\ t' = t
<1>1. CASE ReadLibrary(r)
  <2> DEFINE to == [step |-> "starting"]
  <2>1. Moves(r, to) /\ requests[r].step = "idle" /\ t' = t /\ drafts' = drafts /\ history' = history
    BY <1>1 DEF ReadLibrary, IsAt
  <2>2. to.step = "starting" /\ IsRequest(to, drafts.lastId)
    BY DEF IsRequest, Steps, OnImport
  <2> HIDE DEF to
  <2> QED BY <2>1, <2>2, Unchanged, Quiet DEF Claiming
<1>2. CASE Start(r)
  <2>1. /\ Moves(r, Idle) /\ requests[r].step = "starting" /\ t' = t
        /\ drafts' = StartImport(drafts) /\ history' = history
    BY <1>2 DEF Start, IsAt
  <2>2. Keeps(drafts, drafts')
    BY <2>1, Unchanged, KeepsSound
  <2>3. IsRequest(Idle, drafts'.lastId) /\ Idle.step = "idle"
    BY IdleSound
  <2> QED BY <2>1, <2>2, <2>3, Unchanged, Quiet DEF Claiming
<1>3. ASSUME NEW i \in DOMAIN drafts.imports, NEW post \in Posted, NEW submit \in BOOLEAN,
             ReadStored(r, i, post, submit)
      PROVE IInv' /\ t' = t
  <2> DEFINE to == [step |-> "saving", import |-> i, post |-> post, submit |-> submit,
                    people |-> t.people, works |-> DOMAIN t.works]
  <2>1. Moves(r, to) /\ requests[r].step = "idle" /\ t' = t /\ drafts' = drafts /\ history' = history
    BY <1>3 DEF ReadStored, IsAt
  <2>2. post \in Forms
    BY DEF Posted, Forms
  <2>3. AreStored(t.people, DOMAIN t.works)
    BY Unchanged, TablesOf DEF TablesInv, AreStored
  <2>4. i \in 1 .. drafts.lastId
    BY Unchanged
  <2>5. to.step = "saving" /\ to.import = i /\ to.post = post /\ to.people = t.people
        /\ to.works = DOMAIN t.works
    OBVIOUS
  <2> HIDE DEF to
  <2>6. IsRequest(to, drafts.lastId)
    BY <2>2, <2>3, <2>4, <2>5 DEF IsRequest, Steps, OnImport
  <2> QED BY <2>1, <2>5, <2>6, Unchanged, Quiet DEF Claiming
<1>4. CASE SaveDraft(r)
  <2> DEFINE q == requests[r]
  <2>1. requests[r].step = "saving" /\ t' = t /\ history' = history
    BY <1>4 DEF SaveDraft, IsAt
  <2>2. /\ q.import \in 1 .. drafts.lastId /\ q.post \in Forms
        /\ AreStored(q.people, q.works)
    BY <2>1 DEF IInv, TypeInv, IsRequest, OnImport
  <2>3. CASE Editable(drafts, q.import)
    <3> DEFINE to == IF q.submit THEN [step |-> "claiming", import |-> q.import] ELSE Idle
    <3>1. drafts' = Save(drafts, q.import, q.post, q.people, q.works) /\ Moves(r, to)
      BY <1>4, <2>3 DEF SaveDraft
    <3>2. Keeps(drafts, drafts')
      BY <2>2, <2>3, <3>1, Unchanged, KeepsSound
    <3>3. drafts.lastId \in Nat /\ drafts'.lastId \in Nat /\ drafts.lastId <= drafts'.lastId
      BY <3>2, Unchanged DEF Keeps, IsStore
    <3>4. q.import \in 1 .. drafts'.lastId
      BY <2>2, <3>3
    <3>5. to.step \notin Claiming /\ IsRequest(to, drafts'.lastId)
      <4>1. CASE q.submit
        <5>1. to = [step |-> "claiming", import |-> q.import]
          BY <4>1
        <5>2. to.step = "claiming" /\ to.import = q.import
          BY <5>1
        <5> HIDE DEF to
        <5> QED BY <3>4, <5>2 DEF IsRequest, Steps, OnImport, Claiming
      <4>2. CASE ~q.submit
        BY <4>2, IdleSound DEF Claiming
      <4> QED BY <4>1, <4>2
    <3> HIDE DEF to
    <3> QED BY <2>1, <3>1, <3>2, <3>5, Unchanged, Quiet DEF Claiming
  <2>4. CASE ~Editable(drafts, q.import)
    <3>1. drafts' = drafts /\ Moves(r, Idle)
      BY <1>4, <2>4 DEF SaveDraft
    <3>2. IsRequest(Idle, drafts'.lastId) /\ Idle.step = "idle"
      BY IdleSound
    <3> QED BY <2>1, <3>1, <3>2, Unchanged, Quiet DEF Claiming
  <2> QED BY <2>3, <2>4
<1> QED BY <1>1, <1>2, <1>3, <1>4 DEF Works

(* A commit leaves sound tables, in which nobody is left that nothing credits. *)
LEMMA CommitsKeepInv ==
  ASSUME IInv, NEW r \in Requests, requests[r].step \notin Claiming,
         NEW x, x.ok => IsCleaned(x), NEW dropped, Commits(r, x, dropped),
         drafts' = drafts, history' = history
  PROVE IInv' /\ OrphanPeople' = {}
<1>1. t' = x.t /\ IsCleaned(x)
  BY DEF Commits
<1>2. TablesInv' /\ OrphanPeople' = {} /\ x.merges \in Merges
  BY <1>1 DEF IsCleaned, IsSettled, TablesInv, OrphanPeople
<1>3. PICK to : Moves(r, to) /\ (to = Idle \/ to = Told(x, dropped))
  BY DEF Commits
<1>4. to.step \notin Claiming /\ IsRequest(to, drafts'.lastId)
  <2>1. CASE to = Idle
    BY <2>1, IdleSound DEF Claiming
  <2>2. CASE to = Told(x, dropped)
    <3>1. to.step = "telling" /\ to.merges = x.merges
      BY <2>2 DEF Told
    <3> QED BY <1>2, <3>1 DEF IsRequest, Steps, OnImport, Claiming
  <2> QED BY <1>3, <2>1, <2>2
<1>5. Keeps(drafts, drafts')
  BY Unchanged
<1> QED BY <1>2, <1>3, <1>4, <1>5, Quiet

(* A change that is a transaction of its own. *)
LEMMA ChangesKeepInv ==
  ASSUME IInv, NEW r \in Requests, NEW x, t.library => (x.ok => IsCleaned(x)),
         NEW dropped, Changes(r, x, dropped)
  PROVE IInv' /\ OrphanPeople' = {}
<1>1. requests[r].step = "idle" /\ t.library /\ Commits(r, x, dropped)
      /\ drafts' = drafts /\ history' = history
  BY DEF Changes, IsAt
<1>2. requests[r].step \notin Claiming
  BY <1>1 DEF Claiming
<1> QED BY <1>1, <1>2, CommitsKeepInv

(* The others' changes of the tables, and what they tell the drafts afterwards. *)
LEMMA ChangesTablesKeepInv ==
  ASSUME IInv, NEW r \in Requests, ChangesTables(r)
  PROVE IInv' /\ (t' = t \/ OrphanPeople' = {})
<1>0. IsTables(t) /\ IsConsistent(t)
  BY Unchanged DEF TablesInv
<1>1. ASSUME NEW w \in DOMAIN t.works, EditWork(r, w)
      PROVE IInv' /\ OrphanPeople' = {}
  <2>1. PICK persons \in Composers, numbers \in SUBSET Numbers :
           Changes(r, UpdateWork(CreateNewPersons(Transaction(t), persons).x, w,
                                 [composers |-> Range(CreateNewPersons(Transaction(t), persons).id),
                                  numbers |-> numbers]), FALSE)
    BY <1>1 DEF EditWork
  <2> DEFINE x == UpdateWork(CreateNewPersons(Transaction(t), persons).x, w,
                             [composers |-> Range(CreateNewPersons(Transaction(t), persons).id),
                              numbers |-> numbers])
  <2>2. t.library => (x.ok => IsCleaned(x))
    BY <1>0, EditWorkSound
  <2>3. Changes(r, x, FALSE)
    BY <2>1
  <2> HIDE DEF x
  <2> QED BY <2>2, <2>3, ChangesKeepInv
<1>2. ASSUME NEW from \in DOMAIN t.works, NEW into \in DOMAIN t.works, MergeStored(r, from, into)
      PROVE IInv' /\ OrphanPeople' = {}
  <2> DEFINE x == Collected(MergeWorks(Transaction(t), from, into))
  <2>1. from # into /\ Changes(r, x, FALSE)
    BY <1>2 DEF MergeStored
  <2>2. t.library => (x.ok => IsCleaned(x))
    BY <1>0, <2>1, MergeStoredSound
  <2> HIDE DEF x
  <2> QED BY <2>1, <2>2, ChangesKeepInv
<1>3. ASSUME NEW p \in DOMAIN t.pubs, EditPublication(r, p)
      PROVE IInv' /\ OrphanPeople' = {}
  <2> DEFINE resolved(persons) == CreateNewPersons(Transaction(t), persons)
             contents(persons, rows) == [k \in DOMAIN rows |-> Written(resolved(persons), rows[k])]
             form(persons) == [credits |-> Range(resolved(persons).id), held |-> {Copy}]
             y(persons, rows) == Collected(WritePublication(resolved(persons).x, p, form(persons),
                                                            contents(persons, rows)))
  <2>1. PICK persons \in Composers, rows \in Listed : Changes(r, y(persons, rows), FALSE)
    BY <1>3 DEF EditPublication, Written
  <2> DEFINE x == y(persons, rows)
  <2>2. t.library => (x.ok => IsCleaned(x))
    BY <1>0, EditPublicationSound
  <2>3. Changes(r, x, FALSE)
    BY <2>1
  <2> HIDE DEF x
  <2> QED BY <2>2, <2>3, ChangesKeepInv
<1>4. ASSUME NEW p \in DOMAIN t.pubs, RemovePublication(r, p)
      PROVE IInv' /\ OrphanPeople' = {}
  <2> DEFINE x == Collected(DeletePublication(Transaction(t), p))
  <2>1. Changes(r, x, FALSE)
    BY <1>4 DEF RemovePublication
  <2>2. t.library => (x.ok => IsCleaned(x))
    BY <1>0, RemovalsSound
  <2> HIDE DEF x
  <2> QED BY <2>1, <2>2, ChangesKeepInv
<1>5. ASSUME RemoveLibrary(r) PROVE IInv' /\ OrphanPeople' = {}
  <2> DEFINE x == DeleteLibrary(Transaction(t))
  <2>1. Changes(r, x, TRUE)
    BY <1>5 DEF RemoveLibrary
  <2>2. t.library => (x.ok => IsCleaned(x))
    BY <1>0, RemovalsSound
  <2> HIDE DEF x
  <2> QED BY <2>1, <2>2, ChangesKeepInv
<1>6. ASSUME TellDrafts(r) PROVE IInv' /\ t' = t
  <2> DEFINE q == requests[r]
  <2>1. /\ q.step = "telling" /\ Moves(r, Idle) /\ t' = t /\ history' = history
        /\ drafts' = RelinkWorks(IF q.dropped THEN DropLibrary(drafts) ELSE drafts, q.merges)
    BY <1>6 DEF TellDrafts, IsAt
  <2>2. q.merges \in Merges
    BY <2>1 DEF IInv, TypeInv, IsRequest
  <2>3. Keeps(drafts, drafts')
    <3>1. CASE q.dropped
      <4>1. drafts' = RelinkWorks(DropLibrary(drafts), q.merges)
        BY <2>1, <3>1
      <4> QED BY <2>2, <4>1, Unchanged, KeepsSound
    <3>2. CASE ~q.dropped
      <4>1. drafts' = RelinkWorks(drafts, q.merges)
        BY <2>1, <3>2
      <4> QED BY <2>2, <4>1, Unchanged, KeepsSound
    <3> QED BY <3>1, <3>2
  <2>4. IsRequest(Idle, drafts'.lastId) /\ Idle.step = "idle"
    BY IdleSound
  <2> QED BY <2>1, <2>3, <2>4, Unchanged, Quiet DEF Claiming
<1> QED BY <1>1, <1>2, <1>3, <1>4, <1>5, <1>6 DEF ChangesTables

(* One call on an ArchiveEdit. *)
LEMMA CallKeepsInv ==
  ASSUME IInv, NEW r \in Requests, requests[r].step = "editing", NEW x, NEW dropped \in BOOLEAN,
         Sound(requests[r].x) =>
            /\ IsTx(x) /\ (x.ok => IsConsistent(x.t))
            /\ ~dropped => Sound(x),
         Edits(r, x, dropped)
  PROVE IInv' /\ t' = t
<1> DEFINE q == requests[r]
           to == [q EXCEPT !.x = x, !.dropped = dropped, !.calls = @ + 1]
<1>1. /\ ~q.dropped /\ Moves(r, to) /\ t' = t /\ drafts' = drafts /\ history' = history
  BY DEF Edits
<1>2. IsEdit(q)
  BY DEF IInv, TypeInv, IsRequest
<1>3. /\ q = [step |-> q.step, x |-> q.x, dropped |-> q.dropped, calls |-> q.calls]
      /\ Sound(q.x) /\ q.calls \in Nat
  BY <1>1, <1>2 DEF IsEdit
<1>4. to = [step |-> "editing", x |-> x, dropped |-> dropped, calls |-> q.calls + 1]
  <2>1. to = [[[q EXCEPT !.x = x] EXCEPT !.dropped = dropped] EXCEPT !.calls = q.calls + 1]
    BY <1>3
  <2> HIDE DEF to
  <2> QED BY <1>3, <2>1
<1> HIDE DEF to
<1>5. /\ to.step = "editing" /\ to.x = x /\ to.dropped = dropped /\ to.calls = q.calls + 1
      /\ to = [step |-> to.step, x |-> to.x, dropped |-> to.dropped, calls |-> to.calls]
  BY <1>4
<1>6. IsEdit(to)
  BY <1>3, <1>5 DEF IsEdit
<1>7. IsRequest(to, drafts.lastId)
  BY <1>5, <1>6 DEF IsRequest, Steps, OnImport
<1> QED BY <1>1, <1>5, <1>7, Unchanged, Quiet DEF Claiming

(* An edit in progress changes nothing that anyone sees. *)
LEMMA CallsKeepInv ==
  ASSUME IInv, NEW r \in Requests, CallsEdit(r)
  PROVE IInv' /\ t' = t
<1> DEFINE x == requests[r].x
<1>1. requests[r].step = "editing"
  BY DEF CallsEdit, IsAt
<1>2. ASSUME NEW y, Sound(x) => Edited(x, y), Edits(r, y, FALSE) PROVE IInv' /\ t' = t
  <2>1. Sound(requests[r].x) => /\ IsTx(y) /\ (y.ok => IsConsistent(y.t))
                                /\ ~FALSE => Sound(y)
    BY <1>2 DEF Edited, Sound
  <2> QED BY <1>1, <1>2, <2>1, CallKeepsInv
<1>3. ASSUME EditsPublication(r) PROVE IInv' /\ t' = t
  <2>1. PICK p \in DOMAIN x.t.pubs :
           \/ Edits(r, DeletePublication(x, p), FALSE)
           \/ \E w \in DOMAIN x.t.works : Edits(r, AddWork(x, p, w), FALSE)
           \/ \E w \in x.t.pubs[p].works : Edits(r, RemoveWork(x, p, w), FALSE)
           \/ \E who \in DOMAIN x.t.people : Edits(r, AddCredit(x, p, who), FALSE)
           \/ \E who \in x.t.pubs[p].credits : Edits(r, RemoveCredit(x, p, who), FALSE)
           \/ Edits(r, AddHolding(x, p, Copy), FALSE)
           \/ Edits(r, RemoveHolding(x, p, Copy), FALSE)
    BY <1>3 DEF EditsPublication
  <2> HIDE DEF x
  <2>2. Sound(x) => Edited(x, DeletePublication(x, p))
    BY DeletePublicationSound
  <2>3. Sound(x) => /\ \A w \in DOMAIN x.t.works : Edited(x, AddWork(x, p, w))
                    /\ \A w : Edited(x, RemoveWork(x, p, w))
    BY <2>1, PubEditsSound
  <2>4. Sound(x) => /\ \A who \in DOMAIN x.t.people : Edited(x, AddCredit(x, p, who))
                    /\ \A who : Edited(x, RemoveCredit(x, p, who))
    BY <2>1, PubEditsSound
  <2>5. Sound(x) => Edited(x, AddHolding(x, p, Copy)) /\ Edited(x, RemoveHolding(x, p, Copy))
    BY <2>1, PubEditsSound
  <2> QED BY <1>2, <2>1, <2>2, <2>3, <2>4, <2>5
<1>4. ASSUME EditsWork(r) PROVE IInv' /\ t' = t
  <2>1. PICK w \in DOMAIN x.t.works :
           \/ \E who \in DOMAIN x.t.people : Edits(r, AddComposer(x, w, who), FALSE)
           \/ \E who \in x.t.works[w].composers : Edits(r, RemoveComposer(x, w, who), FALSE)
           \/ \E n \in Numbers : Edits(r, AddNumber(x, w, n), FALSE)
           \/ \E n \in x.t.works[w].numbers : Edits(r, RemoveNumber(x, w, n), FALSE)
           \/ \E into \in DOMAIN x.t.works \ {w} : Edits(r, MergeWorks(x, w, into), FALSE)
    BY <1>4 DEF EditsWork
  <2> HIDE DEF x
  <2>2. Sound(x) => /\ \A who \in DOMAIN x.t.people : Edited(x, AddComposer(x, w, who))
                    /\ \A who : Edited(x, RemoveComposer(x, w, who))
    BY <2>1, WorkEditsSound
  <2>3. Sound(x) => /\ \A n \in Numbers : Edited(x, AddNumber(x, w, n))
                    /\ \A n : Edited(x, RemoveNumber(x, w, n))
    BY <2>1, WorkEditsSound
  <2>4. Sound(x) => \A into \in DOMAIN x.t.works \ {w} : Edited(x, MergeWorks(x, w, into))
    BY <2>1, WorkEditsSound
  <2> QED BY <1>2, <2>1, <2>2, <2>3, <2>4
<1>5. ASSUME EditsLibrary(r) PROVE IInv' /\ t' = t
  <2>1. \/ Edits(r, InsertPublication(x, [credits |-> {}, held |-> {Copy}]), FALSE)
        \/ Edits(r, InsertWork(x, [composers |-> {}, numbers |-> {}]), FALSE)
        \/ \E n \in Names : Edits(r, CreatePerson(x, n), FALSE)
        \/ Edits(r, DeleteLibrary(x), TRUE)
    BY <1>5 DEF EditsLibrary
  <2>2. Sound(x) => /\ Edited(x, InsertPublication(x, [credits |-> {}, held |-> {Copy}]))
                    /\ Edited(x, InsertWork(x, [composers |-> {}, numbers |-> {}]))
                    /\ \A n \in Names : Edited(x, CreatePerson(x, n))
    BY LibraryEditsSound
  <2>3. ASSUME Edits(r, DeleteLibrary(x), TRUE) PROVE IInv' /\ t' = t
    <3> DEFINE y == DeleteLibrary(x)
    <3>1. Sound(x) => IsTx(y) /\ IsConsistent(y.t)
      BY DeleteLibrarySound DEF Sound
    <3> HIDE DEF y
    <3>2. Sound(requests[r].x) => /\ IsTx(y) /\ (y.ok => IsConsistent(y.t))
                                  /\ ~TRUE => Sound(y)
      BY <3>1
    <3>3. Edits(r, y, TRUE)
      BY <2>3 DEF y
    <3> QED BY <1>1, <3>2, <3>3, CallKeepsInv
  <2> HIDE DEF x
  <2> QED BY <1>2, <2>1, <2>2, <2>3
<1> QED BY <1>3, <1>4, <1>5 DEF CallsEdit

(* OpenEdit, CallsEdit, CommitEdit and DropEdit. *)
LEMMA EditsKeepInv ==
  ASSUME IInv, NEW r \in Requests, EditsArchive(r)
  PROVE IInv' /\ (t' = t \/ OrphanPeople' = {})
<1>1. ASSUME OpenEdit(r) PROVE IInv' /\ t' = t
  <2> DEFINE x == Transaction(t)
             to == [step |-> "editing", x |-> x, dropped |-> FALSE, calls |-> 0]
  <2>1. /\ requests[r].step = "idle" /\ t.library /\ Moves(r, to)
        /\ t' = t /\ drafts' = drafts /\ history' = history
    BY <1>1 DEF OpenEdit, IsAt
  <2>2. Sound(x)
    BY <2>1, Unchanged, TransactionSound DEF TablesInv
  <2> HIDE DEF x
  <2>3. /\ to.step = "editing" /\ to.x = x /\ to.dropped = FALSE /\ to.calls = 0
        /\ to = [step |-> to.step, x |-> to.x, dropped |-> to.dropped, calls |-> to.calls]
    OBVIOUS
  <2> HIDE DEF to
  <2>4. IsEdit(to)
    <3>1. IsTx(to.x) /\ (to.x.ok => IsConsistent(to.x.t)) /\ Sound(to.x)
      BY <2>2, <2>3 DEF Sound
    <3>2. to.dropped \in BOOLEAN /\ to.calls \in Nat
      <4>1. FALSE \in BOOLEAN /\ 0 \in Nat
        OBVIOUS
      <4> QED BY <2>3, <4>1
    <3> QED BY <2>3, <3>1, <3>2 DEF IsEdit
  <2>5. IsRequest(to, drafts.lastId)
    BY <2>3, <2>4 DEF IsRequest, Steps, OnImport
  <2> QED BY <2>1, <2>3, <2>5, Unchanged, Quiet DEF Claiming
<1>2. ASSUME CommitEdit(r) PROVE IInv' /\ OrphanPeople' = {}
  <2> DEFINE q == requests[r]
             x == Collected(q.x)
  <2>1. /\ q.step = "editing" /\ Commits(r, x, q.dropped) /\ drafts' = drafts /\ history' = history
    BY <1>2 DEF CommitEdit, IsAt
  <2>2. IsEdit(q)
    BY <2>1 DEF IInv, TypeInv, IsRequest
  <2>3. x.ok => IsCleaned(x)
    BY <2>2, CleanedSound DEF IsEdit
  <2>4. requests[r].step \notin Claiming
    BY <2>1 DEF Claiming
  <2> HIDE DEF x
  <2> QED BY <2>1, <2>3, <2>4, CommitsKeepInv
<1>3. ASSUME DropEdit(r) PROVE IInv' /\ t' = t
  <2>1. /\ requests[r].step = "editing" /\ Moves(r, Idle)
        /\ t' = t /\ drafts' = drafts /\ history' = history
    BY <1>3 DEF DropEdit, IsAt
  <2>2. IsRequest(Idle, drafts.lastId) /\ Idle.step = "idle"
    BY IdleSound
  <2> QED BY <2>1, <2>2, Unchanged, Quiet DEF Claiming
<1> QED BY <1>1, <1>2, <1>3, CallsKeepInv DEF EditsArchive

(* begin_accept, and Accepting's drop: one import's claim, and nothing else. *)
LEMMA ClaimingSound ==
  ASSUME NEW d, IsStore(d), Kept(d), NEW i \in DOMAIN d.imports
  PROVE LET begun == BeginAccept(d, i)
            ended == EndAccept(d, i)
        IN /\ IsStore(begun) /\ Kept(begun) /\ begun.lastId = d.lastId
           /\ DOMAIN begun.imports = DOMAIN d.imports /\ begun.imports[i].accepting
           /\ \A j \in DOMAIN d.imports \ {i} : begun.imports[j] = d.imports[j]
           /\ IsStore(ended) /\ Kept(ended) /\ ended.lastId = d.lastId
           /\ DOMAIN ended.imports = DOMAIN d.imports /\ ~ended.imports[i].accepting
           /\ \A j \in DOMAIN d.imports \ {i} : ended.imports[j] = d.imports[j]
<1> DEFINE Is(e, b) == /\ IsStore(e) /\ Kept(e) /\ e.lastId = d.lastId
                       /\ DOMAIN e.imports = DOMAIN d.imports /\ e.imports[i].accepting = b
                       /\ \A j \in DOMAIN d.imports \ {i} : e.imports[j] = d.imports[j]
<1>1. ASSUME NEW b \in BOOLEAN PROVE Is([d EXCEPT !.imports[i].accepting = b], b)
  BY AcceptingSound
<1> HIDE DEF Is
<1>2. \A b \in BOOLEAN : Is([d EXCEPT !.imports[i].accepting = b], b)
  BY <1>1
<1>3. TRUE \in BOOLEAN /\ FALSE \in BOOLEAN
  OBVIOUS
<1>4. Is([d EXCEPT !.imports[i].accepting = TRUE], TRUE)
  BY <1>2, <1>3
<1>5. Is([d EXCEPT !.imports[i].accepting = FALSE], FALSE)
  BY <1>2, <1>3
<1>6. Is(BeginAccept(d, i), TRUE)
  BY <1>4 DEF BeginAccept
<1>7. Is(EndAccept(d, i), FALSE)
  BY <1>5 DEF EndAccept, Has
<1> DEFINE begun == BeginAccept(d, i)
           ended == EndAccept(d, i)
<1> HIDE DEF begun, ended
<1>8. Is(begun, TRUE) /\ Is(ended, FALSE)
  BY <1>6, <1>7 DEF begun, ended
<1> QED BY <1>8 DEF Is, begun, ended

(* What the invariant says of a request that may still give up its claim. *)
LEMMA ClaimMeans ==
  ASSUME IInv, NEW r \in Requests, requests[r].step \in Claiming
  PROVE LET i == requests[r].import IN
        /\ i \in 1 .. drafts.lastId
        /\ \A s \in Requests : Claims(s, i) => s = r
        /\ Has(drafts, i) => drafts.imports[i].accepting
        /\ i \notin history.discarded
        /\ requests[r].step # "committed" /\ i \in ImportIds => ~(history.published[i] > 0)
<1> DEFINE i == requests[r].import
<1>1. Claims(r, i)
  BY DEF Claims, Claiming
<1>2. i \in 1 .. drafts.lastId
  BY DEF IInv, TypeInv, IsRequest, OnImport, Claiming
<1>3. \A s \in Requests : Claims(s, i) => s = r
  BY <1>1, <1>2 DEF IInv, ClaimInv
<1>4. Has(drafts, i) => drafts.imports[i].accepting
  BY <1>1 DEF IInv, ClaimInv, Has
<1>5. i \notin history.discarded
  BY <1>1 DEF IInv, EndInv
<1>6. requests[r].step # "committed" /\ i \in ImportIds => ~(history.published[i] > 0)
  BY DEF IInv, EndInv, GivesUp, Claiming
<1> QED BY <1>2, <1>3, <1>4, <1>5, <1>6

(* begin_accept: the claim is the only one, on an import that was neither published nor *)
(* discarded. *)
LEMMA ClaimKeepsInv ==
  ASSUME IInv, NEW r \in Requests, Claim(r)
  PROVE IInv' /\ t' = t
<1> DEFINE i == requests[r].import
           to == [step |-> "filling", import |-> i, draft |-> Snapshot(drafts, i)]
<1>1. requests[r].step = "claiming" /\ t' = t /\ history' = history
  BY DEF Claim, IsAt
<1>2. i \in 1 .. drafts.lastId
  BY <1>1 DEF IInv, TypeInv, IsRequest, OnImport
<1>3. CASE ~(Editable(drafts, i) /\ drafts.imports[i].saved)
  <2>1. Moves(r, Idle) /\ drafts' = drafts
    BY <1>3 DEF Claim
  <2>2. IsRequest(Idle, drafts.lastId) /\ Idle.step = "idle"
    BY IdleSound
  <2> QED BY <1>1, <2>1, <2>2, Unchanged, Quiet DEF Claiming
<1>4. CASE Editable(drafts, i) /\ drafts.imports[i].saved
  <2>1. /\ drafts' = BeginAccept(drafts, i) /\ Moves(r, to)
        /\ i \in DOMAIN drafts.imports /\ ~drafts.imports[i].accepting
    BY <1>4 DEF Claim, Editable, Has
  <2>2. IsStore(drafts) /\ Kept(drafts) /\ drafts.lastId \in Nat
    BY Unchanged
  <2>3. /\ IsStore(drafts') /\ Kept(drafts') /\ drafts'.lastId = drafts.lastId
        /\ DOMAIN drafts'.imports = DOMAIN drafts.imports
        /\ drafts'.imports[i].accepting
        /\ \A j \in DOMAIN drafts.imports \ {i} : drafts'.imports[j] = drafts.imports[j]
    <3> DEFINE e == BeginAccept(drafts, i)
    <3>1. /\ IsStore(e) /\ Kept(e) /\ e.lastId = drafts.lastId
          /\ DOMAIN e.imports = DOMAIN drafts.imports /\ e.imports[i].accepting
          /\ \A j \in DOMAIN drafts.imports \ {i} : e.imports[j] = drafts.imports[j]
      BY <2>1, <2>2, ClaimingSound
    <3>2. drafts' = e
      BY <2>1
    <3> HIDE DEF e
    <3> QED BY <3>1, <3>2
  <2>4. IsSnapshot(Snapshot(drafts, i))
    BY <2>1, <2>2, SnapshotSound
  <2>5. to.step = "filling" /\ to.import = i /\ to.draft = Snapshot(drafts, i)
    OBVIOUS
  <2> HIDE DEF to
  <2>6. IsRequest(to, drafts'.lastId)
    BY <1>2, <2>3, <2>4, <2>5 DEF IsRequest, Steps, OnImport
  <2>7. /\ requests' = [s \in Requests |-> requests'[s]] /\ requests'[r] = to
        /\ \A s \in Requests : s # r => requests'[s] = requests[s]
        /\ \A s \in Requests : IsRequest(requests'[s], drafts'.lastId)
    BY <2>1, <2>2, <2>3, <2>6, Moved DEF IInv, TypeInv
  <2>8. TypeInv'
    BY <1>1, <2>3, <2>7 DEF IInv, TypeInv
  <2>9. \A s \in Requests : ~Claims(s, i)
    BY <2>1 DEF IInv, ClaimInv
  <2>10. /\ \A s \in Requests : s # r => \A j : Claims(s, j)' <=> Claims(s, j)
         /\ \A j : Claims(r, j)' <=> j = i
         /\ \A j : ~Claims(r, j)
    BY <1>1, <2>5, <2>7 DEF Claims
  <2>11. ClaimInv'
    <3>1. ASSUME NEW s \in Requests, NEW u \in Requests, NEW j \in 1 .. drafts'.lastId,
                 Claims(s, j)', Claims(u, j)'
          PROVE s = u
      <4>1. CASE s = r \/ u = r
        BY <2>9, <2>10, <3>1, <4>1
      <4>2. CASE s # r /\ u # r
        BY <2>3, <2>10, <3>1, <4>2 DEF IInv, ClaimInv
      <4> QED BY <4>1, <4>2
    <3>2. ASSUME NEW s \in Requests, NEW j \in DOMAIN drafts'.imports, Claims(s, j)'
          PROVE drafts'.imports[j].accepting
      <4>1. CASE j = i
        BY <2>3, <4>1
      <4>2. CASE j # i
        <5>1. j \in DOMAIN drafts.imports /\ drafts'.imports[j] = drafts.imports[j]
          BY <2>3, <4>2
        <5>2. Claims(s, j)
          BY <2>10, <3>2, <4>2
        <5> QED BY <5>1, <5>2 DEF IInv, ClaimInv
      <4> QED BY <4>1, <4>2
    <3> QED BY <3>1, <3>2 DEF ClaimInv
  <2>12. ClaimsAreGivenUp'
    <3> SUFFICES ASSUME NEW j \in DOMAIN drafts'.imports, drafts'.imports[j].accepting
                 PROVE j \in history'.cut \/ \E s \in Requests : Claims(s, j)'
      BY DEF ClaimsAreGivenUp
    <3>1. CASE j = i
      BY <2>10, <3>1
    <3>2. CASE j # i
      <4>1. j \in DOMAIN drafts.imports /\ drafts.imports[j].accepting
        BY <2>3, <3>2
      <4>2. j \in history.cut \/ \E s \in Requests : Claims(s, j)
        BY <4>1 DEF IInv, ClaimsAreGivenUp
      <4> QED BY <1>1, <2>10, <4>2
    <3> QED BY <3>1, <3>2
  <2>13. EndInv'
    <3>1. ASSUME NEW j \in ImportIds, history'.published[j] > 0
          PROVE /\ history'.published[j] = 1 /\ j \notin history'.discarded
                /\ j <= drafts'.lastId
                /\ Has(drafts', j) => drafts'.imports[j].accepting
                /\ \A s \in Requests : ~GivesUp(s, j)'
      <4>1. /\ history.published[j] = 1 /\ j \notin history.discarded
            /\ j <= drafts.lastId
            /\ Has(drafts, j) => drafts.imports[j].accepting
            /\ \A s \in Requests : ~GivesUp(s, j)
        BY <1>1, <3>1 DEF IInv, EndInv
      <4>2. j # i
        BY <2>1, <4>1 DEF Has
      <4>3. \A s \in Requests : ~GivesUp(s, j)'
        BY <2>5, <2>7, <4>1, <4>2 DEF GivesUp
      <4>4. Has(drafts', j) => drafts'.imports[j].accepting
        BY <2>3, <4>1, <4>2 DEF Has
      <4> QED BY <1>1, <2>3, <4>1, <4>3, <4>4
    <3>2. ASSUME NEW j \in history'.discarded
          PROVE /\ j \in 1 .. drafts'.lastId /\ ~Has(drafts', j)
                /\ \A s \in Requests : ~Claims(s, j)'
      <4>1. /\ j \in 1 .. drafts.lastId /\ ~Has(drafts, j)
            /\ \A s \in Requests : ~Claims(s, j)
        BY <1>1, <3>2 DEF IInv, EndInv
      <4>2. j # i
        BY <2>1, <4>1 DEF Has
      <4> QED BY <2>3, <2>10, <4>1, <4>2 DEF Has
    <3> QED BY <3>1, <3>2 DEF EndInv
  <2> QED BY <1>1, <2>8, <2>11, <2>12, <2>13 DEF IInv
<1> QED BY <1>3, <1>4

(* PendingImport::fill: the claim goes on. *)
LEMMA FillKeepsInv ==
  ASSUME IInv, NEW r \in Requests, Fill(r)
  PROVE IInv' /\ t' = t
<1> DEFINE q == requests[r]
           to == [step |-> "publishing", import |-> q.import, drafted |-> q.draft.drafted,
                  persons |-> Credited(q.draft.credits), contents |-> Filled(q.draft.contents)]
<1>1. /\ requests[r].step = "filling" /\ Moves(r, to)
      /\ t' = t /\ drafts' = drafts /\ history' = history
  BY DEF Fill, IsAt
<1>2. q.import \in 1 .. drafts.lastId /\ IsSnapshot(q.draft)
  BY <1>1 DEF IInv, TypeInv, IsRequest, OnImport
<1>3. /\ to.step = "publishing" /\ to.import = q.import /\ to.drafted = q.draft.drafted
      /\ to.persons = Credited(q.draft.credits) /\ to.contents = Filled(q.draft.contents)
  OBVIOUS
<1> HIDE DEF to
<1>4. IsFilled(to)
  <2>1. IsDrafted(to.drafted)
    BY <1>2, <1>3 DEF IsSnapshot
  <2>2. to.persons \in SUBSET Person /\ Knows(to.drafted, to.persons)
    BY <1>2, <1>3, CreditedSound DEF IsSnapshot
  <2>3. IsTables(t)
    BY Unchanged DEF TablesInv
  <2>4. AreFilled(to.drafted, to.contents)
    BY <1>2, <1>3, <2>3, FilledSound DEF IsSnapshot
  <2> QED BY <2>1, <2>2, <2>4 DEF IsFilled, AreFilled
<1>5. IsRequest(to, drafts.lastId)
  BY <1>2, <1>3, <1>4 DEF IsRequest, Steps, OnImport
<1>6. /\ requests' = [s \in Requests |-> requests'[s]] /\ requests'[r] = to
      /\ \A s \in Requests : s # r => requests'[s] = requests[s]
      /\ \A s \in Requests : IsRequest(requests'[s], drafts.lastId)
  <2>1. drafts.lastId \in Nat /\ drafts.lastId <= drafts.lastId
    BY Unchanged
  <2> QED BY <1>1, <1>5, <2>1, Moved DEF IInv, TypeInv
<1>7. TypeInv'
  BY <1>1, <1>6 DEF IInv, TypeInv
<1>8. \A s \in Requests : \A j : (Claims(s, j)' <=> Claims(s, j)) /\ (GivesUp(s, j)' <=> GivesUp(s, j))
  BY <1>1, <1>3, <1>6 DEF Claims, GivesUp
<1>9. ClaimInv'
  BY <1>1, <1>8 DEF IInv, ClaimInv
<1>10. ClaimsAreGivenUp'
  BY <1>1, <1>8 DEF IInv, ClaimsAreGivenUp
<1>11. EndInv'
  BY <1>1, <1>8 DEF IInv, EndInv
<1> QED BY <1>1, <1>7, <1>9, <1>10, <1>11 DEF IInv

(* The commit: the import is published for the first and the last time, and from here on *)
(* nothing gives up its claim, whether or not the accept goes on.                        *)
LEMMA CommitKeepsInv ==
  ASSUME IInv, NEW r \in Requests, requests[r].step = "publishing",
         NEW to, Moves(r, to), IsRequest(to, drafts.lastId), drafts' = drafts, TablesInv',
         NEW i, i = requests[r].import,
         \/ to.step = "committed" /\ to.import = i
         \/ to.step = "idle" /\ i \in history'.cut,
         history' = [published |-> history'.published, discarded |-> history'.discarded,
                     cut |-> history'.cut],
         \/ history'.published = history.published
         \/ history'.published = [history.published EXCEPT ![i] = @ + 1],
         history'.discarded = history.discarded, history.cut \subseteq history'.cut
  PROVE IInv'
<1>1. /\ i \in 1 .. drafts.lastId
      /\ \A s \in Requests : Claims(s, i) => s = r
      /\ Has(drafts, i) => drafts.imports[i].accepting
      /\ i \notin history.discarded
      /\ i \in ImportIds => ~(history.published[i] > 0)
  BY ClaimMeans DEF Claiming
<1>2. /\ requests' = [s \in Requests |-> requests'[s]] /\ requests'[r] = to
      /\ \A s \in Requests : s # r => requests'[s] = requests[s]
      /\ \A s \in Requests : IsRequest(requests'[s], drafts.lastId)
  <2>1. drafts.lastId \in Nat /\ drafts.lastId <= drafts.lastId
    BY Unchanged
  <2> QED BY <2>1, Moved DEF IInv, TypeInv
<1>3. /\ history'.published \in [ImportIds -> Nat]
      /\ \A j \in ImportIds : j # i => history'.published[j] = history.published[j]
      /\ i \in ImportIds => history.published[i] = 0 /\ history'.published[i] \in {0, 1}
  <2>1. history.published \in [ImportIds -> Nat]
    BY DEF IInv, TypeInv
  <2>2. i \in ImportIds => history.published[i] = 0
    BY <1>1, <2>1
  <2> DEFINE f == history.published
             g == history'.published
  <2>3. f \in [ImportIds -> Nat] /\ (g = f \/ g = [f EXCEPT ![i] = f[i] + 1])
    BY <2>1
  <2>4. i \in ImportIds => f[i] = 0
    BY <2>2
  <2> HIDE DEF f, g
  <2>5. /\ g \in [ImportIds -> Nat]
        /\ \A j \in ImportIds : j # i => g[j] = f[j]
        /\ i \in ImportIds => f[i] = 0 /\ g[i] \in {0, 1}
    <3>1. CASE g = f
      BY <2>3, <2>4, <3>1
    <3>2. CASE g = [f EXCEPT ![i] = f[i] + 1]
      <4>1. g = [j \in ImportIds |-> IF j = i THEN f[i] + 1 ELSE f[j]]
        BY <2>3, <3>2
      <4>2. \A j \in ImportIds : (IF j = i THEN f[i] + 1 ELSE f[j]) \in Nat
        BY <2>3, <2>4
      <4> QED BY <2>4, <4>1, <4>2
    <3> QED BY <2>3, <3>1, <3>2
  <2> QED BY <2>5 DEF f, g
<1>4. TypeInv'
  BY <1>2, <1>3 DEF IInv, TypeInv, TablesInv
<1>5. /\ \A s \in Requests : s # r => \A j : /\ Claims(s, j)' <=> Claims(s, j)
                                             /\ GivesUp(s, j)' <=> GivesUp(s, j)
      /\ \A j : Claims(r, j) <=> j = i
      /\ \A j : ~GivesUp(r, j)'
      /\ \A j : Claims(r, j)' => j = i
      /\ Claims(r, i)' \/ i \in history'.cut
  BY <1>2 DEF Claims, GivesUp
<1>6. ClaimInv'
  <2>1. \A s \in Requests : \A j : Claims(s, j)' => Claims(s, j)
    BY <1>5
  <2> QED BY <2>1 DEF IInv, ClaimInv
<1>7. ClaimsAreGivenUp'
  <2> SUFFICES ASSUME NEW j \in DOMAIN drafts.imports, drafts.imports[j].accepting
               PROVE j \in history'.cut \/ \E s \in Requests : Claims(s, j)'
    BY DEF ClaimsAreGivenUp
  <2>1. j \in history.cut \/ \E s \in Requests : Claims(s, j)
    BY DEF IInv, ClaimsAreGivenUp
  <2> QED BY <1>5, <2>1
<1>8. EndInv'
  <2>1. ASSUME NEW j \in ImportIds, history'.published[j] > 0
        PROVE /\ history'.published[j] = 1 /\ j \notin history'.discarded
              /\ j <= drafts'.lastId
              /\ Has(drafts', j) => drafts'.imports[j].accepting
              /\ \A s \in Requests : ~GivesUp(s, j)'
    <3>1. CASE j = i
      <4>1. history'.published[j] = 1
        BY <1>3, <2>1, <3>1
      <4>2. j \notin history'.discarded /\ j <= drafts'.lastId
            /\ (Has(drafts', j) => drafts'.imports[j].accepting)
        BY <1>1, <3>1, Unchanged
      <4>3. \A s \in Requests : ~GivesUp(s, j)'
        <5>1. \A s \in Requests : GivesUp(s, i) => Claims(s, i)
          BY DEF GivesUp, Claims
        <5> QED BY <1>1, <1>5, <3>1, <5>1
      <4> QED BY <4>1, <4>2, <4>3
    <3>2. CASE j # i
      <4>1. history.published[j] > 0
        BY <1>3, <2>1, <3>2
      <4>2. /\ history.published[j] = 1 /\ j \notin history.discarded
            /\ j <= drafts.lastId
            /\ Has(drafts, j) => drafts.imports[j].accepting
            /\ \A s \in Requests : ~GivesUp(s, j)
        BY <4>1 DEF IInv, EndInv
      <4> QED BY <1>3, <1>5, <3>2, <4>2
    <3> QED BY <3>1, <3>2
  <2>2. ASSUME NEW j \in history'.discarded
        PROVE /\ j \in 1 .. drafts'.lastId /\ ~Has(drafts', j)
              /\ \A s \in Requests : ~Claims(s, j)'
    <3>1. /\ j \in 1 .. drafts.lastId /\ ~Has(drafts, j)
          /\ \A s \in Requests : ~Claims(s, j)
      BY <2>2 DEF IInv, EndInv
    <3> QED BY <1>5, <3>1
  <2> QED BY <2>1, <2>2 DEF EndInv
<1> QED BY <1>4, <1>6, <1>7, <1>8 DEF IInv

(* Publish and CutOff. *)
LEMMA PublishKeepsInv ==
  ASSUME IInv, NEW r \in Requests, Publish(r) \/ CutOff(r)
  PROVE IInv' /\ requests'[r] # requests[r]
<1> DEFINE q == requests[r]
           i == q.import
           made == Publication(q)
<1>1. q.step = "publishing" /\ made.x.ok /\ drafts' = drafts
  BY DEF Publish, CutOff, IsAt
<1>2. IsFilled(q) /\ i \in 1 .. drafts.lastId
  BY <1>1 DEF IInv, TypeInv, IsRequest, OnImport
<1>3. TablesInv
  BY Unchanged
<1>4. /\ IsSettled(made.x)
      /\ made.works \in SUBSET (Nat \X Nat) /\ made.persons \in SUBSET (Nat \X Nat)
  BY <1>1, <1>2, <1>3, PublicationSound DEF TablesInv
<1> HIDE DEF made
<1>5. /\ history = [published |-> history.published, discarded |-> history.discarded,
                    cut |-> history.cut]
  BY DEF IInv, TypeInv
<1>6. CASE Publish(r)
  <2> DEFINE to == [step |-> "committed", import |-> i, works |-> made.works,
                    persons |-> made.persons, merges |-> made.x.merges]
  <2>1. t' = made.x.t /\ history' = Published(i) /\ Moves(r, to)
    BY <1>6 DEF Publish, made
  <2>2. to.step = "committed" /\ to.import = i /\ to.works = made.works
        /\ to.persons = made.persons /\ to.merges = made.x.merges
    OBVIOUS
  <2> HIDE DEF to
  <2>3. IsRequest(to, drafts.lastId)
    BY <1>2, <1>4, <2>2 DEF IsRequest, IsSettled, Steps, OnImport
  <2>4. TablesInv'
    BY <1>4, <2>1 DEF IsSettled, TablesInv
  <2>5. history' = [published |-> [history.published EXCEPT ![i] = @ + 1],
                    discarded |-> history.discarded, cut |-> history.cut]
    BY <1>5, <2>1 DEF Published
  <2>6. /\ history'.published = [history.published EXCEPT ![i] = @ + 1]
        /\ history'.discarded = history.discarded /\ history'.cut = history.cut
        /\ history' = [published |-> history'.published, discarded |-> history'.discarded,
                       cut |-> history'.cut]
    BY <2>5
  <2>7. IInv'
    BY <1>1, <2>1, <2>2, <2>3, <2>4, <2>6, CommitKeepsInv
  <2>8. requests'[r] = to
    BY <2>1 DEF Moves, IInv, TypeInv
  <2> QED BY <1>1, <2>2, <2>7, <2>8
<1>7. CASE CutOff(r)
  <2> DEFINE cut(h) == [h EXCEPT !.cut = @ \union {i}]
  <2>1. Moves(r, Idle) /\ \/ t' = made.x.t /\ history' = cut(Published(i))
                          \/ t' = t /\ history' = cut(history)
    BY <1>7 DEF CutOff, made
  <2>2. TablesInv'
    BY <1>3, <1>4, <2>1 DEF IsSettled, TablesInv
  <2>3. PICK published : /\ history' = [published |-> published, discarded |-> history.discarded,
                                        cut |-> history.cut \union {i}]
                         /\ \/ published = history.published
                            \/ published = [history.published EXCEPT ![i] = @ + 1]
    <3>1. CASE history' = cut(history)
      <4>1. history' = [published |-> history.published, discarded |-> history.discarded,
                        cut |-> history.cut \union {i}]
        BY <1>5, <3>1
      <4> QED BY <4>1
    <3>2. CASE history' = cut(Published(i))
      <4> DEFINE published == [history.published EXCEPT ![i] = @ + 1]
      <4>1. Published(i) = [published |-> published, discarded |-> history.discarded,
                            cut |-> history.cut]
        BY <1>5 DEF Published
      <4> HIDE DEF published
      <4>2. history' = [published |-> published, discarded |-> history.discarded,
                        cut |-> history.cut \union {i}]
        BY <3>2, <4>1
      <4> QED BY <4>2 DEF published
    <3> QED BY <2>1, <3>1, <3>2
  <2>4. /\ history'.published = published
        /\ history'.discarded = history.discarded /\ history'.cut = history.cut \union {i}
        /\ history' = [published |-> history'.published, discarded |-> history'.discarded,
                       cut |-> history'.cut]
    BY <2>3
  <2>5. IsRequest(Idle, drafts.lastId) /\ Idle.step = "idle"
    BY IdleSound
  <2>6. IInv'
    BY <1>1, <2>1, <2>2, <2>3, <2>4, <2>5, CommitKeepsInv
  <2>7. requests'[r] = Idle
    BY <2>1 DEF Moves, IInv, TypeInv
  <2> QED BY <1>1, <2>5, <2>6, <2>7
<1> QED BY <1>6, <1>7

(* A claim is gone: given up, before the commit; or with its import, after it. *)
LEMMA ClaimEnds ==
  ASSUME IInv, NEW r \in Requests, requests[r].step \in Claiming, Moves(r, Idle),
         t' = t, history' = history, NEW i, i = requests[r].import,
         IsStore(drafts'), Kept(drafts'), drafts'.lastId = drafts.lastId,
         DOMAIN drafts'.imports \subseteq DOMAIN drafts.imports,
         \A j \in DOMAIN drafts'.imports :
            j # i => drafts'.imports[j].accepting = drafts.imports[j].accepting,
         i \in DOMAIN drafts'.imports =>
            ~drafts'.imports[i].accepting /\ requests[r].step # "committed"
  PROVE IInv'
<1>1. /\ i \in 1 .. drafts.lastId
      /\ \A s \in Requests : Claims(s, i) => s = r
      /\ requests[r].step # "committed" /\ i \in ImportIds => ~(history.published[i] > 0)
  BY ClaimMeans
<1>2. /\ requests' = [s \in Requests |-> requests'[s]] /\ requests'[r] = Idle
      /\ \A s \in Requests : s # r => requests'[s] = requests[s]
      /\ \A s \in Requests : IsRequest(requests'[s], drafts'.lastId)
  <2>1. drafts.lastId \in Nat /\ drafts.lastId <= drafts.lastId
    BY Unchanged
  <2>2. IsRequest(Idle, drafts'.lastId)
    BY IdleSound
  <2> QED BY <2>1, <2>2, Moved DEF IInv, TypeInv
<1>3. TypeInv'
  BY <1>2 DEF IInv, TypeInv
<1>4. /\ \A s \in Requests : s # r => \A j : /\ Claims(s, j)' <=> Claims(s, j)
                                             /\ GivesUp(s, j)' <=> GivesUp(s, j)
      /\ \A j : Claims(r, j) => j = i
      /\ \A j : ~Claims(r, j)' /\ ~GivesUp(r, j)'
  <2>1. Idle.step = "idle"
    BY IdleSound
  <2> QED BY <1>2, <2>1 DEF Claims, GivesUp
<1>5. ClaimInv'
  <2>1. ASSUME NEW s \in Requests, NEW j, Claims(s, j)' PROVE Claims(s, j) /\ s # r /\ j # i
    BY <1>1, <1>4, <2>1
  <2>2. ASSUME NEW s \in Requests, NEW u \in Requests, NEW j \in 1 .. drafts'.lastId,
               Claims(s, j)', Claims(u, j)'
        PROVE s = u
    BY <2>1, <2>2 DEF IInv, ClaimInv
  <2>3. ASSUME NEW s \in Requests, NEW j \in DOMAIN drafts'.imports, Claims(s, j)'
        PROVE drafts'.imports[j].accepting
    <3>1. Claims(s, j) /\ j # i /\ j \in DOMAIN drafts.imports
      BY <2>1, <2>3
    <3>2. drafts.imports[j].accepting
      BY <3>1 DEF IInv, ClaimInv
    <3> QED BY <3>1, <3>2
  <2> QED BY <2>2, <2>3 DEF ClaimInv
<1>6. ClaimsAreGivenUp'
  <2> SUFFICES ASSUME NEW j \in DOMAIN drafts'.imports, drafts'.imports[j].accepting
               PROVE j \in history'.cut \/ \E s \in Requests : Claims(s, j)'
    BY DEF ClaimsAreGivenUp
  <2>1. j # i /\ j \in DOMAIN drafts.imports /\ drafts.imports[j].accepting
    OBVIOUS
  <2>2. j \in history.cut \/ \E s \in Requests : Claims(s, j)
    BY <2>1 DEF IInv, ClaimsAreGivenUp
  <2> QED BY <1>4, <2>1, <2>2
<1>7. EndInv'
  <2>1. ASSUME NEW j \in ImportIds, history'.published[j] > 0
        PROVE /\ history'.published[j] = 1 /\ j \notin history'.discarded
              /\ j <= drafts'.lastId
              /\ Has(drafts', j) => drafts'.imports[j].accepting
              /\ \A s \in Requests : ~GivesUp(s, j)'
    <3>1. /\ history.published[j] = 1 /\ j \notin history.discarded
          /\ j <= drafts.lastId
          /\ Has(drafts, j) => drafts.imports[j].accepting
          /\ \A s \in Requests : ~GivesUp(s, j)
      BY <2>1 DEF IInv, EndInv
    <3>2. Has(drafts', j) => j # i
      BY <1>1, <2>1 DEF Has
    <3>3. Has(drafts', j) => drafts'.imports[j].accepting
      BY <3>1, <3>2 DEF Has
    <3> QED BY <1>4, <3>1, <3>3
  <2>2. ASSUME NEW j \in history'.discarded
        PROVE /\ j \in 1 .. drafts'.lastId /\ ~Has(drafts', j)
              /\ \A s \in Requests : ~Claims(s, j)'
    <3>1. /\ j \in 1 .. drafts.lastId /\ ~Has(drafts, j)
          /\ \A s \in Requests : ~Claims(s, j)
      BY <2>2 DEF IInv, EndInv
    <3> QED BY <1>4, <3>1 DEF Has
  <2> QED BY <2>1, <2>2 DEF EndInv
<1> QED BY <1>3, <1>5, <1>6, <1>7 DEF IInv

(* Accepting's drop, and the end of an accept. *)
LEMMA EndKeepsInv ==
  ASSUME IInv, NEW r \in Requests, Release(r) \/ Finish(r)
  PROVE IInv' /\ t' = t
<1> DEFINE q == requests[r]
           i == q.import
<1>1. IsStore(drafts) /\ Kept(drafts)
  BY Unchanged
<1>2. CASE Release(r)
  <2>1. /\ q.step \in {"filling", "publishing"} /\ drafts' = EndAccept(drafts, i) /\ Moves(r, Idle)
        /\ t' = t /\ history' = history
    BY <1>2 DEF Release
  <2>2. CASE i \in DOMAIN drafts.imports
    <3> DEFINE e == EndAccept(drafts, i)
    <3>1. /\ IsStore(e) /\ Kept(e) /\ e.lastId = drafts.lastId
          /\ DOMAIN e.imports = DOMAIN drafts.imports /\ ~e.imports[i].accepting
          /\ \A j \in DOMAIN drafts.imports \ {i} : e.imports[j] = drafts.imports[j]
      BY <1>1, <2>2, ClaimingSound
    <3>2. drafts' = e
      BY <2>1
    <3> HIDE DEF e
    <3>3. /\ IsStore(drafts') /\ Kept(drafts') /\ drafts'.lastId = drafts.lastId
          /\ DOMAIN drafts'.imports \subseteq DOMAIN drafts.imports /\ ~drafts'.imports[i].accepting
          /\ \A j \in DOMAIN drafts'.imports :
                j # i => drafts'.imports[j].accepting = drafts.imports[j].accepting
      BY <3>1, <3>2
    <3>4. q.step \in Claiming /\ q.step # "committed"
      BY <2>1 DEF Claiming
    <3> QED BY <2>1, <3>3, <3>4, ClaimEnds
  <2>3. CASE i \notin DOMAIN drafts.imports
    <3>1. drafts' = drafts
      BY <2>1, <2>3 DEF EndAccept, Has
    <3>2. q.step \in Claiming
      BY <2>1 DEF Claiming
    <3>3. /\ IsStore(drafts') /\ Kept(drafts') /\ drafts'.lastId = drafts.lastId
          /\ DOMAIN drafts'.imports \subseteq DOMAIN drafts.imports /\ i \notin DOMAIN drafts'.imports
          /\ \A j \in DOMAIN drafts'.imports :
                j # i => drafts'.imports[j].accepting = drafts.imports[j].accepting
      BY <1>1, <2>3, <3>1
    <3> QED BY <2>1, <3>2, <3>3, ClaimEnds
  <2> QED BY <2>2, <2>3
<1>3. CASE Finish(r)
  <2> DEFINE e == Accept(drafts, i, q.works, q.persons)
             f == RelinkWorks(e, q.merges)
  <2>1. /\ q.step = "committed" /\ drafts' = f /\ Moves(r, Idle) /\ t' = t /\ history' = history
    BY <1>3 DEF Finish, IsAt
  <2>2. /\ q.works \in SUBSET (Nat \X Nat) /\ q.persons \in SUBSET (Nat \X Nat) /\ q.merges \in Merges
    BY <2>1 DEF IInv, TypeInv, IsRequest
  <2>3. IsWithout(e, drafts, i)
    BY <1>1, <2>2, AcceptSound
  <2> HIDE DEF e
  <2>4. /\ IsStore(e) /\ Kept(e) /\ e.lastId = drafts.lastId
        /\ DOMAIN e.imports = DOMAIN drafts.imports \ {i}
        /\ \A j \in DOMAIN e.imports : e.imports[j].accepting = drafts.imports[j].accepting
    BY <2>3 DEF IsWithout
  <2>5. IsStore(f) /\ Kept(f) /\ SameClaims(f, e) /\ f.lastId = e.lastId
    BY <2>2, <2>4, RelinkWorksSound
  <2> HIDE DEF f
  <2>6. /\ IsStore(drafts') /\ Kept(drafts') /\ drafts'.lastId = drafts.lastId
        /\ DOMAIN drafts'.imports \subseteq DOMAIN drafts.imports /\ i \notin DOMAIN drafts'.imports
        /\ \A j \in DOMAIN drafts'.imports :
              j # i => drafts'.imports[j].accepting = drafts.imports[j].accepting
    BY <2>1, <2>4, <2>5 DEF SameClaims
  <2>7. q.step \in Claiming
    BY <2>1 DEF Claiming
  <2> QED BY <2>1, <2>6, <2>7, ClaimEnds
<1> QED BY <1>2, <1>3

(* PendingImport::discard: nobody has claimed it, it was not published, and it is gone. *)
LEMMA DiscardKeepsInv ==
  ASSUME IInv, NEW i \in DOMAIN drafts.imports, DiscardImport(i)
  PROVE IInv' /\ t' = t
<1>1. /\ i \in DOMAIN drafts.imports /\ ~drafts.imports[i].accepting
      /\ drafts' = Forget(drafts, i) /\ t' = t /\ requests' = requests
      /\ history' = [history EXCEPT !.discarded = @ \union {i}]
  BY DEF DiscardImport, Editable, Has
<1>2. IsStore(drafts) /\ Kept(drafts) /\ DOMAIN drafts.imports \subseteq 1 .. drafts.lastId
  BY Unchanged
<1>3. /\ IsStore(drafts') /\ Kept(drafts') /\ drafts'.lastId = drafts.lastId
      /\ DOMAIN drafts'.imports = DOMAIN drafts.imports \ {i}
      /\ \A j \in DOMAIN drafts'.imports : drafts'.imports[j] = drafts.imports[j]
  <2> DEFINE e == Forget(drafts, i)
  <2>1. /\ IsStore(e) /\ Kept(e) /\ e.lastId = drafts.lastId
        /\ DOMAIN e.imports = DOMAIN drafts.imports \ {i}
        /\ \A j \in DOMAIN e.imports : e.imports[j] = drafts.imports[j]
    BY <1>2, ForgetSound
  <2>2. drafts' = e
    BY <1>1
  <2> HIDE DEF e
  <2> QED BY <2>1, <2>2
<1>4. /\ history' = [published |-> history'.published, discarded |-> history'.discarded,
                     cut |-> history'.cut]
      /\ history'.published = history.published /\ history'.cut = history.cut
      /\ history'.discarded = history.discarded \union {i}
  <2>1. history = [published |-> history.published, discarded |-> history.discarded,
                   cut |-> history.cut]
    BY DEF IInv, TypeInv
  <2>2. history' = [published |-> history.published, discarded |-> history.discarded \union {i},
                    cut |-> history.cut]
    BY <1>1, <2>1
  <2> QED BY <2>2
<1>5. TypeInv'
  BY <1>1, <1>3, <1>4 DEF IInv, TypeInv
<1>6. \A s \in Requests : \A j : (Claims(s, j)' <=> Claims(s, j)) /\ (GivesUp(s, j)' <=> GivesUp(s, j))
  BY <1>1 DEF Claims, GivesUp
<1>7. \A s \in Requests : ~Claims(s, i)
  BY <1>1 DEF IInv, ClaimInv
<1>8. ClaimInv'
  BY <1>3, <1>6 DEF IInv, ClaimInv
<1>9. ClaimsAreGivenUp'
  BY <1>3, <1>4, <1>6 DEF IInv, ClaimsAreGivenUp
<1>10. EndInv'
  <2>1. ASSUME NEW j \in ImportIds, history'.published[j] > 0
        PROVE /\ history'.published[j] = 1 /\ j \notin history'.discarded
              /\ j <= drafts'.lastId
              /\ Has(drafts', j) => drafts'.imports[j].accepting
              /\ \A s \in Requests : ~GivesUp(s, j)'
    <3>1. /\ history.published[j] = 1 /\ j \notin history.discarded
          /\ j <= drafts.lastId
          /\ Has(drafts, j) => drafts.imports[j].accepting
          /\ \A s \in Requests : ~GivesUp(s, j)
      BY <1>4, <2>1 DEF IInv, EndInv
    <3>2. j # i
      BY <1>1, <3>1 DEF Has
    <3> QED BY <1>3, <1>4, <1>6, <3>1, <3>2 DEF Has
  <2>2. ASSUME NEW j \in history'.discarded
        PROVE /\ j \in 1 .. drafts'.lastId /\ ~Has(drafts', j)
              /\ \A s \in Requests : ~Claims(s, j)'
    <3>1. CASE j = i
      BY <1>1, <1>2, <1>3, <1>6, <1>7, <3>1 DEF Has
    <3>2. CASE j # i
      <4>1. /\ j \in 1 .. drafts.lastId /\ ~Has(drafts, j)
            /\ \A s \in Requests : ~Claims(s, j)
        BY <1>4, <2>2, <3>2 DEF IInv, EndInv
      <4> QED BY <1>3, <1>6, <4>1 DEF Has
    <3> QED BY <3>1, <3>2
  <2> QED BY <2>1, <2>2 DEF EndInv
<1> QED BY <1>1, <1>5, <1>8, <1>9, <1>10 DEF IInv

-----------------------------------------------------------------------------
(***************************************************************************)
(* What holds of the whole                                                 *)
(***************************************************************************)

(* Nothing is claimed, published or discarded in an empty store. *)
LEMMA InitHolds ==
  ASSUME Init
  PROVE IInv
<1>1. t = Catalog /\ IsTables(t) /\ IsConsistent(t) /\ IsCollected(t)
  BY CatalogIsSound DEF Init
<1>2. /\ drafts = [imports |-> <<>>, works |-> <<>>, persons |-> <<>>, lastId |-> 0]
      /\ DOMAIN drafts.imports = {} /\ DOMAIN drafts.works = {} /\ DOMAIN drafts.persons = {}
      /\ drafts.lastId = 0
  BY DEF Init, EmptyStore
<1>3. IsStore(drafts)
  <2>1. <<>> \in [{} -> Entries] /\ <<>> \in [{} -> DraftRows] /\ <<>> \in [{} -> Names]
    OBVIOUS
  <2>2. drafts.imports = <<>> /\ drafts.works = <<>> /\ drafts.persons = <<>>
    BY <1>2
  <2> QED BY <1>2, <2>1, <2>2 DEF IsStore
<1>4. Kept(drafts)
  BY <1>2 DEF Kept, Resolves
<1>5. /\ requests = [r \in Requests |-> requests[r]]
      /\ \A r \in Requests : requests[r] = Idle
  BY DEF Init
<1>6. \A r \in Requests : IsRequest(requests[r], drafts.lastId) /\ requests[r].step = "idle"
  BY <1>5, IdleSound
<1>7. /\ history = [published |-> history.published, discarded |-> history.discarded,
                    cut |-> history.cut]
      /\ history.published = [i \in ImportIds |-> 0] /\ history.discarded = {}
  BY DEF Init
<1>8. TypeInv
  BY <1>1, <1>3, <1>4, <1>5, <1>6, <1>7 DEF TypeInv
<1>9. ClaimInv /\ ClaimsAreGivenUp
  BY <1>2, <1>6 DEF ClaimInv, ClaimsAreGivenUp, Claims
<1>10. EndInv
  BY <1>7 DEF EndInv
<1> QED BY <1>8, <1>9, <1>10 DEF IInv

(* Each step keeps the invariant; and unless an accept commits, nobody is left that nothing *)
(* credits.                                                                                 *)
LEMMA StepKeepsInv ==
  ASSUME IInv, [Next]_vars
  PROVE IInv' /\ [\/ OrphanPeople' \subseteq OrphanPeople
                  \/ \E r \in Requests : IsAt(r, "publishing") /\ requests'[r] # requests[r]]_vars
<1> DEFINE A == \/ OrphanPeople' \subseteq OrphanPeople
                \/ \E r \in Requests : IsAt(r, "publishing") /\ requests'[r] # requests[r]
<1>1. t' = t \/ OrphanPeople' = {} => A
  BY DEF OrphanPeople
<1>2. ASSUME NEW r \in Requests, Works(r) PROVE IInv' /\ A
  BY <1>1, <1>2, WorksKeepsInv
<1>3. ASSUME NEW r \in Requests, Accepts(r) PROVE IInv' /\ A
  <2>1. CASE Claim(r)
    BY <1>1, <2>1, ClaimKeepsInv
  <2>2. CASE Fill(r)
    BY <1>1, <2>2, FillKeepsInv
  <2>3. CASE Publish(r) \/ CutOff(r)
    <3>1. IsAt(r, "publishing")
      BY <2>3 DEF Publish, CutOff
    <3> QED BY <2>3, <3>1, PublishKeepsInv
  <2>4. CASE Release(r) \/ Finish(r)
    BY <1>1, <2>4, EndKeepsInv
  <2> QED BY <1>3, <2>1, <2>2, <2>3, <2>4 DEF Accepts
<1>4. ASSUME NEW r \in Requests, ChangesTables(r) PROVE IInv' /\ A
  BY <1>1, <1>4, ChangesTablesKeepInv
<1>5. ASSUME NEW r \in Requests, EditsArchive(r) PROVE IInv' /\ A
  BY <1>1, <1>5, EditsKeepInv
<1>6. ASSUME NEW i \in DOMAIN drafts.imports, DiscardImport(i) PROVE IInv' /\ A
  BY <1>1, <1>6, DiscardKeepsInv
<1>7. ASSUME UNCHANGED vars PROVE IInv' /\ A
  <2>1. t' = t /\ drafts' = drafts /\ requests' = requests /\ history' = history
    BY <1>7 DEF vars
  <2>2. A
    BY <1>1, <2>1
  <2>3. TypeInv'
    BY <2>1 DEF IInv, TypeInv
  <2>4. ClaimInv' /\ ClaimsAreGivenUp' /\ EndInv'
    BY <2>1 DEF IInv, ClaimInv, ClaimsAreGivenUp, EndInv, Claims, GivesUp
  <2> QED BY <2>2, <2>3, <2>4 DEF IInv
<1> HIDE DEF A
<1>8. IInv' /\ A
  BY <1>2, <1>3, <1>4, <1>5, <1>6, <1>7 DEF Next
<1> QED BY <1>8 DEF A

(* The invariant the safety of the pending imports rests on. *)
THEOREM InvariantHolds == Spec => []IInv
<1>1. Init => IInv
  BY InitHolds
<1>2. IInv /\ [Next]_vars => IInv'
  BY StepKeepsInv
<1> QED BY <1>1, <1>2, PTL DEF Spec

(* DraftsAreKeptWhileNeeded: whatever shares drafts and whoever accepts, discards or merges, *)
(* the store holds what is referred to and nothing else.                                     *)
THEOREM DraftsAreKept == Spec => []DraftsAreKeptWhileNeeded
<1>1. IInv => DraftsAreKeptWhileNeeded
  BY KeptIsTheProperty DEF IInv, TypeInv
<1> QED BY <1>1, InvariantHolds, PTL

(* AcceptsFindTheirPersons: no accept fails with "draft person is gone" (import.rs:257). *)
THEOREM PersonsAreFound == Spec => []AcceptsFindTheirPersons
<1>1. IInv => AcceptsFindTheirPersons
  BY FindsThem DEF IInv, TypeInv, IsRequest, AcceptsFindTheirPersons, IsAt
<1> QED BY <1>1, InvariantHolds, PTL

(* EndsOnce: an import is published at most once, and not when it was discarded. *)
THEOREM ImportsEndOnce == Spec => []EndsOnce
<1>1. IInv => EndsOnce
  <2> SUFFICES ASSUME IInv, NEW i \in ImportIds
               PROVE history.published[i] + (IF i \in history.discarded THEN 1 ELSE 0) <= 1
    BY DEF EndsOnce
  <2>1. history.published[i] \in Nat
    BY DEF IInv, TypeInv
  <2>2. history.published[i] > 0 => history.published[i] = 1 /\ i \notin history.discarded
    BY DEF IInv, EndInv
  <2> QED BY <2>1, <2>2
<1> QED BY <1>1, InvariantHolds, PTL

(* ClaimsAreGivenUp: a claimed import has an accept that works on it, unless that was cut *)
(* off at its commit.                                                                     *)
THEOREM ClaimsEnd == Spec => []ClaimsAreGivenUp
<1>1. IInv => ClaimsAreGivenUp
  BY DEF IInv
<1> QED BY <1>1, InvariantHolds, PTL

(* EveryWorkIsContained: between two transactions the tables are consistent, and have no *)
(* publication without a holding and no work without a publication.                      *)
THEOREM WorksAreContained == Spec => []EveryWorkIsContained
<1>1. IInv => EveryWorkIsContained
  BY DEF IInv, TypeInv, EveryWorkIsContained
<1> QED BY <1>1, InvariantHolds, PTL

(* OnlyAcceptsOrphanPeople: only the commit of an accept leaves someone that nothing credits. *)
THEOREM OnlyAcceptsLeaveOrphans == Spec => OnlyAcceptsOrphanPeople
<1>1. IInv /\ [Next]_vars
        => [\/ OrphanPeople' \subseteq OrphanPeople
            \/ \E r \in Requests : IsAt(r, "publishing") /\ requests'[r] # requests[r]]_vars
  BY StepKeepsInv
<1> QED BY <1>1, InvariantHolds, PTL DEF Spec, OnlyAcceptsOrphanPeople

=============================================================================
