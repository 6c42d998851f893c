----------------------------- MODULE PstatsProofs ----------------------------
(* Theorems about PstatsProcessor: the state is typed, and what is published *)
(* without a stop of the script is one whole batch.                          *)
EXTENDS PstatsProcessor, SequenceTheorems, WellFoundedInduction, TLAPS

-----------------------------------------------------------------------------
(* Numbers, and functions defined along them *)

\* A set of numbers has a least one.
LEMMA LeastNumber ==
  ASSUME NEW T, T \subseteq Nat, T # {}
  PROVE  \E i \in T : \A j \in T : i <= j
<1> DEFINE Less == OpToRel(<, Nat)
<1>1. IsWellFoundedOn(Less, Nat)
  BY NatLessThanWellFounded
<1>2. PICK i \in T : \A j \in T : ~(<<j, i>> \in Less)
  BY <1>1, WFMin
<1>3. \A j \in T : ~(j < i)
  BY <1>2, Zenon DEF OpToRel
<1> QED BY <1>3, SMT

\* What holds at 0, and at i + 1 whenever it holds at i, holds up to n.
LEMMA Induction ==
  ASSUME NEW n \in Nat, NEW T, 0 \in T, \A i \in 0..n - 1 : i \in T => i + 1 \in T
  PROVE  \A i \in 0..n : i \in T
<1> DEFINE Bad == {i \in 0..n : i \notin T}
<1> SUFFICES ASSUME Bad # {} PROVE FALSE
  OBVIOUS
<1>1. Bad \subseteq Nat
  OBVIOUS
<1>2. PICK i \in Bad : \A j \in Bad : i <= j
  <2> HIDE DEF Bad
  <2> QED BY <1>1, LeastNumber
<1>3. i \in 0..n /\ i # 0 /\ i - 1 \in 0..n - 1
  OBVIOUS
<1>4. i - 1 \in T
  BY <1>2, <1>3
<1>5. (i - 1) + 1 \in T
  BY <1>3, <1>4
<1> QED BY <1>3, <1>5

\* f follows the steps from start.
Along(f, start, step, n) == f[0] = start /\ \A i \in 1..n : f[i] = step[i][f[i - 1]]

\* Steps that can be taken from every value lead along 1..n.
LEMMA Recursion ==
  ASSUME NEW n \in Nat, NEW S, NEW start \in S, NEW step \in [1..n -> [S -> S]]
  PROVE  \E f \in [0..n -> S] : Along(f, start, step, n)
<1> DEFINE
    Till(m, f) == /\ f \in [0..n -> S] /\ f[0] = start
                  /\ \A i \in 1..m : f[i] = step[i][f[i - 1]]
    T == {m \in 0..n : \E f \in [0..n -> S] : Till(m, f)}
<1>1. 0 \in T
  <2> DEFINE f == [i \in 0..n |-> start]
  <2>1. f \in [0..n -> S] /\ f[0] = start
    OBVIOUS
  <2>2. Till(0, f)
    BY <2>1
  <2>3. 0 \in 0..n
    OBVIOUS
  <2> QED BY <2>1, <2>2, <2>3
<1>2. ASSUME NEW m \in 0..n - 1, m \in T PROVE m + 1 \in T
  <2>1. PICK f \in [0..n -> S] : Till(m, f)
    BY <1>2
  <2> DEFINE g == [f EXCEPT ![m + 1] = step[m + 1][f[m]]]
  <2>2. f[m] \in S /\ step[m + 1][f[m]] \in S
    OBVIOUS
  <2>3. g \in [0..n -> S] /\ g[0] = start /\ g[m + 1] = step[m + 1][f[m]]
    BY <2>1, <2>2
  <2>4. \A i \in 0..m : g[i] = f[i]
    BY <2>1
  <2>5. ASSUME NEW i \in 1..m + 1 PROVE g[i] = step[i][g[i - 1]]
    <3>1. CASE i = m + 1
      BY <3>1, <2>3, <2>4
    <3>2. CASE i # m + 1
      BY <3>2, <2>1, <2>4
    <3> QED BY <3>1, <3>2
  <2>6. Till(m + 1, g)
    BY <2>3, <2>5
  <2>7. m + 1 \in 0..n
    OBVIOUS
  <2> QED BY <2>3, <2>6, <2>7
<1>3. n \in T
  <2> HIDE DEF T
  <2>1. \A i \in 0..n : i \in T
    BY <1>1, <1>2, Induction
  <2> QED BY <2>1
<1> QED BY <1>3 DEF Along

-----------------------------------------------------------------------------
(* The order of the lines *)

\* A position is found.
LEMMA Found ==
  ASSUME NEW seq, NEW e \in ToSet(seq)
  PROVE  Index(seq, e) \in DOMAIN seq /\ seq[Index(seq, e)] = e
<1>1. \E i \in DOMAIN seq : seq[i] = e
  BY DEF ToSet
<1> QED BY <1>1 DEF Index

\* Positions are numbers, and an element has one.
LEMMA Places ==
  /\ \A f \in ToSet(Family) : Index(Family, f) \in Nat
  /\ \A f, g \in ToSet(Family) : Index(Family, f) = Index(Family, g) => f = g
  /\ \A s \in ToSet(Source) : Index(Source, s) \in Nat
  /\ \A s, t \in ToSet(Source) : Index(Source, s) = Index(Source, t) => s = t
<1>1. DOMAIN Family \subseteq Nat /\ DOMAIN Source \subseteq Nat
  BY ConstantsOK, LenProperties DEF ConstantsOK
<1> QED BY <1>1, Found

\* sort has a strict order of the samples of a batch.
LEMMA StrictOrder ==
  /\ \A x, y, z \in Samples : Before(x, y) /\ Before(y, z) => Before(x, z)
  /\ \A x, y \in Samples : Before(x, y) => ~Before(y, x)
  /\ \A x, y \in Samples : x.batch = y.batch /\ x # y => Before(x, y) \/ Before(y, x)
<1>1. \A x \in Samples : x.family \in ToSet(Family) /\ x.source \in ToSet(Source)
  BY DEF Samples
<1>2. \A x, y \in Samples :
        x.family = y.family /\ x.source = y.source /\ x.batch = y.batch => x = y
  BY DEF Samples
<1> QED BY <1>1, <1>2, Places DEF Before

-----------------------------------------------------------------------------
(* sort *)

Sorted(seq) == \A i, j \in DOMAIN seq : i < j => Before(seq[i], seq[j])

\* A line is inserted at a place: none before it comes after the line, the one
\* there does.
LEMMA Inserted ==
  ASSUME NEW seq \in Seq(Samples), NEW x \in Samples
  PROVE  /\ Insert(x)[seq] \in Seq(Samples)
         /\ \E p \in 1..Len(seq) + 1 :
              /\ Len(Insert(x)[seq]) = Len(seq) + 1
              /\ \A i \in 1..Len(seq) + 1 :
                   Insert(x)[seq][i] =
                     IF i < p THEN seq[i] ELSE IF i = p THEN x ELSE seq[i - 1]
              /\ \A i \in 1..p - 1 : ~Before(x, seq[i])
              /\ p <= Len(seq) => Before(x, seq[p])
<1> DEFINE Later == {i \in DOMAIN seq : Before(x, seq[i])} \cup {Len(seq) + 1}
           p     == Min(Later)
<1>1. Insert(x)[seq] = InsertAt(seq, p, x)
  BY DEF Insert
<1>2. Len(seq) \in Nat /\ DOMAIN seq = 1..Len(seq) /\ Later \subseteq 1..Len(seq) + 1
  BY LenProperties
<1>3. p \in Later /\ \A j \in Later : p <= j
  <2>1. Later \subseteq Nat /\ Later # {}
    BY <1>2
  <2> HIDE DEF Later
  <2>2. \E i \in Later : \A j \in Later : i <= j
    BY <2>1, LeastNumber
  <2> QED BY <2>2 DEF Min
<1>4. p \in 1..Len(seq) + 1
  BY <1>2, <1>3
<1>5. ASSUME NEW i \in 1..p - 1 PROVE ~Before(x, seq[i])
  <2>1. i \in DOMAIN seq /\ ~(p <= i)
    BY <1>2, <1>4
  <2>2. i \notin Later
    BY <1>3, <2>1
  <2> QED BY <2>1, <2>2
<1>6. p <= Len(seq) => Before(x, seq[p])
  BY <1>2, <1>3
<1> HIDE DEF p
<1> DEFINE front == SubSeq(seq, 1, p - 1)
           back  == SubSeq(seq, p, Len(seq))
<1>7. /\ front \in Seq(Samples) /\ Len(front) = p - 1
      /\ \A i \in 1..p - 1 : front[i] = seq[i]
  BY <1>2, <1>4, SubSeqProperties, ElementOfSeq
<1>8. /\ back \in Seq(Samples) /\ Len(back) = Len(seq) - p + 1
      /\ \A i \in 1..Len(seq) - p + 1 : back[i] = seq[p + i - 1]
  <2>1. \A i \in p..Len(seq) : seq[i] \in Samples
    BY <1>4, <1>2, ElementOfSeq
  <2> QED BY <2>1, <1>2, <1>4, SubSeqProperties
<1> HIDE DEF front, back
<1>9. /\ front \o <<x>> \in Seq(Samples) /\ Len(front \o <<x>>) = p
      /\ \A i \in 1..p : (front \o <<x>>)[i] = IF i < p THEN seq[i] ELSE x
  BY <1>4, <1>7
<1> DEFINE start == front \o <<x>>
<1> HIDE DEF start
<1> DEFINE new == start \o back
<1>10. /\ new \in Seq(Samples) /\ Len(new) = Len(seq) + 1
       /\ \A i \in 1..Len(seq) + 1 :
            new[i] = IF i < p THEN seq[i] ELSE IF i = p THEN x ELSE seq[i - 1]
  <2>1. /\ start \in Seq(Samples) /\ Len(start) = p
        /\ \A i \in 1..p : start[i] = IF i < p THEN seq[i] ELSE x
    BY <1>9 DEF start
  <2>2. back \in Seq(Samples) /\ Len(start) + Len(back) = Len(seq) + 1
    BY <1>2, <1>4, <1>8, <2>1
  <2>3. /\ new \in Seq(Samples) /\ Len(new) = Len(start) + Len(back)
        /\ \A i \in 1..Len(start) + Len(back) :
             new[i] = IF i <= Len(start) THEN start[i] ELSE back[i - Len(start)]
    BY <2>1, <2>2, ConcatProperties
  <2> HIDE DEF new
  <2>4. ASSUME NEW i \in 1..Len(seq) + 1
        PROVE  new[i] = IF i <= p THEN start[i] ELSE back[i - p]
    BY <2>1, <2>2, <2>3
  <2>5. ASSUME NEW i \in 1..Len(seq) + 1
        PROVE  new[i] = IF i < p THEN seq[i] ELSE IF i = p THEN x ELSE seq[i - 1]
    <3>1. CASE i <= p
      <4>1. i \in 1..p /\ new[i] = start[i]
        BY <3>1, <2>4, <1>2, <1>4
      <4> QED BY <4>1, <2>1, <1>2, <1>4
    <3>2. CASE i > p
      <4>1. i - p \in 1..Len(seq) - p + 1 /\ p + (i - p) - 1 = i - 1
        BY <3>2, <1>2, <1>4
      <4>2. new[i] = back[i - p]
        BY <3>2, <2>4, <1>2, <1>4
      <4> QED BY <3>2, <4>1, <4>2, <1>8, <1>4
    <3>3. i <= p \/ i > p
      BY <1>2, <1>4
    <3> QED BY <3>1, <3>2, <3>3
  <2> QED BY <2>2, <2>3, <2>5
<1>11. InsertAt(seq, p, x) = new
  BY DEF InsertAt, start, front, back
<1> HIDE DEF new
<1> QED BY <1>1, <1>4, <1>5, <1>6, <1>10, <1>11

\* A line inserted into a sorted list that lacks it leaves the list sorted.
LEMMA InsertedInOrder ==
  ASSUME NEW seq \in Seq(Samples), NEW x \in Samples, Sorted(seq), x \notin ToSet(seq),
         \A y \in ToSet(seq) : y.batch = x.batch
  PROVE  Sorted(Insert(x)[seq]) /\ ToSet(Insert(x)[seq]) = ToSet(seq) \cup {x}
<1> DEFINE new == Insert(x)[seq]
<1>1. PICK p \in 1..Len(seq) + 1 :
        /\ Len(new) = Len(seq) + 1
        /\ \A i \in 1..Len(seq) + 1 :
             new[i] = IF i < p THEN seq[i] ELSE IF i = p THEN x ELSE seq[i - 1]
        /\ \A i \in 1..p - 1 : ~Before(x, seq[i])
        /\ p <= Len(seq) => Before(x, seq[p])
  BY Inserted
<1>2. new \in Seq(Samples)
  BY Inserted
<1>3. Len(seq) \in Nat /\ DOMAIN seq = 1..Len(seq) /\ DOMAIN new = 1..Len(seq) + 1
  BY <1>1, <1>2, LenProperties
<1>4. \A i \in 1..Len(seq) : seq[i] \in Samples /\ seq[i] \in ToSet(seq) /\ seq[i] # x
  BY <1>3, ElementOfSeq DEF ToSet
<1> HIDE DEF new
<1>5. \A i \in 1..Len(seq) : i < p => Before(seq[i], x)
  BY <1>1, <1>3, <1>4, StrictOrder
<1>6. \A i \in 1..Len(seq) : i >= p => Before(x, seq[i])
  <2>1. ASSUME NEW i \in 1..Len(seq), i > p PROVE Before(seq[p], seq[i])
    BY <2>1, <1>3 DEF Sorted
  <2> QED BY <2>1, <1>1, <1>3, <1>4, StrictOrder
<1>7. ASSUME NEW i \in DOMAIN new, NEW j \in DOMAIN new, i < j PROVE Before(new[i], new[j])
  <2>1. CASE j < p
    BY <2>1, <1>1, <1>3, <1>7 DEF Sorted
  <2>2. CASE j = p
    BY <2>2, <1>1, <1>3, <1>5, <1>7
  <2>3. CASE i < p /\ j > p
    BY <2>3, <1>1, <1>3, <1>7 DEF Sorted
  <2>4. CASE i = p
    BY <2>4, <1>1, <1>3, <1>6, <1>7
  <2>5. CASE i > p
    BY <2>5, <1>1, <1>3, <1>7 DEF Sorted
  <2> QED BY <2>1, <2>2, <2>3, <2>4, <2>5, <1>1, <1>3, <1>7
<1>8. Sorted(new)
  BY <1>7 DEF Sorted
<1>9. \A i \in DOMAIN new : new[i] \in ToSet(seq) \cup {x}
  BY <1>1, <1>3, <1>4
<1>10. ASSUME NEW i \in DOMAIN seq PROVE \E j \in DOMAIN new : new[j] = seq[i]
  <2>1. CASE i < p
    BY <2>1, <1>1, <1>3
  <2>2. CASE i >= p
    <3>1. i + 1 \in DOMAIN new /\ new[i + 1] = seq[i]
      BY <2>2, <1>1, <1>3
    <3> QED BY <3>1
  <2> QED BY <2>1, <2>2, <1>3
<1>11. \E j \in DOMAIN new : new[j] = x
  BY <1>1, <1>3
<1>12. ToSet(new) = ToSet(seq) \cup {x}
  BY <1>9, <1>10, <1>11 DEF ToSet
<1> QED BY <1>8, <1>12 DEF new

\* sort inserts line after line.
LEMMA SortSteps ==
  ASSUME NEW seq \in Seq(Samples)
  PROVE  \E sorted \in [0..Len(seq) -> Seq(Samples)] :
           /\ sorted[0] = <<>> /\ Sort(seq) = sorted[Len(seq)]
           /\ \A i \in 1..Len(seq) : sorted[i] = Insert(seq[i])[sorted[i - 1]]
<1> DEFINE
    n == Len(seq)
    step == [i \in 1..n |-> Insert(seq[i])]
    Is(f) == f = [i \in 0..n |-> IF i = 0 THEN <<>> ELSE Insert(seq[i])[f[i - 1]]]
<1>1. n \in Nat /\ \A i \in 1..n : seq[i] \in Samples
  BY LenProperties, ElementOfSeq
<1>2. \A i \in 1..n : Insert(seq[i]) \in [Seq(Samples) -> Seq(Samples)]
  <2>1. ASSUME NEW x \in Samples PROVE Insert(x) \in [Seq(Samples) -> Seq(Samples)]
    <3>1. \A s \in Seq(Samples) : Insert(x)[s] \in Seq(Samples)
      BY Inserted
    <3>2. Insert(x) = [s \in Seq(Samples) |-> Insert(x)[s]]
      BY DEF Insert
    <3> QED BY <3>1, <3>2
  <2> QED BY <1>1, <2>1
<1>3. step \in [1..n -> [Seq(Samples) -> Seq(Samples)]]
  BY <1>2
<1>4. PICK f \in [0..n -> Seq(Samples)] :
        f[0] = <<>> /\ \A i \in 1..n : f[i] = step[i][f[i - 1]]
  <2> DEFINE S == Seq(Samples)
             none == <<>>
  <2>1. n \in Nat /\ none \in S /\ step \in [1..n -> [S -> S]]
    BY <1>1, <1>3
  <2> HIDE DEF n, step, S, none
  <2>2. \E f \in [0..n -> S] : Along(f, none, step, n)
    BY <2>1, Recursion
  <2> QED BY <2>2 DEF Along, S, none
<1>5. Is(f)
  <2>1. \A i \in 1..n : f[i] = Insert(seq[i])[f[i - 1]]
    BY <1>4
  <2> HIDE DEF n, step
  <2>2. \A i \in 0..n : f[i] = IF i = 0 THEN <<>> ELSE Insert(seq[i])[f[i - 1]]
    BY <1>1, <1>4, <2>1
  <2> QED BY <1>4, <2>2
<1> DEFINE sorted == CHOOSE g : Is(g)
<1>6. Is(sorted)
  <2> HIDE DEF Is
  <2> QED BY <1>5
<1>7. Sort(seq) = sorted[n]
  BY DEF Sort
<1> HIDE DEF sorted
<1>8. sorted[0] = <<>> /\ \A i \in 1..n : sorted[i] = Insert(seq[i])[sorted[i - 1]]
  BY <1>1, <1>6
<1> DEFINE T == {i \in 0..n : sorted[i] \in Seq(Samples)}
<1>9. \A i \in 0..n : i \in T
  <2>1. 0 \in T
    <3>1. sorted[0] \in Seq(Samples) /\ 0 \in 0..n
      BY <1>1, <1>8
    <3> QED BY <3>1
  <2>2. ASSUME NEW i \in 0..n - 1, i \in T PROVE i + 1 \in T
    <3>1. i + 1 \in 1..n /\ sorted[i + 1] = Insert(seq[i + 1])[sorted[i]]
      BY <1>1, <1>8
    <3> QED BY <1>2, <2>2, <3>1, <1>1
  <2> HIDE DEF T
  <2> QED BY <1>1, <2>1, <2>2, Induction
<1>10. sorted \in [0..n -> Seq(Samples)]
  BY <1>6, <1>9
<1> QED BY <1>7, <1>8, <1>10

LEMMA SortType == \A seq \in Seq(Samples) : Sort(seq) \in Seq(Samples)
<1> SUFFICES ASSUME NEW seq \in Seq(Samples) PROVE Sort(seq) \in Seq(Samples)
  OBVIOUS
<1>1. Len(seq) \in 0..Len(seq)
  BY LenProperties
<1> QED BY <1>1, SortSteps

\* The samples of a batch are sorted, none is lost and none is added.
LEMMA SortSorts ==
  ASSUME NEW seq \in Seq(Samples), IsInjective(seq),
         \A x, y \in ToSet(seq) : x.batch = y.batch
  PROVE  Sorted(Sort(seq)) /\ ToSet(Sort(seq)) = ToSet(seq)
<1>1. PICK sorted \in [0..Len(seq) -> Seq(Samples)] :
        /\ sorted[0] = <<>> /\ Sort(seq) = sorted[Len(seq)]
        /\ \A i \in 1..Len(seq) : sorted[i] = Insert(seq[i])[sorted[i - 1]]
  BY SortSteps
<1>2. /\ Len(seq) \in Nat /\ DOMAIN seq = 1..Len(seq)
      /\ \A i \in 1..Len(seq) : seq[i] \in Samples
  BY LenProperties, ElementOfSeq
<1> DEFINE T == {i \in 0..Len(seq) :
                   Sorted(sorted[i]) /\ ToSet(sorted[i]) = {seq[k] : k \in 1..i}}
<1>3. 0 \in T
  <2>1. 0 \in 0..Len(seq) /\ 1..0 = {} /\ DOMAIN sorted[0] = {}
    BY <1>1, <1>2
  <2> QED BY <2>1 DEF Sorted, ToSet
<1>4. ASSUME NEW i \in 0..Len(seq) - 1, i \in T PROVE i + 1 \in T
  <2>1. i + 1 \in 1..Len(seq) /\ i \in 0..Len(seq) /\ i + 1 \in 0..Len(seq)
    BY <1>2
  <2>2. sorted[i + 1] = Insert(seq[i + 1])[sorted[i]]
    BY <1>1, <2>1
  <2>3. sorted[i] \in Seq(Samples) /\ seq[i + 1] \in Samples
    BY <1>1, <1>2, <2>1
  <2>9. Sorted(sorted[i]) /\ ToSet(sorted[i]) = {seq[k] : k \in 1..i}
    BY <1>4
  <2>4. seq[i + 1] \notin ToSet(sorted[i])
    <3>1. \A k \in 1..i : k \in DOMAIN seq /\ i + 1 \in DOMAIN seq /\ k # i + 1
      BY <1>2, <2>1
    <3> QED BY <2>9, <3>1 DEF IsInjective
  <2>5. \A y \in ToSet(sorted[i]) : y.batch = seq[i + 1].batch
    <3>1. \A k \in 1..i : seq[k] \in ToSet(seq)
      BY <1>2, <2>1 DEF ToSet
    <3>2. seq[i + 1] \in ToSet(seq)
      BY <1>2, <2>1 DEF ToSet
    <3> QED BY <2>9, <3>1, <3>2
  <2>6. /\ Sorted(sorted[i + 1])
        /\ ToSet(sorted[i + 1]) = ToSet(sorted[i]) \cup {seq[i + 1]}
    BY <1>4, <2>2, <2>3, <2>4, <2>5, InsertedInOrder
  <2>7. 1..i + 1 = (1..i) \cup {i + 1}
    BY <2>1
  <2>8. {seq[k] : k \in 1..i + 1} = {seq[k] : k \in 1..i} \cup {seq[i + 1]}
    BY <2>7
  <2> QED BY <1>4, <2>1, <2>6, <2>8
<1>5. Len(seq) \in T
  <2> HIDE DEF T
  <2>1. \A i \in 0..Len(seq) : i \in T
    BY <1>2, <1>3, <1>4, Induction
  <2> QED BY <1>2, <2>1
<1> QED BY <1>1, <1>2, <1>5 DEF ToSet

-----------------------------------------------------------------------------
(* The text of a batch *)

InOrder(text) == \A i, j \in DOMAIN text : i < j => Ahead(text[i], text[j])

\* Which entries are ahead of which.
LEMMA AheadOf ==
  /\ \A x, y \in Samples : Before(x, y) => Ahead(x, y)
  /\ \A f \in Known, x \in Samples :
       Index(Family, f) <= Index(Family, x.family) => Ahead(Comment(f), x)
  /\ \A x \in Samples, f \in Known :
       Index(Family, x.family) < Index(Family, f) => Ahead(x, Comment(f))
  /\ \A f, g \in Known : Index(Family, f) < Index(Family, g) => Ahead(Comment(f), Comment(g))
<1>1. \A x \in Samples :
        /\ FamilyOf(x) = x.family /\ "source" \in DOMAIN x
        /\ x.family \in ToSet(Family) /\ x.source \in ToSet(Source)
  BY DEF Samples, FamilyOf
<1>2. \A f : FamilyOf(Comment(f)) = f /\ "source" \notin DOMAIN Comment(f)
  BY DEF FamilyOf, Comment
<1>3. Known \subseteq ToSet(Family)
  BY ConstantsOK DEF ConstantsOK
<1> QED BY <1>1, <1>2, <1>3, Places DEF Ahead, Before

\* An entry behind all others is appended in order.
LEMMA Appended ==
  ASSUME NEW text \in Seq(Entries), NEW e \in Entries, InOrder(text),
         \A x \in ToSet(text) : Ahead(x, e)
  PROVE  /\ Append(text, e) \in Seq(Entries) /\ InOrder(Append(text, e))
         /\ ToSet(Append(text, e)) = ToSet(text) \cup {e}
<1> DEFINE new == Append(text, e)
<1>1. /\ new \in Seq(Entries) /\ Len(new) = Len(text) + 1 /\ Len(text) \in Nat
      /\ DOMAIN text = 1..Len(text) /\ DOMAIN new = 1..Len(text) + 1
      /\ new[Len(text) + 1] = e /\ \A i \in 1..Len(text) : new[i] = text[i]
  BY LenProperties
<1>2. \A i \in 1..Len(text) : text[i] \in ToSet(text)
  BY <1>1 DEF ToSet
<1> HIDE DEF new
<1>3. ASSUME NEW i \in DOMAIN new, NEW j \in DOMAIN new, i < j PROVE Ahead(new[i], new[j])
  <2>1. CASE j = Len(text) + 1
    BY <2>1, <1>1, <1>2, <1>3
  <2>2. CASE j \in 1..Len(text)
    BY <2>2, <1>1, <1>3 DEF InOrder
  <2> QED BY <2>1, <2>2, <1>1
<1>4. ToSet(new) = ToSet(text) \cup {e}
  <2>1. \A i \in DOMAIN new : new[i] \in ToSet(text) \cup {e}
    BY <1>1, <1>2
  <2>2. \A i \in DOMAIN text : \E j \in DOMAIN new : new[j] = text[i]
    BY <1>1
  <2>3. \E j \in DOMAIN new : new[j] = e
    BY <1>1
  <2> QED BY <2>1, <2>2, <2>3 DEF ToSet
<1> QED BY <1>1, <1>3, <1>4 DEF new, InOrder

\* The text shows the samples of set, a comment for each of their families, and
\* the last family is the one that counts as the one before.
Shows(text, set) ==
  /\ ToSet(text.output) = set \cup {Comment(x.family) : x \in set}
  /\ InOrder(text.output)
  /\ text.prev = None => set = {}
  /\ text.prev # None =>
       /\ \E x \in set : x.family = text.prev
       /\ \A x \in set : Index(Family, x.family) <= Index(Family, text.prev)

\* A turn of the loop keeps the text typed.
LEMMA AddType ==
  ASSUME NEW x \in Samples, NEW text \in Texts
  PROVE  Add(x)[text] \in Texts
<1>1. /\ x \in Entries /\ text.output \in Seq(Entries) /\ text.prev \in Known \cup {None}
      /\ \A f \in Known : Comment(f) \in Entries
  BY DEF Entries, Texts, Comment
<1>2. CASE x.family = text.prev
  <2>1. Add(x)[text] = [text EXCEPT !.output = Append(text.output, x)]
    BY <1>2 DEF Add
  <2>2. Append(text.output, x) \in Seq(Entries)
    BY <1>1
  <2> QED BY <2>1, <2>2 DEF Texts
<1>3. CASE x.family # text.prev /\ x.family \in Known
  <2>1. Add(x)[text] = [output |-> text.output \o <<Comment(x.family), x>>, prev |-> x.family]
    BY <1>3 DEF Add
  <2>2. text.output \o <<Comment(x.family), x>> \in Seq(Entries)
    BY <1>1, <1>3
  <2> QED BY <1>3, <2>1, <2>2 DEF Texts
<1>4. CASE x.family # text.prev /\ x.family \notin Known
  BY <1>4 DEF Add
<1> QED BY <1>2, <1>3, <1>4

\* A turn of the loop shows the sample that comes next when its family is known.
LEMMA AddShows ==
  ASSUME NEW x \in Samples, NEW text \in Texts, NEW set \in SUBSET Samples,
         \A y \in set : y.family \in Known /\ Before(y, x), Shows(text, set)
  PROVE  Shows(Add(x)[text], IF x.family \in Known THEN set \cup {x} ELSE set)
<1> DEFINE out == text.output
           c   == Comment(x.family)
<1>1. /\ x \in Entries /\ out \in Seq(Entries) /\ text.prev \in Known \cup {None}
      /\ \A f \in Known : Comment(f) \in Entries
      /\ x.family \in ToSet(Family) /\ Known \subseteq ToSet(Family)
      /\ \A y \in set : y \in Samples
  BY ConstantsOK DEF Entries, Texts, Comment, Samples, ConstantsOK
<1>2. \A y \in set : Index(Family, y.family) <= Index(Family, x.family)
  BY <1>1, Places DEF Before
<1>3. \A y \in ToSet(out) : Ahead(y, x)
  <2>1. \A y \in set : Ahead(y, x) /\ Ahead(Comment(y.family), x)
    BY <1>1, <1>2, AheadOf
  <2> QED BY <2>1 DEF Shows
<1>4. CASE x.family = text.prev
  <2>1. x.family \in Known /\ text.prev # None
    BY <1>1, <1>4, NoneIsNoFamily
  <2>2. Add(x)[text] = [text EXCEPT !.output = Append(out, x)]
    BY <1>4 DEF Add
  <2>3. Add(x)[text].output = Append(out, x) /\ Add(x)[text].prev = text.prev
    BY <2>2 DEF Texts
  <2>4. InOrder(Append(out, x)) /\ ToSet(Append(out, x)) = ToSet(out) \cup {x}
    BY <1>1, <1>3, Appended DEF Shows
  <2>5. PICK y \in set : y.family = x.family
    BY <1>4, <2>1 DEF Shows
  <2>6. ToSet(Append(out, x)) = (set \cup {x}) \cup {Comment(z.family) : z \in set \cup {x}}
    BY <2>4, <2>5 DEF Shows
  <2>7. \A z \in set \cup {x} : Index(Family, z.family) <= Index(Family, text.prev)
    BY <1>1, <1>2, <1>4, Places
  <2> QED BY <1>4, <2>1, <2>3, <2>4, <2>6, <2>7 DEF Shows
<1>5. CASE x.family # text.prev /\ x.family \in Known
  <2>1. Add(x)[text] = [output |-> out \o <<c, x>>, prev |-> x.family]
    BY <1>5 DEF Add
  <2>2. out \o <<c, x>> = Append(Append(out, c), x)
    BY <1>1, <1>5
  <2>3. \A y \in set : Index(Family, y.family) < Index(Family, x.family)
    <3>1. CASE text.prev = None
      BY <3>1 DEF Shows
    <3>2. CASE text.prev # None
      <4>1. PICK z \in set : z.family = text.prev
        BY <3>2 DEF Shows
      <4>2. Index(Family, text.prev) <= Index(Family, x.family)
        BY <1>2, <4>1
      <4>3. Index(Family, text.prev) # Index(Family, x.family)
        BY <1>1, <1>5, <3>2, Places
      <4>4. \A y \in set : y.family \in ToSet(Family)
        BY <1>1
      <4> QED BY <1>1, <3>2, <4>2, <4>3, <4>4, Places DEF Shows
    <3> QED BY <3>1, <3>2
  <2>4. \A y \in ToSet(out) : Ahead(y, c)
    <3>1. \A y \in set : Ahead(y, c) /\ Ahead(Comment(y.family), c)
      BY <1>1, <1>5, <2>3, AheadOf
    <3> QED BY <3>1 DEF Shows
  <2>5. /\ Append(out, c) \in Seq(Entries) /\ InOrder(Append(out, c))
        /\ ToSet(Append(out, c)) = ToSet(out) \cup {c}
    BY <1>1, <1>5, <2>4, Appended DEF Shows
  <2>6. Ahead(c, x)
    BY <1>1, <1>5, Places, AheadOf
  <2> DEFINE new == Append(Append(out, c), x)
  <2>7. InOrder(new) /\ ToSet(new) = ToSet(out) \cup {c, x}
    <3>1. \A y \in ToSet(Append(out, c)) : Ahead(y, x)
      BY <1>3, <2>5, <2>6
    <3>2. InOrder(new) /\ ToSet(new) = ToSet(Append(out, c)) \cup {x}
      BY <1>1, <2>5, <3>1, Appended
    <3> QED BY <2>5, <3>2
  <2>8. Add(x)[text].output = new /\ Add(x)[text].prev = x.family
    BY <2>1, <2>2
  <2> HIDE DEF new
  <2>9. ToSet(new) = (set \cup {x}) \cup {Comment(z.family) : z \in set \cup {x}}
    BY <2>7 DEF Shows
  <2>10. \A z \in set \cup {x} : Index(Family, z.family) <= Index(Family, x.family)
    BY <1>1, <1>2, Places
  <2>11. x.family # None
    BY <1>1, NoneIsNoFamily
  <2> QED BY <1>5, <2>7, <2>8, <2>9, <2>10, <2>11 DEF Shows
<1>6. CASE x.family # text.prev /\ x.family \notin Known
  BY <1>6 DEF Add
<1> QED BY <1>4, <1>5, <1>6

\* The loop goes line after line.
LEMMA AddSteps ==
  ASSUME NEW text \in Texts, NEW seq \in Seq(Samples)
  PROVE  \E acc \in [0..Len(seq) -> Texts] :
           /\ acc[0] = text /\ AddAll(text, seq) = acc[Len(seq)]
           /\ \A i \in 1..Len(seq) : acc[i] = Add(seq[i])[acc[i - 1]]
<1> DEFINE
    n == Len(seq)
    step == [i \in 1..n |-> Add(seq[i])]
    Is(f) == f = [i \in 0..n |-> IF i = 0 THEN text ELSE Add(seq[i])[f[i - 1]]]
<1>1. n \in Nat /\ \A i \in 1..n : seq[i] \in Samples
  BY LenProperties, ElementOfSeq
<1>2. \A i \in 1..n : Add(seq[i]) \in [Texts -> Texts]
  <2>1. ASSUME NEW x \in Samples PROVE Add(x) \in [Texts -> Texts]
    <3>1. \A t \in Texts : Add(x)[t] \in Texts
      BY AddType
    <3>2. Add(x) = [t \in Texts |-> Add(x)[t]]
      BY DEF Add
    <3> QED BY <3>1, <3>2
  <2> QED BY <1>1, <2>1
<1>3. step \in [1..n -> [Texts -> Texts]]
  BY <1>2
<1>4. PICK f \in [0..n -> Texts] : Along(f, text, step, n)
  <2> HIDE DEF n, step
  <2> QED BY <1>1, <1>3, Recursion
<1>5. Is(f)
  <2>1. \A i \in 1..n : f[i] = Add(seq[i])[f[i - 1]]
    BY <1>4 DEF Along
  <2>2. f[0] = text
    BY <1>4 DEF Along
  <2> HIDE DEF n, step
  <2>3. \A i \in 0..n : f[i] = IF i = 0 THEN text ELSE Add(seq[i])[f[i - 1]]
    BY <1>1, <2>1, <2>2
  <2> QED BY <1>4, <2>3
<1> DEFINE acc == CHOOSE g : Is(g)
<1>6. Is(acc)
  <2> HIDE DEF Is
  <2> QED BY <1>5
<1>7. AddAll(text, seq) = acc[n]
  BY DEF AddAll
<1> HIDE DEF acc
<1>8. acc[0] = text /\ \A i \in 1..n : acc[i] = Add(seq[i])[acc[i - 1]]
  BY <1>1, <1>6
<1> DEFINE T == {i \in 0..n : acc[i] \in Texts}
<1>9. \A i \in 0..n : i \in T
  <2>1. 0 \in T
    <3>1. acc[0] \in Texts /\ 0 \in 0..n
      BY <1>1, <1>8
    <3> QED BY <3>1
  <2>2. ASSUME NEW i \in 0..n - 1, i \in T PROVE i + 1 \in T
    <3>1. i + 1 \in 1..n /\ acc[i + 1] = Add(seq[i + 1])[acc[i]]
      BY <1>1, <1>8
    <3> QED BY <1>2, <2>2, <3>1, <1>1
  <2> HIDE DEF T
  <2> QED BY <1>1, <2>1, <2>2, Induction
<1>10. acc \in [0..n -> Texts]
  BY <1>6, <1>9
<1> QED BY <1>7, <1>8, <1>10

LEMMA AddAllType ==
  ASSUME NEW text \in Texts, NEW seq \in Seq(Samples)
  PROVE  AddAll(text, seq) \in Texts
<1>1. Len(seq) \in 0..Len(seq)
  BY LenProperties
<1> QED BY <1>1, AddSteps

\* The samples of the known families among set.
Published(set) == {x \in set : x.family \in Known}

\* The loop turns sorted samples into an ordered text with one comment per family.
LEMMA AddAllShows ==
  ASSUME NEW text \in Texts, NEW seq \in Seq(Samples), Sorted(seq), Shows(text, {})
  PROVE  Shows(AddAll(text, seq), Published(ToSet(seq)))
<1>1. PICK acc \in [0..Len(seq) -> Texts] :
        /\ acc[0] = text /\ AddAll(text, seq) = acc[Len(seq)]
        /\ \A i \in 1..Len(seq) : acc[i] = Add(seq[i])[acc[i - 1]]
  BY AddSteps
<1>2. /\ Len(seq) \in Nat /\ DOMAIN seq = 1..Len(seq)
      /\ \A i \in 1..Len(seq) : seq[i] \in Samples
  BY LenProperties, ElementOfSeq
<1> DEFINE till(i) == {seq[k] : k \in 1..i}
           T == {i \in 0..Len(seq) : Shows(acc[i], Published(till(i)))}
<1>3. 0 \in T
  <2>1. 0 \in 0..Len(seq) /\ till(0) = {}
    BY <1>2
  <2>2. Published(till(0)) = {}
    BY <2>1 DEF Published
  <2> QED BY <1>1, <2>1, <2>2
<1>4. ASSUME NEW i \in 0..Len(seq) - 1, i \in T PROVE i + 1 \in T
  <2>1. i + 1 \in 1..Len(seq) /\ i \in 0..Len(seq) /\ i + 1 \in 0..Len(seq)
    BY <1>2
  <2> DEFINE x == seq[i + 1]
             set == Published(till(i))
  <2>2. acc[i + 1] = Add(x)[acc[i]] /\ acc[i] \in Texts /\ x \in Samples
    BY <1>1, <1>2, <2>1
  <2>3. \A k \in 1..i : k \in DOMAIN seq /\ i + 1 \in DOMAIN seq /\ k < i + 1
    BY <1>2, <2>1
  <2>4. set \in SUBSET Samples
    BY <1>2, <2>3 DEF Published
  <2>5. \A y \in set : y.family \in Known /\ Before(y, x)
    BY <2>3 DEF Published, Sorted
  <2>6. Shows(acc[i], set)
    BY <1>4
  <2>7. Published(till(i + 1)) = IF x.family \in Known THEN set \cup {x} ELSE set
    <3>1. 1..i + 1 = (1..i) \cup {i + 1}
      BY <2>1
    <3>2. till(i + 1) = till(i) \cup {x}
      BY <3>1
    <3> HIDE DEF till, x
    <3> QED BY <3>2 DEF Published
  <2> HIDE DEF x, set
  <2>8. Shows(acc[i + 1], IF x.family \in Known THEN set \cup {x} ELSE set)
    BY <2>2, <2>4, <2>5, <2>6, AddShows
  <2> QED BY <2>1, <2>7, <2>8
<1>5. Len(seq) \in T
  <2> HIDE DEF T
  <2>1. \A i \in 0..Len(seq) : i \in T
    BY <1>2, <1>3, <1>4, Induction
  <2> QED BY <1>2, <2>1
<1>6. ToSet(seq) = till(Len(seq))
  BY <1>2 DEF ToSet
<1> QED BY <1>1, <1>5, <1>6

-----------------------------------------------------------------------------
(* A whole batch *)

\* The samples of the first n sources of batch b.
Reported(n, b) == UNION {ToSet(SamplesOf(Source[i], b)) : i \in 1..n}

Empty == [output |-> <<>>, prev |-> None]

\* From the samples of all sources of a batch comes the whole text of the batch.
LEMMA WholeBatch ==
  ASSUME NEW seq \in Seq(Samples), IsInjective(seq), NEW b \in 0..Batch - 1,
         ToSet(seq) = Reported(Len(Source), b)
  PROVE  IsWhole(AddAll(Empty, Sort(seq)).output, b)
<1>1. /\ DOMAIN Source = 1..Len(Source)
      /\ \A s \in ToSet(Source) : DOMAIN Stats[s] = 1..Len(Stats[s])
  BY ConstantsOK, LenProperties DEF ConstantsOK
<1>2. ToSet(seq) = UNION {{Sample(f, s, b) : f \in ToSet(Stats[s])} : s \in ToSet(Source)}
  <2>1. \A s \in ToSet(Source) :
          ToSet(SamplesOf(s, b)) = {Sample(f, s, b) : f \in ToSet(Stats[s])}
    BY DEF ToSet, SamplesOf
  <2>2. Reported(Len(Source), b) = UNION {ToSet(SamplesOf(s, b)) : s \in ToSet(Source)}
    <3>1. ToSet(Source) = {Source[i] : i \in 1..Len(Source)}
      BY <1>1 DEF ToSet
    <3> QED BY <3>1 DEF Reported
  <2> QED BY <2>1, <2>2
<1>3. \A x, y \in ToSet(seq) : x.batch = y.batch
  BY <1>2 DEF Sample
<1>4. Sorted(Sort(seq)) /\ ToSet(Sort(seq)) = ToSet(seq) /\ Sort(seq) \in Seq(Samples)
  BY <1>3, SortSorts, SortType
<1>5. Empty \in Texts /\ Shows(Empty, {})
  <2>1. ToSet(<<>>) = {} /\ InOrder(<<>>)
    BY DEF ToSet, InOrder
  <2> QED BY <2>1 DEF Empty, Texts, Shows
<1> DEFINE text == AddAll(Empty, Sort(seq))
           set  == Published(ToSet(seq))
<1>6. Shows(text, set)
  BY <1>4, <1>5, AddAllShows
<1>7. set \cup {Comment(x.family) : x \in set} = Contents(b)
  <2>1. \A x : x \in set <=> \E s \in ToSet(Source), f \in Known :
                               f \in ToSet(Stats[s]) /\ x = Sample(f, s, b)
    BY <1>2 DEF Published, Sample
  <2>2. \A f, s : Sample(f, s, b).family = f
    BY DEF Sample
  <2> HIDE DEF set
  <2>3. \A e : e \in {Comment(x.family) : x \in set} <=>
                 \E s \in ToSet(Source), f \in Known :
                   f \in ToSet(Stats[s]) /\ e = Comment(f)
    BY <2>1, <2>2
  <2>4. \A e : e \in Contents(b) <=>
                 \E s \in ToSet(Source), f \in Known :
                   f \in ToSet(Stats[s]) /\ (e = Sample(f, s, b) \/ e = Comment(f))
    BY DEF Contents
  <2> DEFINE comments == {Comment(x.family) : x \in set}
  <2> HIDE DEF comments
  <2>5. \A e : e \in set \cup comments <=> e \in Contents(b)
    BY <2>1, <2>3, <2>4 DEF comments
  <2>6. set \cup comments = Contents(b)
    BY <2>5
  <2> QED BY <2>6 DEF comments
<1> HIDE DEF text, set
<1>8. IsWhole(text.output, b)
  BY <1>6, <1>7 DEF Shows, IsWhole, InOrder
<1> QED BY <1>8 DEF text

-----------------------------------------------------------------------------
(* Typing *)

WrittenLines ==
  [kind : {"begin", "end", "garbled"}]
    \cup [kind : {"stats"}, source : ToSet(Source), batch : 0..Batch - 1]

StartInv == ~alive /\ ~suspect => next = 0 /\ tmp = <<>> /\ file = <<>>

Typed ==
  /\ batch \in 0..Batch - 1 /\ next \in 0..Len(Source) + 1
  /\ pipe \in Seq(WrittenLines) /\ Len(pipe) <= PipeSize
  /\ alive \in BOOLEAN /\ pc \in {"read", "append", "rename"}
  /\ lines \in Seq(Samples) /\ [output |-> output, prev |-> prev] \in Texts
  /\ tmp \in Seq(Entries) /\ file \in Seq(Entries)
  /\ suspect \in BOOLEAN /\ damaged \in BOOLEAN /\ faults \in 0..MaxFaults
  /\ tmp # <<>> => (suspect \/ pc = "rename")
  /\ StartInv

LEMMA Members == \A S : \A seq \in Seq(S) : ToSet(seq) \subseteq S
<1> SUFFICES ASSUME NEW S, NEW seq \in Seq(S) PROVE ToSet(seq) \subseteq S
  OBVIOUS
<1>1. DOMAIN seq = 1..Len(seq) /\ \A i \in 1..Len(seq) : seq[i] \in S
  BY LenProperties, ElementOfSeq
<1> QED BY <1>1 DEF ToSet

LEMMA TypedOK == Typed => TypeOK
<1> SUFFICES ASSUME Typed PROVE TypeOK
  OBVIOUS
<1>1. output \in Seq(Entries) /\ prev \in Known \cup {None}
  BY DEF Typed, Texts
<1>2. ToSet(lines) \subseteq Samples
  BY Members DEF Typed
<1>3. /\ ToSet(output) \subseteq Entries /\ ToSet(tmp) \subseteq Entries
      /\ ToSet(file) \subseteq Entries
  BY <1>1, Members DEF Typed
<1> QED BY <1>1, <1>2, <1>3 DEF Typed, TypeOK, Entries

LEMMA Sources == Len(Source) \in Nat /\ DOMAIN Source = 1..Len(Source)
BY ConstantsOK, LenProperties DEF ConstantsOK

LEMMA LineType ==
  ASSUME NEW n \in 0..Len(Source) + 1, NEW b \in 0..Batch - 1
  PROVE  Line(n, b) \in WrittenLines
<1>1. CASE n = 0
  BY <1>1 DEF Line, WrittenLines
<1>2. CASE n \in DOMAIN Source
  <2>1. n # 0 /\ Source[n] \in ToSet(Source)
    BY <1>2, Sources DEF ToSet
  <2>2. Line(n, b) = [kind |-> "stats", source |-> Source[n], batch |-> b]
    BY <1>2, <2>1 DEF Line
  <2> QED BY <2>1, <2>2 DEF WrittenLines
<1>3. CASE n # 0 /\ n \notin DOMAIN Source
  BY <1>3 DEF Line, WrittenLines
<1> QED BY <1>1, <1>2, <1>3

LEMMA SamplesOfType ==
  ASSUME NEW s \in ToSet(Source), NEW b \in 0..Batch - 1
  PROVE  SamplesOf(s, b) \in Seq(Samples)
<1>1. Stats[s] \in Seq(ToSet(Family))
  BY ConstantsOK DEF ConstantsOK
<1>2. /\ Len(Stats[s]) \in Nat /\ DOMAIN Stats[s] = 1..Len(Stats[s])
      /\ \A i \in 1..Len(Stats[s]) : Stats[s][i] \in ToSet(Family)
  BY <1>1, LenProperties, ElementOfSeq
<1>3. \A i \in 1..Len(Stats[s]) : Sample(Stats[s][i], s, b) \in Samples
  BY <1>2 DEF Sample, Samples
<1>4. SamplesOf(s, b) = [i \in 1..Len(Stats[s]) |-> Sample(Stats[s][i], s, b)]
  BY <1>2 DEF SamplesOf
<1> QED BY <1>2, <1>3, <1>4

LEMMA NextBatch == \A b \in 0..Batch - 1 : (b + 1) % Batch \in 0..Batch - 1
BY ConstantsOK DEF ConstantsOK

\* A line is written to a script that runs, or to one that starts.
LEMMA WriteTyped ==
  ASSUME Typed, NEW line \in WrittenLines, Write(line),
         UNCHANGED <<fileVars, suspect>>, faults' \in 0..MaxFaults
  PROVE  Typed'
<1>1. batch' \in 0..Batch - 1 /\ next' \in 0..Len(Source) + 1
  <2>1. next' = IF next > Len(Source) THEN 0 ELSE next + 1
    BY DEF Write
  <2>2. batch' = IF next > Len(Source) THEN (batch + 1) % Batch ELSE batch
    BY DEF Write
  <2>3. batch \in 0..Batch - 1 /\ next \in 0..Len(Source) + 1
    BY DEF Typed
  <2>4. CASE next > Len(Source)
    BY <2>1, <2>2, <2>3, <2>4, NextBatch, Sources
  <2>5. CASE ~(next > Len(Source))
    BY <2>1, <2>2, <2>3, <2>5, Sources
  <2> QED BY <2>4, <2>5
<1>2. CASE alive
  <2>1. /\ Len(pipe) < PipeSize /\ pipe' = Append(pipe, line)
        /\ UNCHANGED <<alive, pc, scriptVars>>
    BY <1>2 DEF Write
  <2>2. pipe' \in Seq(WrittenLines) /\ Len(pipe') <= PipeSize
    BY <2>1, ConstantsOK DEF Typed, ConstantsOK
  <2> QED BY <1>1, <1>2, <2>1, <2>2 DEF Typed, StartInv, fileVars, scriptVars
<1>3. CASE ~alive
  <2>1. /\ alive' = TRUE /\ pipe' = <<line>> /\ pc' = "read"
        /\ lines' = <<>> /\ output' = <<>> /\ prev' = None
    BY <1>3 DEF Write
  <2>2. pipe' \in Seq(WrittenLines) /\ Len(pipe') <= PipeSize
    BY <2>1, ConstantsOK DEF ConstantsOK
  <2>3. [output |-> output', prev |-> prev'] \in Texts /\ lines' \in Seq(Samples)
    BY <2>1 DEF Texts
  <2> QED BY <1>1, <1>3, <2>1, <2>2, <2>3 DEF Typed, StartInv, fileVars
<1> QED BY <1>2, <1>3 DEF Typed

\* What a script that reads finds at the head of its input.
LEMMA HeadType ==
  ASSUME Typed, NEW kind, Reads(kind)
  PROVE  /\ Head(pipe) \in WrittenLines /\ pipe' \in Seq(WrittenLines)
         /\ Len(pipe') <= PipeSize
<1>1. pipe # <<>> /\ pipe' = Tail(pipe) /\ pipe \in Seq(WrittenLines) /\ Len(pipe) <= PipeSize
  BY DEF Reads, Typed
<1> QED BY <1>1, HeadTailProperties, LenProperties, ConstantsOK DEF ConstantsOK

LEMMA TypedInit == Init => Typed
<1> SUFFICES ASSUME Init PROVE Typed
  OBVIOUS
<1>1. [output |-> output, prev |-> prev] \in Texts
  BY DEF Init, Texts
<1>2. batch \in 0..Batch - 1 /\ next \in 0..Len(Source) + 1 /\ faults \in 0..MaxFaults
  BY ConstantsOK, Sources DEF Init, ConstantsOK
<1>3. pipe \in Seq(WrittenLines) /\ Len(pipe) <= PipeSize
  BY ConstantsOK DEF Init, ConstantsOK
<1>4. lines \in Seq(Samples) /\ tmp \in Seq(Entries) /\ file \in Seq(Entries)
  BY DEF Init
<1>5. tmp = <<>> /\ StartInv /\ ~alive /\ pc = "read" /\ ~suspect /\ ~damaged
      /\ alive \in BOOLEAN /\ suspect \in BOOLEAN /\ damaged \in BOOLEAN
  BY DEF Init, StartInv
<1> QED BY <1>1, <1>2, <1>3, <1>4, <1>5 DEF Typed

LEMMA TypedNext == Typed /\ [Next]_vars => Typed'
<1> SUFFICES ASSUME Typed, [Next]_vars PROVE Typed'
  OBVIOUS
<1>1. CASE Report
  <2>1. Line(next, batch) \in WrittenLines
    BY LineType DEF Typed
  <2> QED BY <1>1, <2>1, WriteTyped DEF Report, Typed
<1>2. CASE Garble
  <2>1. [kind |-> "garbled"] \in WrittenLines
    BY DEF WrittenLines
  <2>2. faults' \in 0..MaxFaults
    BY <1>2, ConstantsOK DEF Garble, Fault, Typed, ConstantsOK
  <2> QED BY <1>2, <2>1, <2>2, WriteTyped DEF Garble
<1>3. CASE ReadBegin
  <2>1. [output |-> output', prev |-> prev'] \in Texts /\ lines' \in Seq(Samples)
    BY <1>3 DEF ReadBegin, Texts
  <2>2. pipe' \in Seq(WrittenLines) /\ Len(pipe') <= PipeSize
    BY <1>3, HeadType DEF ReadBegin
  <2> QED BY <1>3, <2>1, <2>2 DEF ReadBegin, Reads, Typed, StartInv, rsyslogVars, fileVars
<1>4. CASE ReadStats
  <2>1. /\ Head(pipe) \in WrittenLines /\ Head(pipe).kind = "stats"
        /\ pipe' \in Seq(WrittenLines) /\ Len(pipe') <= PipeSize
    BY <1>4, HeadType DEF ReadStats, Reads
  <2>2. Head(pipe).source \in ToSet(Source) /\ Head(pipe).batch \in 0..Batch - 1
    BY <2>1 DEF WrittenLines
  <2>3. lines' \in Seq(Samples)
    <3>1. SamplesOf(Head(pipe).source, Head(pipe).batch) \in Seq(Samples)
      BY <2>2, SamplesOfType
    <3> QED BY <1>4, <3>1, ConcatProperties DEF ReadStats, Typed
  <2> QED BY <1>4, <2>1, <2>3 DEF ReadStats, Reads, Typed, StartInv, rsyslogVars, fileVars
<1>5. CASE ReadGarbled
  <2>1. pipe' \in Seq(WrittenLines) /\ Len(pipe') <= PipeSize
    BY <1>5, HeadType DEF ReadGarbled
  <2> QED BY <1>5, <2>1 DEF ReadGarbled, Typed, StartInv, rsyslogVars, fileVars, scriptVars
<1>6. CASE ReadEnd
  <2>1. pipe' \in Seq(WrittenLines) /\ Len(pipe') <= PipeSize
    BY <1>6, HeadType DEF ReadEnd
  <2> DEFINE text == AddAll([output |-> output, prev |-> prev], Sort(lines))
  <2>2. Sort(lines) \in Seq(Samples) /\ text \in Texts
    BY SortType, AddAllType DEF Typed
  <2>3. lines' = Sort(lines) /\ output' = text.output /\ prev' = text.prev
    BY <1>6 DEF ReadEnd
  <2>4. [output |-> output', prev |-> prev'] \in Texts /\ lines' \in Seq(Samples)
    BY <2>2, <2>3 DEF Texts
  <2>5. /\ Reads("end") /\ pc' = "append"
        /\ UNCHANGED <<rsyslogVars, alive, fileVars, suspect, faults>>
    BY <1>6 DEF ReadEnd
  <2> QED BY <2>1, <2>4, <2>5 DEF Reads, Typed, StartInv, rsyslogVars, fileVars
<1>7. CASE AppendTmp
  <2>1. tmp' \in Seq(Entries)
    BY <1>7, ConcatProperties DEF AppendTmp, Typed, Texts
  <2> QED BY <1>7, <2>1 DEF AppendTmp, Typed, StartInv, rsyslogVars, scriptVars
<1>8. CASE Rename
  <2>1. /\ alive /\ pc' = "read" /\ file' = tmp /\ tmp' = <<>> /\ damaged' = suspect
        /\ suspect' = FALSE /\ UNCHANGED <<rsyslogVars, pipe, alive, scriptVars, faults>>
    BY <1>8 DEF Rename
  <2>2. tmp' \in Seq(Entries) /\ file' \in Seq(Entries)
    BY <2>1 DEF Typed
  <2> QED BY <2>1, <2>2 DEF Typed, StartInv, rsyslogVars, scriptVars
<1>9. CASE AppendFails
  <2>1. tmp' \in Seq(Entries)
    <3>1. PICK n \in 0..Len(output) - 1 : tmp' = tmp \o SubSeq(output, 1, n)
      BY <1>9 DEF AppendFails
    <3>2. output \in Seq(Entries)
      BY DEF Typed, Texts
    <3>3. SubSeq(output, 1, n) \in Seq(Entries)
      <4>1. /\ Len(output) \in Nat
            /\ \A i \in 1..n : i \in 1..Len(output) /\ output[i] \in Entries
        BY <3>2, LenProperties, ElementOfSeq
      <4> QED BY <4>1, SubSeqProperties
    <3> QED BY <3>1, <3>3, ConcatProperties DEF Typed
  <2>2. faults' \in 0..MaxFaults
    BY <1>9, ConstantsOK DEF AppendFails, Fault, Typed, ConstantsOK
  <2> QED BY <1>9, <2>1, <2>2 DEF AppendFails, Typed, StartInv, rsyslogVars, scriptVars
<1>10. CASE Kill
  <2>1. faults' \in 0..MaxFaults
    BY <1>10, ConstantsOK DEF Kill, Fault, Typed, ConstantsOK
  <2>2. batch' \in 0..Batch - 1 /\ next' \in 0..Len(Source) + 1
    BY <1>10, Sources DEF Kill, Typed, rsyslogVars
  <2> QED BY <1>10, <2>1, <2>2 DEF Kill, Typed, StartInv, scriptVars, fileVars
<1>11. CASE UNCHANGED vars
  BY <1>11 DEF vars, rsyslogVars, fileVars, scriptVars, Typed, StartInv
<1> QED BY <1>1, <1>2, <1>3, <1>4, <1>5, <1>6, <1>7, <1>8, <1>9, <1>10, <1>11
        DEF Next, Script

\* The state is typed: lines are lists of samples, the texts consist of samples and
\* of comments of known families, and the temporary file is only open between the
\* append and the rename or behind a script that stopped.
THEOREM TypeAlways == Spec => []TypeOK
<1>1. Init => Typed
  BY TypedInit
<1>2. Typed /\ [Next]_vars => Typed'
  BY TypedNext
<1> QED BY <1>1, <1>2, TypedOK, PTL DEF Spec

-----------------------------------------------------------------------------
(* What the script reads *)

\* The lines the script has before it: the pipe, and what rsyslog writes next.
Stream(k) == IF k <= Len(pipe) THEN pipe[k] ELSE Line(next, batch)

\* y is written after x; where an object was garbled, nothing is said.
Follows(x, y) ==
  \/ "garbled" \in {x.kind, y.kind}
  \/ x.kind = "end" /\ y.kind = "begin"
  \/ \E n \in 0..Len(Source), b \in 0..Batch - 1 : x = Line(n, b) /\ y = Line(n + 1, b)

Starts(line) == line.kind \in {"begin", "garbled"}

\* The samples of the first n sources of batch b are gathered, and nothing is written.
Gathered(n, b) ==
  /\ ToSet(lines) = Reported(n, b) /\ IsInjective(lines)
  /\ output = <<>> /\ prev = None

Whole(text) == \E b \in 0..Batch - 1 : IsWhole(text, b)

\* A script that runs reads the lines of the batches one after the other.
StreamInv == alive => \A k \in 1..Len(pipe) : Follows(Stream(k), Stream(k + 1))

\* Behind an END comes a BEGIN.
PublishInv == alive /\ pc # "read" => Starts(Stream(1))

\* A script that did not stop since the last rename has gathered what precedes the
\* line before it, and writes whole batches.
ReadInv ==
  alive /\ ~suspect /\ pc = "read" =>
    /\ tmp = <<>>
    /\ \/ Starts(Stream(1))
       \/ \E n \in 1..Len(Source) + 1, b \in 0..Batch - 1 :
            Stream(1) = Line(n, b) /\ Gathered(n - 1, b)

WriteInv ==
  alive /\ ~suspect =>
    /\ pc = "append" => tmp = <<>> /\ Whole(output)
    /\ pc = "rename" => Whole(tmp)

\* The kinds of the lines of a batch.
LEMMA LineKinds ==
  ASSUME NEW n \in 0..Len(Source) + 1, NEW b \in 0..Batch - 1
  PROVE  /\ n = 0 => Line(n, b) = [kind |-> "begin"]
         /\ n \in 1..Len(Source) =>
              Line(n, b) = [kind |-> "stats", source |-> Source[n], batch |-> b]
         /\ n = Len(Source) + 1 => Line(n, b) = [kind |-> "end"]
<1>1. CASE n = 0
  BY <1>1, Sources DEF Line
<1>2. CASE n \in 1..Len(Source)
  BY <1>2, Sources DEF Line
<1>3. CASE n = Len(Source) + 1
  BY <1>3, Sources DEF Line
<1> QED BY <1>1, <1>2, <1>3, Sources

\* What comes behind each kind of line.
LEMMA AfterBegin ==
  ASSUME NEW x, NEW y, Follows(x, y), x.kind = "begin", y.kind # "garbled"
  PROVE  \E b \in 0..Batch - 1 : y = Line(1, b)
<1>1. PICK n \in 0..Len(Source), b \in 0..Batch - 1 : x = Line(n, b) /\ y = Line(n + 1, b)
  BY DEF Follows
<1>2. n = 0
  BY <1>1, LineKinds, Sources
<1> QED BY <1>1, <1>2

LEMMA AfterStats ==
  ASSUME NEW x, NEW y, NEW n \in 1..Len(Source), NEW b \in 0..Batch - 1,
         Follows(x, y), x = Line(n, b), y.kind # "garbled"
  PROVE  y = Line(n + 1, b)
<1>1. x = [kind |-> "stats", source |-> Source[n], batch |-> b]
  BY LineKinds, Sources
<1>2. PICK m \in 0..Len(Source), c \in 0..Batch - 1 : x = Line(m, c) /\ y = Line(m + 1, c)
  BY <1>1 DEF Follows
<1>3. m # 0
  BY <1>1, <1>2, LineKinds, Sources
<1>4. x = [kind |-> "stats", source |-> Source[m], batch |-> c]
  BY <1>2, <1>3, LineKinds, Sources
<1>5. Source[m] = Source[n] /\ c = b
  BY <1>1, <1>4
<1>6. m = n
  BY <1>3, <1>5, Sources, ConstantsOK DEF ConstantsOK, IsInjective
<1> QED BY <1>2, <1>5, <1>6

LEMMA AfterEnd ==
  ASSUME NEW x, NEW y, Follows(x, y), x.kind = "end"
  PROVE  Starts(y)
<1>1. ASSUME NEW n \in 0..Len(Source), NEW b \in 0..Batch - 1, x = Line(n, b)
      PROVE  FALSE
  BY <1>1, LineKinds, Sources
<1> QED BY <1>1 DEF Follows, Starts

\* The next line follows the one that is written.
LEMMA NextFollows ==
  ASSUME Typed, NEW line, Write(line),
         line = Line(next, batch) \/ line = [kind |-> "garbled"]
  PROVE  Follows(line, Line(next', batch'))
<1>1. CASE line = [kind |-> "garbled"]
  BY <1>1 DEF Follows
<1>2. CASE line = Line(next, batch) /\ next > Len(Source)
  <2>1. /\ next = Len(Source) + 1 /\ batch \in 0..Batch - 1
        /\ next' = 0 /\ batch' \in 0..Batch - 1
    BY <1>2, Sources, NextBatch DEF Typed, Write
  <2>2. line.kind = "end"
    BY <1>2, <2>1, LineKinds, Sources
  <2>3. Line(next', batch').kind = "begin"
    BY <2>1, LineKinds, Sources
  <2> QED BY <2>2, <2>3 DEF Follows
<1>3. CASE line = Line(next, batch) /\ ~(next > Len(Source))
  BY <1>3, Sources DEF Typed, Write, Follows
<1> QED BY <1>1, <1>2, <1>3

\* The script takes the first line of the stream.
LEMMA ReadStream ==
  ASSUME Typed, NEW kind, Reads(kind), UNCHANGED rsyslogVars
  PROVE  /\ Stream(1) = Head(pipe) /\ Stream(1).kind = kind
         /\ Len(pipe) \in Nat \ {0} /\ Len(pipe') = Len(pipe) - 1
         /\ \A k \in 1..Len(pipe) : Stream(k)' = Stream(k + 1)
<1>1. /\ pipe # <<>> /\ Head(pipe).kind = kind /\ pipe' = Tail(pipe)
      /\ pipe \in Seq(WrittenLines)
  BY DEF Reads, Typed
<1>2. /\ Len(pipe) \in Nat \ {0} /\ Len(pipe') = Len(pipe) - 1 /\ Head(pipe) = pipe[1]
      /\ \A k \in 1..Len(pipe) - 1 : pipe'[k] = pipe[k + 1]
  BY <1>1, HeadTailProperties, LenProperties, EmptySeq
<1>3. ASSUME NEW k \in 1..Len(pipe) PROVE Stream(k)' = Stream(k + 1)
  BY <1>2 DEF Stream, rsyslogVars
<1> QED BY <1>1, <1>2, <1>3 DEF Stream

\* A running script gets the line at the end of the stream.
LEMMA WriteStream ==
  ASSUME Typed, alive, NEW line, Write(line)
  PROVE  /\ Len(pipe) \in Nat /\ Len(pipe') = Len(pipe) + 1
         /\ \A k \in 1..Len(pipe) : Stream(k)' = Stream(k)
         /\ \A k \in Nat : k = Len(pipe) + 1 => Stream(k)' = line
         /\ \A k \in Nat : k = Len(pipe) + 2 => Stream(k)' = Line(next', batch')
<1>1. pipe \in Seq(WrittenLines) /\ pipe' = Append(pipe, line)
  BY DEF Typed, Write
<1>2. /\ Len(pipe) \in Nat /\ Len(pipe') = Len(pipe) + 1
      /\ \A k \in 1..Len(pipe) : pipe'[k] = pipe[k]
      /\ pipe'[Len(pipe) + 1] = line
  BY <1>1, LenProperties
<1> QED BY <1>2 DEF Stream

-----------------------------------------------------------------------------
(* What is published *)

\* What rsyslog writes keeps the stream, and what the script has done with it.
LEMMA WriteKeeps ==
  ASSUME Typed, StreamInv, PublishInv, ReadInv, WriteInv,
         NEW line, Write(line), UNCHANGED <<fileVars, suspect>>,
         line = Line(next, batch) \/ (next # 0 /\ line = [kind |-> "garbled"])
  PROVE  StreamInv' /\ PublishInv' /\ ReadInv' /\ WriteInv'
<1>1. Follows(line, Line(next', batch'))
  BY NextFollows
<1>2. CASE alive
  <2>1. /\ Len(pipe) \in Nat /\ Len(pipe') = Len(pipe) + 1
        /\ \A k \in 1..Len(pipe) : Stream(k)' = Stream(k)
        /\ \A k \in Nat : k = Len(pipe) + 1 => Stream(k)' = line
        /\ \A k \in Nat : k = Len(pipe) + 2 => Stream(k)' = Line(next', batch')
    BY <1>2, WriteStream
  <2>2. UNCHANGED <<alive, pc, scriptVars>>
    BY <1>2 DEF Write
  <2>3. Stream(Len(pipe) + 1) = Line(next, batch)
    BY <2>1 DEF Stream
  <2>4. StreamInv'
    <3>1. ASSUME NEW k \in 1..Len(pipe) + 1 PROVE Follows(Stream(k)', Stream(k + 1)')
      <4>1. CASE k = Len(pipe) + 1
        <5>1. k \in Nat /\ k + 1 \in Nat /\ k + 1 = Len(pipe) + 2
          BY <2>1, <4>1
        <5> QED BY <1>1, <2>1, <4>1, <5>1
      <4>2. CASE k = Len(pipe)
        <5>1. k \in 1..Len(pipe) /\ k + 1 \in Nat /\ k + 1 = Len(pipe) + 1
          BY <2>1, <4>2
        <5>2. Follows(Stream(k), Line(next, batch))
          BY <1>2, <2>3, <4>2, <5>1 DEF StreamInv
        <5>3. Stream(k)' = Stream(k) /\ Stream(k + 1)' = line
          BY <2>1, <5>1
        <5> QED BY <5>2, <5>3 DEF Follows
      <4>3. CASE k < Len(pipe)
        <5>1. k \in 1..Len(pipe) /\ k + 1 \in 1..Len(pipe)
          BY <2>1, <4>3
        <5> QED BY <1>2, <2>1, <5>1 DEF StreamInv
      <4> QED BY <2>1, <4>1, <4>2, <4>3
    <3> QED BY <2>1, <3>1 DEF StreamInv
  <2>5. Stream(1)' = Stream(1) \/ Stream(1)' = [kind |-> "garbled"]
    <3>1. CASE Len(pipe) = 0
      BY <2>1, <2>3, <3>1
    <3>2. CASE Len(pipe) # 0
      BY <2>1, <3>2
    <3> QED BY <3>1, <3>2
  <2>6. Starts(Stream(1)) => Starts(Stream(1)')
    BY <2>5 DEF Starts
  <2>7. PublishInv'
    BY <2>2, <2>6 DEF PublishInv
  <2>8. ReadInv'
    <3> SUFFICES ASSUME ~suspect, pc = "read" PROVE ReadInv'
      BY <2>2 DEF ReadInv
    <3>1. tmp' = <<>>
      BY <1>2 DEF ReadInv, fileVars
    <3>2. CASE Starts(Stream(1)')
      BY <3>1, <3>2 DEF ReadInv
    <3>3. CASE ~Starts(Stream(1)')
      <4>1. Stream(1)' = Stream(1)
        BY <2>5, <3>3 DEF Starts
      <4>2. PICK n \in 1..Len(Source) + 1, b \in 0..Batch - 1 :
              Stream(1) = Line(n, b) /\ Gathered(n - 1, b)
        BY <1>2, <3>3, <4>1 DEF ReadInv
      <4>3. Gathered(n - 1, b)'
        BY <2>2, <4>2 DEF Gathered, scriptVars
      <4> QED BY <3>1, <4>1, <4>2, <4>3 DEF ReadInv
    <3> QED BY <3>2, <3>3
  <2>9. WriteInv'
    BY <1>2, <2>2 DEF WriteInv, fileVars, scriptVars
  <2> QED BY <2>4, <2>7, <2>8, <2>9
<1>3. CASE ~alive
  <2>1. alive' /\ pipe' = <<line>> /\ pc' = "read"
    BY <1>3 DEF Write
  <2>2. Len(pipe') = 1 /\ Stream(1)' = line /\ Stream(2)' = Line(next', batch')
    BY <2>1 DEF Stream
  <2>3. StreamInv'
    BY <1>1, <2>2 DEF StreamInv
  <2>4. PublishInv' /\ WriteInv'
    BY <2>1 DEF PublishInv, WriteInv
  <2>5. CASE ~suspect
    <3>1. next = 0 /\ tmp = <<>> /\ batch \in 0..Batch - 1
      BY <1>3, <2>5 DEF Typed, StartInv
    <3>2. line.kind = "begin"
      BY <3>1, LineKinds, Sources
    <3>3. ReadInv'
      BY <2>2, <3>1, <3>2 DEF ReadInv, Starts, fileVars
    <3> QED BY <2>3, <2>4, <3>3
  <2>6. CASE suspect
    BY <2>3, <2>4, <2>6 DEF ReadInv
  <2> QED BY <2>5, <2>6
<1> QED BY <1>2, <1>3 DEF Typed

\* Reading a line keeps the stream.
LEMMA ReadKeeps ==
  ASSUME Typed, StreamInv, NEW kind, Reads(kind), UNCHANGED rsyslogVars
  PROVE  /\ StreamInv' /\ Follows(Stream(1), Stream(1)') /\ Stream(1) = Head(pipe)
         /\ Stream(1).kind = kind
<1>1. /\ Stream(1) = Head(pipe) /\ Stream(1).kind = kind
      /\ Len(pipe) \in Nat \ {0} /\ Len(pipe') = Len(pipe) - 1
      /\ \A k \in 1..Len(pipe) : Stream(k)' = Stream(k + 1)
  BY ReadStream
<1>2. \A k \in 1..Len(pipe) : Follows(Stream(k), Stream(k + 1))
  BY DEF StreamInv, Reads
<1>3. ASSUME NEW k \in 1..Len(pipe) - 1 PROVE Follows(Stream(k)', Stream(k + 1)')
  <2>1. k \in 1..Len(pipe) /\ k + 1 \in 1..Len(pipe)
    BY <1>1
  <2> QED BY <1>1, <1>2, <2>1
<1>4. StreamInv'
  BY <1>1, <1>3 DEF StreamInv
<1>5. 1 \in 1..Len(pipe)
  BY <1>1
<1>6. Stream(1)' = Stream(1 + 1) /\ Follows(Stream(1), Stream(1 + 1))
  BY <1>1, <1>2, <1>5
<1> QED BY <1>1, <1>4, <1>6

LEMMA BeginKeeps ==
  ASSUME Typed, StreamInv, ReadInv, ReadBegin
  PROVE  StreamInv' /\ PublishInv' /\ ReadInv' /\ WriteInv'
<1>1. /\ Reads("begin") /\ alive /\ pc = "read" /\ lines' = <<>> /\ output' = <<>>
      /\ prev' = None /\ UNCHANGED <<rsyslogVars, alive, fileVars, suspect>> /\ pc' = "read"
  BY DEF ReadBegin, Reads
<1>2. StreamInv' /\ Follows(Stream(1), Stream(1)') /\ Stream(1).kind = "begin"
  BY <1>1, ReadKeeps
<1>3. ReadInv'
  <2> SUFFICES ASSUME ~suspect PROVE ReadInv'
    BY <1>1 DEF ReadInv
  <2>1. tmp' = <<>>
    BY <1>1 DEF ReadInv, fileVars
  <2>2. CASE Stream(1)'.kind = "garbled"
    BY <2>1, <2>2 DEF ReadInv, Starts
  <2>3. CASE Stream(1)'.kind # "garbled"
    <3>1. PICK b \in 0..Batch - 1 : Stream(1)' = Line(1, b)
      BY <1>2, <2>3, AfterBegin
    <3>2. 1 \in 1..Len(Source) + 1 /\ 1 - 1 = 0 /\ 1..0 = {}
      BY Sources
    <3>3. Reported(0, b) = {}
      BY <3>2 DEF Reported
    <3>4. ToSet(<<>>) = {} /\ IsInjective(<<>>)
      BY DEF ToSet, IsInjective
    <3>5. Gathered(0, b)'
      BY <1>1, <3>3, <3>4 DEF Gathered
    <3>6. Gathered(1 - 1, b)'
      BY <3>2, <3>5
    <3> QED BY <2>1, <3>1, <3>2, <3>6 DEF ReadInv
  <2> QED BY <2>2, <2>3
<1> QED BY <1>1, <1>2, <1>3 DEF PublishInv, WriteInv

LEMMA SourceOf ==
  ASSUME NEW s, NEW b, NEW x \in ToSet(SamplesOf(s, b))
  PROVE  x.source = s
<1>1. DOMAIN SamplesOf(s, b) = DOMAIN Stats[s]
  BY DEF SamplesOf
<1>2. PICK i \in DOMAIN Stats[s] : x = SamplesOf(s, b)[i]
  BY <1>1 DEF ToSet
<1>3. x = Sample(Stats[s][i], s, b)
  BY <1>2 DEF SamplesOf
<1> QED BY <1>3 DEF Sample

\* The samples of another source are added to those of the sources before.
LEMMA StatsGathered ==
  ASSUME Typed, NEW n \in 1..Len(Source), NEW b \in 0..Batch - 1, Gathered(n - 1, b),
         lines' = lines \o SamplesOf(Source[n], b), UNCHANGED <<output, prev>>
  PROVE  Gathered(n, b)'
<1> DEFINE more == SamplesOf(Source[n], b)
<1>1. Source[n] \in ToSet(Source) /\ IsInjective(Source) /\ IsInjective(Stats[Source[n]])
  BY Sources, ConstantsOK DEF ToSet, ConstantsOK
<1>2. lines \in Seq(Samples) /\ more \in Seq(Samples)
  BY <1>1, SamplesOfType DEF Typed
<1>3. IsInjective(more)
  BY <1>1 DEF IsInjective, SamplesOf, Sample
<1>4. \A x \in ToSet(more) : x.source = Source[n]
  BY SourceOf
<1>5. \A x \in ToSet(lines) : x.source # Source[n]
  <2>1. \A i \in 1..n - 1 : i # n /\ i \in DOMAIN Source /\ n \in DOMAIN Source
    BY Sources
  <2>2. \A i \in 1..n - 1 : Source[i] # Source[n]
    BY <1>1, <2>1 DEF IsInjective
  <2>3. \A i \in 1..n - 1 : \A x \in ToSet(SamplesOf(Source[i], b)) : x.source = Source[i]
    BY SourceOf
  <2> QED BY <2>2, <2>3 DEF Gathered, Reported
<1> DEFINE l == Len(lines)
           m == Len(more)
           new == lines \o more
<1> HIDE DEF more, new
<1>6. /\ l \in Nat /\ m \in Nat /\ DOMAIN lines = 1..l /\ DOMAIN more = 1..m
      /\ DOMAIN new = 1..l + m
      /\ \A i \in 1..l : new[i] = lines[i] /\ new[i] \in ToSet(lines)
      /\ \A i \in l + 1..l + m :
           i - l \in 1..m /\ new[i] = more[i - l] /\ new[i] \in ToSet(more)
  <2>1. l \in Nat /\ m \in Nat /\ DOMAIN lines = 1..l /\ DOMAIN more = 1..m
    BY <1>2, LenProperties
  <2>2. new \in Seq(Samples) /\ Len(new) = l + m
    BY <1>2, ConcatProperties DEF new
  <2>3. \A i \in 1..l + m : new[i] = IF i <= l THEN lines[i] ELSE more[i - l]
    BY <1>2, ConcatProperties DEF new
  <2>4. DOMAIN new = 1..Len(new)
    BY <2>2, LenProperties
  <2> HIDE DEF l, m
  <2>5. \A i \in 1..l : new[i] = lines[i]
    BY <2>1, <2>3
  <2>6. \A i \in l + 1..l + m : i - l \in 1..m /\ new[i] = more[i - l]
    BY <2>1, <2>3
  <2> QED BY <2>1, <2>2, <2>4, <2>5, <2>6 DEF ToSet
<1> HIDE DEF l, m
<1>7. IsInjective(new)
  <2> SUFFICES ASSUME NEW i \in 1..l + m, NEW j \in 1..l + m, new[i] = new[j] PROVE i = j
    BY <1>6 DEF IsInjective
  <2>1. CASE i <= l /\ j <= l
    <3>1. i \in DOMAIN lines /\ j \in DOMAIN lines /\ lines[i] = lines[j]
      BY <1>6, <2>1
    <3> QED BY <3>1 DEF Gathered, IsInjective
  <2>2. CASE i > l /\ j > l
    <3>1. i - l \in DOMAIN more /\ j - l \in DOMAIN more /\ more[i - l] = more[j - l]
      BY <1>6, <2>2
    <3>2. i - l = j - l
      BY <1>3, <3>1 DEF IsInjective
    <3> QED BY <1>6, <3>2
  <2>3. CASE i <= l /\ j > l
    <3>1. new[i] \in ToSet(lines) /\ new[j] \in ToSet(more)
      BY <1>6, <2>3
    <3> QED BY <1>4, <1>5, <3>1 DEF more
  <2>4. CASE i > l /\ j <= l
    <3>1. new[j] \in ToSet(lines) /\ new[i] \in ToSet(more)
      BY <1>6, <2>4
    <3> QED BY <1>4, <1>5, <3>1 DEF more
  <2> QED BY <1>6, <2>1, <2>2, <2>3, <2>4
<1>8. ToSet(new) = ToSet(lines) \cup ToSet(more)
  <2>1. \A i \in DOMAIN new : new[i] \in ToSet(lines) \cup ToSet(more)
    <3>1. \A i \in 1..l + m : i \in 1..l \/ i \in l + 1..l + m
      BY <1>6
    <3> QED BY <1>6, <3>1
  <2>2. \A i \in DOMAIN lines : i \in DOMAIN new /\ new[i] = lines[i]
    BY <1>6
  <2>3. \A i \in DOMAIN more : l + i \in DOMAIN new /\ new[l + i] = more[i]
    <3>1. ASSUME NEW i \in 1..m PROVE l + i \in 1..l + m /\ new[l + i] = more[i]
      <4>1. l + i \in l + 1..l + m /\ (l + i) - l = i /\ l + i \in 1..l + m
        BY <1>6
      <4> QED BY <1>6, <4>1
    <3> QED BY <1>6, <3>1
  <2> QED BY <2>1, <2>2, <2>3 DEF ToSet
<1>9. Reported(n, b) = Reported(n - 1, b) \cup ToSet(more)
  <2>1. 1..n = (1..n - 1) \cup {n}
    BY Sources
  <2> QED BY <2>1 DEF Reported, more
<1> QED BY <1>7, <1>8, <1>9 DEF Gathered, more, new

LEMMA StatsKeeps ==
  ASSUME Typed, StreamInv, ReadInv, ReadStats
  PROVE  StreamInv' /\ PublishInv' /\ ReadInv' /\ WriteInv'
<1>1. /\ Reads("stats") /\ alive /\ pc = "read" /\ pc' = "read"
      /\ lines' = lines \o SamplesOf(Head(pipe).source, Head(pipe).batch)
      /\ UNCHANGED <<rsyslogVars, alive, output, prev, fileVars, suspect>>
  BY DEF ReadStats, Reads
<1>2. /\ StreamInv' /\ Follows(Stream(1), Stream(1)') /\ Stream(1) = Head(pipe)
      /\ Stream(1).kind = "stats"
  BY <1>1, ReadKeeps
<1>3. ReadInv'
  <2> SUFFICES ASSUME ~suspect PROVE ReadInv'
    BY <1>1 DEF ReadInv
  <2>1. tmp' = <<>>
    BY <1>1 DEF ReadInv, fileVars
  <2>2. PICK n \in 1..Len(Source) + 1, b \in 0..Batch - 1 :
          Stream(1) = Line(n, b) /\ Gathered(n - 1, b)
    BY <1>1, <1>2 DEF ReadInv, Starts
  <2>3. n \in 1..Len(Source)
    BY <1>2, <2>2, LineKinds, Sources
  <2>4. Head(pipe).source = Source[n] /\ Head(pipe).batch = b
    BY <1>2, <2>2, <2>3, LineKinds, Sources
  <2>5. Gathered(n, b)'
    BY <1>1, <2>2, <2>3, <2>4, StatsGathered
  <2>6. CASE Stream(1)'.kind = "garbled"
    BY <2>1, <2>6 DEF ReadInv, Starts
  <2>7. CASE Stream(1)'.kind # "garbled"
    <3>1. Stream(1)' = Line(n + 1, b)
      BY <1>2, <2>2, <2>3, <2>7, AfterStats
    <3>2. n + 1 \in 1..Len(Source) + 1 /\ (n + 1) - 1 = n
      BY <2>3, Sources
    <3>3. Gathered((n + 1) - 1, b)'
      BY <2>5, <3>2
    <3> DEFINE m == n + 1
    <3>4. m \in 1..Len(Source) + 1 /\ Stream(1)' = Line(m, b) /\ Gathered(m - 1, b)'
      BY <3>1, <3>2, <3>3
    <3> HIDE DEF m
    <3> QED BY <2>1, <3>4 DEF ReadInv
  <2> QED BY <2>6, <2>7
<1> QED BY <1>1, <1>2, <1>3 DEF PublishInv, WriteInv

LEMMA EndKeeps ==
  ASSUME Typed, StreamInv, ReadInv, ReadEnd
  PROVE  StreamInv' /\ PublishInv' /\ ReadInv' /\ WriteInv'
<1> DEFINE text == AddAll([output |-> output, prev |-> prev], Sort(lines))
<1>1. /\ Reads("end") /\ alive /\ pc = "read" /\ pc' = "append" /\ output' = text.output
      /\ UNCHANGED <<rsyslogVars, alive, fileVars, suspect>>
  BY DEF ReadEnd, Reads
<1>2. StreamInv' /\ Follows(Stream(1), Stream(1)') /\ Stream(1).kind = "end"
  BY <1>1, ReadKeeps
<1>3. PublishInv'
  BY <1>2, AfterEnd DEF PublishInv
<1>4. WriteInv'
  <2> SUFFICES ASSUME ~suspect PROVE WriteInv'
    BY <1>1 DEF WriteInv
  <2>1. tmp' = <<>>
    BY <1>1 DEF ReadInv, fileVars
  <2>2. PICK n \in 1..Len(Source) + 1, b \in 0..Batch - 1 :
          Stream(1) = Line(n, b) /\ Gathered(n - 1, b)
    BY <1>1, <1>2 DEF ReadInv, Starts
  <2>3. n - 1 = Len(Source)
    BY <1>2, <2>2, LineKinds, Sources
  <2>4. Gathered(Len(Source), b)
    BY <2>2, <2>3
  <2>5. text = AddAll(Empty, Sort(lines))
    BY <2>4 DEF Gathered, Empty
  <2>6. IsWhole(text.output, b)
    BY <2>4, <2>5, WholeBatch DEF Gathered, Typed
  <2> HIDE DEF text
  <2>7. Whole(output')
    BY <1>1, <2>6 DEF Whole
  <2> QED BY <1>1, <2>1, <2>7 DEF WriteInv, Whole
<1> QED BY <1>1, <1>2, <1>3, <1>4 DEF ReadInv

\* What makes the file whole, at every step.
ProtocolInv ==
  /\ Typed /\ StreamInv /\ PublishInv /\ ReadInv /\ WriteInv
  /\ OneDamagedPublication

LEMMA ProtocolInit == Init => ProtocolInv
<1> SUFFICES ASSUME Init PROVE ProtocolInv
  OBVIOUS
<1>1. Typed
  BY TypedInit
<1> QED BY <1>1 DEF Init, ProtocolInv, StreamInv, PublishInv, ReadInv, WriteInv,
                  OneDamagedPublication

LEMMA ProtocolNext == ProtocolInv /\ [Next]_vars => ProtocolInv'
<1> SUFFICES ASSUME ProtocolInv, [Next]_vars PROVE ProtocolInv'
  OBVIOUS
<1>1. /\ Typed /\ StreamInv /\ PublishInv /\ ReadInv /\ WriteInv /\ Typed'
      /\ file # <<>> /\ ~damaged => Whole(file)
  BY TypedNext DEF ProtocolInv, OneDamagedPublication, Whole
<1> SUFFICES /\ StreamInv' /\ PublishInv' /\ ReadInv' /\ WriteInv'
             /\ (file # <<>> /\ ~damaged => Whole(file))'
  BY <1>1 DEF ProtocolInv, OneDamagedPublication, Whole
<1>2. UNCHANGED <<file, damaged>> => (file # <<>> /\ ~damaged => Whole(file))'
  BY <1>1 DEF Whole
<1>3. CASE Report
  BY <1>1, <1>2, <1>3, WriteKeeps DEF Report, fileVars
<1>4. CASE Garble
  <2>1. next # 0
    BY <1>4, Sources DEF Garble
  <2> QED BY <1>1, <1>2, <1>4, <2>1, WriteKeeps DEF Garble, fileVars
<1>5. CASE ReadBegin
  BY <1>1, <1>2, <1>5, BeginKeeps DEF ReadBegin, fileVars
<1>6. CASE ReadStats
  BY <1>1, <1>2, <1>6, StatsKeeps DEF ReadStats, fileVars
<1>7. CASE ReadGarbled
  BY <1>1, <1>2, <1>7 DEF ReadGarbled, fileVars, StreamInv, PublishInv, ReadInv, WriteInv
<1>8. CASE ReadEnd
  BY <1>1, <1>2, <1>8, EndKeeps DEF ReadEnd, fileVars
<1>9. CASE AppendTmp
  <2>1. /\ alive /\ pc = "append" /\ pc' = "rename" /\ tmp' = tmp \o output
        /\ UNCHANGED <<rsyslogVars, pipe, alive, scriptVars, file, damaged, suspect>>
    BY <1>9 DEF AppendTmp
  <2>2. StreamInv' /\ PublishInv'
    BY <1>1, <2>1 DEF StreamInv, PublishInv, Stream, rsyslogVars
  <2>3. output \in Seq(Entries)
    BY <1>1 DEF Typed, Texts
  <2>4. ~suspect => tmp' = output /\ Whole(output)
    BY <1>1, <2>1, <2>3, ConcatEmptySeq DEF WriteInv
  <2>5. WriteInv'
    BY <2>1, <2>4 DEF WriteInv, Whole
  <2> QED BY <1>2, <2>1, <2>2, <2>5 DEF ReadInv
<1>10. CASE Rename
  <2>1. /\ alive /\ pc = "rename" /\ pc' = "read" /\ file' = tmp /\ tmp' = <<>>
        /\ damaged' = suspect /\ suspect' = FALSE
        /\ UNCHANGED <<rsyslogVars, pipe, alive, scriptVars>>
    BY <1>10 DEF Rename
  <2>2. StreamInv' /\ PublishInv' /\ Starts(Stream(1))'
    BY <1>1, <2>1 DEF StreamInv, PublishInv, Stream, rsyslogVars
  <2>3. ReadInv' /\ WriteInv'
    BY <2>1, <2>2 DEF ReadInv, WriteInv
  <2>4. (file # <<>> /\ ~damaged => Whole(file))'
    BY <1>1, <2>1 DEF WriteInv, Whole
  <2> QED BY <2>2, <2>3, <2>4
<1>11. CASE AppendFails
  BY <1>1, <1>2, <1>11 DEF AppendFails, StreamInv, PublishInv, ReadInv, WriteInv
<1>12. CASE Kill
  BY <1>1, <1>2, <1>12 DEF Kill, fileVars, StreamInv, PublishInv, ReadInv, WriteInv
<1>13. CASE UNCHANGED vars
  <2>1. UNCHANGED <<batch, next, pipe, alive, pc, lines, output, prev, tmp, file, damaged,
                    suspect>>
    BY <1>13 DEF vars, rsyslogVars, fileVars, scriptVars
  <2> QED BY <1>1, <1>2, <2>1 DEF StreamInv, Stream, PublishInv, ReadInv, WriteInv,
                                  Gathered, Whole
<1> QED BY <1>3, <1>4, <1>5, <1>6, <1>7, <1>8, <1>9, <1>10, <1>11, <1>12, <1>13
        DEF Next, Script

\* What is published is one whole batch, in order and with every family commented once,
\* unless the script stopped since the publication before.
THEOREM OneDamagedPublicationAlways == Spec => []OneDamagedPublication
<1>1. Init => ProtocolInv
  BY ProtocolInit
<1>2. ProtocolInv /\ [Next]_vars => ProtocolInv'
  BY ProtocolNext
<1>3. ProtocolInv => OneDamagedPublication
  BY DEF ProtocolInv
<1> QED BY <1>1, <1>2, <1>3, PTL DEF Spec

=============================================================================
