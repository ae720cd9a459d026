--------------------------- MODULE RecordsProofs ---------------------------
(***************************************************************************)
(* What is committed together refers only to itself, for every content the *)
(* parser may report, every tree, every index a provider may write and     *)
(* every interleaving of a build with the world: RecordsAreClosed.         *)
(* The first half is about lists and about the operators that derive the   *)
(* records, the second about the steps of a build.                         *)
(***************************************************************************)
EXTENDS SnapshotBuildProofs, FiniteSetTheorems, FunctionTheorems,
        WellFoundedInduction, NaturalsInduction

(***************************************************************************)
(* Numbers.                                                                *)
(***************************************************************************)
\* A set of numbers that is not empty has a least element,
LEMMA LeastNumber ==
  ASSUME NEW T \in SUBSET Nat, T # {}
  PROVE  \E x \in T : \A y \in T : x <= y
<1> DEFINE R == OpToRel(<, Nat)
<1>1. IsWellFoundedOn(R, Nat)
  BY NatLessThanWellFounded
<1>2. \E x \in T : \A y \in T : ~(<<y, x>> \in R)
  BY <1>1, WFMin
<1>3. ASSUME NEW x \in T, NEW y \in T, x > y PROVE <<y, x>> \in R
  BY <1>3 DEF OpToRel
<1>4. \A x, y \in T : x <= y \/ x > y
  OBVIOUS
<1> HIDE DEF R
<1> QED
  BY <1>2, <1>3, <1>4

\* and, when it is bounded, a greatest one.
LEMMA GreatestNumber ==
  ASSUME NEW n \in Nat, NEW T \in SUBSET (0..n), T # {}
  PROVE  \E x \in T : \A y \in T : y <= x
<1> DEFINE U == {n - x : x \in T}
<1>1. U \in SUBSET Nat /\ U # {}
  OBVIOUS
<1>2. PICK u \in U : \A v \in U : u <= v
  BY <1>1, LeastNumber
<1>3. PICK x \in T : u = n - x
  BY <1>2
<1>4. ASSUME NEW y \in T PROVE y <= x
  <2>1. n - y \in U
    OBVIOUS
  <2>2. n - x <= n - y
    BY <1>2, <1>3, <2>1
  <2> QED BY <2>2
<1> QED BY <1>4

\* Induction from m to n.
LEMMA Climb ==
  ASSUME NEW m \in Nat, NEW n \in Nat, NEW good, m \in good,
         \A i \in (m + 1)..n : i - 1 \in good => i \in good
  PROVE  \A i \in m..n : i \in good
<1> DEFINE bad == {i \in m..n : i \notin good}
<1>1. bad \in SUBSET Nat
  OBVIOUS
<1>2. ASSUME NEW i \in bad, \A j \in bad : i <= j PROVE FALSE
  <2>1. i \in (m + 1)..n
    OBVIOUS
  <2>2. i - 1 \in bad
    BY <2>1
  <2> QED BY <1>2, <2>1, <2>2
<1>3. bad = {}
  <2> HIDE DEF bad
  <2> QED BY <1>1, <1>2, LeastNumber
<1> QED BY <1>3

\* Min and Max are in the set they are taken of.
\* Of the positions 1 to n, one has the least value.
LEMMA LeastValue ==
  ASSUME NEW n \in Nat, NEW f, \A i \in 1..n : f[i] \in Int, NEW T \in SUBSET (1..n), T # {}
  PROVE  \E x \in T : \A y \in T : f[x] <= f[y]
<1> DEFINE good == {k \in 0..n : \/ T \cap 1..k = {}
                                 \/ \E x \in T \cap 1..k : \A y \in T \cap 1..k : f[x] <= f[y]}
<1>1. 0 \in good
  OBVIOUS
<1>2. ASSUME NEW k \in 1..n, k - 1 \in good PROVE k \in good
  <2>1. \A y \in T \cap 1..k : y \in T \cap 1..(k - 1) \/ y = k
    OBVIOUS
  <2>2. CASE k \notin T
    <3>1. T \cap 1..k = T \cap 1..(k - 1)
      BY <2>1, <2>2
    <3> QED BY <1>2, <3>1
  <2>3. CASE k \in T /\ T \cap 1..(k - 1) = {}
    <3>1. k \in T \cap 1..k /\ \A y \in T \cap 1..k : f[k] <= f[y]
      BY <2>1, <2>3
    <3> QED BY <3>1
  <2>4. ASSUME k \in T, NEW x \in T \cap 1..(k - 1), \A y \in T \cap 1..(k - 1) : f[x] <= f[y]
        PROVE  k \in good
    <3>1. CASE f[x] <= f[k]
      <4>1. x \in T \cap 1..k /\ \A y \in T \cap 1..k : f[x] <= f[y]
        BY <2>1, <2>4, <3>1
      <4> QED BY <4>1
    <3>2. CASE f[k] < f[x]
      <4>1. ASSUME NEW y \in T \cap 1..(k - 1) PROVE f[k] <= f[y]
        <5>1. f[k] \in Int /\ f[x] \in Int /\ f[y] \in Int /\ f[x] <= f[y]
          BY <2>4, <4>1
        <5> QED BY <3>2, <5>1
      <4>2. k \in T \cap 1..k /\ f[k] <= f[k]
        BY <2>4
      <4> QED BY <2>1, <4>1, <4>2
    <3>3. f[k] \in Int /\ f[x] \in Int
      BY <2>4
    <3> QED BY <3>1, <3>2, <3>3
  <2> QED BY <1>2, <2>2, <2>3, <2>4
<1>3. \A i \in (0 + 1)..n : i - 1 \in good => i \in good
  BY <1>2
<1> HIDE DEF good
<1>4. \A i \in 0..n : i \in good
  BY <1>1, <1>3, Climb
<1>5. n \in good
  BY <1>4
<1> QED BY <1>5 DEF good

\* so the operators of the community modules pick one of the set.
LEMMA MinInside == ASSUME NEW T \in SUBSET Nat, T # {} PROVE Min(T) \in T
BY LeastNumber DEF Min

\* and the greatest, which is above all others.
LEMMA MaxInside ==
  ASSUME NEW n \in Nat, NEW T \in SUBSET (0..n), T # {}
  PROVE  Max(T) \in T /\ \A y \in T : y <= Max(T)
<1>1. PICK x \in T : \A y \in T : x >= y
  BY GreatestNumber
<1> QED BY <1>1 DEF Max

(***************************************************************************)
(* Lists.                                                                  *)
(***************************************************************************)
\* A list has the positions 1 to its length.
LEMMA ListShape ==
  ASSUME NEW s, IsList(s)
  PROVE  /\ Len(s) \in Nat /\ DOMAIN s = 1..Len(s) /\ s = [i \in 1..Len(s) |-> s[i]]
         /\ s \in Seq(ToSet(s))
<1>1. s \in Seq(ToSet(s))
  BY DEF IsList, ToSet
<1> HIDE DEF ToSet
<1> QED BY <1>1

\* Whatever has such positions is one.
LEMMA ListOf ==
  ASSUME NEW n \in Nat, NEW s, s = [i \in 1..n |-> s[i]]
  PROVE  IsList(s) /\ Len(s) = n /\ DOMAIN s = 1..n
<1> DEFINE T == {s[i] : i \in DOMAIN s}
<1>1. DOMAIN s = 1..n /\ s \in [1..n -> T]
  OBVIOUS
<1>2. s \in Seq(T) /\ Len(s) = n
  <2> HIDE DEF T
  <2> QED BY <1>1
<1> QED BY <1>1, <1>2 DEF IsList

\* A map over the positions of a list is one.
LEMMA ListMap ==
  ASSUME NEW s, IsList(s), NEW t, t = [i \in DOMAIN s |-> t[i]]
  PROVE  IsList(t) /\ Len(t) = Len(s) /\ DOMAIN t = DOMAIN s
<1>1. Len(s) \in Nat /\ DOMAIN s = 1..Len(s)
  BY ListShape
<1>2. t = [i \in 1..Len(s) |-> t[i]]
  BY <1>1
<1> QED BY <1>1, <1>2, ListOf

\* The empty list and the list of one entry.
LEMMA SmallLists ==
  /\ IsList(<<>>) /\ ToSet(<<>>) = {}
  /\ \A e : IsList(<<e>>) /\ ToSet(<<e>>) = {e}
BY DEF IsList, ToSet

\* Two lists in a row.
LEMMA Concat ==
  ASSUME NEW s, IsList(s), NEW t, IsList(t)
  PROVE  IsList(s \o t) /\ ToSet(s \o t) = ToSet(s) \cup ToSet(t)
<1> DEFINE T == ToSet(s) \cup ToSet(t)
           n == Len(s) + Len(t)
<1>1. s \in Seq(T) /\ t \in Seq(T)
  BY ListShape
<1>2. /\ Len(s) \in Nat /\ DOMAIN s = 1..Len(s) /\ Len(t) \in Nat /\ DOMAIN t = 1..Len(t)
  BY ListShape
<1>3. /\ s \o t \in Seq(T) /\ Len(s \o t) = n
      /\ \A i \in 1..n : (s \o t)[i] = IF i <= Len(s) THEN s[i] ELSE t[i - Len(s)]
  <2> HIDE DEF T
  <2> QED BY <1>1
<1>4. DOMAIN (s \o t) = 1..n /\ s \o t = [i \in 1..n |-> (s \o t)[i]]
  <2>1. ASSUME NEW w \in Seq(T), Len(w) = n PROVE DOMAIN w = 1..n /\ w = [i \in 1..n |-> w[i]]
    <3> HIDE DEF T, n
    <3> QED BY <2>1
  <2> QED BY <1>3, <2>1
<1>5. IsList(s \o t)
  BY <1>2, <1>4, ListOf
<1>6. ASSUME NEW i \in DOMAIN s PROVE s[i] \in ToSet(s \o t)
  BY <1>2, <1>3, <1>4 DEF ToSet
<1>7. ASSUME NEW i \in DOMAIN t PROVE t[i] \in ToSet(s \o t)
  <2>1. i + Len(s) \in 1..n /\ ~(i + Len(s) <= Len(s)) /\ (i + Len(s)) - Len(s) = i
    BY <1>2
  <2>2. (s \o t)[i + Len(s)] = t[i]
    BY <1>3, <2>1
  <2> QED BY <1>4, <2>1, <2>2 DEF ToSet
<1>8. ASSUME NEW i \in 1..n PROVE (s \o t)[i] \in ToSet(s) \cup ToSet(t)
  <2>1. CASE i <= Len(s)
    BY <1>2, <1>3, <2>1 DEF ToSet
  <2>2. CASE ~(i <= Len(s))
    <3>1. i - Len(s) \in DOMAIN t
      BY <1>2, <2>2
    <3> QED BY <1>3, <2>2, <3>1 DEF ToSet
  <2> QED BY <2>1, <2>2
<1> QED
  <2>1. ToSet(s) \subseteq ToSet(s \o t)
    BY <1>6 DEF ToSet
  <2>2. ToSet(t) \subseteq ToSet(s \o t)
    BY <1>7 DEF ToSet
  <2>3. ToSet(s \o t) \subseteq ToSet(s) \cup ToSet(t)
    BY <1>4, <1>8 DEF ToSet
  <2> QED BY <1>5, <2>1, <2>2, <2>3

(***************************************************************************)
(* Filters and joins.                                                      *)
(***************************************************************************)
\* What the function `upto' of Those is at the positions up to n.
IsUpto(f, s, at, n) ==
    f = [i \in 0..n |-> IF i = 0 THEN <<>>
                        ELSE IF i \in at THEN Append(f[i - 1], s[i]) ELSE f[i - 1]]

\* There is such a function: the one up to k - 1 extends to k.
LEMMA UptoExists ==
  ASSUME NEW s, NEW at, NEW n \in Nat
  PROVE  \E f : IsUpto(f, s, at, n)
<1> DEFINE good == {k \in Nat : \E f : IsUpto(f, s, at, k)}
<1>1. 0 \in good
  <2>1. IsUpto([i \in 0..0 |-> <<>>], s, at, 0)
    BY DEF IsUpto
  <2> QED BY <2>1
<1>2. ASSUME NEW k \in 1..n, k - 1 \in good PROVE k \in good
  <2>1. PICK f : IsUpto(f, s, at, k - 1)
    BY <1>2
  <2> DEFINE g == [i \in 0..k |-> IF i = k
                                    THEN (IF k \in at THEN Append(f[k - 1], s[k]) ELSE f[k - 1])
                                  ELSE f[i]]
  <2>2. \A i \in 0..(k - 1) : g[i] = f[i]
    OBVIOUS
  <2>3. ASSUME NEW i \in 0..k
        PROVE  g[i] = IF i = 0 THEN <<>> ELSE IF i \in at THEN Append(g[i - 1], s[i]) ELSE g[i - 1]
    <3>1. CASE i = k
      BY <2>2, <3>1
    <3>2. CASE i # k
      <4>1. i \in 0..(k - 1) /\ (i # 0 => i - 1 \in 0..(k - 1))
        BY <3>2
      <4>2. g[i] = f[i] /\ (i # 0 => g[i - 1] = f[i - 1])
        BY <2>2, <4>1
      <4>3. f[i] = IF i = 0 THEN <<>> ELSE IF i \in at THEN Append(f[i - 1], s[i]) ELSE f[i - 1]
        BY <2>1, <4>1 DEF IsUpto
      <4> QED BY <4>2, <4>3
    <3> QED BY <3>1, <3>2
  <2>4. IsUpto(g, s, at, k)
    BY <2>3 DEF IsUpto
  <2>5. k \in Nat
    OBVIOUS
  <2> QED BY <2>4, <2>5
<1>3. n \in 0..n
  OBVIOUS
<1>4. n \in good
  <2> HIDE DEF good
  <2> QED BY <1>1, <1>2, <1>3, Climb
<1> QED BY <1>4

\* A filter keeps just the entries at the chosen positions.
LEMMA ThoseEntries ==
  ASSUME NEW s, IsList(s), NEW at
  PROVE  /\ IsList(Those(s, at))
         /\ ToSet(Those(s, at)) = {s[i] : i \in at \cap DOMAIN s}
         /\ \A k \in DOMAIN Those(s, at) : \E i \in at \cap DOMAIN s : Those(s, at)[k] = s[i]
<1>1. Len(s) \in Nat /\ DOMAIN s = 1..Len(s)
  BY ListShape
<1>2. PICK f : /\ Those(s, at) = f[Len(s)]
               /\ f = [i \in 0..Len(s) |-> IF i = 0 THEN <<>>
                          ELSE IF i \in at THEN Append(f[i - 1], s[i]) ELSE f[i - 1]]
  <2>1. \E f : IsUpto(f, s, at, Len(s))
    BY <1>1, UptoExists
  <2> QED BY <2>1, Zenon DEF Those, IsUpto
<1>3. /\ f[0] = <<>>
      /\ \A i \in 1..Len(s) : i \in at => f[i] = Append(f[i - 1], s[i])
      /\ \A i \in 1..Len(s) : i \notin at => f[i] = f[i - 1]
  <2>1. f[0] = <<>>
    BY <1>1, <1>2
  <2>2. ASSUME NEW i \in 1..Len(s)
        PROVE  f[i] = IF i \in at THEN Append(f[i - 1], s[i]) ELSE f[i - 1]
    <3>1. i \in 0..Len(s) /\ i # 0
      BY <1>1
    <3> QED BY <1>2, <3>1, Zenon
  <2> QED BY <2>1, <2>2
<1> DEFINE Right(i) == f[i] \in Seq(ToSet(s)) /\ ToSet(f[i]) = {s[j] : j \in at \cap (1..i)}
           good == {i \in 0..Len(s) : Right(i)}
<1>4. ASSUME NEW i \in 1..Len(s), Right(i - 1) PROVE Right(i)
  <2>1. 1..i = (1..(i - 1)) \cup {i}
    BY <1>1
  <2>2. CASE i \in at
    <3>1. f[i] = Append(f[i - 1], s[i])
      BY <1>3, <2>2
    <3>2. s[i] \in ToSet(s)
      BY <1>1 DEF ToSet
    <3>3. ASSUME NEW T, NEW w \in Seq(T), NEW e \in T
          PROVE  Append(w, e) \in Seq(T) /\ ToSet(Append(w, e)) = ToSet(w) \cup {e}
      <4>1. /\ Append(w, e) \in Seq(T) /\ DOMAIN Append(w, e) = 1..(Len(w) + 1)
            /\ DOMAIN w = 1..Len(w) /\ Len(w) \in Nat
            /\ \A j \in 1..Len(w) : Append(w, e)[j] = w[j]
            /\ Append(w, e)[Len(w) + 1] = e
        OBVIOUS
      <4> QED BY <4>1 DEF ToSet
    <3>4. f[i] \in Seq(ToSet(s)) /\ ToSet(f[i]) = ToSet(f[i - 1]) \cup {s[i]}
      BY <1>4, <3>1, <3>2, <3>3
    <3> QED BY <1>4, <2>1, <2>2, <3>4
  <2>3. CASE i \notin at
    <3>1. f[i] = f[i - 1]
      BY <1>3, <2>3
    <3> QED BY <1>4, <2>1, <2>3, <3>1
  <2> QED BY <2>2, <2>3
<1>5. Right(0)
  BY <1>3 DEF ToSet
<1>6. 0 \in good /\ \A i \in 1..Len(s) : i - 1 \in good => i \in good
  <2>1. \A i \in 1..Len(s) : Right(i - 1) => Right(i)
    BY <1>4
  <2> HIDE DEF Right
  <2> QED BY <1>1, <1>5, <2>1
<1>7. Right(Len(s))
  <2>1. Len(s) \in good
    <3>1. Len(s) \in Nat /\ Len(s) \in 0..Len(s) /\ 0 + 1 = 1
      BY <1>1
    <3> HIDE DEF good
    <3> QED BY <1>6, <3>1, Climb
  <2> HIDE DEF Right
  <2> QED BY <2>1
<1>8. ASSUME NEW T, NEW w \in Seq(T) PROVE IsList(w)
  <2>1. Len(w) \in Nat /\ w = [j \in 1..Len(w) |-> w[j]]
    OBVIOUS
  <2> QED BY <2>1, ListOf
<1>9. IsList(Those(s, at)) /\ ToSet(Those(s, at)) = {s[i] : i \in at \cap DOMAIN s}
  BY <1>1, <1>2, <1>7, <1>8
<1> HIDE DEF Right
<1> QED BY <1>9 DEF ToSet

\* What the function `flatten' of FlattenSeq is up to n.
IsFlat(f, seqs, n) == f = [i \in 1..n |-> IF i = 1 THEN seqs[i] ELSE f[i - 1] \o seqs[i]]

\* There is such a function.
LEMMA FlatExists ==
  ASSUME NEW seqs, NEW n \in Nat
  PROVE  \E f : IsFlat(f, seqs, n)
<1> DEFINE good == {k \in Nat : \E f : IsFlat(f, seqs, k)}
<1>1. 0 \in good
  <2>1. IsFlat([i \in 1..0 |-> <<>>], seqs, 0)
    BY DEF IsFlat
  <2> QED BY <2>1
<1>2. ASSUME NEW k \in 1..n, k - 1 \in good PROVE k \in good
  <2>1. PICK f : IsFlat(f, seqs, k - 1)
    BY <1>2
  <2> DEFINE g == [i \in 1..k |-> IF i = k THEN (IF k = 1 THEN seqs[k] ELSE f[k - 1] \o seqs[k])
                                  ELSE f[i]]
  <2>2. \A i \in 1..(k - 1) : g[i] = f[i]
    OBVIOUS
  <2>3. ASSUME NEW i \in 1..k PROVE g[i] = IF i = 1 THEN seqs[i] ELSE g[i - 1] \o seqs[i]
    <3>1. CASE i = k
      BY <2>2, <3>1
    <3>2. CASE i # k
      <4>1. i \in 1..(k - 1) /\ (i # 1 => i - 1 \in 1..(k - 1))
        BY <3>2
      <4>2. g[i] = f[i] /\ (i # 1 => g[i - 1] = f[i - 1])
        BY <2>2, <4>1
      <4>3. f[i] = IF i = 1 THEN seqs[i] ELSE f[i - 1] \o seqs[i]
        BY <2>1, <4>1 DEF IsFlat
      <4> QED BY <4>2, <4>3
    <3> QED BY <3>1, <3>2
  <2>4. IsFlat(g, seqs, k)
    BY <2>3 DEF IsFlat
  <2>5. k \in Nat
    OBVIOUS
  <2> QED BY <2>4, <2>5
<1>3. n \in 0..n
  OBVIOUS
<1>4. n \in good
  <2> HIDE DEF good
  <2> QED BY <1>1, <1>2, <1>3, Climb
<1> QED BY <1>4

\* A list of lists is joined to one with the entries of all.
LEMMA FlattenEntries ==
  ASSUME NEW seqs, IsList(seqs), \A i \in DOMAIN seqs : IsList(seqs[i])
  PROVE  /\ IsList(FlattenSeq(seqs))
         /\ ToSet(FlattenSeq(seqs)) = UNION {ToSet(seqs[i]) : i \in DOMAIN seqs}
<1>1. Len(seqs) \in Nat /\ DOMAIN seqs = 1..Len(seqs)
  BY ListShape
<1>2. CASE Len(seqs) = 0
  <2>1. FlattenSeq(seqs) = seqs
    BY <1>2, Zenon DEF FlattenSeq
  <2>2. DOMAIN seqs = {}
    BY <1>1, <1>2
  <2> QED BY <2>1, <2>2 DEF ToSet
<1>3. CASE Len(seqs) # 0
  <2>1. \E f : IsFlat(f, seqs, Len(seqs))
    BY <1>1, FlatExists
  <2>2. PICK f : FlattenSeq(seqs) = f[Len(seqs)] /\ IsFlat(f, seqs, Len(seqs))
    BY <1>3, <2>1, Zenon DEF FlattenSeq, IsFlat
  <2>3. /\ f[1] = seqs[1]
        /\ \A i \in 2..Len(seqs) : f[i] = f[i - 1] \o seqs[i]
    <3>1. f[1] = seqs[1]
      BY <1>1, <1>3, <2>2 DEF IsFlat
    <3>2. ASSUME NEW i \in 2..Len(seqs) PROVE f[i] = f[i - 1] \o seqs[i]
      <4>1. i \in 1..Len(seqs) /\ i # 1
        BY <1>1
      <4>2. f = [k \in 1..Len(seqs) |-> IF k = 1 THEN seqs[k] ELSE f[k - 1] \o seqs[k]]
        BY <2>2 DEF IsFlat
      <4> QED BY <4>1, <4>2, Zenon
    <3> QED BY <3>1, <3>2
  <2> DEFINE Right(i) == IsList(f[i]) /\ ToSet(f[i]) = UNION {ToSet(seqs[j]) : j \in 1..i}
             good == {i \in 1..Len(seqs) : Right(i)}
  <2>4. Right(1)
    <3>1. 1 \in DOMAIN seqs /\ 1..1 = {1}
      BY <1>1, <1>3
    <3> QED BY <2>3, <3>1
  <2>5. ASSUME NEW i \in 2..Len(seqs), Right(i - 1) PROVE Right(i)
    <3>1. f[i] = f[i - 1] \o seqs[i]
      BY <2>3, Zenon
    <3> i \in DOMAIN seqs
      BY <1>1
    <3>2. IsList(f[i]) /\ ToSet(f[i]) = ToSet(f[i - 1]) \cup ToSet(seqs[i])
      BY <2>5, <3>1, Concat
    <3>3. 1..i = (1..(i - 1)) \cup {i}
      BY <1>1
    <3> QED BY <2>5, <3>2, <3>3
  <2>6. Right(Len(seqs))
    <3>1. \A i \in 2..Len(seqs) : Right(i - 1) => Right(i)
      BY <2>5
    <3> HIDE DEF Right
    <3>2. 1 \in good /\ \A i \in 2..Len(seqs) : i - 1 \in good => i \in good
      BY <1>1, <1>3, <2>4, <3>1
    <3>3. Len(seqs) \in Nat /\ Len(seqs) \in 1..Len(seqs) /\ 1 + 1 = 2
      BY <1>1, <1>3
    <3>4. Len(seqs) \in good
      <4> HIDE DEF good
      <4> QED BY <3>2, <3>3, Climb
    <3> QED BY <3>4
  <2> QED BY <1>1, <2>2, <2>6
<1> QED BY <1>2, <1>3

(***************************************************************************)
(* Sorting.                                                                *)
(***************************************************************************)
\* A total preorder of the positions of a list.
Orders(R, D) ==
    /\ \A i \in D, j \in D : <<i, j>> \in R \/ <<j, i>> \in R
    /\ \A i \in D, j \in D, k \in D : <<i, j>> \in R /\ <<j, k>> \in R => <<i, k>> \in R

\* Every position of the sorted list is the place of one entry: places grow
\* along the order, so no two entries share one, and there are as many
\* places as entries.
LEMMA PlacesAreTaken ==
  ASSUME NEW s, IsList(s), NEW R, Orders(R, DOMAIN s), NEW k \in DOMAIN s
  PROVE  \E i \in DOMAIN s : PlaceIn(s, R, i) = k
<1> DEFINE D == DOMAIN s
           n == Len(s)
           Ahead(j, i) == <<j, i>> \in R /\ (<<i, j>> \in R => j <= i)
           below(i) == {j \in D : Ahead(j, i)}
<1>1. n \in Nat /\ D = 1..n
  BY ListShape
<1>2. IsFiniteSet(D) /\ Cardinality(D) = n
  <2>1. \A m \in Nat : IsFiniteSet(1..m) /\ Cardinality(1..m) = m
    BY FS_Interval
  <2> HIDE DEF D, n
  <2> QED BY Zenon, <1>1, <2>1
<1>3. \A i \in D : PlaceIn(s, R, i) = Cardinality(below(i))
  BY Zenon DEF PlaceIn
<1>4. \A i, j \in D : Ahead(i, j) \/ Ahead(j, i)
  <2>1. ASSUME NEW i \in D, NEW j \in D PROVE i <= j \/ j <= i
    BY <1>1
  <2>2. ASSUME NEW i \in D, NEW j \in D PROVE <<i, j>> \in R \/ <<j, i>> \in R
    BY DEF Orders
  <2> HIDE DEF D
  <2> QED BY <2>1, <2>2
<1>5. \A i, j \in D : Ahead(i, j) /\ Ahead(j, i) => i = j
  BY <1>1
<1>6. \A i, j, h \in D : Ahead(i, j) /\ Ahead(j, h) => Ahead(i, h)
  <2>1. D \subseteq Nat
    BY <1>1
  <2> SUFFICES ASSUME NEW i \in D, NEW j \in D, NEW h \in D, Ahead(i, j), Ahead(j, h)
               PROVE  Ahead(i, h)
    OBVIOUS
  <2>2. <<i, h>> \in R
    BY DEF Orders
  <2>3. ASSUME <<h, i>> \in R PROVE i <= h
    <3>1. <<j, i>> \in R /\ <<h, j>> \in R
      BY <2>3 DEF Orders
    <3>2. i <= j /\ j <= h
      BY <3>1
    <3> HIDE DEF D
    <3> QED BY <2>1, <3>2
  <2> QED BY <2>2, <2>3
<1> HIDE DEF Ahead
<1>7. ASSUME NEW i \in D PROVE /\ IsFiniteSet(below(i)) /\ Cardinality(below(i)) \in D
  <2>1. below(i) \in SUBSET D /\ i \in below(i)
    BY <1>4
  <2>2. IsFiniteSet(below(i)) /\ Cardinality(below(i)) <= n
    BY <1>2, <2>1, FS_Subset
  <2>3. Cardinality(below(i)) \in Nat /\ Cardinality(below(i)) # 0
    <3> HIDE DEF below, D
    <3> QED BY <2>1, <2>2, FS_CardinalityType, FS_EmptySet
  <2> HIDE DEF below
  <2> QED BY <1>1, <2>2, <2>3
<1>8. ASSUME NEW i \in D, NEW j \in D, i # j, Ahead(i, j)
      PROVE  Cardinality(below(i)) # Cardinality(below(j))
  <2>1. below(i) \in SUBSET below(j) /\ j \in below(j) /\ j \notin below(i)
    BY <1>4, <1>5, <1>6, <1>8
  <2>2. IsFiniteSet(below(j))
    BY <1>7
  <2> HIDE DEF below
  <2> QED BY <2>1, <2>2, FS_Subset
<1> DEFINE f == [i \in D |-> Cardinality(below(i))]
<1>9. f \in Injection(D, D)
  <2>1. f \in [D -> D]
    BY <1>7
  <2>2. \A i, j \in D : f[i] = f[j] => i = j
    BY <1>4, <1>8
  <2> HIDE DEF f, D
  <2> QED BY <2>1, <2>2 DEF Injection, IsInjective
<1>10. f \in Surjection(D, D)
  <2> HIDE DEF f, D
  <2> QED BY <1>2, <1>9, FS_Injection
<1>11. PICK i \in D : f[i] = k
  <2> HIDE DEF f
  <2> QED BY <1>10 DEF Surjection
<1> QED BY <1>3, <1>11

\* A sorted list has the entries of the list, as many as it.
LEMMA InOrderEntries ==
  ASSUME NEW s, IsList(s), NEW R, Orders(R, DOMAIN s)
  PROVE  /\ IsList(InOrder(s, R)) /\ DOMAIN InOrder(s, R) = DOMAIN s
         /\ \A k \in DOMAIN s : \E i \in DOMAIN s : InOrder(s, R)[k] = s[i]
<1>1. InOrder(s, R) = [k \in DOMAIN s |-> InOrder(s, R)[k]]
  BY DEF InOrder
<1>2. ASSUME NEW k \in DOMAIN s PROVE \E i \in DOMAIN s : InOrder(s, R)[k] = s[i]
  <2>1. \E i \in DOMAIN s : PlaceIn(s, R, i) = k
    BY PlacesAreTaken
  <2>2. InOrder(s, R)[k] = s[CHOOSE i \in DOMAIN s : PlaceIn(s, R, i) = k]
    BY DEF InOrder
  <2> DEFINE i == CHOOSE i \in DOMAIN s : PlaceIn(s, R, i) = k
  <2>3. i \in DOMAIN s
    BY <2>1, Zenon
  <2> QED BY <2>2, <2>3
<1>3. IsList(InOrder(s, R)) /\ DOMAIN InOrder(s, R) = DOMAIN s
  BY <1>1, ListMap
<1> QED BY <1>2, <1>3

(***************************************************************************)
(* Parsing.                                                                *)
(***************************************************************************)
\* How much of the stack stays open when the i-th unit is met,
StaysOpen(units, stack, i) ==
    Max({0} \cup {k \in DOMAIN stack : units[stack[k]].end >= units[i].end})

\* and what the stacks are up to the n-th unit.
IsOpened(f, units, n) ==
    f = [i \in 0..n |-> IF i = 0 THEN <<>>
                        ELSE Append(SubSeq(f[i - 1], 1, StaysOpen(units, f[i - 1], i)), i)]

\* There are such stacks.
LEMMA OpenedExists ==
  ASSUME NEW units, NEW n \in Nat
  PROVE  \E f : IsOpened(f, units, n)
<1> DEFINE Next1(stack, i) == Append(SubSeq(stack, 1, StaysOpen(units, stack, i)), i)
           good == {k \in Nat : \E f : IsOpened(f, units, k)}
<1>1. 0 \in good
  <2>1. IsOpened([i \in 0..0 |-> <<>>], units, 0)
    BY DEF IsOpened
  <2> QED BY <2>1
<1>2. ASSUME NEW k \in 1..n, k - 1 \in good PROVE k \in good
  <2>1. PICK f : IsOpened(f, units, k - 1)
    BY <1>2
  <2>2. f = [i \in 0..(k - 1) |-> IF i = 0 THEN <<>> ELSE Next1(f[i - 1], i)]
    BY <2>1 DEF IsOpened
  <2> HIDE DEF Next1
  <2> DEFINE g == [i \in 0..k |-> IF i = k THEN Next1(f[k - 1], k) ELSE f[i]]
  <2>3. \A i \in 0..(k - 1) : g[i] = f[i]
    OBVIOUS
  <2>4. ASSUME NEW i \in 0..k PROVE g[i] = IF i = 0 THEN <<>> ELSE Next1(g[i - 1], i)
    <3>1. CASE i = k
      BY <2>3, <3>1
    <3>2. CASE i # k
      <4>1. i \in 0..(k - 1) /\ (i # 0 => i - 1 \in 0..(k - 1))
        BY <3>2
      <4>2. g[i] = f[i] /\ (i # 0 => g[i - 1] = f[i - 1])
        BY <2>3, <4>1
      <4>3. f[i] = IF i = 0 THEN <<>> ELSE Next1(f[i - 1], i)
        BY <2>2, <4>1
      <4> QED BY <4>2, <4>3
    <3> QED BY <3>1, <3>2
  <2>5. IsOpened(g, units, k)
    BY <2>4 DEF IsOpened, Next1
  <2>6. k \in Nat
    OBVIOUS
  <2> QED BY <2>5, <2>6
<1>3. n \in 0..n
  OBVIOUS
<1>4. n \in good
  <2> HIDE DEF good
  <2> QED BY <1>1, <1>2, <1>3, Climb
<1> QED BY <1>4

\* The stack at a unit holds units up to it, itself among them.
LEMMA OpenedStacks ==
  ASSUME NEW units, IsList(units), NEW i \in DOMAIN units
  PROVE  Opened(units)[i] \in Seq(1..i) /\ Len(Opened(units)[i]) # 0
<1> DEFINE n == Len(units)
<1>1. n \in Nat /\ DOMAIN units = 1..n
  BY ListShape
<1>2. \E f : IsOpened(f, units, n)
  BY <1>1, OpenedExists
<1>3. PICK f : Opened(units) = f /\ IsOpened(f, units, n)
  BY <1>2, Zenon DEF Opened, IsOpened, StaysOpen
<1>4. f[0] = <<>>
  BY <1>1, <1>3 DEF IsOpened
<1>5. ASSUME NEW k \in 1..n
      PROVE  f[k] = Append(SubSeq(f[k - 1], 1, StaysOpen(units, f[k - 1], k)), k)
  <2>1. k \in 0..n /\ k # 0
    BY <1>1
  <2>2. f = [j \in 0..n |-> IF j = 0 THEN <<>>
                            ELSE Append(SubSeq(f[j - 1], 1, StaysOpen(units, f[j - 1], j)), j)]
    BY <1>3 DEF IsOpened
  <2> QED BY <2>1, <2>2, Zenon
<1> DEFINE Right(k) == f[k] \in Seq(1..k) /\ (k # 0 => Len(f[k]) # 0)
           good == {k \in 0..n : Right(k)}
<1>6. Right(0)
  BY <1>4
<1>7. ASSUME NEW k \in 1..n, Right(k - 1) PROVE Right(k)
  <2> DEFINE stack == f[k - 1]
             m == StaysOpen(units, stack, k)
  <2>1. stack \in Seq(1..k) /\ k \in 1..k
    <3>1. stack \in Seq(1..(k - 1)) /\ 1..(k - 1) \subseteq 1..k
      BY <1>7
    <3> HIDE DEF stack
    <3> QED BY <3>1
  <2>2. m \in 0..Len(stack)
    <3> DEFINE T == {0} \cup {j \in DOMAIN stack : units[stack[j]].end >= units[k].end}
    <3>1. Len(stack) \in Nat /\ T \in SUBSET (0..Len(stack)) /\ T # {}
      <4> HIDE DEF stack
      <4> QED BY <2>1
    <3>2. m = Max(T)
      BY Zenon DEF StaysOpen
    <3> HIDE DEF T, m, stack
    <3> QED BY <3>1, <3>2, MaxInside
  <2>3. f[k] = Append(SubSeq(stack, 1, m), k)
    BY <1>5
  <2>4. SubSeq(stack, 1, m) \in Seq(1..k)
    <3> HIDE DEF stack, m
    <3> QED BY <2>1, <2>2
  <2>5. \A w \in Seq(1..k) : Append(w, k) \in Seq(1..k) /\ Len(Append(w, k)) # 0
    BY <2>1
  <2> HIDE DEF stack, m
  <2> QED BY <2>3, <2>4, <2>5
<1>8. \A k \in 0..n : k \in good
  <2>1. \A k \in 1..n : Right(k - 1) => Right(k)
    BY <1>7
  <2> HIDE DEF Right
  <2>2. 0 \in good /\ \A k \in 1..n : k - 1 \in good => k \in good
    BY <1>1, <1>6, <2>1
  <2>3. 0 + 1 = 1
    OBVIOUS
  <2> HIDE DEF good
  <2> QED BY <1>1, <2>2, <2>3, Climb
<1>9. Right(i) /\ i # 0
  <2> HIDE DEF Right
  <2> QED BY <1>1, <1>8
<1> QED BY <1>3, <1>9

(***************************************************************************)
(* Chunks.                                                                 *)
(***************************************************************************)
\* A chunk ends within the range and no more than MaxUnitBytes further.
LEMMA ChunkEndInside ==
  ASSUME NEW text, NEW end \in Nat, NEW cursor \in 0..end
  PROVE  /\ ChunkEnd(text, cursor, end) \in cursor..end
         /\ ChunkEnd(text, cursor, end) - cursor <= MaxUnitBytes
<1> DEFINE far == IF cursor + MaxUnitBytes < end THEN cursor + MaxUnitBytes ELSE end
           ends == {k \in cursor..far : k = cursor \/ is_char_boundary(text, k)}
           cut == Max(ends)
           breaks == {k \in cursor..(cut - 1) : text[k + 1] \in {"nl", "doc"}}
<1>1. MaxUnitBytes \in Nat
  BY ChunkAssumption
<1>2. far \in cursor..end /\ far <= cursor + MaxUnitBytes
  BY <1>1
<1>3. cut \in cursor..far
  <2>1. far \in Nat /\ ends \in SUBSET (0..far) /\ cursor \in ends /\ ends \subseteq cursor..far
    <3> HIDE DEF far
    <3> QED BY <1>2
  <2> HIDE DEF far, ends
  <2> QED BY <2>1, MaxInside
<1>4. breaks # {} => Max(breaks) \in cursor..(cut - 1)
  <2>1. cut \in Nat /\ breaks \in SUBSET (0..cut) /\ breaks \subseteq cursor..(cut - 1)
    <3> HIDE DEF cut, far
    <3> QED BY <1>2, <1>3
  <2> HIDE DEF cut, breaks
  <2> QED BY <2>1, MaxInside
<1>5. \/ ChunkEnd(text, cursor, end) = cut
      \/ breaks # {} /\ ChunkEnd(text, cursor, end) = Max(breaks) + 1
  <2>1. ChunkEnd(text, cursor, end) =
          IF cut < end /\ breaks # {} /\ Max(breaks) - cursor > MaxUnitBytes \div 2
          THEN Max(breaks) + 1 ELSE cut
    BY Zenon DEF ChunkEnd
  <2> HIDE DEF cut, breaks
  <2> QED BY <2>1
<1> HIDE DEF cut, breaks, far
<1> QED BY <1>1, <1>2, <1>3, <1>4, <1>5

\* What the function `from' of chunk_ranges is from `first' on.
IsCut(f, text, first, end) ==
    f = [cursor \in first..end |->
            IF ChunkEnd(text, cursor, end) = cursor THEN <<>>
            ELSE <<<<cursor, ChunkEnd(text, cursor, end)>>>> \o f[ChunkEnd(text, cursor, end)]]

\* There is such a function.
LEMMA CutExists ==
  ASSUME NEW text, NEW end \in Nat, NEW first \in 0..end
  PROVE  \E f : IsCut(f, text, first, end)
<1> DEFINE good == {k \in 0..end : \E f : IsCut(f, text, end - k, end)}
           Stop(c) == ChunkEnd(text, c, end)
           Of(h, c) == IF Stop(c) = c THEN <<>> ELSE <<<<c, Stop(c)>>>> \o h[Stop(c)]
<1>1. ASSUME NEW c \in 0..end PROVE Stop(c) \in c..end
  BY ChunkEndInside
<1>2. \A f, c : IsCut(f, text, c, end) <=> f = [i \in c..end |-> Of(f, i)]
  BY Zenon DEF IsCut
<1> HIDE DEF Stop
<1>3. 0 \in good
  <2> DEFINE f == [i \in end..end |-> <<>>]
  <2>1. \A i \in end..end : Of(f, i) = <<>>
    BY <1>1
  <2>2. f = [i \in end..end |-> Of(f, i)]
    BY <2>1
  <2>3. IsCut(f, text, end, end)
    BY <1>2, <2>2
  <2>4. 0 \in 0..end /\ end - 0 = end
    OBVIOUS
  <2> QED BY <2>3, <2>4
<1>4. ASSUME NEW k \in 1..end, k - 1 \in good PROVE k \in good
  <2> DEFINE c == end - k
  <2>1. c \in 0..end /\ end - (k - 1) = c + 1 /\ c + 1 \in 0..end /\ k \in 0..end
    OBVIOUS
  <2>2. PICK f : IsCut(f, text, c + 1, end)
    BY <1>4, <2>1
  <2>3. f = [i \in (c + 1)..end |-> Of(f, i)]
    BY <1>2, <2>2
  <2> HIDE DEF c
  <2> DEFINE g == [i \in c..end |-> IF i = c THEN Of(f, c) ELSE f[i]]
  <2>4. \A i \in (c + 1)..end : i \in c..end /\ i # c /\ g[i] = f[i]
    BY <2>1
  <2>5. ASSUME NEW i \in c..end PROVE g[i] = Of(g, i)
    <3>1. i \in 0..end
      BY <2>1
    <3>2. Stop(i) = i \/ Stop(i) \in (c + 1)..end
      BY <1>1, <2>1, <3>1
    <3>3. Of(g, i) = Of(f, i)
      <4>1. Stop(i) # i => g[Stop(i)] = f[Stop(i)]
        BY <2>4, <3>2
      <4> HIDE DEF g
      <4> QED BY <4>1
    <3>4. CASE i = c
      <4>1. g[i] = Of(f, c)
        BY <3>4
      <4> HIDE DEF g, Of
      <4> QED BY <3>3, <3>4, <4>1
    <3>5. CASE i # c
      <4>1. i \in (c + 1)..end
        BY <2>1, <3>5
      <4>2. f[i] = Of(f, i)
        BY <2>3, <4>1, Zenon
      <4>3. g[i] = f[i]
        BY <2>4, <4>1
      <4> HIDE DEF g, Of
      <4> QED BY <3>3, <4>2, <4>3
    <3> QED BY <3>4, <3>5
  <2>6. g = [i \in c..end |-> g[i]]
    OBVIOUS
  <2>7. g = [i \in c..end |-> Of(g, i)]
    <3> HIDE DEF g, Of
    <3> QED BY <2>5, <2>6
  <2>8. IsCut(g, text, c, end)
    <3> HIDE DEF g, Of
    <3> QED BY <1>2, <2>7
  <2> QED BY <2>1, <2>8 DEF c
<1>5. \A k \in 0..end : k \in good
  <2>1. 0 + 1 = 1
    OBVIOUS
  <2> HIDE DEF good
  <2> QED BY <1>3, <1>4, <2>1, Climb
<1>6. end - first \in 0..end /\ end - (end - first) = first
  OBVIOUS
<1>7. end - first \in good
  <2> HIDE DEF good
  <2> QED BY <1>5, <1>6
<1> QED BY <1>6, <1>7

\* The chunks of a range are a list.
LEMMA ChunksAreListed ==
  ASSUME NEW text, NEW start \in Nat, NEW end \in Nat
  PROVE  IsList(chunk_ranges(text, start, end))
<1>1. MaxUnitBytes \in Nat
  BY ChunkAssumption
<1>2. CASE end - start <= MaxUnitBytes \/ MaxUnitBytes = 0
  <2>1. chunk_ranges(text, start, end) = <<<<start, end>>>>
    BY <1>2, Zenon DEF chunk_ranges
  <2> QED BY <2>1, SmallLists
<1>3. CASE ~(end - start <= MaxUnitBytes \/ MaxUnitBytes = 0)
  <2>1. start \in 0..end
    BY <1>1, <1>3
  <2>2. \E f : IsCut(f, text, start, end)
    BY <2>1, CutExists
  <2>3. PICK f : chunk_ranges(text, start, end) = f[start] /\ IsCut(f, text, start, end)
    BY <1>3, <2>2, Zenon DEF chunk_ranges, IsCut
  <2> DEFINE Stop(c) == ChunkEnd(text, c, end)
             good == {k \in 0..(end - start) : \A c \in (end - k)..end : IsList(f[c])}
  <2>4. ASSUME NEW c \in start..end
        PROVE  /\ Stop(c) \in c..end
               /\ f[c] = IF Stop(c) = c THEN <<>> ELSE <<<<c, Stop(c)>>>> \o f[Stop(c)]
    <3>1. c \in 0..end
      BY <2>1
    <3>2. Stop(c) \in c..end
      BY <3>1, ChunkEndInside
    <3>3. f = [i \in start..end |-> IF Stop(i) = i THEN <<>> ELSE <<<<i, Stop(i)>>>> \o f[Stop(i)]]
      BY <2>3, Zenon DEF IsCut
    <3>4. f[c] = IF Stop(c) = c THEN <<>> ELSE <<<<c, Stop(c)>>>> \o f[Stop(c)]
      BY <3>3, Zenon
    <3> QED BY <3>2, <3>4
  <2> HIDE DEF Stop
  <2>5. ASSUME NEW c \in start..end, \A b \in (c + 1)..end : IsList(f[b]) PROVE IsList(f[c])
    <3>1. CASE Stop(c) = c
      <4>1. f[c] = <<>>
        BY <2>4, <3>1
      <4> QED BY <4>1, SmallLists
    <3>2. CASE Stop(c) # c
      <4>1. f[c] = <<<<c, Stop(c)>>>> \o f[Stop(c)]
        BY <2>4, <3>2
      <4>2. Stop(c) \in c..end
        BY <2>4, Zenon
      <4>3. Stop(c) \in (c + 1)..end
        BY <2>1, <3>2, <4>2
      <4>4. IsList(f[Stop(c)])
        BY <2>5, <4>3
      <4>5. IsList(<<<<c, Stop(c)>>>>)
        BY SmallLists
      <4> QED BY <4>1, <4>4, <4>5, Concat
    <3> QED BY <3>1, <3>2
  <2>6. 0 \in good
    <3>1. ASSUME NEW c \in end..end PROVE IsList(f[c])
      <4>1. c \in start..end /\ \A b \in (c + 1)..end : IsList(f[b])
        BY <2>1
      <4> QED BY <2>5, <4>1
    <3>2. 0 \in 0..(end - start) /\ end - 0 = end
      BY <2>1
    <3> QED BY <3>1, <3>2
  <2>7. ASSUME NEW k \in 1..(end - start), k - 1 \in good PROVE k \in good
    <3>1. end - (k - 1) = (end - k) + 1 /\ end - k \in start..end /\ k \in 0..(end - start)
      BY <2>1
    <3>2. \A b \in ((end - k) + 1)..end : IsList(f[b])
      BY <2>7, <3>1
    <3>3. IsList(f[end - k])
      BY <2>5, <3>1, <3>2
    <3>4. \A c \in (end - k)..end : c = end - k \/ c \in ((end - k) + 1)..end
      BY <2>1, <3>1
    <3> QED BY <3>1, <3>2, <3>3, <3>4
  <2>8. end - start \in good
    <3>1. end - start \in Nat /\ end - start \in 0..(end - start) /\ 0 + 1 = 1
      BY <2>1
    <3> HIDE DEF good
    <3> QED BY <2>6, <2>7, <3>1, Climb
  <2>9. start \in (end - (end - start))..end
    BY <2>1
  <2> QED BY <2>3, <2>8, <2>9
<1> QED BY <1>2, <1>3

\* A chunk that starts at a character is not empty and ends at one.
LEMMA ChunkEndCuts ==
  ASSUME NEW text, CharactersFit(text), MaxUnitBytes # 0,
         NEW end \in 0..Len(text), NEW cursor \in 0..end, cursor < end,
         is_char_boundary(text, cursor), is_char_boundary(text, end)
  PROVE  /\ cursor < ChunkEnd(text, cursor, end)
         /\ is_char_boundary(text, ChunkEnd(text, cursor, end))
<1> DEFINE far == IF cursor + MaxUnitBytes < end THEN cursor + MaxUnitBytes ELSE end
           ends == {k \in cursor..far : k = cursor \/ is_char_boundary(text, k)}
           cut == Max(ends)
           breaks == {k \in cursor..(cut - 1) : text[k + 1] \in {"nl", "doc"}}
<1>1. MaxUnitBytes \in Nat \ {0} /\ Len(text) \in Nat
  BY ChunkAssumption, ListShape DEF CharactersFit
<1>2. far \in (cursor + 1)..end
  BY <1>1
<1>3. \E k \in ends : cursor < k
  <2>1. CASE cursor + MaxUnitBytes < end
    <3>1. far = cursor + MaxUnitBytes /\ cursor + MaxUnitBytes < Len(text)
      BY <1>1, <2>1
    <3>2. PICK k \in (cursor + 1)..(cursor + MaxUnitBytes) : is_char_boundary(text, k)
      BY <3>1 DEF CharactersFit
    <3>3. k \in cursor..far /\ cursor < k
      BY <1>1, <3>1
    <3> QED BY <3>2, <3>3
  <2>2. CASE ~(cursor + MaxUnitBytes < end)
    <3>1. far = end /\ end \in cursor..end
      BY <2>2
    <3> QED BY <3>1
  <2> QED BY <2>1, <2>2
<1>4. cut \in ends /\ cursor < cut
  <2>1. far \in Nat /\ ends \in SUBSET (0..far) /\ ends # {} /\ cursor \in Nat
    <3> HIDE DEF far
    <3> QED BY <1>2, <1>3
  <2>2. cut \in ends /\ \A k \in ends : k <= cut
    <3> HIDE DEF far, ends
    <3> QED BY <2>1, MaxInside
  <2>3. ends \subseteq Nat
    BY <2>1
  <2> HIDE DEF cut, ends, far
  <2> QED BY <1>3, <2>1, <2>2, <2>3
<1>5. cut \in (cursor + 1)..end /\ is_char_boundary(text, cut)
  <2>1. cut \in cursor..far /\ (cut = cursor \/ is_char_boundary(text, cut))
    <3> HIDE DEF cut, far
    <3> QED BY <1>4
  <2> HIDE DEF cut, far
  <2> QED BY <1>2, <1>4, <2>1
<1>6. ASSUME breaks # {}, cut < end
      PROVE  Max(breaks) \in cursor..(cut - 1) /\ is_char_boundary(text, Max(breaks) + 1)
  <2> DEFINE b == Max(breaks)
  <2>1. cut \in Nat /\ breaks \in SUBSET (0..cut)
    <3> HIDE DEF cut, far
    <3> QED BY <1>5
  <2>2. b \in breaks
    <3> HIDE DEF cut, breaks
    <3> QED BY <1>6, <2>1, MaxInside
  <2>3. b \in cursor..(cut - 1) /\ text[b + 1] \in {"nl", "doc"}
    <3> HIDE DEF b, cut
    <3> QED BY <2>2
  <2> HIDE DEF b, cut, breaks
  <2>4. b + 1 \in 1..(Len(text) - 1)
    BY <1>1, <1>5, <1>6, <2>3
  <2>5. text[(b + 1) + 1] # "cont"
    BY <2>3, <2>4 DEF CharactersFit
  <2> QED BY <2>3, <2>5 DEF is_char_boundary, b
<1>7. \/ ChunkEnd(text, cursor, end) = cut
      \/ /\ breaks # {} /\ cut < end
         /\ ChunkEnd(text, cursor, end) = Max(breaks) + 1
  <2>1. ChunkEnd(text, cursor, end) =
          IF cut < end /\ breaks # {} /\ Max(breaks) - cursor > MaxUnitBytes \div 2
          THEN Max(breaks) + 1 ELSE cut
    BY Zenon DEF ChunkEnd
  <2> HIDE DEF cut, breaks
  <2> QED BY <2>1
<1> HIDE DEF cut, breaks, far
<1>8. CASE ChunkEnd(text, cursor, end) = cut
  BY <1>4, <1>5, <1>8
<1>9. CASE breaks # {} /\ cut < end /\ ChunkEnd(text, cursor, end) = Max(breaks) + 1
  <2>1. cursor < Max(breaks) + 1
    BY <1>6, <1>9
  <2> QED BY <1>6, <1>9, <2>1
<1> QED BY <1>7, <1>8, <1>9

\* A chunk in front of what tiles the rest tiles the whole.
LEMMA TilesStep ==
  ASSUME NEW text, NEW last, NEW c \in Nat, NEW s \in Nat, c < s, s - c <= MaxUnitBytes,
         is_char_boundary(text, c), is_char_boundary(text, s),
         NEW rest, \/ rest = <<>> /\ s = last
                   \/ Tiles(rest, text, s, last)
  PROVE  Tiles(<<<<c, s>>>> \o rest, text, c, last)
<1> DEFINE one == <<c, s>>
           all == <<one>> \o rest
<1>1. IsList(<<one>>) /\ Len(<<one>>) = 1 /\ <<one>>[1] = one /\ one[1] = c /\ one[2] = s
  BY SmallLists
<1>2. IsList(rest)
  BY SmallLists DEF Tiles
<1>3. /\ Len(rest) \in Nat /\ DOMAIN rest = 1..Len(rest)
      /\ IsList(all) /\ Len(all) = Len(rest) + 1 /\ DOMAIN all = 1..(Len(rest) + 1)
      /\ all[1] = one /\ \A i \in DOMAIN rest : all[i + 1] = rest[i]
  <2>1. Len(rest) \in Nat /\ DOMAIN rest = 1..Len(rest) /\ rest \in Seq(ToSet(rest))
    BY <1>2, ListShape
  <2>2. IsList(all)
    BY <1>1, <1>2, Concat
  <2>3. <<one>> \in Seq({one})
    OBVIOUS
  <2> HIDE DEF one
  <2>4. /\ Len(all) = Len(rest) + 1
        /\ all[1] = one /\ \A i \in DOMAIN rest : all[i + 1] = rest[i]
    BY <2>1
  <2>5. DOMAIN all = 1..Len(all)
    BY <2>2, ListShape
  <2> QED BY <2>1, <2>2, <2>4, <2>5
<1> HIDE DEF all
<1>4. all # <<>> /\ all[1][1] = c
  BY <1>1, <1>3
<1>5. CASE rest = <<>> /\ s = last
  <2>1. Len(all) = 1 /\ DOMAIN all = 1..1
    BY <1>3, <1>5
  <2>2. ASSUME NEW i \in DOMAIN all
        PROVE  all[i] = one /\ i + 1 \notin DOMAIN all
    <3>1. i = 1
      BY <2>1
    <3> HIDE DEF one
    <3> QED BY <1>3, <2>1, <3>1
  <2>3. c < s /\ s - c <= MaxUnitBytes /\ IsList(all)
    BY <1>3
  <2> HIDE DEF one
  <2>4. Tiles(all, text, c, last)
    BY <1>1, <1>3, <1>4, <1>5, <2>1, <2>2, <2>3 DEF Tiles
  <2> QED BY <2>4 DEF all, one
<1>6. CASE Tiles(rest, text, s, last)
  <2>1. /\ rest # <<>> /\ rest[1][1] = s /\ rest[Len(rest)][2] = last
        /\ \A i \in DOMAIN rest :
             /\ rest[i][1] < rest[i][2]
             /\ MaxUnitBytes # 0 => rest[i][2] - rest[i][1] <= MaxUnitBytes
             /\ is_char_boundary(text, rest[i][1]) /\ is_char_boundary(text, rest[i][2])
             /\ i + 1 \in DOMAIN rest => rest[i][2] = rest[i + 1][1]
    BY <1>6 DEF Tiles
  <2>2. Len(rest) # 0
    BY <1>2, <2>1 DEF IsList
  <2>3. all[Len(all)] = rest[Len(rest)]
    BY <1>3, <2>2
  <2>4. ASSUME NEW i \in DOMAIN all
        PROVE  /\ all[i][1] < all[i][2]
               /\ MaxUnitBytes # 0 => all[i][2] - all[i][1] <= MaxUnitBytes
               /\ is_char_boundary(text, all[i][1]) /\ is_char_boundary(text, all[i][2])
               /\ i + 1 \in DOMAIN all => all[i][2] = all[i + 1][1]
    <3>1. CASE i = 1
      <4>1. all[i] = one /\ all[1 + 1] = rest[1]
        BY <1>3, <2>2, <3>1
      <4> HIDE DEF one
      <4> QED BY <1>1, <2>1, <3>1, <4>1
    <3>2. CASE i # 1
      <4>1. /\ i - 1 \in DOMAIN rest /\ (i - 1) + 1 = i
            /\ i + 1 \in DOMAIN all => i \in DOMAIN rest
        <5>1. /\ Len(rest) \in Nat /\ DOMAIN rest = 1..Len(rest)
              /\ DOMAIN all = 1..(Len(rest) + 1)
          BY <1>3
        <5> QED BY <3>2, <5>1
      <4>2. all[i] = rest[i - 1] /\ (i \in DOMAIN rest => all[i + 1] = rest[i])
        BY <1>3, <4>1
      <4> QED BY <2>1, <4>1, <4>2
    <3> QED BY <3>1, <3>2
  <2>5. Tiles(all, text, c, last)
    BY <1>3, <1>4, <2>1, <2>3, <2>4 DEF Tiles
  <2> QED BY <2>5 DEF all
<1> QED BY <1>5, <1>6

\* No byte of a range is lost to the index or indexed twice: chunk_ranges cuts
\* it, at characters, into chunks that follow one another.
THEOREM ChunksTile ==
  ASSUME NEW text, CharactersFit(text), NEW end \in 0..Len(text), NEW start \in 0..end,
         start < end, is_char_boundary(text, start), is_char_boundary(text, end)
  PROVE  Tiles(chunk_ranges(text, start, end), text, start, end)
<1>1. MaxUnitBytes \in Nat /\ Len(text) \in Nat
  BY ChunkAssumption, ListShape DEF CharactersFit
<1>2. CASE end - start <= MaxUnitBytes \/ MaxUnitBytes = 0
  <2> DEFINE one == <<start, end>>
  <2>1. chunk_ranges(text, start, end) = <<one>>
    BY <1>2, Zenon DEF chunk_ranges
  <2>2. /\ IsList(<<one>>) /\ <<one>> # <<>> /\ Len(<<one>>) = 1 /\ DOMAIN <<one>> = 1..1
        /\ <<one>>[1] = one /\ one[1] = start /\ one[2] = end
    BY SmallLists
  <2> HIDE DEF one
  <2> DEFINE s == <<one>>
  <2>3. ASSUME NEW i \in DOMAIN s PROVE s[i] = one /\ i + 1 \notin DOMAIN s
    BY <2>2
  <2> HIDE DEF s
  <2> QED BY <1>1, <1>2, <2>1, <2>2, <2>3 DEF Tiles, s
<1>3. CASE ~(end - start <= MaxUnitBytes \/ MaxUnitBytes = 0)
  <2>1. start \in 0..end /\ end \in Nat /\ MaxUnitBytes # 0
    BY <1>1, <1>3
  <2>2. \E f : IsCut(f, text, start, end)
    BY <2>1, CutExists
  <2>3. PICK f : chunk_ranges(text, start, end) = f[start] /\ IsCut(f, text, start, end)
    BY <1>3, <2>2, Zenon DEF chunk_ranges, IsCut
  <2> DEFINE Stop(c) == ChunkEnd(text, c, end)
             Right(c) == is_char_boundary(text, c) =>
                           \/ c = end /\ f[c] = <<>>
                           \/ Tiles(f[c], text, c, end)
             good == {k \in 0..(end - start) : \A c \in (end - k)..end : Right(c)}
  <2>4. ASSUME NEW c \in start..end
        PROVE  /\ Stop(c) \in c..end /\ Stop(c) - c <= MaxUnitBytes
               /\ f[c] = IF Stop(c) = c THEN <<>> ELSE <<<<c, Stop(c)>>>> \o f[Stop(c)]
    <3>1. c \in 0..end
      BY <2>1
    <3>2. Stop(c) \in c..end /\ Stop(c) - c <= MaxUnitBytes
      BY <2>1, <3>1, ChunkEndInside
    <3>3. f = [i \in start..end |-> IF Stop(i) = i THEN <<>> ELSE <<<<i, Stop(i)>>>> \o f[Stop(i)]]
      BY <2>3, Zenon DEF IsCut
    <3>4. f[c] = IF Stop(c) = c THEN <<>> ELSE <<<<c, Stop(c)>>>> \o f[Stop(c)]
      BY <3>3, Zenon
    <3> QED BY <3>2, <3>4
  <2>5. ASSUME NEW c \in start..end, c < end, is_char_boundary(text, c)
        PROVE  c < Stop(c) /\ is_char_boundary(text, Stop(c))
    <3>1. c \in 0..end
      BY <2>1
    <3> QED BY <2>1, <2>5, <3>1, ChunkEndCuts
  <2> HIDE DEF Stop
  <2>6. ASSUME NEW c \in start..end, \A b \in (c + 1)..end : Right(b) PROVE Right(c)
    <3> SUFFICES ASSUME is_char_boundary(text, c)
                 PROVE  (c = end /\ f[c] = <<>>) \/ Tiles(f[c], text, c, end)
      OBVIOUS
    <3>1. CASE c = end
      <4>1. Stop(c) \in c..end
        BY <2>4
      <4>2. Stop(c) = c
        BY <2>1, <3>1, <4>1
      <4>3. f[c] = <<>>
        BY <2>4, <4>2
      <4> QED BY <3>1, <4>3
    <3>2. CASE c # end
      <4>1. c < end /\ c \in Nat
        BY <2>1, <3>2
      <4>2. /\ Stop(c) \in c..end /\ Stop(c) - c <= MaxUnitBytes
            /\ c < Stop(c) /\ is_char_boundary(text, Stop(c))
        BY <2>4, <2>5, <4>1
      <4>3. Stop(c) \in (c + 1)..end /\ Stop(c) \in Nat /\ Stop(c) # c
        BY <2>1, <4>1, <4>2
      <4>4. f[c] = <<<<c, Stop(c)>>>> \o f[Stop(c)]
        BY <2>4, <4>3
      <4>5. \/ f[Stop(c)] = <<>> /\ Stop(c) = end
            \/ Tiles(f[Stop(c)], text, Stop(c), end)
        BY <2>6, <4>2, <4>3
      <4>6. Tiles(<<<<c, Stop(c)>>>> \o f[Stop(c)], text, c, end)
        BY <4>1, <4>2, <4>3, <4>5, TilesStep
      <4> QED BY <4>4, <4>6
    <3> QED BY <3>1, <3>2
  <2> HIDE DEF Right
  <2>7. 0 \in good
    <3>1. ASSUME NEW c \in end..end PROVE Right(c)
      <4>1. c \in start..end /\ \A b \in (c + 1)..end : Right(b)
        BY <2>1
      <4> QED BY <2>6, <4>1
    <3>2. 0 \in 0..(end - start) /\ end - 0 = end
      BY <2>1
    <3> QED BY <3>1, <3>2
  <2>8. ASSUME NEW k \in 1..(end - start), k - 1 \in good PROVE k \in good
    <3>1. end - (k - 1) = (end - k) + 1 /\ end - k \in start..end /\ k \in 0..(end - start)
      BY <2>1
    <3>2. \A b \in ((end - k) + 1)..end : Right(b)
      BY <2>8, <3>1
    <3>3. Right(end - k)
      BY <2>6, <3>1, <3>2
    <3>4. \A c \in (end - k)..end : c = end - k \/ c \in ((end - k) + 1)..end
      BY <2>1, <3>1
    <3> QED BY <3>1, <3>2, <3>3, <3>4
  <2>9. end - start \in good
    <3>1. end - start \in Nat /\ end - start \in 0..(end - start) /\ 0 + 1 = 1
      BY <2>1
    <3> HIDE DEF good
    <3> QED BY <2>7, <2>8, <3>1, Climb
  <2>10. start \in (end - (end - start))..end
    BY <2>1
  <2>11. Right(start)
    BY <2>9, <2>10
  <2> QED BY <1>1, <2>3, <2>11 DEF Right
<1> QED BY <1>2, <1>3

(***************************************************************************)
(* The analysis of a file.                                                 *)
(***************************************************************************)
\* Candidates and units have the places and types of nodes.
Placed(units) ==
    /\ IsList(units)
    /\ \A i \in DOMAIN units : /\ units[i].start \in Nat /\ units[i].end \in Nat
                               /\ IsList(units[i].types)

\* An analysis: every unit lies in the file or in another unit, every call
\* in the file or in a unit.
Analysis(a) ==
    /\ Placed(a.units) /\ IsList(a.calls)
    /\ \A i \in DOMAIN a.units : a.units[i].parent \in {0} \cup DOMAIN a.units
    /\ \A i \in DOMAIN a.calls : a.calls[i].caller \in {0} \cup DOMAIN a.units

\* The units a parse proposes have places,
LEMMA CandidatesArePlaced ==
  ASSUME NEW lang, NEW c \in DOMAIN Content
  PROVE  Placed(collect_candidates(lang, c))
<1> DEFINE nodes == Content[c].nodes
           at == {i \in DOMAIN nodes : /\ entity_kind(lang, nodes[i].syntax) # {}
                                        /\ nodes[i].name # <<>>}
           named == Those(nodes, at)
           all == collect_candidates(lang, c)
<1>1. /\ IsList(nodes)
      /\ \A n \in ToSet(nodes) : n.start \in Nat /\ n.end \in Nat /\ IsList(n.types)
  BY ContentAssumption
<1>2. /\ IsList(named)
      /\ \A k \in DOMAIN named : named[k] \in ToSet(nodes)
  <2>1. IsList(named) /\ \A k \in DOMAIN named : \E i \in at \cap DOMAIN nodes : named[k] = nodes[i]
    <3> HIDE DEF at, nodes
    <3> QED BY <1>1, ThoseEntries
  <2> HIDE DEF named
  <2> QED BY <2>1 DEF ToSet
<1>3. all = [i \in DOMAIN named |->
                [kind |-> CHOOSE k \in entity_kind(lang, named[i].syntax) : TRUE,
                 name |-> named[i].name, start |-> named[i].start, end |-> named[i].end,
                 types |-> named[i].types]]
  BY Zenon DEF collect_candidates, Select
<1> HIDE DEF named, nodes
<1>4. DOMAIN all = DOMAIN named /\ all = [i \in DOMAIN named |-> all[i]]
  BY <1>3
<1>5. IsList(all)
  BY <1>2, <1>4, ListMap
<1>6. ASSUME NEW i \in DOMAIN all
      PROVE  all[i].start \in Nat /\ all[i].end \in Nat /\ IsList(all[i].types)
  <2>1. all[i].start = named[i].start /\ all[i].end = named[i].end /\ all[i].types = named[i].types
    BY <1>3, <1>4
  <2> QED BY <1>1, <1>2, <1>4, <2>1
<1>7. Placed(all)
  <2> HIDE DEF all
  <2> QED BY <1>5, <1>6 DEF Placed
<1> QED BY <1>7

\* Sorted units are placed units.
LEMMA SortedUnitsArePlaced ==
  ASSUME NEW s, Placed(s)
  PROVE  Placed(Sorted(s, UnitBefore))
<1> DEFINE R == {w \in (DOMAIN s) \X (DOMAIN s) : UnitBefore(s[w[1]], s[w[2]])}
           t == InOrder(s, R)
<1>1. Sorted(s, UnitBefore) = t
  BY Zenon DEF Sorted
<1>2. IsList(s) /\ \A i \in DOMAIN s : s[i].start \in Nat /\ s[i].end \in Nat /\ IsList(s[i].types)
  BY DEF Placed
<1>3. \A i, j \in DOMAIN s : <<i, j>> \in R <=> UnitBefore(s[i], s[j])
  OBVIOUS
<1>4. \A i, j \in DOMAIN s : UnitBefore(s[i], s[j]) \/ UnitBefore(s[j], s[i])
  BY <1>2 DEF UnitBefore
<1>5. \A i, j, k \in DOMAIN s :
         UnitBefore(s[i], s[j]) /\ UnitBefore(s[j], s[k]) => UnitBefore(s[i], s[k])
  BY <1>2 DEF UnitBefore
<1>6. Orders(R, DOMAIN s)
  <2> HIDE DEF R
  <2> QED BY <1>3, <1>4, <1>5, Zenon DEF Orders
<1>7. IsList(t) /\ DOMAIN t = DOMAIN s /\ \A k \in DOMAIN s : \E i \in DOMAIN s : t[k] = s[i]
  <2> HIDE DEF R
  <2> QED BY <1>2, <1>6, InOrderEntries
<1> HIDE DEF t
<1>8. Placed(t)
  <2>1. ASSUME NEW k \in DOMAIN t PROVE t[k].start \in Nat /\ t[k].end \in Nat /\ IsList(t[k].types)
    <3>1. PICK i \in DOMAIN s : t[k] = s[i]
      BY <1>7
    <3> QED BY <1>2, <3>1
  <2> QED BY <1>7, <2>1 DEF Placed
<1> QED BY <1>1, <1>8

\* The parent of a unit is a unit, or none.
LEMMA ParentsAreUnits ==
  ASSUME NEW s, Placed(s)
  PROVE  /\ Placed(assign_parents(s)) /\ DOMAIN assign_parents(s) = DOMAIN s
         /\ \A i \in DOMAIN s : assign_parents(s)[i].parent \in {0} \cup DOMAIN s
<1> DEFINE t == assign_parents(s)
           Outer(stack) == IF Len(stack) = 1 THEN 0 ELSE stack[Len(stack) - 1]
<1>1. t = [i \in DOMAIN s |-> [kind |-> s[i].kind, name |-> s[i].name, start |-> s[i].start,
                               end |-> s[i].end, types |-> s[i].types,
                               parent |-> Outer(Opened(s)[i])]]
  BY Zenon DEF assign_parents
<1>2. IsList(s) /\ \A i \in DOMAIN s : s[i].start \in Nat /\ s[i].end \in Nat /\ IsList(s[i].types)
  BY DEF Placed
<1>3. Len(s) \in Nat /\ DOMAIN s = 1..Len(s)
  BY <1>2, ListShape
<1>4. ASSUME NEW i \in DOMAIN s PROVE Outer(Opened(s)[i]) \in {0} \cup DOMAIN s
  <2>1. Opened(s)[i] \in Seq(1..i) /\ Len(Opened(s)[i]) # 0
    BY <1>2, OpenedStacks
  <2>2. ASSUME NEW T, NEW w \in Seq(T), Len(w) # 0 PROVE Outer(w) \in {0} \cup T
    <3>1. Len(w) \in Nat /\ \A k \in 1..Len(w) : w[k] \in T
      OBVIOUS
    <3>2. ASSUME NEW n \in Nat, n # 0, n # 1 PROVE n - 1 \in 1..n
      BY <3>2
    <3>3. CASE Len(w) = 1
      BY <3>3
    <3>4. CASE Len(w) # 1
      <4>1. Len(w) - 1 \in 1..Len(w)
        BY <2>2, <3>1, <3>2, <3>4
      <4> QED BY <3>1, <3>4, <4>1
    <3> QED BY <3>3, <3>4
  <2>3. Outer(Opened(s)[i]) \in {0} \cup 1..i
    <3> HIDE DEF Outer
    <3> QED BY <2>1, <2>2
  <2>4. 1..i \subseteq DOMAIN s
    BY <1>3
  <2> HIDE DEF Outer
  <2> QED BY <2>3, <2>4
<1> HIDE DEF t, Outer
<1>5. DOMAIN t = DOMAIN s /\ t = [i \in DOMAIN s |-> t[i]]
  BY <1>1
<1>6. IsList(t)
  BY <1>2, <1>5, ListMap
<1>7. ASSUME NEW i \in DOMAIN s
      PROVE  /\ t[i].start \in Nat /\ t[i].end \in Nat /\ IsList(t[i].types)
             /\ t[i].parent \in {0} \cup DOMAIN s
  <2>1. /\ t[i].start = s[i].start /\ t[i].end = s[i].end /\ t[i].types = s[i].types
        /\ t[i].parent = Outer(Opened(s)[i])
    BY <1>1
  <2> QED BY <1>2, <1>4, <2>1
<1>8. Placed(t)
  BY <1>5, <1>6, <1>7 DEF Placed
<1> QED BY <1>5, <1>7, <1>8 DEF t

\* What the parser returns is an analysis.
LEMMA ParseAnalyses ==
  ASSUME NEW p, NEW c \in DOMAIN Content
  PROVE  Analysis(parse(p, c))
<1> DEFINE lang == language_for_path(p)
           units == assign_parents(Sorted(collect_candidates(lang, c), UnitBefore))
           found == Content[c].calls
           calls == [i \in DOMAIN found |->
                        [name |-> found[i].name, start |-> found[i].start, end |-> found[i].end,
                         caller |-> CallerOf(units, found[i])]]
<1>1. CASE ~supports(lang)
  <2>1. parse(p, c) = unparsed
    BY <1>1, Zenon DEF parse
  <2>2. unparsed.units = <<>> /\ unparsed.calls = <<>>
    BY DEF unparsed
  <2>3. DOMAIN <<>> = {}
    OBVIOUS
  <2> QED BY <2>1, <2>2, <2>3, SmallLists DEF Analysis, Placed
<1>2. CASE supports(lang)
  <2>1. parse(p, c) = [units |-> units, calls |-> calls, parsed |-> TRUE,
                       errors |-> Content[c].errors]
    BY <1>2, Zenon DEF parse
  <2>2. /\ Placed(units)
        /\ \A i \in DOMAIN units : units[i].parent \in {0} \cup DOMAIN units
    BY CandidatesArePlaced, SortedUnitsArePlaced, ParentsAreUnits
  <2>3. IsList(found)
    BY ContentAssumption
  <2> HIDE DEF units, found
  <2>4. DOMAIN calls = DOMAIN found /\ calls = [i \in DOMAIN found |-> calls[i]]
    OBVIOUS
  <2>5. IsList(calls)
    <3> HIDE DEF calls
    <3> QED BY <2>3, <2>4, ListMap
  <2>6. ASSUME NEW call PROVE CallerOf(units, call) \in {0} \cup DOMAIN units
    <3> DEFINE over == {i \in DOMAIN units :
                          units[i].start <= call.start /\ units[i].end >= call.end}
               T == {0} \cup over
    <3>1. CallerOf(units, call) = Max(T)
      BY Zenon DEF CallerOf
    <3>2. Len(units) \in Nat /\ DOMAIN units = 1..Len(units)
      BY <2>2, ListShape DEF Placed
    <3>3. over \subseteq DOMAIN units
      OBVIOUS
    <3> HIDE DEF over
    <3>4. T \in SUBSET (0..Len(units)) /\ T # {}
      BY <3>2, <3>3
    <3>5. Max(T) \in T
      <4> HIDE DEF T
      <4> QED BY <3>2, <3>4, MaxInside
    <3> QED BY <3>1, <3>3, <3>5
  <2>7. \A i \in DOMAIN calls : calls[i].caller \in {0} \cup DOMAIN units
    BY <2>4, <2>6
  <2> HIDE DEF calls
  <2> QED BY <2>1, <2>2, <2>5, <2>7 DEF Analysis
<1> QED BY <1>1, <1>2

(***************************************************************************)
(* Relations between known entities.                                       *)
(***************************************************************************)
IsLink(r, E) == {"src", "dst"} \subseteq DOMAIN r /\ r.src \in E /\ r.dst \in E
Linked(rels, E) == IsList(rels) /\ \A r \in ToSet(rels) : IsLink(r, E)

\* A relation links what it is made of.
LEMMA RelationLinks ==
  ASSUME NEW E, NEW src \in E, NEW dst \in E, NEW kind, NEW origin, NEW confidence, NEW evidence
  PROVE  IsLink(Relation(src, dst, kind, origin, confidence, evidence), E)
BY DEF IsLink, Relation

\* Lists of links stay so when they are computed entry by entry,
LEMMA LinkedMap ==
  ASSUME NEW E, NEW s, IsList(s), NEW t, t = [i \in DOMAIN s |-> t[i]],
         \A i \in DOMAIN s : IsLink(t[i], E)
  PROVE  Linked(t, E)
<1>1. IsList(t) /\ DOMAIN t = DOMAIN s
  BY ListMap
<1> QED BY <1>1 DEF Linked, ToSet

\* put in a row,
LEMMA LinkedConcat ==
  ASSUME NEW E, NEW s, Linked(s, E), NEW t, Linked(t, E)
  PROVE  Linked(s \o t, E)
BY Concat DEF Linked

\* joined,
LEMMA LinkedJoin ==
  ASSUME NEW E, NEW seqs, IsList(seqs), \A i \in DOMAIN seqs : Linked(seqs[i], E)
  PROVE  Linked(FlattenSeq(seqs), E)
<1>1. /\ IsList(FlattenSeq(seqs))
      /\ ToSet(FlattenSeq(seqs)) = UNION {ToSet(seqs[i]) : i \in DOMAIN seqs}
  BY FlattenEntries DEF Linked
<1> QED BY <1>1 DEF Linked

\* when their duplicates are dropped,
LEMMA LinkedDistinct ==
  ASSUME NEW E, NEW s, Linked(s, E)
  PROVE  Linked(Distinct(s), E)
<1> DEFINE at == {i \in DOMAIN s : \A j \in 1..(i - 1) : relation_id(s[j]) # relation_id(s[i])}
<1>1. Distinct(s) = Those(s, at)
  BY Zenon DEF Distinct
<1> HIDE DEF at
<1>2. IsList(Those(s, at)) /\ ToSet(Those(s, at)) = {s[i] : i \in at \cap DOMAIN s}
  BY ThoseEntries DEF Linked
<1>3. ToSet(Those(s, at)) \subseteq ToSet(s)
  BY <1>2 DEF ToSet
<1> QED BY <1>1, <1>2, <1>3 DEF Linked

\* and when more is known.
LEMMA LinkedMore ==
  ASSUME NEW E, NEW F, E \subseteq F, NEW s, Linked(s, E)
  PROVE  Linked(s, F)
BY DEF Linked, IsLink

\* There is nothing to link in an empty list.
LEMMA LinkedNone == \A E : Linked(<<>>, E)
BY SmallLists DEF Linked

\* and one link is a list of links.
LEMMA LinkedOne ==
  ASSUME NEW E, NEW r, IsLink(r, E)
  PROVE  Linked(<<r>>, E)
BY SmallLists DEF Linked

(***************************************************************************)
(* The view of a tree.                                                     *)
(***************************************************************************)
FileEntities(x) == {FileId(x, p) : p \in FilesOf(x)}
UnitsOf(x, p) == {UnitEntity(p, x.parsed[p].units[k]) : k \in DOMAIN x.parsed[p].units}
Known(x) == FileEntities(x) \cup UNION {UnitsOf(x, p) : p \in FilesOf(x)}

\* Every file of a view is analysed and every unit is a candidate.
IsView(x) ==
    /\ IsList(x.files)
    /\ \A p \in FilesOf(x) : x.body[p] \in DOMAIN Content /\ Analysis(x.parsed[p])
    /\ x.names = CandidatesOf(x.files, x.parsed)

\* A scanned file is known.
LEMMA KnownFiles == ASSUME NEW x, NEW p \in FilesOf(x) PROVE FileId(x, p) \in Known(x)
BY DEF Known, FileEntities

\* A unit of a scanned file is known.
LEMMA KnownUnits ==
  ASSUME NEW x, NEW p \in FilesOf(x), NEW i \in DOMAIN x.parsed[p].units
  PROVE  UnitEntity(p, x.parsed[p].units[i]) \in Known(x)
BY DEF Known, UnitsOf

\* Every candidate is a unit of the tree.
LEMMA NamesAreKnown ==
  ASSUME NEW x, IsView(x)
  PROVE  IsList(x.names) /\ \A k \in ToSet(x.names) : k.id \in Known(x)
<1> DEFINE Of(p) == [k \in DOMAIN x.parsed[p].units |->
                        LET u == x.parsed[p].units[k] IN
                        [name |-> u.name, id |-> UnitEntity(p, u), path |-> p, kind |-> u.kind]]
           seqs == [i \in DOMAIN x.files |-> Of(x.files[i])]
<1>1. x.names = FlattenSeq(seqs)
  BY Zenon DEF IsView, CandidatesOf
<1>2. ASSUME NEW i \in DOMAIN x.files
      PROVE  IsList(Of(x.files[i])) /\ \A k \in ToSet(Of(x.files[i])) : k.id \in Known(x)
  <2> DEFINE p == x.files[i]
             t == Of(p)
  <2>1. p \in FilesOf(x)
    BY DEF FilesOf, ToSet
  <2>2. IsList(x.parsed[p].units)
    BY <2>1 DEF IsView, Analysis, Placed
  <2> HIDE DEF p
  <2>3. /\ DOMAIN t = DOMAIN x.parsed[p].units
        /\ t = [k \in DOMAIN x.parsed[p].units |-> t[k]]
        /\ \A k \in DOMAIN t : t[k].id = UnitEntity(p, x.parsed[p].units[k])
    OBVIOUS
  <2> HIDE DEF t
  <2>4. IsList(t)
    BY <2>2, <2>3, ListMap
  <2>5. \A k \in ToSet(t) : k.id \in Known(x)
    BY <2>1, <2>3, KnownUnits DEF ToSet
  <2> QED BY <2>4, <2>5 DEF t, p
<1>3. IsList(x.files)
  BY DEF IsView
<1> HIDE DEF Of
<1>4. /\ DOMAIN seqs = DOMAIN x.files /\ seqs = [i \in DOMAIN x.files |-> seqs[i]]
      /\ \A i \in DOMAIN seqs : IsList(seqs[i]) /\ \A k \in ToSet(seqs[i]) : k.id \in Known(x)
  BY <1>2
<1> HIDE DEF seqs
<1>5. IsList(seqs)
  BY <1>3, <1>4, ListMap
<1>6. IsList(x.names) /\ ToSet(x.names) = UNION {ToSet(seqs[i]) : i \in DOMAIN seqs}
  BY <1>1, <1>4, <1>5, FlattenEntries
<1> QED BY <1>4, <1>6

\* A resolver finds one of the candidates it is given, or none.
LEMMA FirstThatInside ==
  ASSUME NEW s, IsList(s), NEW Tests, DOMAIN Tests \in SUBSET Nat, FirstThat(s, Tests) # NoCandidate
  PROVE  FirstThat(s, Tests) \in ToSet(s)
<1> DEFINE met == {k \in DOMAIN Tests : \E i \in DOMAIN s : Tests[k][i]}
           fit == {i \in DOMAIN s : Tests[Min(met)][i]}
<1>1. met # {} /\ FirstThat(s, Tests) = s[Min(fit)]
  BY Zenon DEF FirstThat
<1>2. Min(met) \in met
  <2>1. met \in SUBSET Nat
    OBVIOUS
  <2> HIDE DEF met
  <2> QED BY <1>1, <2>1, MinInside
<1>3. fit # {}
  BY <1>2
<1>4. Min(fit) \in fit
  <2>1. fit \in SUBSET Nat
    BY ListShape
  <2> HIDE DEF fit
  <2> QED BY <1>3, <2>1, MinInside
<1>5. Min(fit) \in DOMAIN s
  BY <1>4
<1> HIDE DEF fit
<1> QED BY <1>1, <1>5 DEF ToSet

\* A list of lists of links, one for every file.
LEMMA LinkedFiles ==
  ASSUME NEW x, IsView(x), NEW E, NEW seqs, seqs = [i \in DOMAIN x.files |-> seqs[i]],
         \A i \in DOMAIN x.files : x.files[i] \in FilesOf(x) => Linked(seqs[i], E)
  PROVE  Linked(FlattenSeq(seqs), E)
<1>1. IsList(seqs) /\ DOMAIN seqs = DOMAIN x.files
  BY ListMap DEF IsView
<1>2. \A i \in DOMAIN x.files : x.files[i] \in FilesOf(x)
  BY DEF FilesOf, ToSet
<1> QED BY <1>1, <1>2, LinkedJoin

(***************************************************************************)
(* The derived relations.                                                  *)
(***************************************************************************)
\* A file is looked up among the scanned ones.
LEMMA FirstFileInside ==
  ASSUME NEW x, NEW candidates, IsList(candidates), FirstFile(x, candidates) # NoPath
  PROVE  FirstFile(x, candidates) \in FilesOf(x)
<1> DEFINE at == {i \in DOMAIN candidates : candidates[i] \in FilesOf(x)}
           there == Those(candidates, at)
<1>1. there # <<>> /\ FirstFile(x, candidates) = there[1]
  BY Zenon DEF FirstFile, Select
<1>2. /\ IsList(there)
      /\ \A k \in DOMAIN there : \E i \in at \cap DOMAIN candidates : there[k] = candidates[i]
  <2> HIDE DEF at
  <2> QED BY ThoseEntries
<1>3. \A k \in DOMAIN there : there[k] \in FilesOf(x)
  BY <1>2
<1> HIDE DEF there
<1>4. there \in Seq(ToSet(there))
  BY <1>2, ListShape
<1>5. 1 \in DOMAIN there
  BY <1>1, <1>4
<1> QED BY <1>1, <1>3, <1>5

\* The candidates of a specifier are lists, so an import is of a file.
LEMMA ImportsAreFiles ==
  ASSUME NEW x, NEW p, NEW spec, IsList(spec.segs), ImportTarget(x, p, spec) # NoPath
  PROVE  ImportTarget(x, p, spec) \in FilesOf(x)
<1>1. ASSUME NEW anchor, NEW segs PROVE IsList(ModuleFiles(anchor, segs))
  <2>1. \A a, b : IsList(<<a, b>>)
    BY DEF IsList
  <2> QED BY <2>1, SmallLists DEF ModuleFiles
<1>2. resolve_rust_module(x, p, spec) # NoPath => resolve_rust_module(x, p, spec) \in FilesOf(x)
  <2> DEFINE anchor == CASE spec.form = "mod" -> rust_module_dir(p)
                         [] spec.form = "crate" -> crate_source_root(p)
                         [] spec.form = "self" -> rust_module_dir(p)
                         [] spec.form = "super" -> parent_dir(rust_module_dir(p))
             n == Len(spec.segs)
             seqs == [k \in 1..n |-> ModuleFiles(anchor, SubSeq(spec.segs, 1, n + 1 - k))]
  <2>1. resolve_rust_module(x, p, spec) = FirstFile(x, FlattenSeq(seqs))
    BY Zenon DEF resolve_rust_module
  <2>2. n \in Nat
    BY ListShape
  <2> HIDE DEF anchor, n
  <2>3. /\ DOMAIN seqs = 1..n /\ seqs = [k \in 1..n |-> seqs[k]]
        /\ \A k \in DOMAIN seqs : IsList(seqs[k])
    BY <1>1
  <2> HIDE DEF seqs
  <2>4. IsList(seqs)
    BY <2>2, <2>3, ListOf
  <2>5. IsList(FlattenSeq(seqs))
    BY <2>3, <2>4, FlattenEntries
  <2> QED BY <2>1, <2>5, FirstFileInside
<1>3. resolve_relative_import(x, p, spec) # NoPath
        => resolve_relative_import(x, p, spec) \in FilesOf(x)
  <2> DEFINE full == SubSeq(p.dir, 1, Len(p.dir) - spec.up) \o spec.segs
             Bases(ext) == IF full = <<>> THEN <<>> ELSE <<Path(Front(full), <<Last(full)>>, ext)>>
             Index(ext) == <<Path(full, <<"index">>, ext)>>
             bare == Bases("ts") \o Bases("tsx") \o Bases("js") \o Bases("jsx")
                     \o Bases("py") \o Index("ts") \o Index("tsx") \o Index("js")
             all == (IF spec.ext = "" THEN <<>> ELSE Bases(spec.ext))
                    \o (IF spec.ext # "" THEN <<>> ELSE bare)
  <2>1. \/ resolve_relative_import(x, p, spec) = NoPath
        \/ resolve_relative_import(x, p, spec) = FirstFile(x, all)
    BY Zenon DEF resolve_relative_import
  <2>2. ASSUME NEW ext PROVE IsList(Bases(ext)) /\ IsList(Index(ext))
    BY SmallLists
  <2> HIDE DEF Bases, Index
  <2>3. IsList(bare)
    BY <2>2, Concat
  <2>4. IsList(all)
    <3> HIDE DEF bare
    <3> QED BY <2>2, <2>3, SmallLists, Concat
  <2> HIDE DEF all
  <2> QED BY <2>1, <2>4, FirstFileInside
<1> QED BY <1>2, <1>3 DEF ImportTarget

\* Imports link files.
LEMMA ImportsLinked ==
  ASSUME NEW x, IsView(x) PROVE Linked(import_relations(x), Known(x))
<1>1. ASSUME NEW p \in FilesOf(x) PROVE Linked(FileImports(x, p), Known(x))
  <2> DEFINE specs == Content[x.body[p]].specifiers
             at == {i \in DOMAIN specs : ImportTarget(x, p, specs[i]) # NoPath}
             found == Those(specs, at)
             t == FileImports(x, p)
  <2>1. IsList(specs) /\ \A s \in ToSet(specs) : IsList(s.segs)
    BY ContentAssumption DEF IsView
  <2> HIDE DEF specs
  <2>2. /\ IsList(found)
        /\ \A k \in DOMAIN found : \E i \in at \cap DOMAIN specs : found[k] = specs[i]
    <3> HIDE DEF at
    <3> QED BY <2>1, ThoseEntries
  <2>3. ASSUME NEW k \in DOMAIN found PROVE ImportTarget(x, p, found[k]) \in FilesOf(x)
    <3>1. PICK i \in at \cap DOMAIN specs : found[k] = specs[i]
      BY <2>2
    <3>2. ImportTarget(x, p, found[k]) # NoPath /\ IsList(found[k].segs)
      BY <2>1, <3>1 DEF ToSet
    <3> QED BY <3>2, ImportsAreFiles
  <2>4. t = [i \in DOMAIN found |->
              Relation(FileId(x, p), FileId(x, ImportTarget(x, p, found[i])), "imports",
                       "FrameworkRule", SpecifierConfidence(found[i]), <<>>)]
    BY Zenon DEF FileImports, Select, specs
  <2> HIDE DEF found
  <2>5. ASSUME NEW i \in DOMAIN found PROVE IsLink(t[i], Known(x))
    BY <2>3, <2>4, KnownFiles, RelationLinks
  <2>6. t = [i \in DOMAIN found |-> t[i]]
    BY <2>4
  <2> HIDE DEF t
  <2>7. Linked(t, Known(x))
    BY <2>2, <2>5, <2>6, LinkedMap
  <2> QED BY <2>7 DEF t
<1> DEFINE seqs == [i \in DOMAIN x.files |-> FileImports(x, x.files[i])]
<1>2. import_relations(x) = FlattenSeq(seqs)
  BY Zenon DEF import_relations, PerFile
<1>3. /\ seqs = [i \in DOMAIN x.files |-> seqs[i]]
      /\ \A i \in DOMAIN x.files : x.files[i] \in FilesOf(x) => Linked(seqs[i], Known(x))
  BY <1>1
<1> HIDE DEF seqs
<1> QED BY <1>2, <1>3, LinkedFiles

\* The candidates with a name are candidates.
LEMMA NamedInside ==
  ASSUME NEW x, IsView(x), NEW name
  PROVE  IsList(Named(x, name)) /\ \A k \in ToSet(Named(x, name)) : k.id \in Known(x)
<1> DEFINE at == {i \in DOMAIN x.names : x.names[i].name = name}
<1>1. Named(x, name) = Those(x.names, at)
  BY Zenon DEF Named, Select
<1> HIDE DEF at
<1>2. IsList(x.names) /\ \A k \in ToSet(x.names) : k.id \in Known(x)
  BY NamesAreKnown
<1>3. /\ IsList(Those(x.names, at))
      /\ ToSet(Those(x.names, at)) = {x.names[i] : i \in at \cap DOMAIN x.names}
  BY <1>2, ThoseEntries
<1> QED BY <1>1, <1>2, <1>3 DEF ToSet

\* Calls link units and files.
LEMMA CallsLinked ==
  ASSUME NEW x, IsView(x) PROVE Linked(call_relations(x), Known(x))
<1>1. ASSUME NEW name, NEW p, resolve_callee(x, name, p) # NoCandidate
      PROVE  resolve_callee(x, name, p).id \in Known(x)
  <2> DEFINE named == Named(x, name)
             Tests == <<[i \in DOMAIN named |-> named[i].path = p],
                        [i \in DOMAIN named |-> named[i].kind \in CallableKinds],
                        [i \in DOMAIN named |-> TRUE]>>
  <2>1. resolve_callee(x, name, p) = FirstThat(named, Tests)
    BY Zenon DEF resolve_callee
  <2>2. DOMAIN Tests \in SUBSET Nat
    OBVIOUS
  <2>3. IsList(named) /\ \A k \in ToSet(named) : k.id \in Known(x)
    BY NamedInside
  <2> HIDE DEF Tests, named
  <2>4. FirstThat(named, Tests) \in ToSet(named)
    BY <1>1, <2>1, <2>2, <2>3, FirstThatInside
  <2> QED BY <2>1, <2>3, <2>4
<1>2. ASSUME NEW p \in FilesOf(x), NEW call, call.caller \in {0} \cup DOMAIN x.parsed[p].units
      PROVE  CallerId(x, p, call) \in Known(x)
  BY <1>2, KnownFiles, KnownUnits DEF CallerId
<1>3. ASSUME NEW p \in FilesOf(x) PROVE Linked(FileCalls(x, p), Known(x))
  <2> DEFINE calls == x.parsed[p].calls
             at == {i \in DOMAIN calls :
                      /\ resolve_callee(x, calls[i].name, p) # NoCandidate
                      /\ resolve_callee(x, calls[i].name, p).id # CallerId(x, p, calls[i])}
             edges == Those(calls, at)
             t == [i \in DOMAIN edges |->
                     Relation(CallerId(x, p, edges[i]), resolve_callee(x, edges[i].name, p).id,
                              "calls", "TreeSitter",
                              resolved_confidence(60, Len(Named(x, edges[i].name))),
                              <<<<p, edges[i].start, edges[i].end>>>>)]
  <2>1. FileCalls(x, p) = Distinct(t)
    BY Zenon DEF FileCalls, Select
  <2>2. /\ IsList(calls)
        /\ \A i \in DOMAIN calls : calls[i].caller \in {0} \cup DOMAIN x.parsed[p].units
    BY DEF IsView, Analysis
  <2> HIDE DEF calls
  <2>3. /\ IsList(edges)
        /\ \A k \in DOMAIN edges : \E i \in at \cap DOMAIN calls : edges[k] = calls[i]
    <3> HIDE DEF at
    <3> QED BY <2>2, ThoseEntries
  <2>4. ASSUME NEW k \in DOMAIN edges
        PROVE  /\ CallerId(x, p, edges[k]) \in Known(x)
               /\ resolve_callee(x, edges[k].name, p).id \in Known(x)
    <3>1. PICK i \in at \cap DOMAIN calls : edges[k] = calls[i]
      BY <2>3
    <3>2. /\ resolve_callee(x, edges[k].name, p) # NoCandidate
          /\ edges[k].caller \in {0} \cup DOMAIN x.parsed[p].units
      BY <2>2, <3>1
    <3> QED BY <1>1, <1>2, <3>2
  <2> HIDE DEF edges
  <2>5. ASSUME NEW i \in DOMAIN edges PROVE IsLink(t[i], Known(x))
    BY <2>4, RelationLinks
  <2>6. t = [i \in DOMAIN edges |-> t[i]]
    OBVIOUS
  <2> HIDE DEF t
  <2>7. Linked(t, Known(x))
    BY <2>3, <2>5, <2>6, LinkedMap
  <2> QED BY <2>1, <2>7, LinkedDistinct
<1> DEFINE seqs == [i \in DOMAIN x.files |-> FileCalls(x, x.files[i])]
<1>4. call_relations(x) = FlattenSeq(seqs)
  BY Zenon DEF call_relations, PerFile
<1>5. /\ seqs = [i \in DOMAIN x.files |-> seqs[i]]
      /\ \A i \in DOMAIN x.files : x.files[i] \in FilesOf(x) => Linked(seqs[i], Known(x))
  BY <1>3
<1> HIDE DEF seqs
<1> QED BY <1>4, <1>5, LinkedFiles

\* Type references link units.
LEMMA ReferencesLinked ==
  ASSUME NEW x, IsView(x) PROVE Linked(type_reference_relations(x), Known(x))
<1>1. ASSUME NEW name
      PROVE  /\ IsList(NamedTypes(x, name))
             /\ \A k \in ToSet(NamedTypes(x, name)) : k.id \in Known(x)
  <2> DEFINE named == Named(x, name)
             at == {i \in DOMAIN named : named[i].kind \in TypeKinds}
  <2>1. NamedTypes(x, name) = Those(named, at)
    BY Zenon DEF NamedTypes, Select
  <2>2. IsList(named) /\ \A k \in ToSet(named) : k.id \in Known(x)
    BY NamedInside
  <2> HIDE DEF at, named
  <2>3. /\ IsList(Those(named, at))
        /\ ToSet(Those(named, at)) = {named[i] : i \in at \cap DOMAIN named}
    BY <2>2, ThoseEntries
  <2> QED BY <2>1, <2>2, <2>3 DEF ToSet
<1>2. ASSUME NEW name, NEW p, resolve_type_reference(x, name, p) # NoCandidate
      PROVE  resolve_type_reference(x, name, p).id \in Known(x)
  <2> DEFINE types == NamedTypes(x, name)
             Tests == <<[i \in DOMAIN types |-> types[i].path = p], [i \in DOMAIN types |-> TRUE]>>
  <2>1. resolve_type_reference(x, name, p) = FirstThat(types, Tests)
    BY Zenon DEF resolve_type_reference
  <2>2. DOMAIN Tests \in SUBSET Nat
    OBVIOUS
  <2>3. IsList(types) /\ \A k \in ToSet(types) : k.id \in Known(x)
    BY <1>1
  <2> HIDE DEF Tests, types
  <2>4. FirstThat(types, Tests) \in ToSet(types)
    BY <1>2, <2>1, <2>2, <2>3, FirstThatInside
  <2> QED BY <2>1, <2>3, <2>4
<1>3. ASSUME NEW p, NEW u, IsList(u.types), UnitEntity(p, u) \in Known(x)
      PROVE  Linked(UnitReferences(x, p, u), Known(x))
  <2> DEFINE at == {i \in DOMAIN u.types :
                      /\ resolve_type_reference(x, u.types[i], p) # NoCandidate
                      /\ resolve_type_reference(x, u.types[i], p).id # UnitEntity(p, u)}
             used == Those(u.types, at)
             t == UnitReferences(x, p, u)
  <2>1. t = [i \in DOMAIN used |->
               Relation(UnitEntity(p, u), resolve_type_reference(x, used[i], p).id, "references",
                        "TreeSitter", resolved_confidence(55, Len(NamedTypes(x, used[i]))),
                        <<<<p, u.start, u.end>>>>)]
    BY Zenon DEF UnitReferences, Select
  <2>2. /\ IsList(used)
        /\ \A k \in DOMAIN used : \E i \in at \cap DOMAIN u.types : used[k] = u.types[i]
    <3> HIDE DEF at
    <3> QED BY <1>3, ThoseEntries
  <2>3. ASSUME NEW k \in DOMAIN used PROVE resolve_type_reference(x, used[k], p).id \in Known(x)
    <3>1. PICK i \in at \cap DOMAIN u.types : used[k] = u.types[i]
      BY <2>2
    <3>2. resolve_type_reference(x, used[k], p) # NoCandidate
      BY <3>1
    <3> QED BY <1>2, <3>2
  <2> HIDE DEF used
  <2>4. ASSUME NEW i \in DOMAIN used PROVE IsLink(t[i], Known(x))
    BY <1>3, <2>1, <2>3, RelationLinks
  <2>5. t = [i \in DOMAIN used |-> t[i]]
    BY <2>1
  <2> HIDE DEF t
  <2>6. Linked(t, Known(x))
    BY <2>2, <2>4, <2>5, LinkedMap
  <2> QED BY <2>6 DEF t
<1>4. ASSUME NEW p \in FilesOf(x) PROVE Linked(FileReferences(x, p), Known(x))
  <2> DEFINE units == x.parsed[p].units
             parts == [i \in DOMAIN units |-> UnitReferences(x, p, units[i])]
  <2>1. FileReferences(x, p) = Distinct(FlattenSeq(parts))
    BY Zenon DEF FileReferences
  <2>2. IsList(units) /\ \A i \in DOMAIN units : IsList(units[i].types)
    BY DEF IsView, Analysis, Placed
  <2>3. \A i \in DOMAIN units : UnitEntity(p, units[i]) \in Known(x)
    BY KnownUnits
  <2> HIDE DEF units
  <2>4. /\ DOMAIN parts = DOMAIN units /\ parts = [i \in DOMAIN units |-> parts[i]]
        /\ \A i \in DOMAIN parts : Linked(parts[i], Known(x))
    BY <1>3, <2>2, <2>3
  <2> HIDE DEF parts
  <2>5. IsList(parts)
    BY <2>2, <2>4, ListMap
  <2> QED BY <2>1, <2>4, <2>5, LinkedJoin, LinkedDistinct
<1> DEFINE seqs == [i \in DOMAIN x.files |-> FileReferences(x, x.files[i])]
<1>5. type_reference_relations(x) = FlattenSeq(seqs)
  BY Zenon DEF type_reference_relations, PerFile
<1>6. /\ seqs = [i \in DOMAIN x.files |-> seqs[i]]
      /\ \A i \in DOMAIN x.files : x.files[i] \in FilesOf(x) => Linked(seqs[i], Known(x))
  BY <1>4
<1> HIDE DEF seqs
<1> QED BY <1>5, <1>6, LinkedFiles

\* A test is linked to files and units, whichever files share a name.
LEMMA TestsLinked ==
  ASSUME NEW x, IsView(x), NEW pick \in BasenamePicks(x)
  PROVE  Linked(test_relations(x, pick), Known(x))
<1>1. \A p \in FilesOf(x) : pick[basename(p)] \in FilesOf(x)
  <2>1. PICK w \in SUBSET FilesOf(x) :
           /\ {basename(p) : p \in w} = {basename(p) : p \in FilesOf(x)}
           /\ pick = [b \in {basename(p) : p \in FilesOf(x)} |-> CHOOSE p \in w : basename(p) = b]
    BY Zenon DEF BasenamePicks
  <2>2. ASSUME NEW p \in FilesOf(x) PROVE pick[basename(p)] \in FilesOf(x)
    <3>1. \E q \in w : basename(q) = basename(p)
      BY <2>1
    <3>2. pick[basename(p)] = CHOOSE q \in w : basename(q) = basename(p)
      BY <2>1
    <3>3. (CHOOSE q \in w : basename(q) = basename(p)) \in w
      BY <3>1, Zenon
    <3> QED BY <3>2, <3>3
  <2> QED BY <2>2
<1>2. ASSUME NEW p \in FilesOf(x) PROVE Linked(PairLinks(x, p), Known(x))
  <2> DEFINE paths == test_target_paths(p)
             at == {i \in DOMAIN paths : paths[i] \in FilesOf(x)}
             pairs == Those(paths, at)
             t == PairLinks(x, p)
  <2>1. t = [i \in DOMAIN pairs |-> TestLink(FileId(x, p), FileId(x, pairs[i]), 70)]
    BY Zenon DEF PairLinks, Select
  <2>2. IsList(paths)
    <3>1. \A a, b : IsList(<<a, b>>)
      BY DEF IsList
    <3> QED BY <3>1, SmallLists, Concat DEF test_target_paths
  <2> HIDE DEF paths
  <2>3. /\ IsList(pairs)
        /\ \A k \in DOMAIN pairs : \E i \in at \cap DOMAIN paths : pairs[k] = paths[i]
    <3> HIDE DEF at
    <3> QED BY <2>2, ThoseEntries
  <2>4. \A k \in DOMAIN pairs : pairs[k] \in FilesOf(x)
    BY <2>3
  <2> HIDE DEF pairs
  <2>5. ASSUME NEW i \in DOMAIN pairs PROVE IsLink(t[i], Known(x))
    BY <2>1, <2>4, KnownFiles, RelationLinks DEF TestLink
  <2>6. t = [i \in DOMAIN pairs |-> t[i]]
    BY <2>1
  <2> HIDE DEF t
  <2>7. Linked(t, Known(x))
    BY <2>3, <2>5, <2>6, LinkedMap
  <2> QED BY <2>7 DEF t
<1>3. ASSUME NEW p \in FilesOf(x), NEW twin \in FilesOf(x)
      PROVE  Linked(TwinLinks(x, p, twin), Known(x))
  BY KnownFiles, RelationLinks, LinkedOne, LinkedNone DEF TwinLinks, TestLink
<1>4. ASSUME NEW name, NEW p, TestedBy(x, name, p) # NoCandidate
      PROVE  TestedBy(x, name, p).id \in Known(x)
  <2> DEFINE bare == strip_test_affix(name)
             Fits(n) == n = bare \/ (IsPrefix(n, bare) /\ n \notin ShortNames)
             at == {i \in DOMAIN x.names : bare # <<>> /\ Fits(x.names[i].name)}
             fits == Those(x.names, at)
             long == Max({0} \cup {Len(fits[i].name) : i \in DOMAIN fits})
             Tests == <<[i \in DOMAIN fits |-> Len(fits[i].name) = long /\ fits[i].path = p],
                        [i \in DOMAIN fits |-> Len(fits[i].name) = long]>>
  <2>1. TestedBy(x, name, p) = FirstThat(fits, Tests)
    BY Zenon DEF TestedBy, Select
  <2>2. DOMAIN Tests \in SUBSET Nat
    <3> HIDE DEF fits, long
    <3> QED OBVIOUS
  <2>3. IsList(x.names) /\ \A k \in ToSet(x.names) : k.id \in Known(x)
    BY NamesAreKnown
  <2> HIDE DEF at, Tests
  <2>4. IsList(fits) /\ ToSet(fits) = {x.names[i] : i \in at \cap DOMAIN x.names}
    BY <2>3, ThoseEntries
  <2>5. \A k \in ToSet(fits) : k.id \in Known(x)
    BY <2>3, <2>4 DEF ToSet
  <2> HIDE DEF fits
  <2>6. FirstThat(fits, Tests) \in ToSet(fits)
    BY <1>4, <2>1, <2>2, <2>4, FirstThatInside
  <2> QED BY <2>1, <2>5, <2>6
<1>5. ASSUME NEW p \in FilesOf(x) PROVE Linked(UnitLinks(x, p), Known(x))
  <2> DEFINE units == x.parsed[p].units
             at == {i \in DOMAIN units : TestedBy(x, units[i].name, p) # NoCandidate}
             tests == Those(units, at)
             t == UnitLinks(x, p)
  <2>1. t = [i \in DOMAIN tests |->
               TestLink(UnitEntity(p, tests[i]), TestedBy(x, tests[i].name, p).id,
                        IF strip_test_affix(tests[i].name) = TestedBy(x, tests[i].name, p).name
                        THEN 65 ELSE 55)]
    BY Zenon DEF UnitLinks, Select
  <2>2. IsList(units)
    BY DEF IsView, Analysis, Placed
  <2>3. \A i \in DOMAIN units : UnitEntity(p, units[i]) \in Known(x)
    BY KnownUnits
  <2> HIDE DEF units
  <2>4. /\ IsList(tests)
        /\ \A k \in DOMAIN tests : \E i \in at \cap DOMAIN units : tests[k] = units[i]
    <3> HIDE DEF at
    <3> QED BY <2>2, ThoseEntries
  <2>5. ASSUME NEW k \in DOMAIN tests
        PROVE  UnitEntity(p, tests[k]) \in Known(x) /\ TestedBy(x, tests[k].name, p).id \in Known(x)
    <3>1. PICK i \in at \cap DOMAIN units : tests[k] = units[i]
      BY <2>4
    <3>2. TestedBy(x, tests[k].name, p) # NoCandidate
      BY <3>1
    <3> QED BY <1>4, <2>3, <3>1, <3>2
  <2> HIDE DEF tests
  <2>6. ASSUME NEW i \in DOMAIN tests PROVE IsLink(t[i], Known(x))
    BY <2>1, <2>5, RelationLinks DEF TestLink
  <2>7. t = [i \in DOMAIN tests |-> t[i]]
    BY <2>1
  <2> HIDE DEF t
  <2>8. Linked(t, Known(x))
    BY <2>4, <2>6, <2>7, LinkedMap
  <2> QED BY <2>8 DEF t
<1> DEFINE Of(p) == PairLinks(x, p) \o TwinLinks(x, p, pick[basename(p)]) \o UnitLinks(x, p)
           seqs == [i \in DOMAIN x.files |-> Of(x.files[i])]
<1>6. ASSUME NEW p \in FilesOf(x) PROVE Linked(Of(p), Known(x))
  BY <1>1, <1>2, <1>3, <1>5, LinkedConcat
<1>7. test_relations(x, pick) = Distinct(FlattenSeq(seqs))
  BY Zenon DEF test_relations, PerFile
<1> HIDE DEF Of
<1>8. /\ seqs = [i \in DOMAIN x.files |-> seqs[i]]
      /\ \A i \in DOMAIN x.files : x.files[i] \in FilesOf(x) => Linked(seqs[i], Known(x))
  BY <1>6
<1> HIDE DEF seqs
<1> QED BY <1>7, <1>8, LinkedFiles, LinkedDistinct

\* Co-change links files, whatever the walk found.
LEMMA CoChangesLinked ==
  ASSUME NEW x, IsView(x), NEW walk
  PROVE  Linked(changed_with_relations(x, walk), Known(x))
<1> DEFINE window == CoWindow(x, walk)
           pairs == CoPairs(x, window)
<1>1. ASSUME NEW p \in FilesOf(x) PROVE Linked(FileCoChanges(x, window, pairs, p), Known(x))
  <2> DEFINE at == {i \in DOMAIN x.files : <<p, x.files[i]>> \in pairs}
             own == Those(x.files, at)
             t == FileCoChanges(x, window, pairs, p)
  <2>1. t = [i \in DOMAIN own |-> CoChange(x, window, p, own[i])]
    BY Zenon DEF FileCoChanges, Select
  <2>2. /\ IsList(own)
        /\ \A k \in DOMAIN own : \E i \in at \cap DOMAIN x.files : own[k] = x.files[i]
    <3> HIDE DEF at
    <3> QED BY ThoseEntries DEF IsView
  <2>3. \A k \in DOMAIN own : own[k] \in FilesOf(x)
    BY <2>2 DEF FilesOf, ToSet
  <2> HIDE DEF own, window, pairs
  <2>4. ASSUME NEW i \in DOMAIN own PROVE IsLink(t[i], Known(x))
    BY <2>1, <2>3, KnownFiles, RelationLinks DEF CoChange
  <2>5. t = [i \in DOMAIN own |-> t[i]]
    BY <2>1
  <2> HIDE DEF t
  <2>6. Linked(t, Known(x))
    BY <2>2, <2>4, <2>5, LinkedMap
  <2> QED BY <2>6 DEF t
<1> DEFINE seqs == [i \in DOMAIN x.files |-> FileCoChanges(x, window, pairs, x.files[i])]
<1>2. changed_with_relations(x, walk) = FlattenSeq(seqs)
  BY Zenon DEF changed_with_relations, PerFile
<1> HIDE DEF window, pairs
<1>3. /\ seqs = [i \in DOMAIN x.files |-> seqs[i]]
      /\ \A i \in DOMAIN x.files : x.files[i] \in FilesOf(x) => Linked(seqs[i], Known(x))
  BY <1>1
<1> HIDE DEF seqs
<1> QED BY <1>2, <1>3, LinkedFiles

\* All derived relations are between files and units of the tree when those
\* that contain a unit are.
LEMMA DerivedLinked ==
  ASSUME NEW x, IsView(x), NEW pick \in BasenamePicks(x), NEW walk,
         NEW contains, Linked(contains, Known(x))
  PROVE  Linked(add_derived_relations(DerivedRelations(x, pick, walk, contains)), Known(x))
<1>1. Linked(DerivedRelations(x, pick, walk, contains), Known(x))
  BY ImportsLinked, CallsLinked, ReferencesLinked, TestsLinked, CoChangesLinked, LinkedConcat
     DEF DerivedRelations
<1> QED BY <1>1, LinkedDistinct DEF add_derived_relations

(***************************************************************************)
(* Packages, routes, pages and commits.                                    *)
(***************************************************************************)
\* The packages are a list, with lists of dependencies: their names are
\* ordered.
LEMMA PackagesAreListed ==
  ASSUME NEW x, IsView(x)
  PROVE  IsList(extract(x)) /\ \A i \in DOMAIN extract(x) : IsList(extract(x)[i].deps)
<1> DEFINE at == {i \in DOMAIN x.files : /\ IsManifest(x.files[i])
                                         /\ Content[x.body[x.files[i]]].manifest.name # <<>>}
           paths == Those(x.files, at)
           found == [i \in DOMAIN paths |->
                       [name |-> Content[x.body[paths[i]]].manifest.name, path |-> paths[i],
                        deps |-> Content[x.body[paths[i]]].manifest.deps, place |-> i]]
           Spelling(g) == CHOOSE i \in DOMAIN NameOrder : NameOrder[i] = g.name
           NameBefore(g, h) == \/ Spelling(g) < Spelling(h)
                               \/ g.name = h.name /\ g.place <= h.place
           R == {w \in (DOMAIN found) \X (DOMAIN found) : NameBefore(found[w[1]], found[w[2]])}
<1>1. extract(x) = InOrder(found, R)
  BY Zenon DEF extract, Sorted, Select
<1>2. /\ IsList(paths)
      /\ \A k \in DOMAIN paths : \E i \in at \cap DOMAIN x.files : paths[k] = x.files[i]
  <2> HIDE DEF at
  <2> QED BY ThoseEntries DEF IsView
<1>3. ASSUME NEW k \in DOMAIN paths
      PROVE  /\ Content[x.body[paths[k]]].manifest.name \in ToSet(NameOrder)
             /\ IsList(Content[x.body[paths[k]]].manifest.deps)
  <2>1. PICK i \in at \cap DOMAIN x.files : paths[k] = x.files[i]
    BY <1>2
  <2>2. x.body[paths[k]] \in DOMAIN Content /\ Content[x.body[paths[k]]].manifest.name # <<>>
    BY <2>1 DEF IsView, FilesOf, ToSet
  <2> QED BY <2>2, NameAssumption, ContentAssumption
<1>4. Len(paths) \in Nat /\ DOMAIN paths = 1..Len(paths)
  BY <1>2, ListShape
<1> HIDE DEF paths
<1>5. /\ DOMAIN found = DOMAIN paths /\ found = [i \in DOMAIN paths |-> found[i]]
      /\ \A i \in DOMAIN found : /\ found[i].name \in ToSet(NameOrder) /\ found[i].place \in Nat
                                 /\ IsList(found[i].deps)
  <2>1. DOMAIN found = DOMAIN paths /\ found = [i \in DOMAIN paths |-> found[i]]
    OBVIOUS
  <2>2. ASSUME NEW i \in DOMAIN found
        PROVE  /\ found[i].name = Content[x.body[paths[i]]].manifest.name
               /\ found[i].deps = Content[x.body[paths[i]]].manifest.deps
               /\ found[i].place = i /\ i \in Nat /\ i \in DOMAIN paths
    BY <1>4
  <2> HIDE DEF found
  <2> QED BY <1>3, <2>1, <2>2
<1> HIDE DEF found
<1>6. IsList(found)
  BY <1>2, <1>5, ListMap
<1>7. ASSUME NEW i \in DOMAIN found
      PROVE  Spelling(found[i]) \in Nat /\ NameOrder[Spelling(found[i])] = found[i].name
  <2>1. \E k \in DOMAIN NameOrder : NameOrder[k] = found[i].name
    BY <1>5 DEF ToSet
  <2>2. DOMAIN NameOrder \subseteq Nat
    BY NameAssumption, ListShape
  <2> QED BY <2>1, <2>2
<1>8. \A i, j \in DOMAIN found : found[i].name = found[j].name
          => Spelling(found[i]) = Spelling(found[j])
  OBVIOUS
<1> HIDE DEF Spelling
<1>9. \A i, j \in DOMAIN found : NameBefore(found[i], found[j]) \/ NameBefore(found[j], found[i])
  <2> SUFFICES ASSUME NEW i \in DOMAIN found, NEW j \in DOMAIN found
               PROVE  NameBefore(found[i], found[j]) \/ NameBefore(found[j], found[i])
    OBVIOUS
  <2>1. Spelling(found[i]) = Spelling(found[j]) => found[i].name = found[j].name
    BY <1>7
  <2>2. found[i].place <= found[j].place \/ found[j].place <= found[i].place
    BY <1>5
  <2>3. \/ Spelling(found[i]) < Spelling(found[j]) \/ Spelling(found[j]) < Spelling(found[i])
        \/ Spelling(found[i]) = Spelling(found[j])
    BY <1>7
  <2> QED BY <2>1, <2>2, <2>3
<1>10. \A i, j, k \in DOMAIN found :
          NameBefore(found[i], found[j]) /\ NameBefore(found[j], found[k])
             => NameBefore(found[i], found[k])
  <2> SUFFICES ASSUME NEW i \in DOMAIN found, NEW j \in DOMAIN found, NEW k \in DOMAIN found,
                      NameBefore(found[i], found[j]), NameBefore(found[j], found[k])
               PROVE  NameBefore(found[i], found[k])
    OBVIOUS
  <2>1. /\ Spelling(found[i]) \in Nat /\ Spelling(found[j]) \in Nat /\ Spelling(found[k]) \in Nat
        /\ found[i].place \in Nat /\ found[j].place \in Nat /\ found[k].place \in Nat
    BY <1>5, <1>7
  <2>2. /\ found[i].name = found[j].name => Spelling(found[i]) = Spelling(found[j])
        /\ found[j].name = found[k].name => Spelling(found[j]) = Spelling(found[k])
    BY <1>8
  <2> QED BY <2>1, <2>2
<1>11. \A i, j \in DOMAIN found : <<i, j>> \in R <=> NameBefore(found[i], found[j])
  <2> HIDE DEF NameBefore
  <2> QED OBVIOUS
<1> HIDE DEF R, NameBefore
<1>12. Orders(R, DOMAIN found)
  BY <1>9, <1>10, <1>11, Zenon DEF Orders
<1>13. /\ IsList(InOrder(found, R)) /\ DOMAIN InOrder(found, R) = DOMAIN found
       /\ \A k \in DOMAIN found : \E i \in DOMAIN found : InOrder(found, R)[k] = found[i]
  BY <1>6, <1>12, InOrderEntries
<1>14. ASSUME NEW k \in DOMAIN found PROVE IsList(InOrder(found, R)[k].deps)
  BY <1>5, <1>13
<1> QED BY <1>1, <1>13, <1>14

\* A package depends on packages and owns files.
LEMMA PackagesLinked ==
  ASSUME NEW x, IsView(x)
  PROVE  /\ IsList(PackageEntities(x))
         /\ Linked(PackageRelations(x), Known(x) \cup ToSet(PackageEntities(x)))
<1> DEFINE packages == extract(x)
           ids == PackageEntities(x)
           E == Known(x) \cup ToSet(ids)
<1>1. IsList(packages) /\ \A i \in DOMAIN packages : IsList(packages[i].deps)
  BY PackagesAreListed
<1>2. ids = [i \in DOMAIN packages |-> PackageEntity(packages[i])]
  BY Zenon DEF PackageEntities
<1> HIDE DEF packages
<1>3. DOMAIN ids = DOMAIN packages /\ ids = [i \in DOMAIN packages |-> ids[i]]
  BY <1>2
<1>4. \A i \in DOMAIN packages : PackageEntity(packages[i]) \in E
  <2>1. \A i \in DOMAIN packages : PackageEntity(packages[i]) = ids[i]
    BY <1>2
  <2> HIDE DEF ids
  <2> QED BY <1>3, <2>1 DEF ToSet
<1> HIDE DEF ids
<1>5. IsList(ids)
  BY <1>1, <1>3, ListMap
<1>6. \A p \in FilesOf(x) : FileId(x, p) \in E
  BY KnownFiles
<1> HIDE DEF E
<1>7. ASSUME NEW i \in DOMAIN packages PROVE Linked(DependencyLinks(packages, i), E)
  <2> DEFINE all == packages[i].deps
             at == {k \in DOMAIN all : Bearers(packages, all[k]) # {}}
             deps == Those(all, at)
             t == DependencyLinks(packages, i)
  <2>1. t = [k \in DOMAIN deps |->
               Relation(PackageEntity(packages[i]),
                        PackageEntity(packages[Max(Bearers(packages, deps[k]))]),
                        "build_depends_on", "BuildSystem", 100, <<>>)]
    BY Zenon DEF DependencyLinks, Select
  <2>2. IsList(all)
    BY <1>1
  <2> HIDE DEF all
  <2>3. /\ IsList(deps)
        /\ \A k \in DOMAIN deps : \E j \in at \cap DOMAIN all : deps[k] = all[j]
    <3> HIDE DEF at
    <3> QED BY <2>2, ThoseEntries
  <2>4. ASSUME NEW k \in DOMAIN deps PROVE Max(Bearers(packages, deps[k])) \in DOMAIN packages
    <3> DEFINE T == Bearers(packages, deps[k])
    <3>1. T # {} /\ T \subseteq DOMAIN packages
      BY <2>3 DEF Bearers
    <3>2. Len(packages) \in Nat /\ DOMAIN packages = 1..Len(packages)
      BY <1>1, ListShape
    <3> HIDE DEF T
    <3>3. T \in SUBSET (0..Len(packages))
      BY <3>1, <3>2
    <3>4. Max(T) \in T
      BY <3>1, <3>2, <3>3, MaxInside
    <3> QED BY <3>1, <3>4 DEF T
  <2> HIDE DEF deps
  <2>5. ASSUME NEW k \in DOMAIN deps PROVE IsLink(t[k], E)
    BY <1>4, <2>1, <2>4, RelationLinks
  <2>6. t = [k \in DOMAIN deps |-> t[k]]
    BY <2>1
  <2> HIDE DEF t
  <2>7. Linked(t, E)
    BY <2>3, <2>5, <2>6, LinkedMap
  <2> QED BY <2>7 DEF t
<1>8. ASSUME NEW i \in DOMAIN packages PROVE Linked(OwnershipLinks(x, packages, i), E)
  <2> DEFINE at == {k \in DOMAIN x.files : OwnerOf(packages, x.files[k]) = i}
             owned == Those(x.files, at)
             t == OwnershipLinks(x, packages, i)
  <2>1. t = [k \in DOMAIN owned |->
               Relation(PackageEntity(packages[i]), FileId(x, owned[k]), "contains",
                        "BuildSystem", 100, <<>>)]
    BY Zenon DEF OwnershipLinks, Select
  <2>2. /\ IsList(owned)
        /\ \A k \in DOMAIN owned : \E j \in at \cap DOMAIN x.files : owned[k] = x.files[j]
    <3> HIDE DEF at
    <3> QED BY ThoseEntries DEF IsView
  <2>3. \A k \in DOMAIN owned : owned[k] \in FilesOf(x)
    BY <2>2 DEF FilesOf, ToSet
  <2> HIDE DEF owned
  <2>4. ASSUME NEW k \in DOMAIN owned PROVE IsLink(t[k], E)
    BY <1>4, <1>6, <2>1, <2>3, RelationLinks
  <2>5. t = [k \in DOMAIN owned |-> t[k]]
    BY <2>1
  <2> HIDE DEF t
  <2>6. Linked(t, E)
    BY <2>2, <2>4, <2>5, LinkedMap
  <2> QED BY <2>6 DEF t
<1> DEFINE Of(i) == DependencyLinks(packages, i) \o OwnershipLinks(x, packages, i)
           seqs == [i \in DOMAIN packages |-> Of(i)]
<1>9. \A i \in DOMAIN packages : Linked(Of(i), E)
  BY <1>7, <1>8, LinkedConcat
<1>10. PackageRelations(x) = FlattenSeq(seqs)
  BY Zenon DEF PackageRelations, packages
<1> HIDE DEF Of
<1>11. /\ DOMAIN seqs = DOMAIN packages /\ seqs = [i \in DOMAIN packages |-> seqs[i]]
       /\ \A i \in DOMAIN seqs : Linked(seqs[i], E)
  BY <1>9
<1> HIDE DEF seqs
<1>12. IsList(seqs)
  BY <1>1, <1>11, ListMap
<1>13. Linked(PackageRelations(x), E)
  BY <1>10, <1>11, <1>12, LinkedJoin
<1> QED BY <1>5, <1>13 DEF E, ids

\* The bound routes are a list.
LEMMA RoutesAreListed ==
  ASSUME NEW x, IsView(x) PROVE IsList(axum_routes(x))
<1> DEFINE Of(p) == IF language_for_path(p) # "rust" THEN <<>>
                    ELSE LET found == Content[x.body[p]].routes
                         IN  [i \in DOMAIN found |-> [path |-> p, route |-> found[i]]]
           seqs == [i \in DOMAIN x.files |-> Of(x.files[i])]
<1>1. axum_routes(x) = FlattenSeq(seqs)
  BY Zenon DEF axum_routes, PerFile
<1>2. ASSUME NEW p \in FilesOf(x) PROVE IsList(Of(p))
  <2> DEFINE found == Content[x.body[p]].routes
             t == [i \in DOMAIN found |-> [path |-> p, route |-> found[i]]]
  <2>1. IsList(found)
    BY ContentAssumption DEF IsView
  <2> HIDE DEF found
  <2>2. t = [i \in DOMAIN found |-> t[i]]
    OBVIOUS
  <2> HIDE DEF t
  <2>3. IsList(t)
    BY <2>1, <2>2, ListMap
  <2> QED BY <2>3, SmallLists DEF t, found
<1> HIDE DEF Of
<1>3. /\ DOMAIN seqs = DOMAIN x.files /\ seqs = [i \in DOMAIN x.files |-> seqs[i]]
      /\ \A i \in DOMAIN seqs : IsList(seqs[i])
  BY <1>2 DEF FilesOf, ToSet
<1> HIDE DEF seqs
<1>4. IsList(seqs)
  BY <1>3, ListMap DEF IsView
<1> QED BY <1>1, <1>3, <1>4, FlattenEntries

RouteEntities(routes) == [i \in DOMAIN routes |-> RouteEntity(routes[i])]

\* A route is handled by a unit.
LEMMA RoutesLinked ==
  ASSUME NEW x, IsView(x), NEW routes, IsList(routes)
  PROVE  /\ IsList(RouteEntities(routes))
         /\ Linked(RouteRelations(x, routes), Known(x) \cup ToSet(RouteEntities(routes)))
<1> DEFINE ids == RouteEntities(routes)
           E == Known(x) \cup ToSet(ids)
           at == {i \in DOMAIN routes :
                    /\ routes[i].route.handler # <<>>
                    /\ resolve_handler(x, routes[i].route.handler, routes[i].path) # NoCandidate}
           bound == Those(routes, at)
           t == RouteRelations(x, routes)
<1>1. DOMAIN ids = DOMAIN routes /\ ids = [i \in DOMAIN routes |-> ids[i]]
  BY DEF RouteEntities
<1>2. \A i \in DOMAIN routes : RouteEntity(routes[i]) \in E
  <2>1. \A i \in DOMAIN routes : RouteEntity(routes[i]) = ids[i]
    BY DEF RouteEntities
  <2> HIDE DEF ids
  <2> QED BY <1>1, <2>1 DEF ToSet
<1> HIDE DEF ids
<1>3. IsList(ids)
  BY <1>1, ListMap
<1>4. ASSUME NEW name, NEW p, resolve_handler(x, name, p) # NoCandidate
      PROVE  resolve_handler(x, name, p).id \in E
  <2> DEFINE named == Named(x, name)
             Tests == <<[i \in DOMAIN named |->
                           named[i].path = p /\ named[i].kind \in CallableKinds],
                        [i \in DOMAIN named |-> named[i].kind \in CallableKinds],
                        [i \in DOMAIN named |-> named[i].path = p],
                        [i \in DOMAIN named |-> TRUE]>>
  <2>1. resolve_handler(x, name, p) = FirstThat(named, Tests)
    BY Zenon DEF resolve_handler
  <2>2. DOMAIN Tests \in SUBSET Nat
    OBVIOUS
  <2>3. IsList(named) /\ \A k \in ToSet(named) : k.id \in Known(x)
    BY NamedInside
  <2> HIDE DEF Tests, named
  <2>4. FirstThat(named, Tests) \in ToSet(named)
    BY <1>4, <2>1, <2>2, <2>3, FirstThatInside
  <2> QED BY <2>1, <2>3, <2>4
<1>5. t = [i \in DOMAIN bound |->
             Relation(RouteEntity(bound[i]),
                      resolve_handler(x, bound[i].route.handler, bound[i].path).id,
                      "route_handled_by", "FrameworkRule", 85,
                      <<<<bound[i].path, bound[i].route.start, bound[i].route.end>>>>)]
  BY Zenon DEF RouteRelations, Select
<1>6. /\ IsList(bound)
      /\ \A k \in DOMAIN bound : \E i \in at \cap DOMAIN routes : bound[k] = routes[i]
  <2> HIDE DEF at
  <2> QED BY ThoseEntries
<1> HIDE DEF E
<1>7. ASSUME NEW k \in DOMAIN bound
      PROVE  /\ RouteEntity(bound[k]) \in E
             /\ resolve_handler(x, bound[k].route.handler, bound[k].path).id \in E
  <2>1. PICK i \in at \cap DOMAIN routes : bound[k] = routes[i]
    BY <1>6
  <2>2. resolve_handler(x, bound[k].route.handler, bound[k].path) # NoCandidate
    BY <2>1
  <2> QED BY <1>2, <1>4, <2>1, <2>2
<1> HIDE DEF bound
<1>8. ASSUME NEW i \in DOMAIN bound PROVE IsLink(t[i], E)
  BY <1>5, <1>7, RelationLinks
<1>9. t = [i \in DOMAIN bound |-> t[i]]
  BY <1>5
<1> HIDE DEF t
<1>10. Linked(t, E)
  BY <1>6, <1>8, <1>9, LinkedMap
<1> QED BY <1>3, <1>10 DEF t, E, ids

\* What a page or a commit is filed under, and where it is found.
Filed(docs, E, R) ==
    IsList(docs) /\ \A d \in ToSet(docs) : d.id.entity \in E /\ d.region \in R

\* Documents computed entry by entry.
LEMMA FiledMap ==
  ASSUME NEW E, NEW R, NEW s, IsList(s), NEW t, t = [i \in DOMAIN s |-> t[i]],
         \A i \in DOMAIN s : t[i].id.entity \in E /\ t[i].region \in R
  PROVE  Filed(t, E, R)
<1>1. IsList(t) /\ DOMAIN t = DOMAIN s
  BY ListMap
<1> QED BY <1>1 DEF Filed, ToSet

\* Documents in a row.
LEMMA FiledConcat ==
  ASSUME NEW E, NEW R, NEW s, Filed(s, E, R), NEW t, Filed(t, E, R)
  PROVE  Filed(s \o t, E, R)
BY Concat DEF Filed

\* One document.
LEMMA FiledOne ==
  ASSUME NEW E, NEW R, NEW d, d.id.entity \in E, d.region \in R
  PROVE  Filed(<<d>>, E, R)
BY SmallLists DEF Filed

\* Documents joined.
LEMMA FiledJoin ==
  ASSUME NEW E, NEW R, NEW seqs, IsList(seqs), \A i \in DOMAIN seqs : Filed(seqs[i], E, R)
  PROVE  Filed(FlattenSeq(seqs), E, R)
<1>1. /\ IsList(FlattenSeq(seqs))
      /\ ToSet(FlattenSeq(seqs)) = UNION {ToSet(seqs[i]) : i \in DOMAIN seqs}
  BY FlattenEntries DEF Filed
<1> QED BY <1>1 DEF Filed

\* More entities and regions.
LEMMA FiledMore ==
  ASSUME NEW E, NEW F, E \subseteq F, NEW R, NEW S, R \subseteq S, NEW docs, Filed(docs, E, R)
  PROVE  Filed(docs, F, S)
BY DEF Filed

\* What a document, also a generated one, is filed under.
LEMMA DocumentFields ==
  ASSUME NEW entity, NEW label, NEW rep, NEW range, NEW region, NEW text
  PROVE  /\ Document(entity, label, rep, range, region, text).id.entity = entity
         /\ Document(entity, label, rep, range, region, text).region = region
BY DEF Document, document_id

\* A generated document is one.
LEMMA GeneratedFields ==
  ASSUME NEW entity, NEW label, NEW rep, NEW region, NEW text
  PROVE  /\ Generated(entity, label, rep, region, text).id.entity = entity
         /\ Generated(entity, label, rep, region, text).region = region
BY DocumentFields DEF Generated

\* The areas of the tree are a list,
LEMMA GroupsAreListed ==
  ASSUME NEW x, IsView(x) PROVE IsList(Groups(x))
<1> DEFINE at == {i \in DOMAIN x.files : \A q \in FilesOf(x) :
                    knowledge_group(q) = knowledge_group(x.files[i]) => Rank(x.files[i]) <= Rank(q)}
           first == Those(x.files, at)
           atRoot == {i \in DOMAIN first : first[i].dir = <<>>}
           atRest == {i \in DOMAIN first : first[i].dir # <<>>}
           sorted == Those(first, atRoot) \o Those(first, atRest)
           t == Groups(x)
<1>1. t = [i \in DOMAIN sorted |-> knowledge_group(sorted[i])]
  BY Zenon DEF Groups, Select
<1>2. IsList(first)
  <2> HIDE DEF at
  <2> QED BY ThoseEntries DEF IsView
<1> HIDE DEF first
<1>3. IsList(sorted)
  <2> HIDE DEF atRoot, atRest
  <2> QED BY <1>2, ThoseEntries, Concat
<1> HIDE DEF sorted
<1>4. t = [i \in DOMAIN sorted |-> t[i]]
  BY <1>1
<1> HIDE DEF t
<1>5. IsList(t)
  BY <1>3, <1>4, ListMap
<1> QED BY <1>5 DEF t

\* and their pages are of the directories and the repository.
LEMMA KnowledgeLinked ==
  ASSUME NEW x, IsView(x), NEW E, NEW R,
         Known(x) \cup {Repository} \cup ToSet(add_hierarchical_knowledge(x).entities) \subseteq E,
         NoRegion \in R
  PROVE  /\ IsList(add_hierarchical_knowledge(x).entities)
         /\ Linked(add_hierarchical_knowledge(x).relations, E)
         /\ Filed(add_hierarchical_knowledge(x).docs, E, R)
<1> DEFINE groups == Groups(x)
           made == add_hierarchical_knowledge(x)
           Holds(src, dst) == Relation(src, dst, "contains", "FrameworkRule", 100, <<>>)
           Inside(g) == [i \in DOMAIN Members(x, g) |->
                           Holds(DirectoryEntity(g), FileId(x, Members(x, g)[i]))]
           OfGroup(g) == <<Holds(Repository, DirectoryEntity(g))>> \o Inside(g)
           Page(g) == <<"area">> \o g \o FlattenSeq([i \in DOMAIN Members(x, g) |->
                                                       Spelled(Members(x, g)[i])])
           seqs == [i \in DOMAIN groups |-> OfGroup(groups[i])]
           pages == [i \in DOMAIN groups |->
                       Generated(DirectoryEntity(groups[i]), "knowledge_page", "KnowledgePage",
                                 NoRegion, Page(groups[i]))]
           orientation == Generated(Repository, "knowledge_page", "KnowledgePage", NoRegion,
                                    <<"orientation">> \o FlattenSeq(groups))
<1>1. /\ made.entities = [i \in DOMAIN groups |-> DirectoryEntity(groups[i])]
      /\ made.relations = FlattenSeq(seqs)
      /\ made.docs = pages \o <<orientation>>
  <2>1. made = [entities |-> [i \in DOMAIN groups |-> DirectoryEntity(groups[i])],
                relations |-> FlattenSeq(seqs), docs |-> pages \o <<orientation>>]
    BY Zenon DEF add_hierarchical_knowledge
  <2> HIDE DEF made, seqs, pages, orientation
  <2> QED BY <2>1
<1>2. IsList(groups)
  BY GroupsAreListed
<1>3. Repository \in E /\ Known(x) \subseteq E /\ ToSet(made.entities) \subseteq E
  OBVIOUS
<1> HIDE DEF groups, made
<1>4. IsList(made.entities) /\ \A i \in DOMAIN groups : DirectoryEntity(groups[i]) \in E
  <2>1. /\ DOMAIN made.entities = DOMAIN groups
        /\ made.entities = [i \in DOMAIN groups |-> made.entities[i]]
        /\ \A i \in DOMAIN groups : made.entities[i] = DirectoryEntity(groups[i])
    BY <1>1
  <2>2. IsList(made.entities)
    BY <1>2, <2>1, ListMap
  <2> QED BY <1>3, <2>1, <2>2 DEF ToSet
<1>5. ASSUME NEW g, DirectoryEntity(g) \in E PROVE Linked(OfGroup(g), E)
  <2> DEFINE at == {i \in DOMAIN x.files : knowledge_group(x.files[i]) = g}
             held == Those(x.files, at)
             t == Inside(g)
  <2>1. held = Members(x, g)
    BY Zenon DEF Members, Select
  <2>2. /\ IsList(held)
        /\ \A k \in DOMAIN held : \E i \in at \cap DOMAIN x.files : held[k] = x.files[i]
    <3> HIDE DEF at
    <3> QED BY ThoseEntries DEF IsView
  <2>3. \A k \in DOMAIN held : held[k] \in FilesOf(x)
    BY <2>2 DEF FilesOf, ToSet
  <2> HIDE DEF held
  <2>4. \A i \in DOMAIN held : FileId(x, held[i]) \in E
    BY <1>3, <2>3, KnownFiles
  <2>5. ASSUME NEW i \in DOMAIN held PROVE IsLink(t[i], E)
    BY <1>5, <2>1, <2>4, RelationLinks
  <2>6. t = [i \in DOMAIN held |-> t[i]]
    BY <2>1
  <2> HIDE DEF t
  <2>7. Linked(t, E)
    BY <2>2, <2>5, <2>6, LinkedMap
  <2>8. Linked(<<Holds(Repository, DirectoryEntity(g))>>, E)
    BY <1>3, <1>5, RelationLinks, LinkedOne
  <2>9. Linked(<<Holds(Repository, DirectoryEntity(g))>> \o t, E)
    BY <2>7, <2>8, LinkedConcat
  <2> QED BY <2>9 DEF t
<1> HIDE DEF OfGroup
<1>6. Linked(made.relations, E)
  <2>1. /\ DOMAIN seqs = DOMAIN groups /\ seqs = [i \in DOMAIN groups |-> seqs[i]]
        /\ \A i \in DOMAIN seqs : Linked(seqs[i], E)
    BY <1>4, <1>5
  <2>2. made.relations = FlattenSeq(seqs)
    BY <1>1
  <2> HIDE DEF seqs
  <2>3. IsList(seqs)
    BY <1>2, <2>1, ListMap
  <2> QED BY <2>1, <2>2, <2>3, LinkedJoin
<1>7. Filed(made.docs, E, R)
  <2>1. orientation.id.entity \in E /\ orientation.region \in R
    BY <1>3, GeneratedFields
  <2>2. /\ pages = [i \in DOMAIN groups |-> pages[i]]
        /\ \A i \in DOMAIN groups : pages[i].id.entity \in E /\ pages[i].region \in R
    <3> HIDE DEF Page
    <3> QED BY <1>4, GeneratedFields
  <2>3. made.docs = pages \o <<orientation>>
    BY <1>1
  <2> HIDE DEF pages, orientation
  <2>4. Filed(pages, E, R) /\ Filed(<<orientation>>, E, R)
    BY <1>2, <2>1, <2>2, FiledMap, FiledOne
  <2> QED BY <2>3, <2>4, FiledConcat
<1> QED BY <1>4, <1>6, <1>7 DEF made

(***************************************************************************)
(* The records of a file.                                                  *)
(***************************************************************************)
\* The regions there are, and regions that lie in them.
RegionIds(regions) == {g.id : g \in ToSet(regions)} \cup {NoRegion}
Nested(regions, R) == IsList(regions) /\ \A g \in ToSet(regions) : g.parent \in R

\* The ids of regions in a row.
LEMMA RegionIdsConcat ==
  ASSUME NEW s, IsList(s), NEW t, IsList(t)
  PROVE  RegionIds(s \o t) = RegionIds(s) \cup RegionIds(t)
BY Concat DEF RegionIds

\* The parents of regions in a row,
LEMMA NestedConcat ==
  ASSUME NEW R, NEW s, Nested(s, R), NEW t, Nested(t, R)
  PROVE  Nested(s \o t, R)
BY Concat DEF Nested

\* and of regions joined.
LEMMA NestedJoin ==
  ASSUME NEW R, NEW seqs, IsList(seqs), \A i \in DOMAIN seqs : Nested(seqs[i], R)
  PROVE  /\ Nested(FlattenSeq(seqs), R)
         /\ \A i \in DOMAIN seqs : RegionIds(seqs[i]) \subseteq RegionIds(FlattenSeq(seqs))
<1>1. /\ IsList(FlattenSeq(seqs))
      /\ ToSet(FlattenSeq(seqs)) = UNION {ToSet(seqs[i]) : i \in DOMAIN seqs}
  BY FlattenEntries DEF Nested
<1> QED BY <1>1 DEF Nested, RegionIds

\* What a file's units are filed under and found in.
FileEnds(p, c, a) == {FileEntity(p, c)} \cup {UnitEntity(p, a.units[k]) : k \in DOMAIN a.units}
UnitPlaces(p, c, a) == {FileRegion(p, c)} \cup {UnitRegion(p, a.units[k]) : k \in DOMAIN a.units}

\* The records of a unit refer to its file, to the unit it lies in and to
\* themselves: every chunk is found in the unit's region or in one of its own.
LEMMA UnitRecordsAreClosed ==
  ASSUME NEW p, NEW c, NEW a, Analysis(a), NEW i \in DOMAIN a.units,
         NEW E, FileEnds(p, c, a) \subseteq E,
         NEW R, UnitPlaces(p, c, a) \cup RegionIds(UnitRecords(p, c, a, i).regions) \subseteq R
  PROVE  /\ UnitRecords(p, c, a, i).entities = <<UnitEntity(p, a.units[i])>>
         /\ UnitRegion(p, a.units[i]) \in RegionIds(UnitRecords(p, c, a, i).regions)
         /\ Nested(UnitRecords(p, c, a, i).regions, R)
         /\ Linked(UnitRecords(p, c, a, i).contains, E)
         /\ Filed(UnitRecords(p, c, a, i).docs, E, R)
<1> DEFINE rec == UnitRecords(p, c, a, i)
           text == Content[c].text
           u == a.units[i]
           id == UnitEntity(p, u)
           chunks == chunk_ranges(text, u.start, u.end)
           parent == IF u.parent = 0 THEN FileEntity(p, c) ELSE UnitEntity(p, a.units[u.parent])
           outer == IF u.parent = 0 THEN FileRegion(p, c) ELSE UnitRegion(p, a.units[u.parent])
           at == {k \in DOMAIN chunks : chunks[k] # <<u.start, u.end>>}
           parts == Those(chunks, at)
           own == [id |-> UnitRegion(p, u), parent |-> outer]
           subs == [k \in DOMAIN parts |-> [id |-> ChunkRegion(p, u, parts[k]),
                                            parent |-> UnitRegion(p, u)]]
           link == [src |-> parent, dst |-> id, kind |-> "contains", origin |-> "TreeSitter",
                    confidence |-> 100, evidence |-> <<<<p, u.start, u.end>>>>]
           texts == [k \in DOMAIN chunks |->
                       Document(id, "raw_code",
                                IF is_test(p, u.name) THEN "TestBehavior" ELSE "RawCode",
                                chunks[k], ChunkRegion(p, u, chunks[k]), Slice(text, chunks[k]))]
           summary == Generated(id, "symbol_summary", "SymbolSummary", UnitRegion(p, u),
                                symbol_descriptor(p, c, a, i))
<1>1. /\ rec.regions = <<own>> \o subs
      /\ rec.entities = <<id>>
      /\ rec.contains = <<link>>
      /\ rec.docs = texts \o <<summary>>
  <2>1. rec = [regions |-> <<own>> \o subs, entities |-> <<id>>, contains |-> <<link>>,
               docs |-> texts \o <<summary>>]
    BY Zenon DEF UnitRecords, Select
  <2> HIDE DEF rec, own, subs, id, link, texts, summary
  <2> QED BY <2>1
<1>2. /\ u.start \in Nat /\ u.end \in Nat /\ u.parent \in {0} \cup DOMAIN a.units
  BY DEF Analysis, Placed
<1>3. id \in E /\ parent \in E
  BY <1>2 DEF FileEnds
<1>4. UnitRegion(p, u) \in R /\ outer \in R
  BY <1>2 DEF UnitPlaces
<1>5. RegionIds(rec.regions) \subseteq R
  OBVIOUS
<1>6. IsList(chunks)
  BY <1>2, ChunksAreListed
<1> HIDE DEF rec, chunks, id, parent, outer, u
<1>7. IsList(parts) /\ ToSet(parts) = {chunks[k] : k \in at \cap DOMAIN chunks}
  <2> HIDE DEF at
  <2> QED BY <1>6, ThoseEntries
<1>8. ASSUME NEW k \in DOMAIN chunks, chunks[k] # <<u.start, u.end>>
      PROVE  \E j \in DOMAIN parts : parts[j] = chunks[k]
  <2>1. chunks[k] \in ToSet(parts)
    BY <1>7, <1>8
  <2> HIDE DEF parts
  <2> QED BY <2>1 DEF ToSet
<1> HIDE DEF parts
<1>9. /\ IsList(subs) /\ DOMAIN subs = DOMAIN parts
      /\ \A j \in DOMAIN parts : /\ subs[j].id = ChunkRegion(p, u, parts[j])
                                 /\ subs[j].parent = UnitRegion(p, u)
  <2>1. subs = [j \in DOMAIN parts |-> subs[j]]
    OBVIOUS
  <2>2. \A j \in DOMAIN parts : /\ subs[j].id = ChunkRegion(p, u, parts[j])
                                /\ subs[j].parent = UnitRegion(p, u)
    OBVIOUS
  <2> HIDE DEF subs
  <2> QED BY <1>7, <2>1, <2>2, ListMap
<1>10. own.id = UnitRegion(p, u) /\ own.parent = outer
  OBVIOUS
<1> HIDE DEF subs, own
<1>11. IsList(<<own>>) /\ ToSet(<<own>>) = {own}
  BY SmallLists
<1>12. /\ IsList(rec.regions)
       /\ ToSet(rec.regions) = {own} \cup ToSet(subs)
  BY <1>1, <1>9, <1>11, Concat
<1>13. UnitRegion(p, u) \in RegionIds(rec.regions)
  BY <1>10, <1>12 DEF RegionIds
<1>14. \A j \in DOMAIN parts : ChunkRegion(p, u, parts[j]) \in RegionIds(rec.regions)
  BY <1>9, <1>12 DEF RegionIds, ToSet
<1>15. Nested(rec.regions, R)
  <2>1. \A g \in ToSet(subs) : g.parent = UnitRegion(p, u)
    BY <1>9 DEF ToSet
  <2> QED BY <1>4, <1>10, <1>12, <2>1 DEF Nested
<1>16. Linked(rec.contains, E)
  <2>1. {"src", "dst"} \subseteq DOMAIN link /\ link.src = parent /\ link.dst = id
    OBVIOUS
  <2> HIDE DEF link
  <2> QED BY <1>1, <1>3, <2>1, LinkedOne DEF IsLink
<1>17. ASSUME NEW k \in DOMAIN chunks PROVE ChunkRegion(p, u, chunks[k]) \in R
  <2>1. CASE chunks[k] = <<u.start, u.end>>
    BY <1>4, <2>1 DEF ChunkRegion
  <2>2. CASE chunks[k] # <<u.start, u.end>>
    BY <1>5, <1>8, <1>14, <2>2
  <2> QED BY <2>1, <2>2
<1>18. Filed(rec.docs, E, R)
  <2>1. \A k \in DOMAIN chunks : texts[k].id.entity \in E /\ texts[k].region \in R
    BY <1>3, <1>17, DocumentFields
  <2>2. texts = [k \in DOMAIN chunks |-> texts[k]]
    OBVIOUS
  <2>3. summary.id.entity \in E /\ summary.region \in R
    BY <1>3, <1>4, GeneratedFields
  <2> HIDE DEF texts, summary
  <2>4. Filed(texts, E, R) /\ Filed(<<summary>>, E, R)
    BY <1>6, <2>1, <2>2, <2>3, FiledMap, FiledOne
  <2> QED BY <1>1, <2>4, FiledConcat
<1> QED BY <1>1, <1>13, <1>15, <1>16, <1>18 DEF rec, id, u

\* The records of a file refer to the file, its units and its own regions.
LEMMA FileRecordsAreClosed ==
  ASSUME NEW p, NEW c \in DOMAIN Content, NEW a, Analysis(a),
         NEW units, units = [i \in DOMAIN a.units |-> UnitRecords(p, c, a, i)]
  PROVE  /\ IsList(FileRecords(p, c, a, units).entities)
         /\ ToSet(FileRecords(p, c, a, units).entities) = FileEnds(p, c, a)
         /\ Nested(FileRecords(p, c, a, units).regions,
                   RegionIds(FileRecords(p, c, a, units).regions))
         /\ Linked(FileRecords(p, c, a, units).contains, FileEnds(p, c, a))
         /\ Filed(FileRecords(p, c, a, units).docs, FileEnds(p, c, a),
                  RegionIds(FileRecords(p, c, a, units).regions))
<1> DEFINE rec == FileRecords(p, c, a, units)
           E == FileEnds(p, c, a)
           R == RegionIds(rec.regions)
           whole == FileRegion(p, c)
           file == FileEntity(p, c)
           windows == Windows(p, c, a)
           Sub(r) == region_id(p, r[1], r[2], "Subregion", <<>>)
           top == [id |-> whole, parent |-> NoRegion]
           subs == [k \in DOMAIN windows |-> [id |-> Sub(windows[k]), parent |-> whole]]
           regionsOf == [i \in DOMAIN units |-> units[i].regions]
           entitiesOf == [i \in DOMAIN units |-> units[i].entities]
           containsOf == [i \in DOMAIN units |-> units[i].contains]
           docsOf == [i \in DOMAIN units |-> units[i].docs]
           descriptor == Generated(file, "file_descriptor", "FileDescriptor", whole,
                                   file_descriptor(p, c, a))
           texts == [k \in DOMAIN windows |->
                       Document(file, "raw_code", "RawCode", windows[k], Sub(windows[k]),
                                Slice(Content[c].text, windows[k]))]
           role == Generated(file, "role_summary", "RoleSummary", whole,
                             deterministic_role_summary(p, a))
<1>1. /\ rec.regions = <<top>> \o subs \o FlattenSeq(regionsOf)
      /\ rec.entities = <<file>> \o FlattenSeq(entitiesOf)
      /\ rec.contains = FlattenSeq(containsOf)
      /\ rec.docs = <<descriptor>> \o texts \o FlattenSeq(docsOf) \o <<role>>
  <2>1. rec = [regions |-> <<top>> \o subs \o FlattenSeq(regionsOf),
               entities |-> <<file>> \o FlattenSeq(entitiesOf),
               contains |-> FlattenSeq(containsOf),
               docs |-> <<descriptor>> \o texts \o FlattenSeq(docsOf) \o <<role>>]
    BY Zenon DEF FileRecords
  <2> HIDE DEF rec, top, subs, file, regionsOf, entitiesOf, containsOf, descriptor, texts,
               docsOf, role
  <2>2. \A r, e, k, d : LET f == [regions |-> r, entities |-> e, contains |-> k, docs |-> d]
                        IN  f.regions = r /\ f.entities = e /\ f.contains = k /\ f.docs = d
    OBVIOUS
  <2> QED BY <2>1, <2>2
<1>2. IsList(windows)
  <2>1. IsList(Content[c].text)
    BY ContentAssumption
  <2>2. Len(Content[c].text) \in Nat
    BY <2>1, ListShape
  <2> QED BY <2>2, ChunksAreListed, SmallLists DEF Windows
<1>3. IsList(a.units)
  BY DEF Analysis, Placed
<1>4. /\ DOMAIN units = DOMAIN a.units
      /\ \A i \in DOMAIN units : units[i] = UnitRecords(p, c, a, i)
  OBVIOUS
<1>5. ASSUME NEW i \in DOMAIN units
      PROVE  /\ IsList(units[i].regions)
             /\ units[i].entities = <<UnitEntity(p, a.units[i])>>
             /\ UnitRegion(p, a.units[i]) \in RegionIds(units[i].regions)
             /\ Linked(units[i].contains, E)
  <2> DEFINE R0 == UnitPlaces(p, c, a) \cup RegionIds(UnitRecords(p, c, a, i).regions)
  <2>1. UnitPlaces(p, c, a) \cup RegionIds(UnitRecords(p, c, a, i).regions) \subseteq R0
    OBVIOUS
  <2> FileEnds(p, c, a) \subseteq E
    OBVIOUS
  <2> HIDE DEF R0, E
  <2>2. /\ UnitRecords(p, c, a, i).entities = <<UnitEntity(p, a.units[i])>>
        /\ UnitRegion(p, a.units[i]) \in RegionIds(UnitRecords(p, c, a, i).regions)
        /\ Nested(UnitRecords(p, c, a, i).regions, R0)
        /\ Linked(UnitRecords(p, c, a, i).contains, E)
    <3> i \in DOMAIN a.units
      BY <1>4
    <3> QED BY <2>1, UnitRecordsAreClosed
  <2> QED BY <1>4, <2>2 DEF Nested
<1> HIDE DEF rec, windows
\* regions
<1>6. /\ IsList(<<top>>) /\ ToSet(<<top>>) = {top} /\ top.id = whole /\ top.parent = NoRegion
  BY SmallLists
<1>7. /\ IsList(subs) /\ DOMAIN subs = DOMAIN windows
      /\ \A k \in DOMAIN windows : subs[k].id = Sub(windows[k]) /\ subs[k].parent = whole
  <2>1. subs = [k \in DOMAIN windows |-> subs[k]]
    OBVIOUS
  <2>2. \A k \in DOMAIN windows : subs[k].id = Sub(windows[k]) /\ subs[k].parent = whole
    OBVIOUS
  <2> HIDE DEF subs
  <2> QED BY <1>2, <2>1, <2>2, ListMap
<1>8. /\ IsList(regionsOf) /\ DOMAIN regionsOf = DOMAIN units
      /\ \A i \in DOMAIN regionsOf : regionsOf[i] = units[i].regions /\ IsList(regionsOf[i])
  <2>1. DOMAIN regionsOf = DOMAIN units /\ regionsOf = [i \in DOMAIN a.units |-> regionsOf[i]]
    BY <1>4
  <2>2. \A i \in DOMAIN regionsOf : regionsOf[i] = units[i].regions /\ IsList(regionsOf[i])
    BY <1>5
  <2> HIDE DEF regionsOf
  <2> QED BY <1>3, <2>1, <2>2, ListMap
<1> HIDE DEF top, subs, regionsOf, whole, Sub
<1>9. /\ IsList(FlattenSeq(regionsOf))
      /\ ToSet(FlattenSeq(regionsOf)) = UNION {ToSet(regionsOf[i]) : i \in DOMAIN regionsOf}
  BY <1>8, FlattenEntries
<1>10. /\ IsList(rec.regions)
       /\ ToSet(rec.regions) = {top} \cup ToSet(subs) \cup ToSet(FlattenSeq(regionsOf))
  <2>1. IsList(<<top>> \o subs) /\ ToSet(<<top>> \o subs) = {top} \cup ToSet(subs)
    BY <1>6, <1>7, Concat
  <2>2. rec.regions = <<top>> \o subs \o FlattenSeq(regionsOf)
    BY <1>1
  <2> DEFINE ahead == <<top>> \o subs
             inside == FlattenSeq(regionsOf)
  <2>3. IsList(ahead \o inside) /\ ToSet(ahead \o inside) = ToSet(ahead) \cup ToSet(inside)
    <3> HIDE DEF ahead, inside
    <3> QED BY <1>9, <2>1, Concat DEF ahead, inside
  <2> QED BY <1>9, <2>1, <2>2, <2>3
<1>11. /\ NoRegion \in R /\ whole \in R
       /\ \A k \in DOMAIN windows : Sub(windows[k]) \in R
       /\ \A i \in DOMAIN units : RegionIds(units[i].regions) \subseteq R
  <2>1. NoRegion \in R
    BY DEF RegionIds
  <2>2. whole \in R
    BY <1>6, <1>10 DEF RegionIds
  <2>3. ASSUME NEW k \in DOMAIN windows PROVE Sub(windows[k]) \in R
    <3>1. subs[k] \in ToSet(subs) /\ subs[k].id = Sub(windows[k])
      BY <1>7 DEF ToSet
    <3> QED BY <1>10, <3>1 DEF RegionIds
  <2>4. ASSUME NEW i \in DOMAIN units PROVE RegionIds(units[i].regions) \subseteq R
    <3>1. ToSet(units[i].regions) \subseteq ToSet(rec.regions)
      BY <1>8, <1>9, <1>10
    <3> QED BY <3>1 DEF RegionIds
  <2> QED BY <2>1, <2>2, <2>3, <2>4
<1>12. UnitPlaces(p, c, a) \subseteq R
  BY <1>4, <1>5, <1>11 DEF UnitPlaces, whole
<1> HIDE DEF R
<1>13. ASSUME NEW i \in DOMAIN units
       PROVE  Nested(units[i].regions, R) /\ Filed(units[i].docs, E, R)
  <2>1. UnitPlaces(p, c, a) \cup RegionIds(UnitRecords(p, c, a, i).regions) \subseteq R
    BY <1>4, <1>11, <1>12
  <2>2. /\ Nested(UnitRecords(p, c, a, i).regions, R)
        /\ Filed(UnitRecords(p, c, a, i).docs, E, R)
    BY <1>4, <2>1, UnitRecordsAreClosed
  <2> QED BY <1>4, <2>2
<1>14. Nested(rec.regions, R)
  <2>1. \A g \in ToSet(subs) : g.parent \in R
    BY <1>7, <1>11 DEF ToSet
  <2>2. \A i \in DOMAIN regionsOf : \A g \in ToSet(regionsOf[i]) : g.parent \in R
    BY <1>8, <1>13 DEF Nested
  <2> QED BY <1>6, <1>9, <1>10, <1>11, <2>1, <2>2 DEF Nested
\* entities
<1>15. IsList(rec.entities) /\ ToSet(rec.entities) = E
  <2>1. DOMAIN entitiesOf = DOMAIN units /\ entitiesOf = [i \in DOMAIN a.units |-> entitiesOf[i]]
    BY <1>4
  <2>2. \A i \in DOMAIN entitiesOf : entitiesOf[i] = <<UnitEntity(p, a.units[i])>>
    BY <1>5
  <2> HIDE DEF entitiesOf
  <2>3. /\ IsList(entitiesOf)
        /\ \A i \in DOMAIN entitiesOf : /\ IsList(entitiesOf[i])
                                       /\ ToSet(entitiesOf[i]) = {UnitEntity(p, a.units[i])}
    BY <1>3, <2>1, <2>2, ListMap, SmallLists
  <2>4. /\ IsList(FlattenSeq(entitiesOf))
        /\ ToSet(FlattenSeq(entitiesOf)) = UNION {ToSet(entitiesOf[i]) : i \in DOMAIN entitiesOf}
    BY <2>3, FlattenEntries
  <2>5. IsList(<<file>>) /\ ToSet(<<file>>) = {file}
    BY SmallLists
  <2> HIDE DEF file
  <2>6. IsList(rec.entities) /\ ToSet(rec.entities) = {file} \cup ToSet(FlattenSeq(entitiesOf))
    BY <1>1, <2>4, <2>5, Concat
  <2>7. ToSet(FlattenSeq(entitiesOf)) = {UnitEntity(p, a.units[k]) : k \in DOMAIN a.units}
    <3>1. \A i \in DOMAIN a.units : ToSet(entitiesOf[i]) = {UnitEntity(p, a.units[i])}
      BY <1>4, <2>1, <2>3
    <3>2. ToSet(FlattenSeq(entitiesOf)) = UNION {ToSet(entitiesOf[i]) : i \in DOMAIN a.units}
      BY <1>4, <2>1, <2>4
    <3>3. UNION {ToSet(entitiesOf[i]) : i \in DOMAIN a.units}
            = UNION {{UnitEntity(p, a.units[i])} : i \in DOMAIN a.units}
      BY <3>1
    <3> QED BY <3>2, <3>3
  <2> QED BY <2>6, <2>7 DEF FileEnds, file
\* contains
<1>16. Linked(rec.contains, E)
  <2>1. DOMAIN containsOf = DOMAIN units /\ containsOf = [i \in DOMAIN a.units |-> containsOf[i]]
    BY <1>4
  <2>2. \A i \in DOMAIN containsOf : Linked(containsOf[i], E)
    BY <1>5
  <2> HIDE DEF containsOf
  <2>3. IsList(containsOf)
    BY <1>3, <2>1, ListMap
  <2> QED BY <1>1, <2>2, <2>3, LinkedJoin
\* documents
<1>17. Filed(rec.docs, E, R)
  <2>1. file \in E
    BY DEF FileEnds
  <2> HIDE DEF file, E
  <2>2. /\ descriptor.id.entity \in E /\ descriptor.region \in R
        /\ role.id.entity \in E /\ role.region \in R
    BY <1>11, <2>1, GeneratedFields
  <2>3. /\ texts = [k \in DOMAIN windows |-> texts[k]]
        /\ \A k \in DOMAIN windows : texts[k].id.entity \in E /\ texts[k].region \in R
    BY <1>11, <2>1, DocumentFields
  <2>4. DOMAIN docsOf = DOMAIN units /\ docsOf = [i \in DOMAIN a.units |-> docsOf[i]]
    BY <1>4
  <2>5. \A i \in DOMAIN docsOf : Filed(docsOf[i], E, R)
    BY <1>13 DEF E
  <2> HIDE DEF descriptor, role, texts, docsOf
  <2>6. Filed(<<descriptor>>, E, R) /\ Filed(<<role>>, E, R)
    BY <2>2, FiledOne
  <2>7. Filed(texts, E, R)
    BY <1>2, <2>3, FiledMap
  <2>8. IsList(docsOf)
    BY <1>3, <2>4, ListMap
  <2>9. Filed(FlattenSeq(docsOf), E, R)
    BY <2>5, <2>8, FiledJoin
  <2> QED BY <1>1, <2>6, <2>7, <2>9, FiledConcat
<1> QED BY <1>14, <1>15, <1>16, <1>17 DEF rec, E, R

(***************************************************************************)
(* The records of a tree.                                                  *)
(***************************************************************************)
\* Records that refer only to themselves, as lists.
Sound(r) ==
    /\ DOMAIN r = DOMAIN NoRecords
    /\ IsList(r.entities) /\ Linked(r.relations, ToSet(r.entities))
    /\ Nested(r.regions, RegionIds(r.regions))
    /\ Filed(r.docs, ToSet(r.entities), RegionIds(r.regions))

\* That is what the property says.
LEMMA SoundIsClosed == ASSUME NEW r, Sound(r) PROVE Closed(r)
<1>1. {r.regions[i].id : i \in DOMAIN r.regions} \cup {NoRegion} = RegionIds(r.regions)
  BY DEF RegionIds, ToSet
<1>2. \A e \in ToSet(r.relations) : e.src \in ToSet(r.entities) /\ e.dst \in ToSet(r.entities)
  BY DEF Sound, Linked, IsLink
<1>3. \A d \in ToSet(r.docs) : /\ d.id.entity \in ToSet(r.entities)
                               /\ d.region \in RegionIds(r.regions)
  BY DEF Sound, Filed
<1>4. \A g \in ToSet(r.regions) : g.parent \in RegionIds(r.regions)
  BY DEF Sound, Nested
<1> QED BY <1>1, <1>2, <1>3, <1>4 DEF Closed

\* What the worktree part of a build makes of a tree is sound, and has an
\* entity for the repository, every file and every unit.
LEMMA TreeRecordsAreSound ==
  ASSUME NEW x, IsView(x), NEW pick \in BasenamePicks(x), NEW walk,
         NEW units, units = AllUnitRecords(x), NEW files, files = AllFileRecords(x, units),
         NEW contains, contains = FlattenSeq([i \in DOMAIN files |-> files[i].contains]),
         NEW derived, derived = add_derived_relations(DerivedRelations(x, pick, walk, contains)),
         NEW routes, routes = axum_routes(x),
         NEW knowledge, knowledge = add_hierarchical_knowledge(x)
  PROVE  /\ Sound(TreeRecords(x, files, derived, routes, knowledge))
         /\ Known(x) \cup {Repository}
              \subseteq ToSet(TreeRecords(x, files, derived, routes, knowledge).entities)
<1> DEFINE rec == TreeRecords(x, files, derived, routes, knowledge)
           E == ToSet(rec.entities)
           R == RegionIds(rec.regions)
           regionsOf == [i \in DOMAIN files |-> files[i].regions]
           entitiesOf == [i \in DOMAIN files |-> files[i].entities]
           containsOf == [i \in DOMAIN files |-> files[i].contains]
           docsOf == [i \in DOMAIN files |-> files[i].docs]
           packages == PackageEntities(x)
           Ends(i) == FileEnds(x.files[i], x.body[x.files[i]], x.parsed[x.files[i]])
<1>1. /\ rec.regions = FlattenSeq(regionsOf)
      /\ rec.entities = <<Repository>> \o FlattenSeq(entitiesOf) \o packages
                        \o RouteEntities(routes) \o knowledge.entities
      /\ rec.relations = derived \o PackageRelations(x) \o RouteRelations(x, routes)
                         \o knowledge.relations
      /\ rec.docs = FlattenSeq(docsOf) \o knowledge.docs
      /\ DOMAIN rec = DOMAIN NoRecords
  <2>1. rec = [regions |-> FlattenSeq(regionsOf),
               entities |-> <<Repository>> \o FlattenSeq(entitiesOf) \o packages
                            \o RouteEntities(routes) \o knowledge.entities,
               relations |-> derived \o PackageRelations(x) \o RouteRelations(x, routes)
                             \o knowledge.relations,
               docs |-> FlattenSeq(docsOf) \o knowledge.docs]
    BY Zenon DEF TreeRecords, RouteEntities
  <2> HIDE DEF rec, regionsOf, entitiesOf, docsOf, packages
  <2>2. \A r, e, l, d : LET f == [regions |-> r, entities |-> e, relations |-> l, docs |-> d]
                        IN  /\ f.regions = r /\ f.entities = e /\ f.relations = l /\ f.docs = d
                            /\ DOMAIN f = {"regions", "entities", "relations", "docs"}
    OBVIOUS
  <2>3. DOMAIN NoRecords = {"regions", "entities", "relations", "docs"}
    BY DEF NoRecords
  <2> QED BY <2>1, <2>2, <2>3
<1>2. IsList(x.files) /\ DOMAIN files = DOMAIN x.files
  BY DEF IsView, AllFileRecords
<1>3. ASSUME NEW i \in DOMAIN files
      PROVE  /\ IsList(files[i].entities) /\ ToSet(files[i].entities) = Ends(i)
             /\ Nested(files[i].regions, RegionIds(files[i].regions))
             /\ Linked(files[i].contains, Ends(i))
             /\ Filed(files[i].docs, Ends(i), RegionIds(files[i].regions))
  <2> DEFINE p == x.files[i]
             c == x.body[p]
             a == x.parsed[p]
             of == units[p]
  <2>1. p \in FilesOf(x)
    BY <1>2 DEF FilesOf, ToSet
  <2>2. c \in DOMAIN Content /\ Analysis(a)
    BY <2>1 DEF IsView
  <2>3. of = [k \in DOMAIN a.units |-> UnitRecords(p, c, a, k)]
    BY <2>1 DEF AllUnitRecords
  <2>4. files[i] = FileRecords(p, c, a, of)
    BY <1>2 DEF AllFileRecords
  <2>5. Ends(i) = FileEnds(p, c, a)
    OBVIOUS
  <2> HIDE DEF p, c, a, of, Ends
  <2> QED BY <2>2, <2>3, <2>4, <2>5, FileRecordsAreClosed
<1>4. \A i \in DOMAIN files : Ends(i) \subseteq Known(x)
  <2>1. ASSUME NEW i \in DOMAIN files PROVE Ends(i) \subseteq Known(x)
    <3> DEFINE p == x.files[i]
    <3>1. p \in FilesOf(x)
      BY <1>2 DEF FilesOf, ToSet
    <3>2. FileEntity(p, x.body[p]) \in Known(x)
      BY <3>1, KnownFiles DEF FileId
    <3>3. \A k \in DOMAIN x.parsed[p].units : UnitEntity(p, x.parsed[p].units[k]) \in Known(x)
      BY <3>1, KnownUnits
    <3> QED BY <3>2, <3>3 DEF FileEnds
  <2> QED BY <2>1
<1>5. Known(x) \subseteq UNION {Ends(i) : i \in DOMAIN files}
  <2>1. ASSUME NEW e \in Known(x) PROVE \E i \in DOMAIN files : e \in Ends(i)
    <3>1. PICK p \in FilesOf(x) : e = FileId(x, p) \/ e \in UnitsOf(x, p)
      BY DEF Known, FileEntities
    <3>2. PICK i \in DOMAIN files : p = x.files[i]
      BY <1>2 DEF FilesOf, ToSet
    <3>3. e \in FileEnds(p, x.body[p], x.parsed[p])
      BY <3>1 DEF FileEnds, FileId, UnitsOf
    <3> QED BY <3>2, <3>3
  <2> QED BY <2>1
<1> HIDE DEF rec, packages, Ends
\* entities
<1>6. /\ IsList(packages)
      /\ Linked(PackageRelations(x), Known(x) \cup ToSet(packages))
  BY PackagesLinked DEF packages
<1>7. /\ IsList(RouteEntities(routes))
      /\ Linked(RouteRelations(x, routes), Known(x) \cup ToSet(RouteEntities(routes)))
  BY RoutesAreListed, RoutesLinked
<1>8. IsList(knowledge.entities)
  <2> DEFINE E0 == Known(x) \cup {Repository} \cup ToSet(knowledge.entities)
  <2>1. /\ Known(x) \cup {Repository} \cup ToSet(add_hierarchical_knowledge(x).entities)
             \subseteq E0
        /\ NoRegion \in {NoRegion}
    OBVIOUS
  <2> HIDE DEF E0
  <2> QED BY <2>1, KnowledgeLinked
<1>9. /\ IsList(entitiesOf) /\ DOMAIN entitiesOf = DOMAIN files
      /\ \A i \in DOMAIN entitiesOf : IsList(entitiesOf[i]) /\ ToSet(entitiesOf[i]) = Ends(i)
  <2>1. DOMAIN entitiesOf = DOMAIN files /\ entitiesOf = [i \in DOMAIN x.files |-> entitiesOf[i]]
    BY <1>2
  <2>2. \A i \in DOMAIN entitiesOf : IsList(entitiesOf[i]) /\ ToSet(entitiesOf[i]) = Ends(i)
    BY <1>3
  <2> HIDE DEF entitiesOf
  <2> QED BY <1>2, <2>1, <2>2, ListMap
<1> HIDE DEF entitiesOf
<1>10. /\ IsList(FlattenSeq(entitiesOf))
       /\ Known(x) \subseteq ToSet(FlattenSeq(entitiesOf))
  <2>1. /\ IsList(FlattenSeq(entitiesOf))
        /\ ToSet(FlattenSeq(entitiesOf)) = UNION {ToSet(entitiesOf[i]) : i \in DOMAIN entitiesOf}
    BY <1>9, FlattenEntries
  <2>2. ASSUME NEW e \in Known(x) PROVE e \in ToSet(FlattenSeq(entitiesOf))
    <3>1. PICK i \in DOMAIN files : e \in Ends(i)
      BY <1>5
    <3>2. i \in DOMAIN entitiesOf /\ e \in ToSet(entitiesOf[i])
      BY <1>9, <3>1
    <3> QED BY <2>1, <3>2
  <2> QED BY <2>1, <2>2
<1>11. /\ IsList(rec.entities)
       /\ Known(x) \subseteq E /\ Repository \in E /\ ToSet(packages) \subseteq E
       /\ ToSet(RouteEntities(routes)) \subseteq E /\ ToSet(knowledge.entities) \subseteq E
  <2> DEFINE e1 == <<Repository>> \o FlattenSeq(entitiesOf)
             e2 == e1 \o packages
             e3 == e2 \o RouteEntities(routes)
  <2>1. IsList(<<Repository>>) /\ ToSet(<<Repository>>) = {Repository}
    BY SmallLists
  <2>2. IsList(e1) /\ ToSet(e1) = {Repository} \cup ToSet(FlattenSeq(entitiesOf))
    BY <1>10, <2>1, Concat
  <2>3. rec.entities = e3 \o knowledge.entities
    BY <1>1
  <2> HIDE DEF e1
  <2>4. IsList(e2) /\ ToSet(e2) = ToSet(e1) \cup ToSet(packages)
    BY <1>6, <2>2, Concat
  <2> HIDE DEF e2
  <2>5. IsList(e3) /\ ToSet(e3) = ToSet(e2) \cup ToSet(RouteEntities(routes))
    BY <1>7, <2>4, Concat
  <2> HIDE DEF e3
  <2>6. IsList(rec.entities) /\ E = ToSet(e3) \cup ToSet(knowledge.entities)
    BY <1>8, <2>3, <2>5, Concat
  <2> QED BY <1>10, <2>2, <2>4, <2>5, <2>6
<1> HIDE DEF E
\* regions
<1>12. /\ Nested(rec.regions, R)
       /\ \A i \in DOMAIN files : RegionIds(files[i].regions) \subseteq R
  <2>1. DOMAIN regionsOf = DOMAIN files /\ regionsOf = [i \in DOMAIN x.files |-> regionsOf[i]]
    BY <1>2
  <2>2. \A i \in DOMAIN regionsOf : regionsOf[i] = files[i].regions
    OBVIOUS
  <2> HIDE DEF regionsOf
  <2>3. IsList(regionsOf)
    BY <1>2, <2>1, ListMap
  <2>4. \A i \in DOMAIN regionsOf : /\ IsList(regionsOf[i])
                                    /\ Nested(regionsOf[i], RegionIds(regionsOf[i]))
    BY <1>3, <2>1, <2>2 DEF Nested
  <2>5. /\ IsList(rec.regions)
        /\ ToSet(rec.regions) = UNION {ToSet(regionsOf[i]) : i \in DOMAIN regionsOf}
    BY <1>1, <2>3, <2>4, FlattenEntries
  <2>6. ASSUME NEW i \in DOMAIN regionsOf PROVE RegionIds(regionsOf[i]) \subseteq R
    <3>1. ToSet(regionsOf[i]) \subseteq ToSet(rec.regions)
      BY <2>5
    <3> QED BY <3>1 DEF RegionIds
  <2> HIDE DEF R
  <2>7. ASSUME NEW g \in ToSet(rec.regions) PROVE g.parent \in R
    <3>1. PICK i \in DOMAIN regionsOf : g \in ToSet(regionsOf[i])
      BY <2>5
    <3>2. g.parent \in RegionIds(regionsOf[i])
      BY <2>4, <3>1 DEF Nested
    <3> QED BY <2>6, <3>2
  <2> QED BY <2>1, <2>2, <2>5, <2>6, <2>7 DEF Nested
<1>13. NoRegion \in R
  BY DEF RegionIds
<1> HIDE DEF R
\* relations
<1>14. Linked(contains, Known(x))
  <2>1. DOMAIN containsOf = DOMAIN files /\ containsOf = [i \in DOMAIN x.files |-> containsOf[i]]
    BY <1>2
  <2>2. \A i \in DOMAIN containsOf : Linked(containsOf[i], Known(x))
    BY <1>3, <1>4, LinkedMore
  <2>3. contains = FlattenSeq(containsOf)
    OBVIOUS
  <2> HIDE DEF containsOf
  <2>4. IsList(containsOf)
    BY <1>2, <2>1, ListMap
  <2> QED BY <2>2, <2>3, <2>4, LinkedJoin
<1>15. /\ Known(x) \cup {Repository} \cup ToSet(add_hierarchical_knowledge(x).entities) \subseteq E
  BY <1>11
<1>16. Linked(rec.relations, E)
  <2>1. Linked(derived, E)
    BY <1>11, <1>14, DerivedLinked, LinkedMore
  <2>2. Linked(PackageRelations(x), E)
    <3>1. Known(x) \cup ToSet(packages) \subseteq E
      BY <1>11
    <3> QED BY <1>6, <3>1, LinkedMore
  <2>3. Linked(RouteRelations(x, routes), E)
    <3>1. Known(x) \cup ToSet(RouteEntities(routes)) \subseteq E
      BY <1>11
    <3> QED BY <1>7, <3>1, LinkedMore
  <2>4. Linked(knowledge.relations, E)
    BY <1>13, <1>15, KnowledgeLinked
  <2> QED BY <1>1, <2>1, <2>2, <2>3, <2>4, LinkedConcat
\* documents
<1>17. Filed(rec.docs, E, R)
  <2>1. DOMAIN docsOf = DOMAIN files /\ docsOf = [i \in DOMAIN x.files |-> docsOf[i]]
    BY <1>2
  <2>2. \A i \in DOMAIN docsOf : Filed(docsOf[i], E, R)
    <3>1. ASSUME NEW i \in DOMAIN files PROVE Filed(files[i].docs, E, R)
      <4>1. Filed(files[i].docs, Ends(i), RegionIds(files[i].regions))
        BY <1>3
      <4>2. Ends(i) \subseteq E /\ RegionIds(files[i].regions) \subseteq R
        BY <1>4, <1>11, <1>12
      <4> QED BY <4>1, <4>2, FiledMore
    <3> QED BY <3>1
  <2>3. rec.docs = FlattenSeq(docsOf) \o knowledge.docs
    BY <1>1
  <2> HIDE DEF docsOf
  <2>4. IsList(docsOf)
    BY <1>2, <2>1, ListMap
  <2>5. Filed(FlattenSeq(docsOf), E, R)
    BY <2>2, <2>4, FiledJoin
  <2>6. Filed(knowledge.docs, E, R)
    BY <1>13, <1>15, KnowledgeLinked
  <2> QED BY <2>3, <2>5, <2>6, FiledConcat
<1>18. Sound(rec)
  BY <1>1, <1>11, <1>12, <1>16, <1>17 DEF Sound, E, R
<1>19. Known(x) \cup {Repository} \subseteq ToSet(rec.entities)
  BY <1>11 DEF E
<1> QED BY <1>18, <1>19 DEF rec

\* A list that one entry is added to.
LEMMA Extend ==
  ASSUME NEW s, IsList(s), NEW e
  PROVE  IsList(Append(s, e)) /\ ToSet(Append(s, e)) = ToSet(s) \cup {e}
<1>1. s \in Seq(ToSet(s) \cup {e})
  <2>1. Len(s) \in Nat /\ s = [i \in 1..Len(s) |-> s[i]] /\ DOMAIN s = 1..Len(s)
    BY ListShape
  <2>2. \A i \in 1..Len(s) : s[i] \in ToSet(s) \cup {e}
    BY <2>1 DEF ToSet
  <2> QED BY <2>1, <2>2
<1>2. Append(s, e) = s \o <<e>>
  BY <1>1
<1>3. IsList(<<e>>) /\ ToSet(<<e>>) = {e}
  BY SmallLists
<1> QED BY <1>2, <1>3, Concat

\* The commits have entities and their documents are filed under them, the
\* summary under the repository.
LEMMA HistoryIsFiled ==
  ASSUME NEW revision \in DOMAIN History, NEW E, Repository \in E,
         ToSet(HistoryRecords(revision).entities) \subseteq E, NEW R, NoRegion \in R
  PROVE  /\ IsList(HistoryRecords(revision).entities)
         /\ Filed(HistoryRecords(revision).docs, E, R)
<1> DEFINE all == History[revision]
           at == {i \in DOMAIN all : ~all[i].root /\ all[i].touched # {}}
           diffs == Those(all, at)
           entities == [i \in DOMAIN diffs |-> CommitEntity(diffs[i])]
           Page(k) == Generated(CommitEntity(k), "commit_diff", "CommitDiff", NoRegion,
                                build_commit_diff(k))
           pages == [i \in DOMAIN diffs |-> Page(diffs[i])]
           summary == Generated(Repository, "commit_summary", "CommitSummary", NoRegion,
                                summarize(revision))
           h == HistoryRecords(revision)
<1>1. IsList(diffs)
  <2>1. IsList(all)
    BY HistoryAssumption
  <2> HIDE DEF all, at
  <2> QED BY <2>1, ThoseEntries
<1>2. h.entities = entities /\ h.docs = Append(pages, summary)
  <2>1. commit_diffs(revision) = diffs
    BY Zenon DEF commit_diffs, Select
  <2>2. index_commit_diffs(commit_diffs(revision)) = [entities |-> entities, docs |-> pages]
    <3> HIDE DEF diffs
    <3> QED BY Zenon, <2>1 DEF index_commit_diffs
  <2> HIDE DEF diffs, entities, pages
  <2>3. h = [index_commit_diffs(commit_diffs(revision)) EXCEPT !.docs = Append(@, summary)]
    BY Zenon DEF HistoryRecords
  <2> HIDE DEF h, summary
  <2> QED BY <2>2, <2>3
<1> HIDE DEF h, diffs, summary
<1>3. entities = [i \in DOMAIN diffs |-> entities[i]] /\ pages = [i \in DOMAIN diffs |-> pages[i]]
  OBVIOUS
<1>4. \A i \in DOMAIN diffs : entities[i] = CommitEntity(diffs[i]) /\ pages[i] = Page(diffs[i])
  OBVIOUS
<1> HIDE DEF entities, pages
<1>5. IsList(entities) /\ DOMAIN entities = DOMAIN diffs
  BY <1>1, <1>3, ListMap
<1>6. Filed(pages, E, R)
  <2>1. ASSUME NEW i \in DOMAIN diffs PROVE pages[i].id.entity \in E /\ pages[i].region \in R
    <3>1. pages[i].id.entity = CommitEntity(diffs[i]) /\ pages[i].region = NoRegion
      BY <1>4, GeneratedFields
    <3>2. CommitEntity(diffs[i]) \in ToSet(entities)
      BY <1>4, <1>5 DEF ToSet
    <3> QED BY <1>2, <3>1, <3>2 DEF h
  <2> QED BY <1>1, <1>3, <2>1, FiledMap
<1>7. Filed(Append(pages, summary), E, R)
  <2>1. summary.id.entity \in E /\ summary.region \in R
    BY GeneratedFields DEF summary
  <2>2. /\ IsList(Append(pages, summary))
        /\ ToSet(Append(pages, summary)) = ToSet(pages) \cup {summary}
    BY <1>6, Extend DEF Filed
  <2> QED BY <1>6, <2>1, <2>2 DEF Filed
<1> QED BY <1>2, <1>5, <1>7 DEF h

(***************************************************************************)
(* Ingestion.                                                              *)
(***************************************************************************)
\* An index that parses lists documents of contents that exist.
SoundIndex(index) ==
    index.ok => IsList(index.docs) /\ \A d \in ToSet(index.docs) : d.of \in DOMAIN Content

\* An occurrence is attributed to a unit of its file or to the file.
LEMMA EnclosingIsKnown ==
  ASSUME NEW x, IsView(x), NEW p \in FilesOf(x), NEW at
  PROVE  enclosing_entity(x, p, at) \in Known(x)
<1> DEFINE units == x.parsed[p].units
           over == {i \in DOMAIN units : units[i].start <= at /\ at < units[i].end}
           Span(i) == units[i].end - units[i].start
           narrow == {i \in over : \A j \in over : Span(i) <= Span(j)}
<1>1. CASE over = {}
  BY <1>1, KnownFiles DEF enclosing_entity
<1>2. CASE over # {}
  <2>1. enclosing_entity(x, p, at) = UnitEntity(p, units[Min(narrow)])
    BY <1>2, Zenon DEF enclosing_entity
  <2>2. Placed(units)
    BY DEF IsView, Analysis
  <2>3. /\ DOMAIN units = 1..Len(units) /\ Len(units) \in Nat
        /\ \A i \in DOMAIN units : units[i].start \in Nat /\ units[i].end \in Nat
    BY <2>2, ListShape DEF Placed
  <2>4. over \subseteq DOMAIN units
    OBVIOUS
  <2>5. \A i \in over : units[i].start \in Nat /\ units[i].end \in Nat
    BY <2>3, <2>4
  <2> HIDE DEF units
  <2>6. PICK least \in over : \A i \in over : Span(least) <= Span(i)
    <3> DEFINE f == [i \in DOMAIN units |-> Span(i)]
    <3>1. \A i \in DOMAIN units : f[i] = Span(i) /\ Span(i) \in Int
      BY <2>3
    <3>2. \A i \in 1..Len(units) : f[i] \in Int
      BY <2>3, <3>1
    <3> HIDE DEF f, over, Span
    <3>3. \E least \in over : \A i \in over : f[least] <= f[i]
      BY <1>2, <2>3, <2>4, <3>2, LeastValue
    <3>4. \A i \in over : f[i] = Span(i)
      BY <2>4, <3>1
    <3> QED BY <3>3, <3>4 DEF Span
  <2>7. narrow # {} /\ narrow \in SUBSET Nat
    BY <2>3, <2>4, <2>6
  <2> HIDE DEF over
  <2>8. Min(narrow) \in narrow
    <3> HIDE DEF narrow
    <3> QED BY <2>7, MinInside
  <2>9. Min(narrow) \in DOMAIN units
    BY <2>4, <2>8
  <2> QED BY <2>1, <2>9, KnownUnits DEF units
<1> QED BY <1>1, <1>2

\* So every site an index has in this tree is one of a known entity.
Sited(sites, E) == IsList(sites) /\ \A s \in ToSet(sites) : s.entity \in E

\* Wherever an index says an occurrence is, it is of a known entity or dropped.
LEMMA SitesAreKnown ==
  ASSUME NEW x, IsView(x), NEW index, SoundIndex(index), index.ok
  PROVE  Sited(Sites(x, index), Known(x))
<1>1. ASSUME NEW d \in ToSet(index.docs) PROVE Sited(DocumentSites(x, d), Known(x))
  <2> DEFINE occs == Content[d.of].scip.occs
             at == {i \in DOMAIN occs : byte_range(x, d.path, occs[i])}
             seen == IF d.path \notin FilesOf(x) THEN <<>> ELSE Those(occs, at)
             t == DocumentSites(x, d)
  <2>1. IsList(occs)
    BY ScipAssumption DEF SoundIndex
  <2>2. IsList(seen) /\ (d.path \notin FilesOf(x) => DOMAIN seen = {})
    <3>1. IsList(Those(occs, at))
      <4> HIDE DEF occs, at
      <4> QED BY <2>1, ThoseEntries
    <3>2. IsList(<<>>) /\ DOMAIN <<>> = {}
      BY SmallLists
    <3> HIDE DEF at, occs
    <3> QED BY <3>1, <3>2
  <2>3. t = [i \in DOMAIN seen |->
              [key |-> SymbolKey(seen[i], d.path), def |-> seen[i].def,
               entity |-> enclosing_entity(x, d.path, seen[i].start),
               at |-> <<d.path, seen[i].start, seen[i].end>>]]
    BY Zenon DEF DocumentSites, Select
  <2> HIDE DEF seen, t
  <2>4. t = [i \in DOMAIN seen |-> t[i]]
    BY <2>3
  <2>5. IsList(t) /\ DOMAIN t = DOMAIN seen
    BY <2>2, <2>4, ListMap
  <2>6. ASSUME NEW i \in DOMAIN t PROVE t[i].entity \in Known(x)
    <3>1. d.path \in FilesOf(x)
      BY <2>2, <2>5
    <3>2. t[i].entity = enclosing_entity(x, d.path, seen[i].start)
      BY <2>3, <2>5
    <3> QED BY <3>1, <3>2, EnclosingIsKnown
  <2>7. Sited(t, Known(x))
    BY <2>5, <2>6 DEF Sited, ToSet
  <2> QED BY <2>7 DEF t
<1> DEFINE seqs == [i \in DOMAIN index.docs |-> DocumentSites(x, index.docs[i])]
<1>2. IsList(index.docs)
  BY DEF SoundIndex
<1>3. /\ seqs = [i \in DOMAIN index.docs |-> seqs[i]]
      /\ \A i \in DOMAIN index.docs : seqs[i] = DocumentSites(x, index.docs[i])
  OBVIOUS
<1>4. Sites(x, index) = FlattenSeq(seqs)
  BY Zenon DEF Sites
<1> HIDE DEF seqs
<1>5. IsList(seqs) /\ DOMAIN seqs = DOMAIN index.docs
  BY <1>2, <1>3, ListMap
<1>6. \A i \in DOMAIN seqs : Sited(seqs[i], Known(x))
  BY <1>1, <1>3, <1>5 DEF ToSet
<1>7. /\ IsList(FlattenSeq(seqs))
      /\ ToSet(FlattenSeq(seqs)) = UNION {ToSet(seqs[i]) : i \in DOMAIN seqs}
  BY <1>5, <1>6, FlattenEntries DEF Sited
<1>8. ASSUME NEW s \in ToSet(FlattenSeq(seqs)) PROVE s.entity \in Known(x)
  BY <1>6, <1>7 DEF Sited
<1> QED BY <1>4, <1>7, <1>8 DEF Sited

\* What a symbol is defined by is one of the sites.
LEMMA DefinitionsAreKnown ==
  ASSUME NEW E, NEW sites, Sited(sites, E)
  PROVE  \A key \in DOMAIN Definitions(sites) : Definitions(sites)[key].entity \in E
<1> SUFFICES ASSUME NEW key \in DOMAIN Definitions(sites)
             PROVE  Definitions(sites)[key].entity \in E
  OBVIOUS
<1> DEFINE of == {i \in DOMAIN sites : sites[i].def /\ sites[i].key = key}
           keys == {sites[i].key : i \in {j \in DOMAIN sites : sites[j].def}}
<1>1. Definitions(sites) = [k \in keys |->
         sites[Min({i \in DOMAIN sites : sites[i].def /\ sites[i].key = k})]]
  BY Zenon DEF Definitions
<1>2. key \in keys
  BY <1>1
<1>3. Definitions(sites)[key] = sites[Min(of)]
  BY <1>1, <1>2, Zenon
<1>4. of # {} /\ of \subseteq DOMAIN sites
  BY <1>2
<1>5. of \in SUBSET Nat
  BY <1>4, ListShape DEF Sited
<1> HIDE DEF of
<1>6. Min(of) \in of
  BY <1>4, <1>5, MinInside
<1> QED BY <1>3, <1>4, <1>6 DEF Sited, ToSet

\* Facts link the definitions of symbols.
LEMMA FactsLinked ==
  ASSUME NEW E, NEW index, SoundIndex(index), index.ok,
         NEW defs, \A key \in DOMAIN defs : defs[key].entity \in E
  PROVE  Linked(SymbolFacts(index, defs), E)
<1>1. ASSUME NEW p, NEW s, IsList(s.rels), SymbolKey(s, p) \in DOMAIN defs
      PROVE  Linked(FactsOfSymbol(defs, p, s), E)
  <2> DEFINE at == {i \in DOMAIN s.rels : /\ SymbolKey(s.rels[i], p) \in DOMAIN defs
                                         /\ s.rels[i].kind # "other"}
             known == Those(s.rels, at)
             t == FactsOfSymbol(defs, p, s)
  <2>1. /\ IsList(known)
        /\ \A k \in DOMAIN known : \E i \in at \cap DOMAIN s.rels : known[k] = s.rels[i]
    <3> HIDE DEF at
    <3> QED BY <1>1, ThoseEntries
  <2>2. \A k \in DOMAIN known : SymbolKey(known[k], p) \in DOMAIN defs
    BY <2>1
  <2>3. t = [k \in DOMAIN known |->
              ScipEdge(defs[SymbolKey(s, p)].entity, defs[SymbolKey(known[k], p)].entity,
                       known[k].kind, <<defs[SymbolKey(s, p)].at>>)]
    BY Zenon DEF FactsOfSymbol, Select
  <2> HIDE DEF known, t
  <2>4. ASSUME NEW k \in DOMAIN known PROVE IsLink(t[k], E)
    BY <1>1, <2>2, <2>3, RelationLinks DEF ScipEdge
  <2>5. t = [k \in DOMAIN known |-> t[k]]
    BY <2>3
  <2> QED BY <2>1, <2>4, <2>5, LinkedMap DEF t
<1>2. ASSUME NEW d \in ToSet(index.docs) PROVE Linked(FactsOfDocument(defs, d), E)
  <2> DEFINE all == Content[d.of].scip.infos
             at == {i \in DOMAIN all : SymbolKey(all[i], d.path) \in DOMAIN defs}
             infos == Those(all, at)
             seqs == [i \in DOMAIN infos |-> FactsOfSymbol(defs, d.path, infos[i])]
  <2>1. IsList(all) /\ \A s \in ToSet(all) : IsList(s.rels)
    BY ScipAssumption DEF SoundIndex
  <2> HIDE DEF all
  <2>2. /\ IsList(infos)
        /\ \A k \in DOMAIN infos : \E i \in at \cap DOMAIN all : infos[k] = all[i]
    <3> HIDE DEF at
    <3> QED BY <2>1, ThoseEntries
  <2>3. \A k \in DOMAIN infos : IsList(infos[k].rels) /\ SymbolKey(infos[k], d.path) \in DOMAIN defs
    BY <2>1, <2>2 DEF ToSet
  <2>4. FactsOfDocument(defs, d) = FlattenSeq(seqs)
    BY Zenon DEF FactsOfDocument, Select, all
  <2>5. seqs = [i \in DOMAIN infos |-> seqs[i]] /\ DOMAIN seqs = DOMAIN infos
    OBVIOUS
  <2>6. \A i \in DOMAIN seqs : Linked(seqs[i], E)
    <3> HIDE DEF infos
    <3> QED BY <1>1, <2>3
  <2> HIDE DEF seqs, infos
  <2>7. IsList(seqs)
    BY <2>2, <2>5, ListMap
  <2> QED BY <2>4, <2>6, <2>7, LinkedJoin
<1> DEFINE seqs == [i \in DOMAIN index.docs |-> FactsOfDocument(defs, index.docs[i])]
<1>3. IsList(index.docs)
  BY DEF SoundIndex
<1>4. seqs = [i \in DOMAIN index.docs |-> seqs[i]] /\ DOMAIN seqs = DOMAIN index.docs
  OBVIOUS
<1>5. \A i \in DOMAIN seqs : Linked(seqs[i], E)
  BY <1>2 DEF ToSet
<1>6. SymbolFacts(index, defs) = FlattenSeq(seqs)
  BY Zenon DEF SymbolFacts
<1> HIDE DEF seqs
<1>7. IsList(seqs)
  BY <1>3, <1>4, ListMap
<1> QED BY <1>5, <1>6, <1>7, LinkedJoin

\* References link a site to a definition, once for every pair.
LEMMA ReferenceEdgesLinked ==
  ASSUME NEW E, NEW sites, Sited(sites, E),
         NEW defs, \A key \in DOMAIN defs : defs[key].entity \in E
  PROVE  Linked(ReferenceEdges(Uses(sites, defs)), E)
<1> DEFINE at == {i \in DOMAIN sites : /\ ~sites[i].def /\ sites[i].key \in DOMAIN defs
                                      /\ defs[sites[i].key].entity # sites[i].entity}
           other == Those(sites, at)
           uses == Uses(sites, defs)
<1>1. /\ IsList(other)
      /\ \A k \in DOMAIN other : \E i \in at \cap DOMAIN sites : other[k] = sites[i]
  <2> HIDE DEF at
  <2> QED BY ThoseEntries DEF Sited
<1>2. ASSUME NEW k \in DOMAIN other PROVE other[k].entity \in E /\ other[k].key \in DOMAIN defs
  <2>1. PICK i \in at \cap DOMAIN sites : other[k] = sites[i]
    BY <1>1
  <2>2. sites[i].entity \in E
    BY DEF Sited, ToSet
  <2> QED BY <2>1, <2>2
<1>3. uses = [i \in DOMAIN other |-> [src |-> other[i].entity, dst |-> defs[other[i].key].entity,
                                      at |-> other[i].at]]
  BY Zenon DEF Uses, Select
<1> HIDE DEF other, uses
<1>4. uses = [i \in DOMAIN other |-> uses[i]]
  BY <1>3
<1>5. IsList(uses) /\ DOMAIN uses = DOMAIN other
  BY <1>1, <1>4, ListMap
<1>6. \A u \in ToSet(uses) : u.src \in E /\ u.dst \in E
  <2>1. ASSUME NEW i \in DOMAIN uses PROVE uses[i].src \in E /\ uses[i].dst \in E
    BY <1>2, <1>3, <1>5
  <2> QED BY <2>1 DEF ToSet
<1> DEFINE Same(u, v) == u.src = v.src /\ u.dst = v.dst
           new == {i \in DOMAIN uses : \A j \in 1..(i - 1) : ~Same(uses[j], uses[i])}
           firsts == Those(uses, new)
           Places(u) == LET all == Those(uses, {i \in DOMAIN uses : Same(u, uses[i])})
                        IN  [k \in 1..Min({MaxEvidence, Len(all)}) |-> all[k].at]
           t == ReferenceEdges(uses)
<1>7. /\ IsList(firsts)
      /\ \A k \in DOMAIN firsts : \E i \in new \cap DOMAIN uses : firsts[k] = uses[i]
  <2> HIDE DEF new
  <2> QED BY <1>5, ThoseEntries
<1>8. t = [k \in DOMAIN firsts |->
            ScipEdge(firsts[k].src, firsts[k].dst, "references", Places(firsts[k]))]
  BY Zenon DEF ReferenceEdges, Select
<1>9. \A k \in DOMAIN firsts : firsts[k].src \in E /\ firsts[k].dst \in E
  BY <1>6, <1>7 DEF ToSet
<1> HIDE DEF firsts, t, Places
<1>10. ASSUME NEW k \in DOMAIN firsts PROVE IsLink(t[k], E)
  BY <1>8, <1>9, RelationLinks DEF ScipEdge
<1>11. t = [k \in DOMAIN firsts |-> t[k]]
  BY <1>8
<1>12. Linked(t, E)
  BY <1>7, <1>10, <1>11, LinkedMap
<1> QED BY <1>12 DEF t, uses

\* What a provider adds links entities of this tree, whatever tree its index
\* is of.
LEMMA IngestLinked ==
  ASSUME NEW x, IsView(x), NEW index, SoundIndex(index), index.ok
  PROVE  LET sites == Sites(x, index)
             defs == Definitions(sites)
         IN  Linked(ingest(index, defs, Uses(sites, defs)), Known(x))
<1> DEFINE sites == Sites(x, index)
           defs == Definitions(sites)
<1>1. Sited(sites, Known(x))
  BY SitesAreKnown
<1> HIDE DEF sites
<1>2. \A key \in DOMAIN defs : defs[key].entity \in Known(x)
  BY <1>1, DefinitionsAreKnown
<1> HIDE DEF defs
<1>3. /\ Linked(SymbolFacts(index, defs), Known(x))
      /\ Linked(ReferenceEdges(Uses(sites, defs)), Known(x))
  BY <1>1, <1>2, FactsLinked, ReferenceEdgesLinked
<1>4. Linked(ingest(index, defs, Uses(sites, defs)), Known(x))
  BY <1>3, LinkedConcat DEF ingest
<1> QED BY <1>4 DEF sites, defs

\* The merge keeps the ends of every edge: it replaces rows by rows of the
\* same id and joins evidence.
LEMMA MergeLinked ==
  ASSUME NEW E, NEW existing, Linked(existing, E), NEW incoming, Linked(incoming, E)
  PROVE  Linked(merge_relations(existing, incoming), E)
<1> DEFINE Ids(rels) == {relation_id(rels[i]) : i \in DOMAIN rels}
           LastIn(rels, id) == Max({i \in DOMAIN rels : relation_id(rels[i]) = id})
           new == {i \in DOMAIN incoming : relation_id(incoming[i]) \notin Ids(existing)}
           fresh == Those(incoming, new)
           Evidence(id) ==
               LET same == Those(fresh, {i \in DOMAIN fresh : relation_id(fresh[i]) = id})
               IN  FlattenSeq([k \in DOMAIN same |-> same[k].evidence])
           added == Distinct(fresh)
           kept == [i \in DOMAIN existing |->
                      LET id == relation_id(existing[i]) IN
                      IF id \in Ids(incoming) /\ i = LastIn(existing, id)
                      THEN incoming[LastIn(incoming, id)] ELSE existing[i]]
           more == [k \in DOMAIN added |->
                      [added[k] EXCEPT !.evidence = Evidence(relation_id(added[k]))]]
<1>1. merge_relations(existing, incoming) = kept \o more
  BY Zenon DEF merge_relations, Select
<1>2. Linked(fresh, E)
  <2> HIDE DEF new
  <2>1. /\ IsList(fresh)
        /\ \A k \in DOMAIN fresh : \E i \in new \cap DOMAIN incoming : fresh[k] = incoming[i]
    BY ThoseEntries DEF Linked
  <2> HIDE DEF fresh
  <2> QED BY <2>1 DEF Linked, ToSet
<1> HIDE DEF fresh
<1>3. Linked(added, E)
  BY <1>2, LinkedDistinct
<1> HIDE DEF added, Evidence
<1>4. Linked(more, E)
  <2>1. ASSUME NEW k \in DOMAIN added PROVE IsLink(more[k], E)
    <3>1. IsLink(added[k], E)
      BY <1>3 DEF Linked, ToSet
    <3>2. more[k] = [added[k] EXCEPT !.evidence = Evidence(relation_id(added[k]))]
      OBVIOUS
    <3> HIDE DEF more
    <3> QED BY <3>1, <3>2 DEF IsLink
  <2>2. more = [k \in DOMAIN added |-> more[k]]
    OBVIOUS
  <2> HIDE DEF more
  <2> QED BY <1>3, <2>1, <2>2, LinkedMap DEF Linked
<1>5. Linked(kept, E)
  <2>1. ASSUME NEW i \in DOMAIN existing PROVE IsLink(kept[i], E)
    <3> DEFINE id == relation_id(existing[i])
               of == {j \in DOMAIN incoming : relation_id(incoming[j]) = id}
    <3>1. CASE kept[i] = existing[i]
      BY <3>1 DEF Linked, ToSet
    <3>2. CASE kept[i] = incoming[Max(of)] /\ id \in Ids(incoming)
      <4>1. of # {} /\ of \subseteq DOMAIN incoming
        BY <3>2
      <4>2. Len(incoming) \in Nat /\ of \in SUBSET (0..Len(incoming))
        BY <4>1, ListShape DEF Linked
      <4>3. Max(of) \in DOMAIN incoming
        <5> HIDE DEF of
        <5> QED BY <4>1, <4>2, MaxInside
      <4> HIDE DEF of, kept
      <4> QED BY <3>2, <4>3 DEF Linked, ToSet
    <3> QED BY <3>1, <3>2
  <2>2. kept = [i \in DOMAIN existing |-> kept[i]]
    OBVIOUS
  <2> HIDE DEF kept
  <2> QED BY <2>1, <2>2, LinkedMap DEF Linked
<1> HIDE DEF kept, more
<1> QED BY <1>1, <1>4, <1>5, LinkedConcat

(***************************************************************************)
(* The inductive invariant.                                                *)
(***************************************************************************)
\* The worktree and HEAD are what they may be,
WorldIsKnown ==
    /\ DOMAIN tree = Paths /\ \A p \in Paths : tree[p].c \in Versions[p]
    /\ head \in DOMAIN History

\* and every file the scan cache or a scan knows had a content when it was met.
ScansAreKnown ==
    /\ \A p \in DOMAIN cache : cache[p].c \in DOMAIN Content
    /\ \A p \in DOMAIN job.found : job.found[p].c \in DOMAIN Content

\* The indexes that lie about are of contents of the tree, whenever they
\* were written,
IndexesAreKnown ==
    /\ SoundIndex(stray)
    /\ \A v \in ToSet(Registry) : SoundIndex(work[v])

\* and so is every index that is reported and not ingested yet.
ReportsAreKnown ==
    /\ pc \notin {"providers", "commit", "views"} => job.reports = <<>>
    /\ pc = "providers" =>
          /\ IsList(job.reports)
          /\ Len(job.reports) = IF job.at <= Len(Registry) THEN job.at - 1 ELSE Len(Registry)
          /\ \A n \in DOMAIN job.reports :
                job.at <= n + Len(Registry) => SoundIndex(job.reports[n].index)

\* The pending records refer to themselves, and nothing that is added later
\* can name a file or a unit of the tree that has no entity among them.
PendingIsSound ==
    pc \in {"history", "providers", "commit"} =>
        /\ Sound(job.records)
        /\ Known(JobView) \cup {Repository} \subseteq ToSet(job.records.entities)

RowsAreSound == \A s \in Committed : Sound(rows[s].records)

RecordsInv == /\ WorldIsKnown /\ ScansAreKnown /\ IndexesAreKnown /\ ReportsAreKnown
              /\ PendingIsSound /\ RowsAreSound

\* What is there is a known content.
LEMMA LiveIsKnown ==
  ASSUME WorldIsKnown, NEW p \in Paths, tree[p].c # Absent
  PROVE  tree[p].c \in DOMAIN Content
BY WorldAssumption DEF WorldIsKnown, Paths

\* The view of a build that has loaded everything is a view.
LEMMA ViewIsAnalysed ==
  ASSUME NEW found, \A p \in DOMAIN found : found[p].c \in DOMAIN Content,
         NEW body, DOMAIN body = DOMAIN found, body = [p \in DOMAIN body |-> found[p].c],
         NEW parsed, \A p \in DOMAIN body : parsed[p] = parse(p, found[p].c),
         NEW files,
         files = Those(PathOrder, {i \in DOMAIN PathOrder : PathOrder[i] \in DOMAIN found})
  PROVE  IsView(View(files, body, parsed))
<1> DEFINE at == {i \in DOMAIN PathOrder : PathOrder[i] \in DOMAIN found}
           x == View(files, body, parsed)
<1>1. x.files = files /\ x.body = body /\ x.parsed = parsed /\ x.names = CandidatesOf(files, parsed)
  <2>1. x = [files |-> files, body |-> body, parsed |-> parsed,
             names |-> CandidatesOf(files, parsed)]
    BY Zenon DEF View
  <2> HIDE DEF x
  <2> QED BY <2>1
<1>2. IsList(PathOrder)
  BY BuildAssumption DEF IsList, ToSet
<1>3. IsList(files) /\ \A p \in ToSet(files) : p \in DOMAIN found
  <2>1. files = Those(PathOrder, at)
    OBVIOUS
  <2> HIDE DEF at
  <2>2. /\ IsList(Those(PathOrder, at))
        /\ ToSet(Those(PathOrder, at)) = {PathOrder[i] : i \in at \cap DOMAIN PathOrder}
    BY <1>2, ThoseEntries
  <2> QED BY <2>1, <2>2 DEF at
<1> HIDE DEF x
<1>4. ASSUME NEW p \in FilesOf(x) PROVE x.body[p] \in DOMAIN Content /\ Analysis(x.parsed[p])
  <2>1. p \in DOMAIN found
    BY <1>1, <1>3 DEF FilesOf
  <2>2. x.body[p] = found[p].c /\ x.parsed[p] = parse(p, found[p].c)
    BY <1>1, <2>1
  <2>3. found[p].c \in DOMAIN Content
    BY <2>1
  <2> QED BY <2>2, <2>3, ParseAnalyses
<1>5. IsView(x)
  BY <1>1, <1>3, <1>4 DEF IsView
<1> QED BY <1>5 DEF x

\* The files a build has scanned, by their positions.
LEMMA FilesByPosition ==
  Files = Those(PathOrder, {i \in DOMAIN PathOrder : PathOrder[i] \in DOMAIN job.found})
BY Zenon DEF Files, Select

\* The view is that of what is found and loaded.
LEMMA SameView ==
  ASSUME job'.found = job.found, job'.body = job.body, job'.parsed = job.parsed
  PROVE  JobView' = JobView
<1>1. Files' = Those(PathOrder, {i \in DOMAIN PathOrder : PathOrder[i] \in DOMAIN job'.found})
  BY Zenon DEF Files, Select
<1>2. Files' = Files
  BY <1>1, FilesByPosition
<1> QED BY <1>2, Zenon DEF JobView

\* The files the build holds after the loading are such a view.
LEMMA JobViewIsAnalysed ==
  ASSUME BuildInv, ScansAreKnown, pc \in {"history", "providers", "commit"}
  PROVE  IsView(JobView)
<1>1. /\ job.body = [p \in DOMAIN job.body |-> job.found[p].c]
      /\ DOMAIN job.body = DOMAIN job.found
      /\ \A p \in DOMAIN job.body : job.parsed[p] = parse(p, job.found[p].c)
  BY DEF BuildInv, LoadIsOfScan
<1>2. \A p \in DOMAIN job.found : job.found[p].c \in DOMAIN Content
  BY DEF ScansAreKnown
<1>3. IsView(View(Files, job.body, job.parsed))
  BY <1>1, <1>2, FilesByPosition, ViewIsAnalysed
<1> QED BY <1>3, Zenon DEF JobView

\* The initial state satisfies the invariant.
LEMMA InitRecordsInv == Init => RecordsInv
<1> SUFFICES ASSUME Init PROVE RecordsInv
  OBVIOUS
<1>1. WorldIsKnown
  BY BuildAssumption, WorldAssumption DEF Init, WorldIsKnown, Paths
<1>2. ScansAreKnown
  BY DEF Init, ScansAreKnown, NoJob
<1>3. IndexesAreKnown
  BY WorldAssumption DEF Init, IndexesAreKnown, SoundIndex, NoIndex, ScipIndex
<1>4. ReportsAreKnown /\ PendingIsSound /\ RowsAreSound
  BY DEF Init, ReportsAreKnown, PendingIsSound, RowsAreSound, Committed, NoJob
<1> QED BY <1>1, <1>2, <1>3, <1>4 DEF RecordsInv

\* The world moves within what is known.
LEMMA WorldKeepsRecordsInv ==
  ASSUME RecordsInv, UNCHANGED <<indexes, cache, rows, pc, job>>, WorldIsKnown'
  PROVE  RecordsInv'
<1>1. ScansAreKnown' /\ IndexesAreKnown' /\ ReportsAreKnown' /\ RowsAreSound'
  BY DEF RecordsInv, ScansAreKnown, IndexesAreKnown, ReportsAreKnown, RowsAreSound, Committed,
         indexes
<1>2. PendingIsSound'
  BY SameView DEF RecordsInv, PendingIsSound
<1> QED BY <1>1, <1>2 DEF RecordsInv

\* A build that holds no records yet, or no more, only has to find files.
LEMMA IdleKeepsRecordsInv ==
  ASSUME RecordsInv, UNCHANGED <<world, indexes>>, ScansAreKnown', job'.reports = <<>>,
         pc' \in {"idle", "stat", "read", "begin", "load", "dense"},
         \A s \in DOMAIN rows' : rows'[s].complete =>
            s \in DOMAIN rows /\ rows[s].complete /\ rows'[s].records = rows[s].records
  PROVE  RecordsInv'
<1>1. WorldIsKnown' /\ IndexesAreKnown'
  BY DEF RecordsInv, WorldIsKnown, IndexesAreKnown, world, indexes
<1>2. ReportsAreKnown' /\ PendingIsSound'
  BY DEF ReportsAreKnown, PendingIsSound
<1>3. RowsAreSound'
  BY DEF RecordsInv, RowsAreSound, Committed
<1> QED BY <1>1, <1>2, <1>3 DEF RecordsInv

\* A build may return at any step.
LEMMA ReturnKeepsRecordsInv ==
  ASSUME RecordsInv, Return, UNCHANGED <<world, indexes, rows>>,
         \A p \in DOMAIN cache' : cache'[p].c \in DOMAIN Content
  PROVE  RecordsInv'
<1>1. pc' = "idle" /\ job'.reports = <<>> /\ DOMAIN job'.found = {}
  BY DEF Return, NoJob
<1>2. ScansAreKnown'
  BY <1>1 DEF ScansAreKnown
<1> QED BY <1>1, <1>2, IdleKeepsRecordsInv

(***************************************************************************)
(* The steps of a build.                                                   *)
(***************************************************************************)
\* An edit, a commit and the start of a build keep the invariant,
LEMMA EditKeepsRecordsInv ==
  ASSUME RecordsInv, NEW p \in Paths, NEW c, NEW tick, Edit(p, c, tick) PROVE RecordsInv'
<1>1. /\ tree' = [tree EXCEPT ![p] = [c |-> c, m |-> @.m + tick, quiet |-> tick = 0]]
      /\ c \in Versions[p]
  BY DEF Edit
<1>2. WorldIsKnown'
  <2>1. /\ DOMAIN tree = Paths
        /\ (\A q \in Paths : tree[q].c \in Versions[q]) /\ head' \in DOMAIN History
    BY DEF RecordsInv, WorldIsKnown, Edit
  <2>2. tree'[p].c = c /\ DOMAIN tree' = Paths /\ \A q \in Paths : q # p => tree'[q] = tree[q]
    BY <1>1, <2>1
  <2> QED BY <1>1, <2>1, <2>2 DEF WorldIsKnown
<1> QED BY <1>2, WorldKeepsRecordsInv DEF Edit, store

\* a commit,
LEMMA GitCommitKeepsRecordsInv == ASSUME RecordsInv, GitCommit PROVE RecordsInv'
<1>1. WorldIsKnown'
  BY DEF GitCommit, RecordsInv, WorldIsKnown
<1> QED BY <1>1, WorldKeepsRecordsInv DEF GitCommit, store

\* and the start of a build, which knows nothing yet.
LEMMA StartKeepsRecordsInv == ASSUME RecordsInv, NEW kind, Start(kind) PROVE RecordsInv'
<1>1. /\ pc' = "stat" /\ job' = ScanOf(kind, FALSE)
      /\ UNCHANGED <<world, indexes, cache, rows>>
  BY DEF Start, store
<1>2. job'.reports = <<>> /\ DOMAIN job'.found = {}
  BY <1>1 DEF ScanOf, NoJob
<1>3. ScansAreKnown'
  BY <1>1, <1>2 DEF RecordsInv, ScansAreKnown
<1> QED BY <1>1, <1>2, <1>3, IdleKeepsRecordsInv

\* and the scan only finds what is there or what the cache knows.
LEMMA FoundIsKnown ==
  ASSUME RecordsInv, DOMAIN job = DOMAIN NoJob, NEW p, NEW c \in DOMAIN Content, NEW size, NEW mtime
  PROVE  /\ Found(NextFile, p, c, size, mtime).reports = job.reports
         /\ DOMAIN Found(NextFile, p, c, size, mtime) = DOMAIN NoJob
         /\ \A q \in DOMAIN Found(NextFile, p, c, size, mtime).found :
               Found(NextFile, p, c, size, mtime).found[q].c \in DOMAIN Content
<1>1. DOMAIN NextFile = DOMAIN NoJob /\ NextFile.found = job.found /\ NextFile.reports = job.reports
  BY Fields DEF NextFile
<1> HIDE DEF NextFile
<1> DEFINE j == NextFile
           row == [c |-> c, size |-> size, m |-> mtime]
           g == Found(j, p, c, size, mtime)
<1>2. g = [j EXCEPT !.found = Put(@, p, row)]
  BY Zenon DEF Found
<1> HIDE DEF g, row
<1>3. g.reports = j.reports /\ g.found = Put(j.found, p, row) /\ DOMAIN g = DOMAIN NoJob
  <2>1. DOMAIN j = DOMAIN NoJob
    BY <1>1
  <2> HIDE DEF j
  <2> QED BY <1>2, <2>1, Fields
<1>4. ASSUME NEW q \in DOMAIN g.found PROVE g.found[q].c \in DOMAIN Content
  <2>1. g.found = Put(job.found, p, row)
    BY <1>1, <1>3
  <2>2. q \in DOMAIN job.found \cup {p} /\ g.found[q] = IF q = p THEN row ELSE job.found[q]
    BY <1>4, <2>1 DEF Put
  <2>3. \A r \in DOMAIN job.found : job.found[r].c \in DOMAIN Content
    BY DEF RecordsInv, ScansAreKnown
  <2>4. row.c = c
    BY DEF row
  <2> QED BY <2>2, <2>3, <2>4
<1> QED BY <1>1, <1>3, <1>4 DEF g

\* Looking at a file and reading it find such a content.
LEMMA ScanStatKeepsRecordsInv == ASSUME BuildInv, RecordsInv, ScanStat PROVE RecordsInv'
<1> DEFINE p == PathOrder[job.at]
           f == tree[p]
<1>1. /\ pc = "stat" /\ DOMAIN job = DOMAIN NoJob /\ UNCHANGED <<world, indexes, cache, rows>>
      /\ job.reports = <<>>
      /\ \A q \in DOMAIN cache : cache[q].c \in DOMAIN Content
      /\ \A q \in DOMAIN job.found : job.found[q].c \in DOMAIN Content
  BY DEF ScanStat, BuildInv, Shapes, store, RecordsInv, ScansAreKnown, ReportsAreKnown
<1>2. CASE Return
  BY <1>1, <1>2, ReturnKeepsRecordsInv
<1>3. CASE job' = NextFile /\ pc' = pc
  <2>1. job'.found = job.found /\ job'.reports = job.reports
    BY <1>1, <1>3, Fields DEF NextFile
  <2>2. ScansAreKnown'
    BY <1>1, <2>1 DEF ScansAreKnown
  <2> QED BY <1>1, <1>3, <2>1, <2>2, IdleKeepsRecordsInv
<1>4. CASE job' = [job EXCEPT !.stat = <<Size(f.c), f.m>>] /\ pc' = "read"
  <2>1. job'.found = job.found /\ job'.reports = job.reports
    BY <1>1, <1>4, Fields
  <2>2. ScansAreKnown'
    BY <1>1, <2>1 DEF ScansAreKnown
  <2> QED BY <1>1, <1>4, <2>1, <2>2, IdleKeepsRecordsInv
<1>5. ASSUME NEW c \in scan_cache_lookup(p, Size(f.c), f.m),
             job' = Found(NextFile, p, c, Size(f.c), f.m), pc' = pc
      PROVE  RecordsInv'
  <2>1. c \in DOMAIN Content
    BY <1>1 DEF scan_cache_lookup
  <2> DEFINE j == Found(NextFile, p, c, Size(f.c), f.m)
  <2>2. /\ j.reports = job.reports
        /\ \A q \in DOMAIN j.found : j.found[q].c \in DOMAIN Content
    <3> HIDE DEF p, f
    <3> QED BY <1>1, <2>1, FoundIsKnown
  <2>3. /\ job'.reports = job.reports
        /\ \A q \in DOMAIN job'.found : job'.found[q].c \in DOMAIN Content
    <3>1. job' = j
      BY <1>5
    <3> HIDE DEF j
    <3> QED BY <2>2, <3>1
  <2>4. ScansAreKnown'
    BY <1>1, <2>3 DEF ScansAreKnown
  <2> QED BY <1>1, <1>5, <2>3, <2>4, IdleKeepsRecordsInv
<1>6. \/ Return
      \/ job' = NextFile /\ pc' = pc
      \/ job' = [job EXCEPT !.stat = <<Size(f.c), f.m>>] /\ pc' = "read"
      \/ \E c \in scan_cache_lookup(p, Size(f.c), f.m) :
           job' = Found(NextFile, p, c, Size(f.c), f.m) /\ pc' = pc
  BY Zenon DEF ScanStat
<1> HIDE DEF p, f
<1> QED BY <1>2, <1>3, <1>4, <1>5, <1>6

\* What is read is what is there.
LEMMA ScanReadKeepsRecordsInv == ASSUME BuildInv, RecordsInv, ScanRead PROVE RecordsInv'
<1> DEFINE p == PathOrder[job.at]
           c == tree[p].c
           j == Found(NextFile, p, c, job.stat[1], job.stat[2])
<1>1. /\ pc = "read" /\ DOMAIN job = DOMAIN NoJob /\ UNCHANGED <<world, indexes, cache, rows>>
      /\ job.reports = <<>> /\ job.at \in Nat \ {0} /\ Walking
      /\ \A q \in DOMAIN cache : cache[q].c \in DOMAIN Content
      /\ \A q \in DOMAIN job.found : job.found[q].c \in DOMAIN Content
  BY DEF ScanRead, BuildInv, Shapes, ScanIsOfPaths, store, RecordsInv,
         ScansAreKnown, ReportsAreKnown
<1>2. CASE Return
  BY <1>1, <1>2, ReturnKeepsRecordsInv
<1>3. CASE job' = NextFile /\ pc' = "stat"
  <2>1. job'.found = job.found /\ job'.reports = job.reports
    BY <1>1, <1>3, Fields DEF NextFile
  <2>2. ScansAreKnown'
    BY <1>1, <2>1 DEF ScansAreKnown
  <2> QED BY <1>1, <1>3, <2>1, <2>2, IdleKeepsRecordsInv
<1>4. CASE c # Absent /\ job' = [j EXCEPT !.kept = @ \cup {p}] /\ pc' = "stat"
  <2>1. p \in Paths
    BY <1>1, WalkIsOfPaths
  <2>2. c \in DOMAIN Content
    BY <1>4, <2>1, LiveIsKnown DEF RecordsInv
  <2>3. /\ j.reports = job.reports /\ DOMAIN j = DOMAIN NoJob
        /\ \A q \in DOMAIN j.found : j.found[q].c \in DOMAIN Content
    <3> HIDE DEF p, c
    <3> QED BY <1>1, <2>2, FoundIsKnown
  <2> HIDE DEF j
  <2>4. job'.reports = j.reports /\ job'.found = j.found
    BY <1>4, <2>3, Fields
  <2>5. ScansAreKnown'
    BY <1>1, <2>3, <2>4 DEF ScansAreKnown
  <2> QED BY <1>1, <1>4, <2>3, <2>4, <2>5, IdleKeepsRecordsInv
<1> QED BY <1>2, <1>3, <1>4 DEF ScanRead

\* The scan cache is what this scan saw.
LEMMA FinishScanKeepsRecordsInv == ASSUME BuildInv, RecordsInv, FinishScan PROVE RecordsInv'
<1>1. /\ pc = "stat" /\ cache' = job.found /\ UNCHANGED <<world, indexes, rows>>
      /\ job.reports = <<>>
      /\ \A q \in DOMAIN job.found : job.found[q].c \in DOMAIN Content
  BY DEF FinishScan, update_scan_cache, RecordsInv, ScansAreKnown, ReportsAreKnown
<1>2. CASE Return
  BY <1>1, <1>2, ReturnKeepsRecordsInv
<1>3. CASE pc' = "begin" /\ job' = job
  <2>1. ScansAreKnown'
    BY <1>1, <1>3 DEF ScansAreKnown
  <2> QED BY <1>1, <1>3, <2>1, IdleKeepsRecordsInv
<1>4. CASE job' = ScanOf("full", TRUE) /\ pc' = pc
  <2>1. job'.reports = <<>> /\ DOMAIN job'.found = {}
    BY <1>4 DEF ScanOf, NoJob
  <2>2. ScansAreKnown'
    BY <1>1, <2>1 DEF ScansAreKnown
  <2> QED BY <1>1, <1>4, <2>1, <2>2, IdleKeepsRecordsInv
<1> QED BY <1>2, <1>3, <1>4 DEF FinishScan

\* The replaced row is incomplete.
LEMMA BeginKeepsRecordsInv == ASSUME BuildInv, RecordsInv, Begin PROVE RecordsInv'
<1>1. /\ pc' = "load" /\ rows' = Put(rows, JobId, EmptyRow) /\ UNCHANGED <<world, indexes, cache>>
      /\ DOMAIN job = DOMAIN NoJob /\ job.reports = <<>>
  BY DEF Begin, BuildInv, Shapes, RecordsInv, ReportsAreKnown
<1>2. job'.found = job.found /\ job'.reports = job.reports
  BY <1>1, Fields DEF Begin
<1>3. ScansAreKnown'
  BY <1>1, <1>2 DEF RecordsInv, ScansAreKnown
<1> HIDE DEF JobId
<1>4. ~EmptyRow.complete
  BY DEF EmptyRow
<1>5. \A s \in DOMAIN rows' : rows'[s].complete =>
         s \in DOMAIN rows /\ rows[s].complete /\ rows'[s].records = rows[s].records
  BY <1>1, <1>4 DEF Put
<1> QED BY <1>1, <1>2, <1>3, <1>5, IdleKeepsRecordsInv

\* Loading looks nothing up outside the scan.
LEMMA LoadFileKeepsRecordsInv == ASSUME BuildInv, RecordsInv, LoadFile PROVE RecordsInv'
<1>1. /\ pc = "load" /\ DOMAIN job = DOMAIN NoJob /\ UNCHANGED <<world, indexes, cache, rows>>
      /\ job.reports = <<>>
      /\ \A q \in DOMAIN cache : cache[q].c \in DOMAIN Content
  BY DEF LoadFile, BuildInv, Shapes, store, RecordsInv, ScansAreKnown, ReportsAreKnown
<1>2. \/ Return
      \/ \E n, p, c, a : job' = [job EXCEPT !.at = n + 1, !.body = Put(@, p, c),
                                           !.parsed = Put(@, p, a)] /\ pc' = pc
  BY Zenon DEF LoadFile
<1>3. CASE Return
  BY <1>1, <1>3, ReturnKeepsRecordsInv
<1>4. CASE \E n, p, c, a : job' = [job EXCEPT !.at = n + 1, !.body = Put(@, p, c),
                                             !.parsed = Put(@, p, a)] /\ pc' = pc
  <2>1. job'.found = job.found /\ job'.reports = job.reports /\ pc' = pc
    BY <1>1, <1>4, Fields
  <2>2. ScansAreKnown'
    BY <1>1, <2>1 DEF RecordsInv, ScansAreKnown
  <2> QED BY <1>1, <2>1, <2>2, IdleKeepsRecordsInv
<1> QED BY <1>2, <1>3, <1>4

\* A build that works on its records leaves the world and the rows alone.
LEMMA WorkKeepsRecordsInv ==
  ASSUME RecordsInv, UNCHANGED <<world, cache, rows>>, IndexesAreKnown', ReportsAreKnown',
         job'.found = job.found, PendingIsSound'
  PROVE  RecordsInv'
BY DEF RecordsInv, WorldIsKnown, ScansAreKnown, RowsAreSound, Committed, world

\* The derived records refer to themselves.
LEMMA DeriveKeepsRecordsInv == ASSUME BuildInv, RecordsInv, Derive PROVE RecordsInv'
<1>1. /\ pc = "load" /\ pc' = "history" /\ DOMAIN job = DOMAIN NoJob
      /\ UNCHANGED <<world, indexes, cache, rows>> /\ job.reports = <<>>
  BY DEF Derive, BuildInv, Shapes, store, RecordsInv, ReportsAreKnown
<1> DEFINE x == JobView
           units == AllUnitRecords(x)
           files == AllFileRecords(x, units)
           contains == FlattenSeq([i \in DOMAIN files |-> files[i].contains])
           derived(pick) == add_derived_relations(DerivedRelations(x, pick, job.walk, contains))
           records(pick) == TreeRecords(x, files, derived(pick), axum_routes(x),
                                        add_hierarchical_knowledge(x))
<1>2. PICK pick \in BasenamePicks(x) : job' = [job EXCEPT !.records = records(pick)]
  BY Zenon DEF Derive
<1> DEFINE r == records(pick)
<1>3. Sound(r) /\ Known(x) \cup {Repository} \subseteq ToSet(r.entities)
  <2>1. IsView(x)
    <3>1. BuildInv' /\ pc' = "history"
      BY <1>1, DeriveKeepsBuildInv
    <3> HIDE DEF x, r
    <3>2. job'.found = job.found /\ job'.body = job.body /\ job'.parsed = job.parsed
      BY <1>1, <1>2, Fields DEF r
    <3>3. /\ job'.body = [p \in DOMAIN job'.body |-> job'.found[p].c]
          /\ DOMAIN job'.body = DOMAIN job'.found
          /\ \A p \in DOMAIN job'.body : job'.parsed[p] = parse(p, job'.found[p].c)
      BY <3>1 DEF BuildInv, LoadIsOfScan
    <3>4. /\ job.body = [p \in DOMAIN job.body |-> job.found[p].c]
          /\ DOMAIN job.body = DOMAIN job.found
          /\ \A p \in DOMAIN job.body : job.parsed[p] = parse(p, job.found[p].c)
      BY <3>2, <3>3
    <3>5. \A p \in DOMAIN job.found : job.found[p].c \in DOMAIN Content
      BY DEF RecordsInv, ScansAreKnown
    <3>6. IsView(View(Files, job.body, job.parsed))
      BY <3>4, <3>5, FilesByPosition, ViewIsAnalysed
    <3> QED BY <3>6, Zenon DEF x, JobView
  <2> DEFINE d == derived(pick)
             routes == axum_routes(x)
             knowledge == add_hierarchical_knowledge(x)
  <2>2. /\ units = AllUnitRecords(x) /\ files = AllFileRecords(x, units)
        /\ contains = FlattenSeq([i \in DOMAIN files |-> files[i].contains])
        /\ d = add_derived_relations(DerivedRelations(x, pick, job.walk, contains))
        /\ routes = axum_routes(x) /\ knowledge = add_hierarchical_knowledge(x)
        /\ r = TreeRecords(x, files, d, routes, knowledge)
    OBVIOUS
  <2> HIDE DEF x, units, files, contains, d, routes, knowledge, r
  <2>3. /\ Sound(TreeRecords(x, files, d, routes, knowledge))
        /\ Known(x) \cup {Repository}
             \subseteq ToSet(TreeRecords(x, files, d, routes, knowledge).entities)
    BY <2>1, <2>2, TreeRecordsAreSound
  <2> QED BY <2>2, <2>3
<1> HIDE DEF r, x
<1>4. /\ job'.records = r /\ job'.found = job.found /\ job'.body = job.body
      /\ job'.parsed = job.parsed /\ job'.reports = <<>>
  BY <1>1, <1>2, Fields DEF r
<1>5. JobView' = x
  BY <1>4, SameView DEF x
<1>6. PendingIsSound'
  BY <1>3, <1>4, <1>5 DEF PendingIsSound
<1>7. IndexesAreKnown' /\ ReportsAreKnown'
  BY <1>1, <1>4 DEF RecordsInv, IndexesAreKnown, ReportsAreKnown, indexes
<1> QED BY <1>1, <1>4, <1>6, <1>7, WorkKeepsRecordsInv

\* Records grow by entities and by what is filed under them.
LEMMA SoundGrows ==
  ASSUME NEW r, Sound(r), NEW entities, IsList(entities),
         NEW docs, Filed(docs, ToSet(r.entities) \cup ToSet(entities), RegionIds(r.regions)),
         NEW s, DOMAIN s = DOMAIN NoRecords, s.regions = r.regions, s.relations = r.relations,
         s.entities = r.entities \o entities, s.docs = r.docs \o docs
  PROVE  Sound(s) /\ ToSet(r.entities) \subseteq ToSet(s.entities)
<1>1. IsList(s.entities) /\ ToSet(s.entities) = ToSet(r.entities) \cup ToSet(entities)
  BY Concat DEF Sound
<1>2. Linked(s.relations, ToSet(s.entities))
  <2>1. Linked(r.relations, ToSet(r.entities)) /\ ToSet(r.entities) \subseteq ToSet(s.entities)
    BY <1>1 DEF Sound
  <2> QED BY <2>1, LinkedMore
<1>3. Filed(s.docs, ToSet(s.entities), RegionIds(r.regions))
  <2>1. Filed(r.docs, ToSet(s.entities), RegionIds(r.regions))
    BY <1>1, FiledMore DEF Sound
  <2>2. Filed(docs, ToSet(s.entities), RegionIds(r.regions))
    BY <1>1
  <2> QED BY <2>1, <2>2, FiledConcat
<1> QED BY <1>1, <1>2, <1>3 DEF Sound

\* The commits come with their entities.
LEMMA HistoryStepKeepsRecordsInv ==
  ASSUME BuildInv, RecordsInv, HistoryStep PROVE RecordsInv'
<1> DEFINE h == HistoryRecords(head)
           r == job.records
           s == job'.records
<1>1. /\ pc = "history" /\ pc' \in {"providers", "commit"} /\ DOMAIN job = DOMAIN NoJob
      /\ UNCHANGED <<world, indexes, cache, rows>> /\ job.reports = <<>> /\ head \in DOMAIN History
      /\ job' = [job EXCEPT !.at = 1, !.walk = <<>>,
                            !.records.entities = @ \o h.entities, !.records.docs = @ \o h.docs]
  BY DEF HistoryStep, BuildInv, Shapes, store, RecordsInv, ReportsAreKnown, WorldIsKnown
<1>2. Sound(r) /\ Known(JobView) \cup {Repository} \subseteq ToSet(r.entities)
  BY <1>1 DEF RecordsInv, PendingIsSound
<1> HIDE DEF h
<1>3. /\ job'.found = job.found /\ job'.body = job.body /\ job'.parsed = job.parsed
      /\ job'.reports = <<>> /\ job'.at = 1
      /\ DOMAIN s = DOMAIN NoRecords /\ s.regions = r.regions /\ s.relations = r.relations
      /\ s.entities = r.entities \o h.entities /\ s.docs = r.docs \o h.docs
  <2>1. DOMAIN r = {"regions", "entities", "relations", "docs"}
    BY <1>2 DEF Sound, NoRecords
  <2>2. DOMAIN NoRecords = {"regions", "entities", "relations", "docs"}
    BY DEF NoRecords
  <2> QED BY <1>1, <2>1, <2>2, Fields
<1>4. /\ IsList(h.entities)
      /\ Filed(h.docs, ToSet(r.entities) \cup ToSet(h.entities), RegionIds(r.regions))
  <2> DEFINE E == ToSet(r.entities) \cup ToSet(h.entities)
             R == RegionIds(r.regions)
  <2>1. Repository \in E /\ ToSet(HistoryRecords(head).entities) \subseteq E /\ NoRegion \in R
    BY <1>2 DEF h, RegionIds
  <2> HIDE DEF E, R
  <2>2. IsList(HistoryRecords(head).entities) /\ Filed(HistoryRecords(head).docs, E, R)
    BY <1>1, <2>1, HistoryIsFiled
  <2> QED BY <2>2 DEF h, E, R
<1> HIDE DEF r, s
<1>5. Sound(s) /\ ToSet(r.entities) \subseteq ToSet(s.entities)
  BY <1>2, <1>3, <1>4, SoundGrows
<1>6. JobView' = JobView
  BY <1>3, SameView
<1>7. PendingIsSound'
  BY <1>2, <1>5, <1>6 DEF PendingIsSound, s
<1>8. IndexesAreKnown'
  BY <1>1 DEF RecordsInv, IndexesAreKnown, indexes
<1>9. ReportsAreKnown'
  <2>1. Len(Registry) = 3
    BY DEF Registry
  <2>2. IsList(<<>>) /\ Len(<<>>) = 0 /\ DOMAIN <<>> = {}
    BY SmallLists
  <2> QED BY <1>1, <1>3, <2>1, <2>2 DEF ReportsAreKnown
<1> QED BY <1>1, <1>3, <1>7, <1>8, <1>9, WorkKeepsRecordsInv

\* What lies about after a run, and what it reports, was there before, is
\* what the indexer writes, or does not parse.
Tidy(r) == SoundIndex(r.index) /\ SoundIndex(r.work) /\ SoundIndex(r.stray)

\* An index that is missing or cut off lists nothing.
LEMMA BrokenIndexes == SoundIndex(NoIndex) /\ SoundIndex(Truncated)
BY DEF SoundIndex, NoIndex, Truncated, ScipIndex

\* What a report says.
LEMMA ReportFields ==
  ASSUME NEW state, NEW index, NEW left, NEW root
  PROVE  /\ Report(state, index, left, root).index = index
         /\ Report(state, index, left, root).work = left
         /\ Report(state, index, left, root).stray = root
BY DEF Report

\* Whatever way both runs of the command end.
LEMMA RunIsTidy ==
  ASSUME NEW v, NEW full, SoundIndex(full), NEW left, SoundIndex(left), NEW root, SoundIndex(root),
         NEW first, NEW second
  PROVE  Tidy(run(v, full, left, root, first, second))
<1>1. ASSUME NEW end, NEW before, SoundIndex(before) PROVE SoundIndex(Written(end, full, before))
  <2>1. SoundIndex(Truncated)
    BY BrokenIndexes
  <2>2. CASE end = "wrote"
    BY <2>2, Zenon DEF Written
  <2>3. CASE end = "killed writing"
    BY <2>1, <2>3 DEF Written
  <2>4. CASE end # "wrote" /\ end # "killed writing"
    BY <1>1, <2>4 DEF Written
  <2> QED BY <2>2, <2>3, <2>4
<1>2. ASSUME NEW a, SoundIndex(a), NEW b, SoundIndex(b) PROVE Tidy(Failed(a, b))
  BY <1>2, BrokenIndexes, ReportFields DEF Tidy, Failed
<1>3. ASSUME NEW a, SoundIndex(a), NEW b, SoundIndex(b) PROVE Tidy(Finish(a, b))
  <2>1. Tidy(Failed(NoIndex, b))
    BY <1>2, <1>3, BrokenIndexes
  <2>2. Tidy(Report("Ready", a, NoIndex, b))
    BY <1>3, BrokenIndexes, ReportFields DEF Tidy
  <2> QED BY <2>1, <2>2, Zenon DEF Finish
<1>4. ASSUME NEW late PROVE Tidy(Fallback(full, root, second, late))
  <2> DEFINE moved == Written(second, full, root)
  <2>1. SoundIndex(moved) /\ SoundIndex(NoIndex)
    BY <1>1, BrokenIndexes
  <2>2. Tidy(Failed(NoIndex, root)) /\ Tidy(Failed(moved, NoIndex)) /\ Tidy(Finish(moved, NoIndex))
    BY <1>2, <1>3, <2>1
  <2> QED BY <2>2, Zenon DEF Fallback
<1> DEFINE made == Written(first, full, left)
<1>5. Tidy(Failed(made, root)) /\ Tidy(Finish(made, root))
  BY <1>1, <1>2, <1>3
<1> QED BY <1>4, <1>5, Zenon DEF run, rust_analyzer_run, scip_typescript_run

\* An indexer lists contents that are in the tree it sees.
LEMMA IndexOfIsSound ==
  ASSUME WorldIsKnown, NEW v PROVE SoundIndex(IndexOf(v, Live))
<1> DEFINE at == {i \in DOMAIN PathOrder :
                    /\ PathOrder[i] \in DOMAIN Live
                    /\ IF v = "scip:rust-analyzer" THEN PathOrder[i].ext = "rs"
                       ELSE /\ PathOrder[i].ext \in {"ts", "tsx"}
                            /\ IsPrefix(select_ts_project(Live), PathOrder[i].dir)}
           mine == Those(PathOrder, at)
           docs == [i \in DOMAIN mine |-> [path |-> mine[i], of |-> Live[mine[i]]]]
<1>1. IndexOf(v, Live) = ScipIndex(TRUE, docs)
  BY Zenon DEF IndexOf, Select
<1>2. /\ IsList(mine)
      /\ \A k \in DOMAIN mine : \E i \in at \cap DOMAIN PathOrder : mine[k] = PathOrder[i]
  <2>1. IsList(PathOrder)
    BY BuildAssumption DEF IsList, ToSet
  <2> HIDE DEF at
  <2> QED BY <2>1, ThoseEntries
<1>3. \A k \in DOMAIN mine : mine[k] \in DOMAIN Live
  BY <1>2
<1> HIDE DEF mine
<1>4. docs = [i \in DOMAIN mine |-> docs[i]] /\ \A i \in DOMAIN mine : docs[i].of = Live[mine[i]]
  OBVIOUS
<1> HIDE DEF docs
<1>5. IsList(docs) /\ DOMAIN docs = DOMAIN mine
  BY <1>2, <1>4, ListMap
<1>6. \A p \in DOMAIN Live : Live[p] \in DOMAIN Content
  BY LiveIsKnown DEF Live
<1>7. \A d \in ToSet(docs) : d.of \in DOMAIN Content
  BY <1>3, <1>4, <1>5, <1>6 DEF ToSet
<1> QED BY <1>1, <1>5, <1>7 DEF SoundIndex, ScipIndex

\* A provider adds one report to those of the providers before it.
LEMMA ReportedKeepsRecordsInv ==
  ASSUME BuildInv, RecordsInv, UNCHANGED <<world, cache, rows, pc>>, pc = "providers",
         job.at <= Len(Registry), NEW v, NEW r, Tidy(r), Reported(v, r)
  PROVE  RecordsInv'
<1> DEFINE made == [state |-> r.state, index |-> r.index]
<1>1. /\ DOMAIN job = DOMAIN NoJob /\ job.at \in Nat \ {0} /\ Len(Registry) = 3
      /\ IsList(job.reports) /\ Len(job.reports) = job.at - 1
      /\ \A n \in DOMAIN job.reports : SoundIndex(job.reports[n].index)
  <2>1. DOMAIN job = DOMAIN NoJob /\ job.at \in Nat \ {0} /\ Len(Registry) = 3
    BY DEF BuildInv, Shapes, ScanIsOfPaths, Registry
  <2>2. /\ IsList(job.reports) /\ Len(job.reports) = job.at - 1
        /\ \A n \in DOMAIN job.reports :
              job.at <= n + Len(Registry) => SoundIndex(job.reports[n].index)
    BY DEF RecordsInv, ReportsAreKnown
  <2>3. DOMAIN job.reports = 1..Len(job.reports)
    BY <2>2, ListShape
  <2> QED BY <2>1, <2>2, <2>3
<1>2. /\ job'.at = job.at + 1 /\ job'.reports = Append(job.reports, made)
      /\ job'.found = job.found /\ job'.body = job.body /\ job'.parsed = job.parsed
      /\ job'.records = job.records
  BY <1>1, Fields DEF Reported
<1>3. ReportsAreKnown'
  <2>1. IsList(job'.reports) /\ ToSet(job'.reports) = ToSet(job.reports) \cup {made}
    BY <1>1, <1>2, Extend
  <2>2. Len(job'.reports) = job.at
    <3>1. job.reports \in Seq(ToSet(job.reports)) /\ Len(job.reports) \in Nat
      BY <1>1, ListShape
    <3> HIDE DEF made
    <3> QED BY <1>1, <1>2, <3>1
  <2>3. \A e \in ToSet(job'.reports) : SoundIndex(e.index)
    BY <1>1, <2>1 DEF Tidy, ToSet
  <2>4. \A n \in DOMAIN job'.reports : SoundIndex(job'.reports[n].index)
    BY <2>3 DEF ToSet
  <2> QED BY <1>1, <1>2, <2>1, <2>2, <2>4 DEF ReportsAreKnown
<1>4. IndexesAreKnown'
  <2>1. work' = [work EXCEPT ![v] = r.work] /\ stray' = r.stray
    BY DEF Reported
  <2>2. SoundIndex(r.work) /\ SoundIndex(r.stray)
    BY DEF Tidy
  <2>3. \A u \in ToSet(Registry) : SoundIndex(work[u])
    BY DEF RecordsInv, IndexesAreKnown
  <2>4. \A u \in ToSet(Registry) : work'[u] = work[u] \/ work'[u] = r.work
    BY <2>1
  <2> QED BY <2>1, <2>2, <2>3, <2>4 DEF IndexesAreKnown
<1>5. PendingIsSound'
  BY <1>2, SameView DEF RecordsInv, PendingIsSound
<1> QED BY <1>2, <1>3, <1>4, <1>5, WorkKeepsRecordsInv

\* Whether it ran or was not applicable or missing.
LEMMA RunProviderKeepsRecordsInv ==
  ASSUME BuildInv, RecordsInv, RunProvider PROVE RecordsInv'
<1> DEFINE v == Registry[job.at]
<1>1. /\ pc = "providers" /\ job.at <= Len(Registry) /\ UNCHANGED <<world, cache, rows, pc>>
  BY DEF RunProvider, store
<1>2. v \in ToSet(Registry)
  <2>1. job.at \in Nat \ {0} /\ DOMAIN Registry = 1..Len(Registry) /\ Len(Registry) = 3
    BY DEF BuildInv, ScanIsOfPaths, Registry
  <2> QED BY <1>1, <2>1 DEF ToSet
<1>3. SoundIndex(stray) /\ SoundIndex(work[v]) /\ SoundIndex(NoIndex)
  BY <1>2, BrokenIndexes DEF RecordsInv, IndexesAreKnown
<1>4. \/ \E found : Reported(v, Report(found, NoIndex, work[v], stray))
      \/ Reported(v, Report("Ready", stray, work[v], stray))
      \/ \E first, second : Reported(v, run(v, IndexOf(v, Live), work[v], stray, first, second))
  BY Zenon DEF RunProvider
<1> HIDE DEF v
<1>5. ASSUME NEW found, Reported(v, Report(found, NoIndex, work[v], stray)) PROVE RecordsInv'
  <2>1. Tidy(Report(found, NoIndex, work[v], stray))
    BY <1>3, ReportFields DEF Tidy
  <2> QED BY <1>1, <1>5, <2>1, ReportedKeepsRecordsInv
<1>6. CASE Reported(v, Report("Ready", stray, work[v], stray))
  <2>1. Tidy(Report("Ready", stray, work[v], stray))
    BY <1>3, ReportFields DEF Tidy
  <2> QED BY <1>1, <1>6, <2>1, ReportedKeepsRecordsInv
<1>7. ASSUME NEW first, NEW second,
             Reported(v, run(v, IndexOf(v, Live), work[v], stray, first, second))
      PROVE  RecordsInv'
  <2>1. SoundIndex(IndexOf(v, Live))
    BY IndexOfIsSound DEF RecordsInv
  <2>2. Tidy(run(v, IndexOf(v, Live), work[v], stray, first, second))
    BY <1>3, <2>1, RunIsTidy
  <2> QED BY <1>1, <1>7, <2>2, ReportedKeepsRecordsInv
<1> QED BY <1>4, <1>5, <1>6, <1>7

\* Ingesting a report only adds edges between known entities.
LEMMA IngestKeepsRecordsInv == ASSUME BuildInv, RecordsInv, Ingest PROVE RecordsInv'
<1> DEFINE n == job.at - Len(Registry)
           r == job.reports[n]
           x == JobView
           sites == Sites(x, r.index)
           defs == Definitions(sites)
           incoming == ingest(r.index, defs, Uses(sites, defs))
<1>1. /\ pc = "providers" /\ pc' \in {"providers", "commit"}
      /\ UNCHANGED <<world, indexes, cache, rows>>
      /\ DOMAIN job = DOMAIN NoJob /\ Len(Registry) = 3 /\ job.at \in 4..6
      /\ pc' = IF job.at = 6 THEN "commit" ELSE pc
  <2>1. Len(Registry) = 3
    BY DEF Registry
  <2> QED BY <2>1 DEF Ingest, BuildInv, Shapes, store
<1>2. /\ IsList(job.reports) /\ Len(job.reports) = 3 /\ DOMAIN job.reports = 1..3 /\ n \in 1..3
      /\ \A k \in 1..3 : job.at <= k + 3 => SoundIndex(job.reports[k].index)
  <2>3. /\ IsList(job.reports)
        /\ Len(job.reports) = IF job.at <= Len(Registry) THEN job.at - 1 ELSE Len(Registry)
        /\ \A k \in DOMAIN job.reports :
              job.at <= k + Len(Registry) => SoundIndex(job.reports[k].index)
    <3> HIDE DEF n, r, x
    <3> QED BY <1>1, Zenon DEF RecordsInv, ReportsAreKnown
  <2>1. /\ IsList(job.reports) /\ Len(job.reports) = 3
        /\ \A k \in DOMAIN job.reports : job.at <= k + 3 => SoundIndex(job.reports[k].index)
    <3>1. ~(job.at <= Len(Registry))
      BY <1>1
    <3> QED BY <1>1, <2>3, <3>1
  <2>2. DOMAIN job.reports = 1..3
    BY <2>1, ListShape
  <2> QED BY <1>1, <2>1, <2>2
<1>3. /\ Sound(job.records)
      /\ Known(x) \cup {Repository} \subseteq ToSet(job.records.entities)
  BY <1>1 DEF RecordsInv, PendingIsSound
<1>4. \/ \E v : job' = [job EXCEPT !.at = @ + 1, !.reports[n] = v]
      \/ /\ IngestedState(r) = "Ready"
         /\ \E v : job' = [job EXCEPT !.at = @ + 1, !.reports[n] = v,
                                      !.records.relations = merge_relations(@, incoming)]
  BY Zenon DEF Ingest
<1>5. ASSUME NEW made, job'.reports = [job.reports EXCEPT ![n] = made], job'.at = job.at + 1
      PROVE  ReportsAreKnown'
  <2>1. /\ job'.reports = [k \in DOMAIN job.reports |-> job'.reports[k]]
        /\ \A k \in 1..3 : k # n => job'.reports[k] = job.reports[k]
    BY <1>2, <1>5
  <2>2. IsList(job'.reports) /\ Len(job'.reports) = 3 /\ DOMAIN job'.reports = 1..3
    BY <1>2, <2>1, ListMap
  <2>3. ASSUME NEW k \in 1..3, job'.at <= k + 3 PROVE SoundIndex(job'.reports[k].index)
    <3>1. k # n /\ job.at <= k + 3
      BY <1>1, <1>5, <2>3
    <3> QED BY <1>2, <2>1, <3>1
  <2>4. pc' = "providers" =>
           /\ IsList(job'.reports)
           /\ Len(job'.reports) = IF job'.at <= Len(Registry) THEN job'.at - 1 ELSE Len(Registry)
           /\ \A k \in DOMAIN job'.reports :
                 job'.at <= k + Len(Registry) => SoundIndex(job'.reports[k].index)
    <3>1. ~(job'.at <= Len(Registry))
      BY <1>1, <1>5
    <3> HIDE DEF n, r, x
    <3> QED BY <1>1, <2>2, <2>3, <3>1
  <2> HIDE DEF n, r, x
  <2> QED BY <1>1, <2>4 DEF ReportsAreKnown
<1>6. IndexesAreKnown'
  BY <1>1 DEF RecordsInv, IndexesAreKnown, indexes
<1>7. ASSUME NEW v, job' = [job EXCEPT !.at = @ + 1, !.reports[n] = v] PROVE RecordsInv'
  <2> HIDE DEF n, x
  <2>1. /\ job'.at = job.at + 1 /\ job'.reports = [job.reports EXCEPT ![n] = v]
        /\ job'.found = job.found /\ job'.body = job.body /\ job'.parsed = job.parsed
        /\ job'.records = job.records
    BY <1>1, <1>7, Fields
  <2>2. ReportsAreKnown'
    BY <1>5, <2>1
  <2>3. PendingIsSound'
    BY <1>1, <1>3, <2>1, SameView DEF PendingIsSound, x
  <2> QED BY <1>1, <1>6, <2>1, <2>2, <2>3, WorkKeepsRecordsInv
<1>8. ASSUME IngestedState(r) = "Ready", NEW v,
             job' = [job EXCEPT !.at = @ + 1, !.reports[n] = v,
                                !.records.relations = merge_relations(@, incoming)]
      PROVE  RecordsInv'
  <2>1. SoundIndex(r.index) /\ r.index.ok
    BY <1>1, <1>2, <1>8 DEF IngestedState
  <2>2. Linked(incoming, Known(x))
    <3>1. IsView(x)
      BY <1>1, JobViewIsAnalysed DEF RecordsInv
    <3> HIDE DEF x, r
    <3> QED BY <2>1, <3>1, IngestLinked
  <2> HIDE DEF n, r, x, incoming
  <2> DEFINE old == job.records
             new == job'.records
             merged == merge_relations(old.relations, incoming)
  <2>3. /\ job'.at = job.at + 1 /\ job'.reports = [job.reports EXCEPT ![n] = v]
        /\ job'.found = job.found /\ job'.body = job.body /\ job'.parsed = job.parsed
        /\ new = [old EXCEPT !.relations = merged]
    BY <1>1, <1>8, Fields
  <2>4. Linked(merged, ToSet(old.entities))
    <3>1. Linked(old.relations, ToSet(old.entities))
      BY <1>3 DEF Sound
    <3>2. Linked(incoming, ToSet(old.entities))
      BY <1>3, <2>2, LinkedMore
    <3> QED BY <3>1, <3>2, MergeLinked
  <2>5. /\ DOMAIN new = DOMAIN old /\ new.relations = merged /\ new.entities = old.entities
        /\ new.regions = old.regions /\ new.docs = old.docs
    <3>1. DOMAIN old = {"regions", "entities", "relations", "docs"}
      BY <1>3 DEF Sound, NoRecords
    <3> HIDE DEF merged, old, new
    <3> QED BY <2>3, <3>1
  <2> HIDE DEF merged, new
  <2>6. Sound(new)
    BY <1>3, <2>4, <2>5 DEF Sound
  <2>7. PendingIsSound'
    BY <1>3, <2>3, <2>5, <2>6, SameView DEF PendingIsSound, x, new
  <2>8. ReportsAreKnown'
    BY <1>5, <2>3
  <2> QED BY <1>1, <1>6, <2>3, <2>7, <2>8, WorkKeepsRecordsInv
<1> QED BY <1>4, <1>7, <1>8

\* What is committed is what was pending.
LEMMA CommitKeepsRecordsInv == ASSUME BuildInv, RecordsInv, commit_snapshot PROVE RecordsInv'
<1>1. /\ pc = "commit" /\ DOMAIN job = DOMAIN NoJob /\ UNCHANGED <<world, indexes, cache>>
      /\ JobId \in DOMAIN rows /\ DOMAIN rows[JobId] = DOMAIN EmptyRow
      /\ \A q \in DOMAIN cache : cache[q].c \in DOMAIN Content
      /\ Sound(job.records)
  BY DEF commit_snapshot, BuildInv, Shapes, CommitIsLast, RowIsOpen, RecordsInv, ScansAreKnown,
         PendingIsSound
<1> HIDE DEF JobId
<1>2. CASE Return /\ UNCHANGED <<rows, current>>
  BY <1>1, <1>2, ReturnKeepsRecordsInv
<1>3. CASE /\ rows' = [rows EXCEPT ![JobId].complete = TRUE, ![JobId].body = job.body,
                                   ![JobId].parsed = job.parsed, ![JobId].records = job.records]
           /\ job' = [job EXCEPT !.records = NoRecords] /\ pc' = "views"
  <2>1. job'.found = job.found /\ job'.reports = job.reports
    BY <1>1, <1>3, Fields
  <2>2. /\ DOMAIN rows' = DOMAIN rows
        /\ \A s \in DOMAIN rows : s # JobId => rows'[s] = rows[s]
        /\ rows'[JobId].records = job.records
    BY <1>1, <1>3, Fields
  <2>3. RowsAreSound'
    BY <1>1, <2>2 DEF RecordsInv, RowsAreSound, Committed
  <2>4. WorldIsKnown' /\ ScansAreKnown' /\ IndexesAreKnown'
    BY <1>1, <2>1 DEF RecordsInv, WorldIsKnown, ScansAreKnown, IndexesAreKnown, world, indexes
  <2>5. ReportsAreKnown' /\ PendingIsSound'
    BY <1>3 DEF ReportsAreKnown, PendingIsSound
  <2> QED BY <2>3, <2>4, <2>5 DEF RecordsInv
<1> QED BY <1>2, <1>3, Zenon DEF commit_snapshot

\* Neither the states of the views nor the vectors are among the records.
LEMMA SetStatesKeepsRecordsInv == ASSUME BuildInv, RecordsInv, SetStates PROVE RecordsInv'
<1>1. /\ pc = "views" /\ pc' = "dense" /\ DOMAIN job = DOMAIN NoJob
      /\ UNCHANGED <<world, indexes, cache>>
      /\ JobId \in DOMAIN rows /\ DOMAIN rows[JobId] = DOMAIN EmptyRow
  BY DEF SetStates, BuildInv, Shapes, CommitIsLast, RowIsOpen
<1>2. PICK states : rows' = [rows EXCEPT ![JobId].states = states]
  BY Zenon DEF SetStates
<1>3. job'.found = job.found /\ job'.reports = <<>>
  BY <1>1, Fields DEF SetStates
<1> HIDE DEF JobId
<1>4. \A s \in DOMAIN rows' : /\ s \in DOMAIN rows /\ rows'[s].complete = rows[s].complete
                             /\ rows'[s].records = rows[s].records
  BY <1>1, <1>2, Fields
<1>5. ScansAreKnown'
  BY <1>1, <1>3 DEF RecordsInv, ScansAreKnown
<1> QED BY <1>1, <1>3, <1>4, <1>5, IdleKeepsRecordsInv

\* The vectors are made of the documents and change none.
LEMMA BuildDenseKeepsRecordsInv == ASSUME BuildInv, RecordsInv, BuildDense PROVE RecordsInv'
<1>1. /\ Return /\ UNCHANGED <<world, indexes, cache>>
      /\ JobId \in DOMAIN rows /\ DOMAIN rows[JobId] = DOMAIN EmptyRow
  BY DEF BuildDense, BuildInv, Shapes, CommitIsLast, RowIsOpen
<1>2. pc' = "idle" /\ job'.reports = <<>> /\ DOMAIN job'.found = {}
  BY <1>1 DEF Return, NoJob
<1>3. \/ \E vectors : rows' = [rows EXCEPT ![JobId].dense = "Ready", ![JobId].vectors = vectors]
      \/ \E state : rows' = [rows EXCEPT ![JobId].dense = state]
  BY Zenon DEF BuildDense
<1> HIDE DEF JobId
<1>4. \A s \in DOMAIN rows' : /\ s \in DOMAIN rows /\ rows'[s].complete = rows[s].complete
                             /\ rows'[s].records = rows[s].records
  <2>1. CASE \E vectors : rows' = [rows EXCEPT ![JobId].dense = "Ready", ![JobId].vectors = vectors]
    BY <1>1, <2>1, Fields
  <2>2. CASE \E state : rows' = [rows EXCEPT ![JobId].dense = state]
    BY <1>1, <2>2, Fields
  <2> QED BY <1>3, <2>1, <2>2
<1>5. ScansAreKnown'
  BY <1>1, <1>2 DEF RecordsInv, ScansAreKnown
<1> QED BY <1>1, <1>2, <1>4, <1>5, IdleKeepsRecordsInv

\* A crash leaves the committed rows.
LEMMA CrashKeepsRecordsInv == ASSUME RecordsInv, Crash PROVE RecordsInv'
<1>1. \A q \in DOMAIN cache : cache[q].c \in DOMAIN Content
  BY DEF RecordsInv, ScansAreKnown
<1> QED BY <1>1, ReturnKeepsRecordsInv DEF Crash, store

(***************************************************************************)
(* The theorem.                                                            *)
(***************************************************************************)
\* The invariant is inductive, next to that of the build.
LEMMA StepKeepsRecordsInv == BuildInv /\ RecordsInv /\ [Next]_vars => RecordsInv'
<1> SUFFICES ASSUME BuildInv, RecordsInv, [Next]_vars PROVE RecordsInv'
  OBVIOUS
<1>1. ASSUME NEW p \in Paths, NEW c, NEW tick, Edit(p, c, tick) PROVE RecordsInv'
  BY <1>1, EditKeepsRecordsInv
<1>2. CASE GitCommit
  BY <1>2, GitCommitKeepsRecordsInv
<1>3. ASSUME NEW kind, Start(kind) PROVE RecordsInv'
  BY <1>3, StartKeepsRecordsInv
<1>4. CASE Step
  BY <1>4, ScanStatKeepsRecordsInv, ScanReadKeepsRecordsInv, FinishScanKeepsRecordsInv,
     BeginKeepsRecordsInv, LoadFileKeepsRecordsInv, DeriveKeepsRecordsInv,
     HistoryStepKeepsRecordsInv, RunProviderKeepsRecordsInv, IngestKeepsRecordsInv,
     CommitKeepsRecordsInv, SetStatesKeepsRecordsInv, BuildDenseKeepsRecordsInv DEF Step
<1>5. CASE Crash
  BY <1>5, CrashKeepsRecordsInv
<1>6. CASE UNCHANGED vars
  <2>1. WorldIsKnown'
    BY <1>6 DEF vars, RecordsInv, WorldIsKnown
  <2> QED BY <1>6, <2>1, WorldKeepsRecordsInv DEF vars, indexes
<1> QED BY <1>1, <1>2, <1>3, <1>4, <1>5, <1>6 DEF Next

\* Whatever was scanned, parsed, derived, read from HEAD or found in an index
\* of another tree, a committed snapshot only refers to what is committed
\* with it (index_inner and commit_snapshot of engine.rs).
THEOREM CommittedRecordsAreClosed == Spec => []RecordsAreClosed
<1>1. Init => BuildInv /\ RecordsInv
  BY InitBuildInv, InitRecordsInv
<1>2. (BuildInv /\ RecordsInv) /\ [Next]_vars => (BuildInv /\ RecordsInv)'
  BY StepKeepsBuildInv, StepKeepsRecordsInv
<1>3. BuildInv /\ RecordsInv => RecordsAreClosed
  BY SoundIsClosed DEF RecordsInv, RowsAreSound, RecordsAreClosed
<1> QED BY <1>1, <1>2, <1>3, PTL DEF Spec
=============================================================================
