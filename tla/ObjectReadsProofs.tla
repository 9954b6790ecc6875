-------------------------- MODULE ObjectReadsProofs --------------------------
(***************************************************************************)
(* Proofs about ObjectReads, for objects of any number of parts of any     *)
(* sizes, any ranges and conditions, and failures anywhere.                *)
(***************************************************************************)
EXTENDS ObjectReads, FiniteSetTheorems, SequenceTheorems, WellFoundedInduction, TLAPS

(***************************************************************************)
(* Functions by recursion on a number. That there is one, and only one,    *)
(* is shown by a least place where it would go wrong. The step is a        *)
(* function, not an operator, so that the lemmas apply to every use.       *)
(***************************************************************************)
\* Every nonempty set of naturals has a least element.
LEMMA LeastNat ==
  ASSUME NEW N \in SUBSET Nat, N # {}
  PROVE  \E m \in N : \A n \in N : m <= n
<1>1. PICK m \in N : \A n \in N : ~ (<<n, m>> \in OpToRel(<, Nat))
  BY NatLessThanWellFounded, WFMin, Zenon
<1>2. \A n \in N : ~ (n < m)
  BY <1>1 DEF OpToRel
<1>3. QED BY <1>2

\* What holds at 0 and of a number if it holds of the one before holds up to n.
LEMMA ByOnes ==
  ASSUME NEW n \in Nat, NEW Good, 0 \in Good, \A i \in 1..n : i - 1 \in Good => i \in Good
  PROVE  \A i \in 0..n : i \in Good
<1> DEFINE Bad == {i \in 0..n : i \notin Good}
<1>1. SUFFICES ASSUME Bad # {} PROVE FALSE OBVIOUS
<1>2. Bad \in SUBSET Nat OBVIOUS
<1>3. PICK m \in Bad : \A i \in Bad : m <= i BY <1>1, <1>2, LeastNat
<1>4. m \in 1..n /\ m - 1 \in 0..n /\ m - 1 \notin Bad BY <1>3
<1>5. QED BY <1>3, <1>4

\* f runs through n steps from base.
Runs(f, n, base, step) == f = [i \in 0..n |-> IF i = 0 THEN base ELSE step[i][f[i - 1]]]

LEMMA RunsExists ==
  ASSUME NEW S, NEW n \in Nat, NEW base \in S, NEW step \in [1..n -> [S -> S]]
  PROVE  \E f \in [0..n -> S] : Runs(f, n, base, step)
<1> DEFINE Has(m) == \E f \in [0..m -> S] : Runs(f, m, base, step)
           There == {m \in 0..n : Has(m)}
<1>1. 0 \in There
  <2>1. [i \in 0..0 |-> base] \in [0..0 -> S] /\ Runs([i \in 0..0 |-> base], 0, base, step) BY DEF Runs
  <2>2. QED BY <2>1
<1>2. ASSUME NEW m \in 1..n, m - 1 \in There PROVE m \in There
  <2>1. PICK f \in [0..(m - 1) -> S] : Runs(f, m - 1, base, step) BY <1>2
  <2> DEFINE g == [i \in 0..m |-> IF i = m THEN step[m][f[m - 1]] ELSE f[i]]
  <2>2. step[m][f[m - 1]] \in S /\ \A i \in 0..m : i # m => i \in 0..(m - 1) OBVIOUS
  <2>3. g \in [0..m -> S] BY <2>2
  <2>4. \A i \in 0..m : g[i] = IF i = 0 THEN base ELSE step[i][g[i - 1]]
    <3> SUFFICES ASSUME NEW i \in 0..m PROVE g[i] = IF i = 0 THEN base ELSE step[i][g[i - 1]] OBVIOUS
    <3>1. i # 0 => i - 1 \in 0..m /\ i - 1 # m /\ g[i - 1] = f[i - 1] OBVIOUS
    <3>2. CASE i = m BY <3>1, <3>2
    <3>3. CASE i # m
      <4>1. i \in 0..(m - 1) /\ g[i] = f[i] BY <3>3
      <4>2. f[i] = IF i = 0 THEN base ELSE step[i][f[i - 1]] BY <2>1, <4>1 DEF Runs
      <4>3. QED BY <3>1, <4>1, <4>2
    <3>4. QED BY <3>2, <3>3
  <2> HIDE DEF g
  <2>5. Runs(g, m, base, step)
    <3>1. g = [i \in 0..m |-> g[i]] BY <2>3
    <3>2. QED BY <2>4, <3>1 DEF Runs
  <2>6. QED BY <2>3, <2>5
<1> HIDE DEF There
<1>3. \A m \in 0..n : m \in There BY <1>1, <1>2, ByOnes
<1>4. QED BY <1>3 DEF There

(***************************************************************************)
(* Where parts begin.                                                      *)
(***************************************************************************)
LEMMA PartsTyped ==
  ASSUME NEW ps \in Seq(Part)
  PROVE  /\ Len(ps) \in Nat /\ DOMAIN ps = 1..Len(ps)
         /\ \A i \in 1..Len(ps) : ps[i] \in Part /\ ps[i].size \in Nat /\ ps[i].number \in Nat \ {0}
<1>1. Len(ps) \in Nat /\ DOMAIN ps = 1..Len(ps) /\ \A i \in 1..Len(ps) : ps[i] \in Part OBVIOUS
<1>2. QED BY <1>1 DEF Part

\* The second of two sequences comes after the first.
LEMMA ConcatIs ==
  ASSUME NEW S, NEW s \in Seq(S), NEW t \in Seq(S)
  PROVE  /\ s \o t \in Seq(S) /\ Len(s \o t) = Len(s) + Len(t) /\ DOMAIN (s \o t) = 1..(Len(s) + Len(t))
         /\ \A k \in 1..Len(s) : (s \o t)[k] = s[k]
         /\ \A k \in 1..Len(t) : (s \o t)[Len(s) + k] = t[k]
<1> DEFINE w == s \o t
<1>1. /\ w \in Seq(S) /\ Len(w) = Len(s) + Len(t)
      /\ \A k \in 1..Len(s) + Len(t) : w[k] = IF k <= Len(s) THEN s[k] ELSE t[k - Len(s)]
  BY ConcatProperties, Zenon
<1> HIDE DEF w
<1>2. Len(s) \in Nat /\ Len(t) \in Nat OBVIOUS
<1>3. \A k \in 1..Len(s) : k \in 1..Len(s) + Len(t) /\ k <= Len(s) BY <1>2
<1>4. ASSUME NEW k \in 1..Len(t) PROVE w[Len(s) + k] = t[k]
  <2>1. Len(s) + k \in 1..Len(s) + Len(t) /\ ~(Len(s) + k <= Len(s)) /\ (Len(s) + k) - Len(s) = k BY <1>2
  <2>2. w[Len(s) + k] = t[(Len(s) + k) - Len(s)] BY <1>1, <2>1
  <2>3. QED BY <2>1, <2>2
<1>5. DOMAIN w = 1..(Len(s) + Len(t)) BY <1>1
<1>6. QED BY <1>1, <1>3, <1>4, <1>5 DEF w

LEMMA SumRuns ==
  ASSUME NEW ps \in Seq(Part)
  PROVE  \E f \in [0..Len(ps) -> Nat] :
           f[0] = 0 /\ Sum(ps) = f[Len(ps)] /\ \A i \in 1..Len(ps) : f[i] = f[i - 1] + ps[i].size
<1> DEFINE n == Len(ps)
           step == [i \in 1..n |-> [x \in Nat |-> x + ps[i].size]]
           Adds(f) == f = [i \in 0..n |-> IF i = 0 THEN 0 ELSE f[i - 1] + ps[i].size]
<1>0. n \in Nat /\ \A i \in 1..n : ps[i].size \in Nat BY PartsTyped
<1>1. PICK g \in [0..n -> Nat] : Runs(g, n, 0, step)
  <2>1. step \in [1..n -> [Nat -> Nat]] BY <1>0
  <2> HIDE DEF step
  <2>2. QED BY <1>0, <2>1, RunsExists
<1>2. g[0] = 0 /\ \A i \in 1..n : g[i] = g[i - 1] + ps[i].size
  <2>1. g[0] = 0 /\ \A i \in 1..n : g[i] = step[i][g[i - 1]]
    <3> HIDE DEF step
    <3>1. \A i \in 0..n : g[i] = IF i = 0 THEN 0 ELSE step[i][g[i - 1]] BY <1>1 DEF Runs
    <3>2. \A i \in 1..n : i \in 0..n /\ i # 0 BY <1>0
    <3>3. QED BY <1>0, <3>1, <3>2
  <2>2. \A i \in 1..n : g[i - 1] \in Nat
    <3>1. \A i \in 1..n : i - 1 \in 0..n BY <1>0
    <3>2. QED BY <1>1, <3>1
  <2>3. QED BY <2>1, <2>2
<1>3. Adds(g)
  <2>1. g = [i \in 0..n |-> g[i]] BY <1>1
  <2>2. \A i \in 0..n : g[i] = IF i = 0 THEN 0 ELSE g[i - 1] + ps[i].size BY <1>0, <1>2
  <2>3. QED BY <2>1, <2>2
<1>4. ASSUME NEW h, Adds(h) PROVE h = g
  <2> DEFINE Same == {i \in 0..n : h[i] = g[i]}
  <2>1. h = [i \in 0..n |-> h[i]] /\ h[0] = 0 /\ \A i \in 1..n : h[i] = h[i - 1] + ps[i].size
    BY <1>0, <1>4
  <2>2. 0 \in Same BY <1>0, <1>2, <2>1
  <2>3. ASSUME NEW i \in 1..n, i - 1 \in Same PROVE i \in Same
    <3>1. i \in 0..n BY <1>0
    <3>2. h[i] = h[i - 1] + ps[i].size /\ g[i] = g[i - 1] + ps[i].size BY <1>2, <2>1
    <3>3. QED BY <2>3, <3>1, <3>2
  <2>4. g = [i \in 0..n |-> g[i]] BY <1>1
  <2>5. \A i \in 0..n : i \in Same
    <3> HIDE DEF Same
    <3>1. QED BY <1>0, <2>2, <2>3, ByOnes
  <2>6. QED BY <2>1, <2>4, <2>5
<1>5. Sum(ps) = (CHOOSE f : Adds(f))[n] BY DEF Sum
<1>6. (CHOOSE f : Adds(f)) = g
  <2> HIDE DEF Adds
  <2>1. QED BY <1>3, <1>4, Zenon
<1>7. QED BY <1>1, <1>2, <1>5, <1>6

\* The bytes in the first n parts.
Before(ps, n) == Sum(SubSeq(ps, 1, n))

LEMMA BeforeIs ==
  ASSUME NEW ps \in Seq(Part)
  PROVE  /\ \A n \in 0..Len(ps) : Before(ps, n) \in Nat
         /\ Before(ps, 0) = 0 /\ Before(ps, Len(ps)) = Sum(ps)
         /\ \A n \in 1..Len(ps) : Before(ps, n) = Before(ps, n - 1) + ps[n].size
<1> DEFINE F(f, n) == /\ f \in [0..n -> Nat] /\ f[0] = 0
                      /\ \A i \in 1..n : f[i] = f[i - 1] + ps[i].size
<1>0. Len(ps) \in Nat /\ \A i \in 1..Len(ps) : ps[i].size \in Nat BY PartsTyped
<1>1. PICK f : F(f, Len(ps)) /\ Sum(ps) = f[Len(ps)] BY SumRuns
<1>2. ASSUME NEW n \in 0..Len(ps) PROVE Before(ps, n) = f[n]
  <2> DEFINE s == SubSeq(ps, 1, n)
  <2>1. s \in Seq(Part) /\ Len(s) = n /\ \A i \in 1..n : s[i] = ps[i]
    BY <1>0
  <2> HIDE DEF s
  <2>2. PICK g \in [0..n -> Nat] : g[0] = 0 /\ Sum(s) = g[n] /\ \A i \in 1..n : g[i] = g[i - 1] + s[i].size
    BY <2>1, SumRuns
  <2> DEFINE Same == {i \in 0..n : g[i] = f[i]}
  <2>3. 0 \in Same BY <1>1, <2>2
  <2>4. ASSUME NEW i \in 1..n, i - 1 \in Same PROVE i \in Same
    <3>1. i \in 1..Len(ps) /\ s[i] = ps[i] BY <1>0, <2>1
    <3>2. f[i] = f[i - 1] + ps[i].size /\ g[i] = g[i - 1] + ps[i].size BY <1>1, <2>2, <3>1
    <3>3. i \in 0..n BY <1>0
    <3>4. QED BY <2>4, <3>2, <3>3
  <2>5. n \in Nat /\ n \in 0..n BY <1>0
  <2>6. \A i \in 0..n : i \in Same
    <3> HIDE DEF Same
    <3>1. QED BY <2>3, <2>4, <2>5, ByOnes
  <2>7. QED BY <2>2, <2>5, <2>6 DEF Before, s
<1>3. Len(ps) \in 0..Len(ps) /\ 0 \in 0..Len(ps) /\ \A n \in 1..Len(ps) : n \in 0..Len(ps) /\ n - 1 \in 0..Len(ps)
  BY <1>0
<1>4. QED BY <1>1, <1>2, <1>3

\* Later parts begin later.
LEMMA BeforeGrows ==
  ASSUME NEW ps \in Seq(Part), NEW m \in 0..Len(ps), NEW n \in 0..Len(ps), m <= n
  PROVE  Before(ps, m) <= Before(ps, n)
<1> DEFINE Good == {i \in 0..Len(ps) : m <= i => Before(ps, m) <= Before(ps, i)}
<1>0. Len(ps) \in Nat /\ m \in Nat /\ \A i \in 1..Len(ps) : ps[i].size \in Nat BY PartsTyped
<1>1. 0 \in Good
  <2>1. m <= 0 => m = 0 BY <1>0
  <2>2. Before(ps, 0) \in Nat BY BeforeIs, <1>0
  <2>3. QED BY <1>0, <2>1, <2>2
<1>2. ASSUME NEW i \in 1..Len(ps), i - 1 \in Good PROVE i \in Good
  <2>1. Before(ps, i) = Before(ps, i - 1) + ps[i].size BY BeforeIs
  <2>2. Before(ps, m) \in Nat /\ Before(ps, i) \in Nat /\ Before(ps, i - 1) \in Nat
    <3>1. i \in 0..Len(ps) /\ i - 1 \in 0..Len(ps) BY <1>0
    <3>2. QED BY <3>1, BeforeIs
  <2>3. CASE m <= i - 1 BY <1>0, <1>2, <2>1, <2>2, <2>3
  <2>4. CASE ~(m <= i - 1)
    <3>1. m <= i => m = i BY <1>0, <2>4
    <3>2. QED BY <1>0, <2>2, <3>1
  <2>5. QED BY <2>3, <2>4
<1>3. \A i \in 0..Len(ps) : i \in Good
  <2> HIDE DEF Good
  <2>1. QED BY <1>0, <1>1, <1>2, ByOnes
<1>4. QED BY <1>3

(***************************************************************************)
(* The bytes of an object in parts.                                        *)
(***************************************************************************)
Bytes == Nat \X Nat
Joined(ps) == FlattenSeq([i \in DOMAIN ps |-> PartBytes(i, ps[i].size)])

LEMMA PartBytesAre ==
  ASSUME NEW i \in Nat, NEW n \in Nat
  PROVE  /\ PartBytes(i, n) \in Seq(Bytes) /\ Len(PartBytes(i, n)) = n
         /\ \A k \in 1..n : PartBytes(i, n)[k] = <<i, k>>
<1>1. \A k \in 1..n : <<i, k>> \in Bytes BY DEF Bytes
<1>2. QED BY <1>1 DEF PartBytes

\* Joining is adding the bytes of one part after another.
LEMMA JoinedRuns ==
  ASSUME NEW ps \in Seq(Part), ps # <<>>
  PROVE  \E g \in [0..Len(ps) -> Seq(Bytes)] :
           /\ g[0] = <<>> /\ Joined(ps) = g[Len(ps)]
           /\ \A i \in 1..Len(ps) : g[i] = g[i - 1] \o PartBytes(i, ps[i].size)
<1> DEFINE n == Len(ps)
           b == [i \in DOMAIN ps |-> PartBytes(i, ps[i].size)]
           step == [i \in 1..n |-> [x \in Seq(Bytes) |-> x \o b[i]]]
           Joins(f) == f = [i \in 1..Len(b) |-> IF i = 1 THEN b[i] ELSE f[i - 1] \o b[i]]
<1>0. n \in Nat /\ n # 0 /\ DOMAIN ps = 1..n /\ \A i \in 1..n : i \in Nat /\ ps[i].size \in Nat
  BY PartsTyped
<1>1. /\ Len(b) = n /\ \A i \in 1..n : b[i] \in Seq(Bytes)
      /\ \A i \in 1..n : b[i] = PartBytes(i, ps[i].size)
  <2>1. \A i \in 1..n : b[i] = PartBytes(i, ps[i].size) /\ b[i] \in Seq(Bytes) BY <1>0, PartBytesAre
  <2>2. DOMAIN b = 1..n /\ b = [i \in 1..n |-> b[i]] BY <1>0
  <2> HIDE DEF b
  <2>3. b \in [1..n -> Seq(Bytes)] BY <2>1, <2>2
  <2>4. b \in Seq(Seq(Bytes)) BY <1>0, <2>3
  <2>5. QED BY <1>0, <2>1, <2>2, <2>4
<1> HIDE DEF b
<1>2. PICK g \in [0..n -> Seq(Bytes)] : Runs(g, n, <<>>, step)
  <2>1. step \in [1..n -> [Seq(Bytes) -> Seq(Bytes)]] /\ <<>> \in Seq(Bytes) BY <1>1
  <2> HIDE DEF step
  <2>2. QED BY <1>0, <2>1, RunsExists
<1>3. g[0] = <<>> /\ \A i \in 1..n : g[i] = g[i - 1] \o b[i]
  <2>1. g[0] = <<>> /\ \A i \in 1..n : i - 1 \in 0..n /\ g[i] = step[i][g[i - 1]]
    <3> HIDE DEF step
    <3>1. \A i \in 0..n : g[i] = IF i = 0 THEN <<>> ELSE step[i][g[i - 1]] BY <1>2 DEF Runs
    <3>2. \A i \in 1..n : i \in 0..n /\ i # 0 /\ i - 1 \in 0..n BY <1>0
    <3>3. QED BY <1>0, <3>1, <3>2
  <2>2. QED BY <1>2, <2>1
<1> DEFINE f == [i \in 1..n |-> g[i]]
<1>4. f[n] = g[n] /\ Joins(f)
  <2>1. \A i \in 1..n : f[i] = IF i = 1 THEN b[i] ELSE f[i - 1] \o b[i]
    <3> SUFFICES ASSUME NEW i \in 1..n PROVE f[i] = IF i = 1 THEN b[i] ELSE f[i - 1] \o b[i] OBVIOUS
    <3>1. f[i] = g[i - 1] \o b[i] BY <1>3
    <3>2. CASE i = 1
      <4>1. g[i - 1] = <<>> BY <1>3, <3>2
      <4>2. <<>> \o b[i] = b[i] BY <1>1, ConcatEmptySeq
      <4>3. QED BY <3>1, <3>2, <4>1, <4>2
    <3>3. CASE i # 1
      <4>1. i - 1 \in 1..n BY <1>0, <3>3
      <4>2. QED BY <3>1, <3>3, <4>1
    <3>4. QED BY <3>2, <3>3
  <2>2. f[n] = g[n] BY <1>0
  <2> HIDE DEF f
  <2>3. f = [i \in 1..n |-> f[i]] BY DEF f
  <2>4. QED BY <1>1, <2>1, <2>2, <2>3
<1>5. ASSUME NEW h, Joins(h) PROVE h = f
  <2>1. /\ h = [i \in 1..n |-> h[i]]
        /\ \A i \in 1..n : h[i] = IF i = 1 THEN b[i] ELSE h[i - 1] \o b[i]
    BY <1>1, <1>5
  <2>2. \A i \in 1..n : f[i] = IF i = 1 THEN b[i] ELSE f[i - 1] \o b[i]
    <3> HIDE DEF f
    <3>1. QED BY <1>1, <1>4
  <2>3. f = [i \in 1..n |-> f[i]] OBVIOUS
  <2> HIDE DEF f
  <2> DEFINE Same == {i \in 0..n : i # 0 => h[i] = f[i]}
  <2>4. 0 \in Same BY <1>0
  <2>5. ASSUME NEW i \in 1..n, i - 1 \in Same PROVE i \in Same
    <3>1. i \in 0..n /\ (i # 1 => h[i - 1] = f[i - 1]) BY <1>0, <2>5
    <3>2. h[i] = f[i] BY <2>1, <2>2, <3>1
    <3>3. QED BY <3>1, <3>2
  <2>6. \A i \in 0..n : i \in Same
    <3> HIDE DEF Same
    <3>1. QED BY <1>0, <2>4, <2>5, ByOnes
  <2>7. \A i \in 1..n : h[i] = f[i] BY <1>0, <2>6
  <2>8. QED BY <2>1, <2>3, <2>7
<1>6. Joined(ps) = (CHOOSE h : Joins(h))[n]
  BY <1>0, <1>1 DEF Joined, FlattenSeq, b
<1>7. (CHOOSE h : Joins(h)) = f
  <2> HIDE DEF Joins, f
  <2>1. QED BY <1>4, <1>5, Zenon
<1>8. Joined(ps) = g[n] BY <1>4, <1>6, <1>7
<1>9. \A i \in 1..n : g[i] = g[i - 1] \o PartBytes(i, ps[i].size) BY <1>1, <1>3
<1>10. QED BY <1>3, <1>8, <1>9

\* Its bytes, each at its place.
LEMMA JoinedIs ==
  ASSUME NEW ps \in Seq(Part), ps # <<>>
  PROVE  /\ Joined(ps) \in Seq(Bytes) /\ Len(Joined(ps)) = Sum(ps)
         /\ \A i \in 1..Len(ps) : \A k \in 1..ps[i].size : Joined(ps)[Before(ps, i - 1) + k] = <<i, k>>
<1> DEFINE n == Len(ps)
<1>0. n \in Nat /\ \A i \in 1..n : i \in Nat /\ i - 1 \in 0..n /\ i \in 0..n /\ ps[i].size \in Nat
  BY PartsTyped
<1>1. PICK g \in [0..n -> Seq(Bytes)] :
        /\ g[0] = <<>> /\ Joined(ps) = g[n]
        /\ \A i \in 1..n : g[i] = g[i - 1] \o PartBytes(i, ps[i].size)
  BY JoinedRuns
<1> DEFINE Right(i) == /\ Len(g[i]) = Before(ps, i)
                       /\ \A j \in 1..i : \A k \in 1..ps[j].size : g[i][Before(ps, j - 1) + k] = <<j, k>>
           Good == {i \in 0..n : Right(i)}
<1>2. 0 \in Good BY <1>0, <1>1, BeforeIs
<1>3. ASSUME NEW i \in 1..n, i - 1 \in Good PROVE i \in Good
  <2> DEFINE s == g[i - 1]
             t == PartBytes(i, ps[i].size)
  <2>1. /\ s \in Seq(Bytes) /\ t \in Seq(Bytes) /\ Len(t) = ps[i].size /\ g[i] = s \o t
        /\ \A k \in 1..ps[i].size : t[k] = <<i, k>>
    BY <1>0, <1>1, PartBytesAre
  <2>2. Len(s) = Before(ps, i - 1) /\ \A j \in 1..(i - 1) : \A k \in 1..ps[j].size : s[Before(ps, j - 1) + k] = <<j, k>>
    BY <1>3
  <2> HIDE DEF s, t
  <2>3. /\ Len(s) \in Nat /\ Len(g[i]) = Len(s) + Len(t) /\ \A k \in 1..Len(s) : g[i][k] = s[k]
        /\ \A k \in 1..Len(t) : g[i][Len(s) + k] = t[k]
    <3>1. s \in Seq(Bytes) /\ t \in Seq(Bytes) BY <2>1
    <3>2. /\ Len(s \o t) = Len(s) + Len(t) /\ \A k \in 1..Len(s) : (s \o t)[k] = s[k]
          /\ \A k \in 1..Len(t) : (s \o t)[Len(s) + k] = t[k]
      BY <3>1, ConcatIs
    <3>3. Len(s) \in Nat BY <3>1
    <3>4. QED BY <2>1, <3>2, <3>3
  <2>4. Len(g[i]) = Before(ps, i)
    <3>1. Before(ps, i) = Before(ps, i - 1) + ps[i].size BY BeforeIs
    <3>2. QED BY <2>1, <2>2, <2>3, <3>1
  <2>5. ASSUME NEW j \in 1..i, NEW k \in 1..ps[j].size PROVE g[i][Before(ps, j - 1) + k] = <<j, k>>
    <3>1. CASE j = i BY <2>1, <2>2, <2>3, <3>1
    <3>2. CASE j # i
      <4>1. j \in 1..(i - 1) /\ j \in 1..n /\ j \in 0..n /\ j - 1 \in 0..n /\ j <= i - 1 BY <1>0, <3>2
      <4>2. Before(ps, j) <= Before(ps, i - 1) BY <1>0, <4>1, BeforeGrows
      <4>3. /\ Before(ps, j) = Before(ps, j - 1) + ps[j].size /\ Before(ps, j - 1) \in Nat
            /\ ps[j].size \in Nat /\ Before(ps, i - 1) \in Nat
        BY <1>0, <4>1, BeforeIs
      <4>4. Before(ps, j - 1) + k \in 1..Len(s) BY <2>2, <4>2, <4>3
      <4>5. QED BY <2>2, <2>3, <4>1, <4>4
    <3>3. QED BY <3>1, <3>2
  <2>6. QED BY <1>0, <2>4, <2>5
<1> HIDE DEF Good
<1>4. \A i \in 0..n : i \in Good BY <1>0, <1>2, <1>3, ByOnes
<1>5. n \in 0..n /\ Right(n) BY <1>0, <1>4 DEF Good
<1>6. QED BY <1>1, <1>5, BeforeIs

(***************************************************************************)
(* The content of an object and the ranges of it.                          *)
(***************************************************************************)
Row == [parts : Seq(Part), size : Nat, sum : BOOLEAN]

LEMMA ContentIs ==
  ASSUME obj \in Row
  PROVE  /\ size \in Nat /\ content \in Seq(Bytes) /\ Len(content) = size
         /\ obj.parts # <<>> => content = Joined(obj.parts) /\ size = Before(obj.parts, Len(obj.parts))
<1>1. obj.parts \in Seq(Part) /\ obj.size \in Nat BY DEF Row
<1>2. CASE obj.parts = <<>> BY <1>1, <1>2, PartBytesAre DEF size, content
<1>3. CASE obj.parts # <<>>
  <2>1. size = Sum(obj.parts) /\ content = Joined(obj.parts) BY <1>3 DEF size, content, Joined
  <2>2. Joined(obj.parts) \in Seq(Bytes) /\ Len(Joined(obj.parts)) = Sum(obj.parts) BY <1>1, <1>3, JoinedIs
  <2>3. Before(obj.parts, Len(obj.parts)) = Sum(obj.parts) BY <1>1, BeforeIs
  <2>4. Sum(obj.parts) \in Nat BY <2>2, LenProperties
  <2>5. QED BY <1>3, <2>1, <2>2, <2>3, <2>4
<1>4. QED BY <1>2, <1>3

\* Bytes a to b - 1 of a part are those of the object as far behind where the part begins.
LEMMA WithinPart ==
  ASSUME obj \in Row, NEW i \in 1..Len(obj.parts), NEW a \in Nat, NEW b \in Nat, a <= b, b <= obj.parts[i].size
  PROVE  LET from == Before(obj.parts, i - 1)
         IN  /\ from \in Nat /\ from + obj.parts[i].size = Before(obj.parts, i) /\ from + b <= size
             /\ SubSeq(PartBytes(i, obj.parts[i].size), a + 1, b) = SubSeq(content, from + a + 1, from + b)
<1> DEFINE ps == obj.parts
           from == Before(ps, i - 1)
           n == ps[i].size
           s == SubSeq(PartBytes(i, n), a + 1, b)
           t == SubSeq(content, from + a + 1, from + b)
<1>1. ps \in Seq(Part) /\ ps # <<>> /\ Len(ps) \in Nat BY DEF Row
<1>2. i \in Nat /\ i - 1 \in 0..Len(ps) /\ i \in 0..Len(ps) /\ Len(ps) \in 0..Len(ps) /\ n \in Nat
  BY <1>1, PartsTyped
<1>3. from \in Nat /\ Before(ps, i) \in Nat /\ Before(ps, i) = from + n BY <1>1, <1>2, BeforeIs
<1>4. size \in Nat /\ content \in Seq(Bytes) /\ Len(content) = size /\ content = Joined(ps) /\ size = Before(ps, Len(ps))
  BY <1>1, ContentIs
<1>5. from + n <= size
  <2>1. Before(ps, i) <= Before(ps, Len(ps)) BY <1>1, <1>2, BeforeGrows
  <2>2. QED BY <1>3, <1>4, <2>1
<1>6. \A k \in 1..n : content[from + k] = <<i, k>> BY <1>1, <1>4, JoinedIs
<1>7. PartBytes(i, n) \in Seq(Bytes) /\ Len(PartBytes(i, n)) = n /\ \A k \in 1..n : PartBytes(i, n)[k] = <<i, k>>
  BY <1>2, PartBytesAre
<1> HIDE DEF ps, from, n
<1>8. /\ s \in Seq(Bytes) /\ Len(s) = b - a /\ \A k \in 1..(b - a) : s[k] = PartBytes(i, n)[a + k]
  <2>1. \A k \in (a + 1)..b : k \in 1..n BY <1>2 DEF n, ps
  <2>2. \A k \in (a + 1)..b : PartBytes(i, n)[k] \in Bytes
    <3>1. \A k \in 1..n : <<i, k>> \in Bytes BY <1>2 DEF Bytes
    <3>2. QED BY <1>7, <2>1, <3>1
  <2>3. a + 1 \in Int /\ b \in Int /\ b - (a + 1) + 1 = b - a /\ (IF a + 1 <= b THEN b - (a + 1) + 1 ELSE 0) = b - a
    OBVIOUS
  <2>4. s \in Seq(Bytes) /\ Len(s) = b - a /\ \A k \in 1..(b - (a + 1) + 1) : s[k] = PartBytes(i, n)[(a + 1) + k - 1]
    BY <2>2, <2>3, SubSeqProperties
  <2>5. \A k \in 1..(b - a) : (a + 1) + k - 1 = a + k OBVIOUS
  <2> HIDE DEF s
  <2>6. QED BY <2>3, <2>4, <2>5
<1>9. /\ t \in Seq(Bytes) /\ Len(t) = b - a /\ \A k \in 1..(b - a) : t[k] = content[from + a + k]
  <2>1. \A k \in (from + a + 1)..(from + b) : k \in 1..size BY <1>2, <1>3, <1>4, <1>5 DEF n, ps
  <2>2. \A k \in (from + a + 1)..(from + b) : content[k] \in Bytes BY <1>4, <2>1
  <2>3. /\ from + a + 1 \in Int /\ from + b \in Int /\ (from + b) - (from + a + 1) + 1 = b - a
        /\ (IF from + a + 1 <= from + b THEN (from + b) - (from + a + 1) + 1 ELSE 0) = b - a
    BY <1>3
  <2>4. /\ t \in Seq(Bytes) /\ Len(t) = b - a
        /\ \A k \in 1..((from + b) - (from + a + 1) + 1) : t[k] = content[(from + a + 1) + k - 1]
    BY <2>2, <2>3, SubSeqProperties
  <2>5. \A k \in 1..(b - a) : (from + a + 1) + k - 1 = from + a + k BY <1>3
  <2> HIDE DEF t
  <2>6. QED BY <2>3, <2>4, <2>5
<1>10. \A k \in 1..(b - a) : s[k] = t[k]
  <2> SUFFICES ASSUME NEW k \in 1..(b - a) PROVE s[k] = t[k] OBVIOUS
  <2>1. a + k \in 1..n /\ from + (a + k) = from + a + k BY <1>2, <1>3 DEF n, ps
  <2> HIDE DEF s, t
  <2>2. QED BY <1>6, <1>7, <1>8, <1>9, <2>1
<1>11. s = t
  <2> HIDE DEF s, t
  <2>1. QED BY <1>8, <1>9, <1>10, SeqEqual
<1>12. from + b <= size BY <1>2, <1>3, <1>4, <1>5 DEF n, ps
<1>13. QED BY <1>3, <1>11, <1>12 DEF from, n, ps

LEMMA MinMax ==
  ASSUME NEW a \in Int, NEW b \in Int
  PROVE  /\ Max({a, b}) = IF a >= b THEN a ELSE b
         /\ Min({a, b}) = IF a <= b THEN a ELSE b
         /\ a <= b => Min(a..b) = a /\ Max(a..b) = b
<1>1. PICK x \in {a, b} : \A y \in {a, b} : x >= y
  <2>1. CASE a >= b BY <2>1
  <2>2. CASE ~(a >= b) BY <2>2
  <2>3. QED BY <2>1, <2>2
<1>2. PICK z \in {a, b} : \A y \in {a, b} : z <= y
  <2>1. CASE a <= b BY <2>1
  <2>2. CASE ~(a <= b) BY <2>2
  <2>3. QED BY <2>1, <2>2
<1>3. Max({a, b}) \in {a, b} /\ \A y \in {a, b} : Max({a, b}) >= y BY <1>1, Zenon DEF Max
<1>4. Min({a, b}) \in {a, b} /\ \A y \in {a, b} : Min({a, b}) <= y BY <1>2, Zenon DEF Min
<1>5. ASSUME a <= b PROVE Min(a..b) = a /\ Max(a..b) = b
  <2>1. a \in a..b /\ (\A y \in a..b : a <= y) /\ b \in a..b /\ (\A y \in a..b : b >= y) BY <1>5
  <2>2. Min(a..b) \in a..b /\ \A y \in a..b : Min(a..b) <= y BY <2>1, Zenon DEF Min
  <2>3. Max(a..b) \in a..b /\ \A y \in a..b : Max(a..b) >= y BY <2>1, Zenon DEF Max
  <2>4. QED BY <2>1, <2>2, <2>3
<1>6. QED BY <1>3, <1>4, <1>5

\* The first and the last byte of a range, as the handlers compute them.
LEMMA ParseIs ==
  ASSUME obj \in Row, NEW r \in RangeSpec
  PROVE  LET p == parseRangeSpec(r)
         IN  /\ p.satisfiable => p.start \in Nat /\ p.end \in Int /\ p.start <= p.end + 1 /\ p.end < size
             /\ p.satisfiable => Selected(r) = p.start..p.end
             /\ p.satisfiable => p.ok \in BOOLEAN
             /\ ~p.satisfiable => Selected(r) = {} \/ (r.form = "span" /\ r.last < r.first)
             /\ r.form = "none" => p.satisfiable
<1> DEFINE p == parseRangeSpec(r)
           Fits == p.start \in Nat /\ p.end \in Int /\ p.start <= p.end + 1 /\ p.end < size
           Right == /\ p.satisfiable => Fits
                    /\ p.satisfiable => Selected(r) = p.start..p.end
                    /\ p.satisfiable => p.ok \in BOOLEAN
                    /\ ~p.satisfiable => Selected(r) = {} \/ (r.form = "span" /\ r.last < r.first)
                    /\ r.form = "none" => p.satisfiable
<1> SUFFICES Right OBVIOUS
<1> HIDE DEF p
<1>0. size \in Nat /\ r.form \in Forms /\ r.first \in Nat /\ r.last \in Nat BY ContentIs DEF RangeSpec
<1>1. CASE r.form \in {"none", "odd"}
  <2>1. p = [start |-> 0, end |-> size - 1, ok |-> FALSE, satisfiable |-> TRUE] BY <1>1 DEF parseRangeSpec, p
  <2>2. Selected(r) = 0..(size - 1) BY <1>1 DEF Selected
  <2>3. p.start = 0 /\ p.end = size - 1 /\ p.ok \in BOOLEAN /\ p.satisfiable BY <2>1
  <2>4. QED BY <1>0, <2>2, <2>3
<1>2. CASE r.form = "suffix"
  <2>1. Selected(r) = {q \in 0..(size - 1) : q >= size - r.last} BY <1>2 DEF Selected
  <2>2. CASE r.last = 0 \/ size = 0
    <3>1. ~p.satisfiable BY <1>2, <2>2 DEF parseRangeSpec, p
    <3>2. Selected(r) = {} BY <1>0, <2>1, <2>2
    <3>3. QED BY <1>2, <3>1, <3>2
  <2>3. CASE ~(r.last = 0 \/ size = 0)
    <3>1. p = [start |-> Max({size - r.last, 0}), end |-> size - 1, ok |-> TRUE, satisfiable |-> TRUE]
      BY <1>2, <2>3 DEF parseRangeSpec, p
    <3>2. Max({size - r.last, 0}) = IF size - r.last >= 0 THEN size - r.last ELSE 0 BY <1>0, MinMax
    <3>3. p.start = (IF size - r.last >= 0 THEN size - r.last ELSE 0) /\ p.end = size - 1 /\ p.ok \in BOOLEAN /\ p.satisfiable
      BY <3>1, <3>2
    <3>4. p.start \in Nat /\ p.start < size BY <1>0, <2>3, <3>3
    <3>5. Selected(r) = p.start..p.end BY <1>0, <2>1, <3>3, <3>4
    <3>6. QED BY <1>0, <1>2, <3>3, <3>4, <3>5
  <2>4. QED BY <2>2, <2>3
<1>3. CASE r.form = "from"
  <2>1. Selected(r) = {q \in 0..(size - 1) : q >= r.first} BY <1>3 DEF Selected
  <2>2. CASE r.first >= size
    <3>1. ~p.satisfiable BY <1>3, <2>2 DEF parseRangeSpec, p
    <3>2. Selected(r) = {} BY <1>0, <2>1, <2>2
    <3>3. QED BY <1>3, <3>1, <3>2
  <2>3. CASE ~(r.first >= size)
    <3>1. p = [start |-> r.first, end |-> size - 1, ok |-> TRUE, satisfiable |-> TRUE]
      BY <1>3, <2>3 DEF parseRangeSpec, p
    <3>2. p.start = r.first /\ p.end = size - 1 /\ p.ok \in BOOLEAN /\ p.satisfiable BY <3>1
    <3>3. Selected(r) = p.start..p.end BY <1>0, <2>1, <3>2
    <3>4. QED BY <1>0, <1>3, <2>3, <3>2, <3>3
  <2>4. QED BY <2>2, <2>3
<1>4. CASE r.form = "span"
  <2>1. CASE r.first >= size
    <3>1. ~p.satisfiable BY <1>4, <2>1 DEF parseRangeSpec, p
    <3>2. r.first <= r.last => Selected(r) = {}
      <4>1. r.first <= r.last => Selected(r) = {q \in 0..(size - 1) : r.first <= q /\ q <= r.last} BY <1>4 DEF Selected
      <4>2. QED BY <1>0, <2>1, <4>1
    <3>3. QED BY <1>0, <1>4, <3>1, <3>2
  <2>2. CASE ~(r.first >= size) /\ r.last < r.first
    <3>1. p = [start |-> 0, end |-> size - 1, ok |-> FALSE, satisfiable |-> TRUE] BY <1>4, <2>2 DEF parseRangeSpec, p
    <3>2. Selected(r) = 0..(size - 1) BY <1>0, <1>4, <2>2 DEF Selected
    <3>3. p.start = 0 /\ p.end = size - 1 /\ p.ok \in BOOLEAN /\ p.satisfiable BY <3>1
    <3>4. QED BY <1>0, <1>4, <3>2, <3>3
  <2>3. CASE ~(r.first >= size) /\ ~(r.last < r.first)
    <3>1. p = [start |-> r.first, end |-> Min({r.last, size - 1}), ok |-> TRUE, satisfiable |-> TRUE]
      BY <1>4, <2>3 DEF parseRangeSpec, p
    <3>2. Selected(r) = {q \in 0..(size - 1) : r.first <= q /\ q <= r.last} BY <1>0, <1>4, <2>3 DEF Selected
    <3>3. Min({r.last, size - 1}) = IF r.last <= size - 1 THEN r.last ELSE size - 1
      <4>1. r.last \in Int /\ size - 1 \in Int BY <1>0
      <4>2. QED BY <4>1, MinMax, Zenon
    <3>4. p.start = r.first /\ p.end = (IF r.last <= size - 1 THEN r.last ELSE size - 1) /\ p.ok \in BOOLEAN /\ p.satisfiable
      BY <3>1, <3>3
    <3>5. Selected(r) = p.start..p.end BY <1>0, <2>3, <3>2, <3>4
    <3>6. QED BY <1>0, <1>4, <2>3, <3>4, <3>5
  <2>4. QED BY <1>0, <2>1, <2>2, <2>3
<1>5. QED BY <1>0, <1>1, <1>2, <1>3, <1>4 DEF Forms

\* The handlers read bytes first to last.
Cut(p) == SubSeq(content, p.start + 1, p.end + 1)

\* A part asked for has become the range it takes.
Resolved ==
  ask.part \in DOMAIN obj.parts /\ ~EmptyPart =>
    LET from == Before(obj.parts, ask.part - 1)
    IN  /\ ask.range.form = "span" /\ ask.range.first = from
        /\ ask.range.last = from + obj.parts[ask.part].size - 1

\* What is read is what HTTP means.
LEMMA ReadsRequested ==
  ASSUME obj \in Row, ask.range \in RangeSpec, Resolved, ~EmptyPart
  PROVE  LET p == parseRangeSpec(ask.range)
         IN  /\ p.satisfiable => Requested = Cut(p)
             /\ ~p.satisfiable => Requested = <<>> \/ IllFormed
<1> DEFINE r == ask.range
           p == parseRangeSpec(r)
<1>0. /\ size \in Nat /\ content \in Seq(Bytes) /\ Len(content) = size /\ obj.parts \in Seq(Part)
      /\ r.form \in Forms /\ r.first \in Nat /\ r.last \in Nat
  BY ContentIs DEF Row, RangeSpec
<1>1. /\ p.satisfiable => p.start \in Nat /\ p.end \in Int /\ p.start <= p.end + 1 /\ p.end < size
      /\ p.satisfiable => Selected(r) = p.start..p.end
      /\ ~p.satisfiable => Selected(r) = {} \/ (r.form = "span" /\ r.last < r.first)
  BY ParseIs
<1> HIDE DEF p
<1>2. CASE ask.part \in DOMAIN obj.parts
  <2> DEFINE i == ask.part
             n == obj.parts[i].size
             from == Before(obj.parts, i - 1)
  <2>1. n \in Nat /\ n # 0 /\ i \in 1..Len(obj.parts) BY <1>0, <1>2, PartsTyped DEF EmptyPart
  <2>2. r.form = "span" /\ r.first = from /\ r.last = from + n - 1 BY <1>2 DEF Resolved
  <2>3. /\ from \in Nat /\ from + n <= size
        /\ SubSeq(PartBytes(i, n), 0 + 1, n) = SubSeq(content, from + 0 + 1, from + n)
    <3>1. 0 \in Nat /\ 0 <= n /\ n <= n BY <2>1
    <3>2. QED BY <2>1, <3>1, WithinPart, Zenon
  <2> HIDE DEF n, from
  <2>4. p.satisfiable /\ p.start = from /\ p.end = from + n - 1
    <3>1. ~(r.first >= size) /\ ~(r.last < r.first) BY <1>0, <2>1, <2>2, <2>3
    <3>2. p = [start |-> r.first, end |-> Min({r.last, size - 1}), ok |-> TRUE, satisfiable |-> TRUE]
      BY <2>2, <3>1 DEF parseRangeSpec, p
    <3>3. Min({r.last, size - 1}) = r.last
      <4>1. r.last \in Int /\ size - 1 \in Int BY <1>0
      <4>2. Min({r.last, size - 1}) = IF r.last <= size - 1 THEN r.last ELSE size - 1 BY <4>1, MinMax, Zenon
      <4>3. QED BY <1>0, <2>1, <2>2, <2>3, <4>2
    <3>4. QED BY <2>2, <3>2, <3>3
  <2>5. PartBytes(i, n) \in Seq(Bytes) /\ Len(PartBytes(i, n)) = n BY <2>1, PartBytesAre
  <2>6. SubSeq(PartBytes(i, n), 1, n) = PartBytes(i, n) BY <2>5, SubSeqFull
  <2>7. Requested = PartBytes(i, n) BY <1>2 DEF Requested, n
  <2>8. Cut(p) = SubSeq(content, from + 1, from + n)
    <3>1. (from + n - 1) + 1 = from + n BY <2>1, <2>3
    <3>2. QED BY <2>4, <3>1 DEF Cut
  <2>9. 0 + 1 = 1 /\ from + 0 + 1 = from + 1 BY <2>3
  <2>10. QED BY <2>3, <2>4, <2>6, <2>7, <2>8, <2>9 DEF p
<1>3. CASE ask.part \notin DOMAIN obj.parts
  <2>1. Requested = IF Selected(r) = {} THEN <<>>
                    ELSE SubSeq(content, Min(Selected(r)) + 1, Max(Selected(r)) + 1)
    BY <1>3 DEF Requested
  <2>2. CASE p.satisfiable /\ p.start <= p.end
    <3>1. p.start \in p.start..p.end BY <1>1, <2>2
    <3>2. Min(p.start..p.end) = p.start /\ Max(p.start..p.end) = p.end
      <4>1. p.start \in Int /\ p.end \in Int BY <1>1, <2>2
      <4>2. QED BY <2>2, <4>1, MinMax, Zenon
    <3>3. QED BY <1>1, <2>1, <2>2, <3>1, <3>2 DEF Cut, p
  <2>3. CASE p.satisfiable /\ ~(p.start <= p.end)
    <3>1. Selected(r) = {} BY <1>1, <2>3
    <3>2. p.start + 1 \in Int /\ p.end + 1 \in Int /\ p.end + 1 < p.start + 1 BY <1>1, <2>3
    <3>3. Cut(p) = <<>> BY <3>2, SubSeqEmpty DEF Cut
    <3>4. QED BY <2>1, <2>3, <3>1, <3>3 DEF p
  <2>4. CASE ~p.satisfiable
    <3>1. QED BY <1>1, <2>1, <2>4 DEF p, IllFormed
  <2>5. QED BY <2>2, <2>3, <2>4
<1>4. QED BY <1>2, <1>3

(***************************************************************************)
(* Listings of parts.                                                      *)
(***************************************************************************)
Ascending(ps) == \A i, j \in DOMAIN ps : i < j => ps[i].number < ps[j].number
Listed == {listed[i] : i \in DOMAIN listed}
Present == {obj.parts[i].number : i \in DOMAIN obj.parts}

\* The marker is where the listing has come to: no number listed is past it, and every part that
\* was there at the beginning is still there and, up to it, listed.
ListInv ==
  /\ obj \in Row /\ Ascending(obj.parts)
  /\ listed \in Seq(Nat) /\ marker \in Nat /\ began \subseteq Nat
  /\ \A i, j \in DOMAIN listed : i < j => listed[i] < listed[j]
  /\ pc = "row" => began \subseteq Present
  /\ pc = "row" => \A i \in DOMAIN listed : listed[i] <= marker
  /\ pc = "row" => \A n \in began : n <= marker => n \in Listed
  /\ pc = "listed" => began \subseteq Listed

LEMMA UpToIs ==
  ASSUME obj \in Row, Ascending(obj.parts), NEW m \in Nat
  PROVE  /\ UpTo(m) \in 0..Len(obj.parts)
         /\ \A i \in 1..Len(obj.parts) : obj.parts[i].number <= m <=> i <= UpTo(m)
<1> DEFINE ps == obj.parts
           n == Len(ps)
           first == {i \in 1..n : ps[i].number <= m}
           Past == {i \in 1..(n + 1) : i = n + 1 \/ ~(ps[i].number <= m)}
<1>0. ps \in Seq(Part) /\ n \in Nat /\ DOMAIN ps = 1..n /\ \A i \in 1..n : ps[i].number \in Nat
  <2>1. ps \in Seq(Part) BY DEF Row
  <2>2. QED BY <2>1, PartsTyped
<1>1. \A i, j \in 1..n : i < j => ps[i].number < ps[j].number BY <1>0 DEF Ascending
<1> HIDE DEF ps, n
<1>2. PICK k \in Past : \A i \in Past : k <= i
  <2>1. n + 1 \in Past /\ Past \in SUBSET Nat BY <1>0
  <2> HIDE DEF Past
  <2>2. QED BY <2>1, LeastNat
<1>3. k \in 1..(n + 1) /\ \A i \in 1..n : i < k => ps[i].number <= m BY <1>0, <1>2
<1>4. \A i \in 1..n : ~(i < k) => ~(ps[i].number <= m)
  <2> SUFFICES ASSUME NEW i \in 1..n, ~(i < k) PROVE ~(ps[i].number <= m) OBVIOUS
  <2>1. k \in 1..n /\ ~(ps[k].number <= m) BY <1>0, <1>2, <1>3
  <2>2. i # k => ps[k].number < ps[i].number BY <1>0, <1>1, <2>1
  <2>3. QED BY <1>0, <2>1, <2>2
<1>5. first = 1..(k - 1) BY <1>0, <1>3, <1>4
<1>6. Cardinality(1..(k - 1)) = k - 1
  <2>1. 1 \in Int /\ k - 1 \in Int /\ (IF 1 > k - 1 THEN 0 ELSE (k - 1) - 1 + 1) = k - 1 BY <1>0, <1>3
  <2>2. QED BY <2>1, FS_Interval
<1>7. UpTo(m) = k - 1
  <2>1. UpTo(m) = Cardinality(first) BY <1>0 DEF UpTo, ps
  <2> HIDE DEF first
  <2>2. QED BY <1>5, <1>6, <2>1
<1>8. k - 1 \in 0..n /\ \A i \in 1..n : i <= k - 1 <=> i < k BY <1>0, <1>3
<1>9. UpTo(m) \in 0..n /\ \A i \in 1..n : ps[i].number <= m <=> i <= UpTo(m) BY <1>3, <1>4, <1>7, <1>8
<1>10. QED BY <1>9 DEF ps, n

\* The parts past a number, in their order.
LEMMA AfterIs ==
  ASSUME obj \in Row, Ascending(obj.parts), NEW m \in Nat
  PROVE  /\ After(m) \in Seq(Part) /\ Len(After(m)) = Len(obj.parts) - UpTo(m) /\ Len(After(m)) \in Nat
         /\ \A i \in 1..Len(After(m)) : UpTo(m) + i \in 1..Len(obj.parts) /\ After(m)[i] = obj.parts[UpTo(m) + i]
         /\ \A i \in 1..Len(obj.parts) : obj.parts[i].number > m =>
              i - UpTo(m) \in 1..Len(After(m)) /\ After(m)[i - UpTo(m)] = obj.parts[i]
         /\ \A i \in 1..Len(After(m)) : After(m)[i].number > m
         /\ \A i, j \in 1..Len(After(m)) : i < j => After(m)[i].number < After(m)[j].number
<1> DEFINE ps == obj.parts
           n == Len(ps)
           u == UpTo(m)
           s == After(m)
<1>0. ps \in Seq(Part) /\ n \in Nat /\ DOMAIN ps = 1..n /\ \A i \in 1..n : ps[i] \in Part /\ ps[i].number \in Nat
  <2>1. ps \in Seq(Part) BY DEF Row
  <2>2. QED BY <2>1, PartsTyped
<1>1. u \in 0..n /\ \A i \in 1..n : ps[i].number <= m <=> i <= u BY UpToIs
<1>2. \A i, j \in 1..n : i < j => ps[i].number < ps[j].number BY <1>0 DEF Ascending
<1> HIDE DEF u, n, ps
<1>3. s \in Seq(Part) /\ Len(s) = n - u /\ \A i \in 1..(n - u) : s[i] = ps[u + i]
  <2>1. u + 1 \in Int /\ n \in Int /\ \A i \in (u + 1)..n : ps[i] \in Part BY <1>0, <1>1
  <2>2. s = SubSeq(ps, u + 1, n) BY DEF After, ps, n, u
  <2> HIDE DEF s
  <2>3. /\ SubSeq(ps, u + 1, n) \in Seq(Part)
        /\ Len(SubSeq(ps, u + 1, n)) = IF u + 1 <= n THEN n - (u + 1) + 1 ELSE 0
        /\ \A i \in 1..(n - (u + 1) + 1) : SubSeq(ps, u + 1, n)[i] = ps[(u + 1) + i - 1]
    BY <2>1, SubSeqProperties
  <2>4. n - (u + 1) + 1 = n - u /\ (IF u + 1 <= n THEN n - (u + 1) + 1 ELSE 0) = n - u BY <1>0, <1>1
  <2>5. \A i \in 1..(n - u) : (u + 1) + i - 1 = u + i BY <1>0, <1>1
  <2>6. QED BY <2>2, <2>3, <2>4, <2>5
<1> HIDE DEF s
<1>4. n - u \in Nat /\ \A i \in 1..(n - u) : u + i \in 1..n /\ ~(u + i <= u) BY <1>0, <1>1
<1>5. \A i \in 1..Len(s) : u + i \in 1..n /\ s[i] = ps[u + i] /\ s[i].number > m
  BY <1>0, <1>1, <1>3, <1>4
<1>6. \A i \in 1..n : ps[i].number > m => i - u \in 1..Len(s) /\ s[i - u] = ps[i]
  <2> SUFFICES ASSUME NEW i \in 1..n, ps[i].number > m PROVE i - u \in 1..Len(s) /\ s[i - u] = ps[i] OBVIOUS
  <2>1. ~(i <= u) BY <1>0, <1>1
  <2>2. i - u \in 1..(n - u) /\ u + (i - u) = i BY <1>0, <1>1, <2>1
  <2>3. QED BY <1>3, <2>2
<1>7. \A i, j \in 1..Len(s) : i < j => s[i].number < s[j].number
  <2> SUFFICES ASSUME NEW i \in 1..Len(s), NEW j \in 1..Len(s), i < j PROVE s[i].number < s[j].number OBVIOUS
  <2>1. u + i \in 1..n /\ u + j \in 1..n /\ u + i < u + j BY <1>1, <1>3, <1>4
  <2>2. QED BY <1>2, <1>5, <2>1
<1>8. QED BY <1>3, <1>4, <1>5, <1>6, <1>7 DEF s, u, n, ps

\* A page of the parts past the marker: the marker moves to its last part, or it is all of them.
LEMMA PageStep ==
  ASSUME ListInv, pc = "row", NEW k \in 0..Len(After(marker)),
         listed' = listed \o NumbersOf(SubSeq(After(marker), 1, k)), UNCHANGED <<obj, began>>,
         \/ k > 0 /\ marker' = After(marker)[k].number /\ pc' = pc
         \/ k = Len(After(marker)) /\ pc' = "listed" /\ marker' = marker
  PROVE  ListInv'
<1> DEFINE rest == After(marker)
           new == NumbersOf(SubSeq(rest, 1, k))
           n == Len(listed)
<1>0. /\ obj \in Row /\ Ascending(obj.parts) /\ listed \in Seq(Nat) /\ marker \in Nat /\ began \subseteq Nat
      /\ n \in Nat /\ DOMAIN listed = 1..n /\ began \subseteq Present
      /\ \A i, j \in 1..n : i < j => listed[i] < listed[j]
      /\ \A i \in 1..n : listed[i] <= marker /\ listed[i] \in Nat
      /\ \A m \in began : m <= marker => m \in Listed
  BY DEF ListInv
<1>1. /\ rest \in Seq(Part) /\ Len(rest) \in Nat
      /\ \A i \in 1..Len(rest) : rest[i].number > marker
      /\ \A i, j \in 1..Len(rest) : i < j => rest[i].number < rest[j].number
      /\ \A i \in 1..Len(obj.parts) : obj.parts[i].number > marker => \E j \in 1..Len(rest) : rest[j] = obj.parts[i]
  BY <1>0, AfterIs
<1>2. \A i \in 1..Len(rest) : rest[i].number \in Nat BY <1>1, PartsTyped
<1> HIDE DEF rest
<1>3. new \in Seq(Nat) /\ Len(new) = k /\ DOMAIN new = 1..k /\ \A i \in 1..k : new[i] = rest[i].number
  <2> DEFINE s == SubSeq(rest, 1, k)
  <2>1. s \in Seq(Part) /\ Len(s) = k /\ \A i \in 1..k : s[i] = rest[i] BY <1>1 DEF rest
  <2>2. DOMAIN s = 1..k BY <1>1, <2>1 DEF rest
  <2>3. new = [i \in 1..k |-> s[i].number] BY <2>2 DEF NumbersOf
  <2> HIDE DEF s, new
  <2>4. \A i \in 1..k : new[i] = rest[i].number /\ rest[i].number \in Nat BY <1>1, <1>2, <2>1, <2>3 DEF rest
  <2>5. new \in [1..k -> Nat] BY <2>3, <2>4
  <2>6. k \in Nat BY <1>1 DEF rest
  <2>7. new \in Seq(Nat) BY <2>5, <2>6
  <2>8. QED BY <2>4, <2>5, <2>6, <2>7
<1> HIDE DEF new
<1>4. k \in Nat /\ \A i \in 1..k : i \in 1..Len(rest) BY <1>1 DEF rest
<1>5. listed' = listed \o new BY DEF new, rest
<1> DEFINE now == listed'
<1>6. /\ now \in Seq(Nat) /\ DOMAIN now = 1..(n + k)
      /\ \A i \in 1..n : now[i] = listed[i]
      /\ \A i \in (n + 1)..(n + k) : i - n \in 1..k /\ now[i] = new[i - n]
  <2>1. /\ listed \o new \in Seq(Nat) /\ DOMAIN (listed \o new) = 1..(n + k)
        /\ \A i \in 1..n : (listed \o new)[i] = listed[i]
        /\ \A i \in 1..k : (listed \o new)[n + i] = new[i]
    <3>1. /\ listed \o new \in Seq(Nat) /\ DOMAIN (listed \o new) = 1..(Len(listed) + Len(new))
          /\ \A i \in 1..Len(listed) : (listed \o new)[i] = listed[i]
          /\ \A i \in 1..Len(new) : (listed \o new)[Len(listed) + i] = new[i]
      <4>1. listed \in Seq(Nat) /\ new \in Seq(Nat) BY <1>0, <1>3
      <4>2. QED BY <4>1, ConcatIs
    <3>2. QED BY <1>3, <3>1
  <2>2. \A i \in (n + 1)..(n + k) : i - n \in 1..k /\ n + (i - n) = i BY <1>0, <1>4
  <2>3. now = listed \o new BY <1>5
  <2> HIDE DEF now, n
  <2>4. QED BY <2>1, <2>2, <2>3
<1> HIDE DEF n, now
<1>7. \A i, j \in 1..(n + k) : i < j => now[i] < now[j]
  <2> SUFFICES ASSUME NEW i \in 1..(n + k), NEW j \in 1..(n + k), i < j PROVE now[i] < now[j] OBVIOUS
  <2>0. n \in Nat BY <1>0
  <2>1. CASE j <= n
    <3>1. i \in 1..n /\ j \in 1..n BY <1>4, <2>0, <2>1
    <3>2. QED BY <1>0, <1>6, <3>1
  <2>2. CASE ~(j <= n) /\ i <= n
    <3>1. i \in 1..n /\ j \in (n + 1)..(n + k) BY <1>4, <2>0, <2>2
    <3>2. now[i] <= marker /\ now[i] \in Nat /\ marker \in Nat BY <1>0, <1>6, <3>1
    <3>3. j - n \in 1..k /\ now[j] = rest[j - n].number /\ j - n \in 1..Len(rest) BY <1>3, <1>4, <1>6, <3>1
    <3>4. rest[j - n].number > marker /\ rest[j - n].number \in Nat BY <1>1, <1>2, <3>3
    <3>5. QED BY <3>2, <3>3, <3>4
  <2>3. CASE ~(i <= n)
    <3>1. i \in (n + 1)..(n + k) /\ j \in (n + 1)..(n + k) /\ i - n < j - n BY <1>4, <2>0, <2>3
    <3>2. i - n \in 1..k /\ j - n \in 1..k /\ now[i] = rest[i - n].number /\ now[j] = rest[j - n].number
      BY <1>3, <1>6, <3>1
    <3>3. QED BY <1>1, <1>4, <3>1, <3>2
  <2>4. QED BY <2>1, <2>2, <2>3
<1>8. /\ \A m \in Listed : m \in Listed'
      /\ \A i \in 1..k : rest[i].number \in Listed'
  <2>1. \A i \in 1..n : i \in 1..(n + k) BY <1>0, <1>4
  <2>2. \A i \in 1..k : n + i \in 1..(n + k) /\ now[n + i] = rest[i].number
    <3> SUFFICES ASSUME NEW i \in 1..k PROVE n + i \in 1..(n + k) /\ now[n + i] = rest[i].number OBVIOUS
    <3>1. n + i \in (n + 1)..(n + k) /\ n + i \in 1..(n + k) /\ (n + i) - n = i BY <1>0, <1>4
    <3>2. QED BY <1>3, <1>6, <3>1
  <2>3. \A m \in Listed : \E i \in 1..n : m = listed[i] BY <1>0 DEF Listed
  <2>4. \A i \in 1..(n + k) : now[i] \in Listed' BY <1>6 DEF Listed, now
  <2>5. QED BY <1>6, <2>1, <2>2, <2>3, <2>4
<1>9. ASSUME NEW m \in began, m > marker PROVE \E j \in 1..Len(rest) : rest[j].number = m
  <2>1. PICK i \in 1..Len(obj.parts) : obj.parts[i].number = m
    <3>1. obj.parts \in Seq(Part) BY <1>0 DEF Row
    <3>2. QED BY <1>0, <3>1, PartsTyped DEF Present
  <2>2. QED BY <1>1, <1>9, <2>1
<1>10. /\ obj' \in Row /\ Ascending(obj'.parts) /\ began' \subseteq Nat /\ Present' = Present
  BY <1>0 DEF Present
<1>11. CASE k > 0 /\ marker' = rest[k].number /\ pc' = pc
  <2>1. k \in 1..k /\ marker' \in Nat /\ marker' > marker BY <1>0, <1>1, <1>2, <1>4, <1>11
  <2>2. \A i \in 1..(n + k) : now[i] <= marker'
    <3> SUFFICES ASSUME NEW i \in 1..(n + k) PROVE now[i] <= marker' OBVIOUS
    <3>0. n \in Nat BY <1>0
    <3>1. CASE i <= n
      <4>1. i \in 1..n BY <3>0, <3>1, <1>4
      <4>2. QED BY <1>0, <1>6, <2>1, <4>1
    <3>2. CASE ~(i <= n)
      <4>1. i \in (n + 1)..(n + k) BY <3>0, <3>2, <1>4
      <4>2. i - n \in 1..k /\ now[i] = rest[i - n].number BY <1>3, <1>6, <4>1
      <4>3. i - n = k \/ i - n < k BY <1>4, <4>2
      <4>4. i - n < k => rest[i - n].number < rest[k].number BY <1>1, <1>4, <2>1, <4>2
      <4>5. rest[k].number \in Nat /\ rest[i - n].number \in Nat BY <1>2, <1>4, <2>1, <4>2
      <4>6. CASE i - n = k BY <1>11, <4>2, <4>5, <4>6
      <4>7. CASE i - n < k BY <1>11, <4>2, <4>4, <4>5, <4>7
      <4>8. QED BY <4>3, <4>6, <4>7
    <3>3. QED BY <3>1, <3>2
  <2>3. \A m \in began : m <= marker' => m \in Listed'
    <3> SUFFICES ASSUME NEW m \in began, m <= marker' PROVE m \in Listed' OBVIOUS
    <3>1. CASE m <= marker BY <1>0, <1>8, <3>1
    <3>2. CASE ~(m <= marker)
      <4>1. PICK j \in 1..Len(rest) : rest[j].number = m BY <1>0, <1>9, <3>2
      <4>2. ~(k < j)
        <5>1. k < j => rest[k].number < rest[j].number BY <1>1, <1>4, <2>1, <4>1
        <5>2. QED BY <1>11, <1>2, <1>4, <2>1, <4>1, <5>1
      <4>3. j \in 1..k BY <1>1, <1>4, <4>1, <4>2
      <4>4. QED BY <1>8, <4>1, <4>3
    <3>3. QED BY <3>1, <3>2
  <2>4. QED BY <1>0, <1>6, <1>7, <1>10, <1>11, <2>1, <2>2, <2>3 DEF ListInv, now
<1>12. CASE k = Len(rest) /\ pc' = "listed" /\ marker' = marker
  <2>1. \A m \in began : m \in Listed'
    <3> SUFFICES ASSUME NEW m \in began PROVE m \in Listed' OBVIOUS
    <3>1. CASE m <= marker BY <1>0, <1>8, <3>1
    <3>2. CASE ~(m <= marker)
      <4>1. PICK j \in 1..Len(rest) : rest[j].number = m BY <1>0, <1>9, <3>2
      <4>2. QED BY <1>8, <1>12, <4>1
    <3>3. QED BY <3>1, <3>2
  <2>2. QED BY <1>0, <1>6, <1>7, <1>10, <1>12, <2>1 DEF ListInv, now
<1>13. QED BY <1>11, <1>12 DEF rest


\* A part put among the others, or in the place of the one of its number: the order stays and no
\* number goes.
LEMMA PutIs ==
  ASSUME obj \in Row, Ascending(obj.parts), NEW n \in Nat \ {0}, NEW x \in Part, x.number = n
  PROVE  LET q == SubSeq(obj.parts, 1, UpTo(n - 1)) \o <<x>> \o After(n)
         IN  /\ q \in Seq(Part) /\ Ascending(q)
             /\ \A i \in 1..Len(obj.parts) : \E j \in DOMAIN q : q[j].number = obj.parts[i].number
<1> DEFINE ps == obj.parts
           a == UpTo(n - 1)
           s == SubSeq(ps, 1, a)
           rest == After(n)
           m == Len(rest)
           q == (s \o <<x>>) \o rest
<1>0. ps \in Seq(Part) /\ Len(ps) \in Nat /\ DOMAIN ps = 1..Len(ps) /\ \A i \in 1..Len(ps) : ps[i] \in Part /\ ps[i].number \in Nat
  <2>1. ps \in Seq(Part) BY DEF Row
  <2>2. QED BY <2>1, PartsTyped
<1>1. a \in 0..Len(ps) /\ \A i \in 1..Len(ps) : ps[i].number <= n - 1 <=> i <= a
  <2>1. n - 1 \in Nat OBVIOUS
  <2>2. QED BY <2>1, UpToIs
<1>2. /\ rest \in Seq(Part) /\ m \in Nat
      /\ \A i \in 1..Len(ps) : ps[i].number > n => \E j \in 1..m : rest[j] = ps[i]
      /\ \A i \in 1..m : rest[i].number > n
      /\ \A i, j \in 1..m : i < j => rest[i].number < rest[j].number
  BY AfterIs
<1>3. \A i \in 1..m : rest[i].number \in Nat BY <1>2, PartsTyped
<1>4. \A i, j \in 1..Len(ps) : i < j => ps[i].number < ps[j].number BY <1>0 DEF Ascending
<1> HIDE DEF ps, a, rest, m
<1>5. s \in Seq(Part) /\ Len(s) = a /\ \A i \in 1..a : s[i] = ps[i] BY <1>0, <1>1
<1> HIDE DEF s
<1>6. <<x>> \in Seq(Part) /\ Len(<<x>>) = 1 /\ <<x>>[1] = x OBVIOUS
<1> DEFINE t == s \o <<x>>
<1>7. t \in Seq(Part) /\ Len(t) = a + 1 /\ (\A i \in 1..a : t[i] = ps[i]) /\ t[a + 1] = x
  <2>1. /\ t \in Seq(Part) /\ Len(t) = Len(s) + Len(<<x>>) /\ \A k \in 1..Len(s) : t[k] = s[k]
        /\ \A k \in 1..Len(<<x>>) : t[Len(s) + k] = <<x>>[k]
    BY <1>5, <1>6, ConcatIs
  <2> HIDE DEF t
  <2>2. 1 \in 1..Len(<<x>>) BY <1>6
  <2>3. QED BY <1>5, <1>6, <2>1, <2>2
<1> HIDE DEF t
<1>8. /\ q \in Seq(Part) /\ DOMAIN q = 1..(a + 1 + m)
      /\ \A i \in 1..a : q[i] = ps[i]
      /\ q[a + 1] = x
      /\ \A j \in 1..m : q[a + 1 + j] = rest[j]
  <2>1. /\ t \o rest \in Seq(Part) /\ DOMAIN (t \o rest) = 1..(Len(t) + Len(rest))
        /\ \A k \in 1..Len(t) : (t \o rest)[k] = t[k]
        /\ \A k \in 1..Len(rest) : (t \o rest)[Len(t) + k] = rest[k]
    <3>1. t \in Seq(Part) /\ rest \in Seq(Part) BY <1>2, <1>7
    <3>2. QED BY <3>1, ConcatIs
  <2>2. q = t \o rest BY DEF t
  <2>3. Len(rest) = m BY DEF m
  <2> HIDE DEF q
  <2>4. \A i \in 1..a : i \in 1..(a + 1) BY <1>1
  <2>5. a + 1 \in 1..(a + 1) BY <1>1
  <2>6. QED BY <1>7, <2>1, <2>2, <2>3, <2>4, <2>5
<1> HIDE DEF q
<1>9. a \in Nat /\ \A i \in 1..a : i \in 1..Len(ps) /\ ps[i].number <= n - 1 /\ ps[i].number \in Nat
  BY <1>0, <1>1
<1>10. ASSUME NEW i \in 1..(a + 1 + m), NEW j \in 1..(a + 1 + m), i < j PROVE q[i].number < q[j].number
  <2>1. CASE j <= a
    <3>1. i \in 1..a /\ j \in 1..a BY <1>2, <1>9, <1>10, <2>1
    <3>2. QED BY <1>4, <1>8, <1>9, <1>10, <3>1
  <2>2. CASE j = a + 1
    <3>1. i \in 1..a BY <1>2, <1>9, <1>10, <2>2
    <3>2. q[j].number = n /\ q[i] = ps[i] /\ ps[i].number <= n - 1 BY <1>8, <1>9, <2>2, <3>1
    <3>3. QED BY <1>9, <3>1, <3>2
  <2>3. CASE j > a + 1
    <3>1. j - (a + 1) \in 1..m /\ a + 1 + (j - (a + 1)) = j BY <1>2, <1>9, <2>3
    <3>2. q[j] = rest[j - (a + 1)] /\ q[j].number > n /\ q[j].number \in Nat BY <1>2, <1>3, <1>8, <3>1
    <3>3. CASE i <= a
      <4>1. i \in 1..a BY <1>9, <3>3
      <4>2. q[i] = ps[i] /\ ps[i].number <= n - 1 /\ ps[i].number \in Nat BY <1>8, <1>9, <4>1
      <4>3. QED BY <3>2, <4>2
    <3>4. CASE i = a + 1 BY <1>8, <3>2, <3>4
    <3>5. CASE i > a + 1
      <4>1. i - (a + 1) \in 1..m /\ a + 1 + (i - (a + 1)) = i /\ i - (a + 1) < j - (a + 1)
        BY <1>2, <1>9, <1>10, <3>1, <3>5
      <4>2. q[i] = rest[i - (a + 1)] BY <1>8, <4>1
      <4>3. QED BY <1>2, <3>1, <3>2, <4>1, <4>2
    <3>6. QED BY <1>9, <3>3, <3>4, <3>5
  <2>4. QED BY <1>9, <2>1, <2>2, <2>3
<1>11. ASSUME NEW i \in 1..Len(ps) PROVE \E j \in DOMAIN q : q[j].number = ps[i].number
  <2>1. CASE i <= a
    <3>1. i \in 1..a /\ i \in 1..(a + 1 + m) BY <1>2, <1>9, <2>1
    <3>2. QED BY <1>8, <3>1
  <2>2. CASE ps[i].number = n
    <3>1. a + 1 \in 1..(a + 1 + m) BY <1>2, <1>9
    <3>2. QED BY <1>8, <2>2, <3>1
  <2>3. CASE ps[i].number > n
    <3>1. PICK j \in 1..m : rest[j] = ps[i] BY <1>2, <2>3
    <3>2. a + 1 + j \in 1..(a + 1 + m) /\ q[a + 1 + j] = ps[i] BY <1>2, <1>8, <1>9, <3>1
    <3>3. QED BY <1>8, <3>2
  <2>4. QED BY <1>0, <1>1, <2>1, <2>2, <2>3
<1>12. Ascending(q) BY <1>8, <1>10 DEF Ascending
<1>13. QED BY <1>8, <1>11, <1>12 DEF q, ps, a, s, rest


(***************************************************************************)
(* Reading.                                                                *)
(***************************************************************************)
Answer == [length : Int, partial : BOOLEAN, first : Nat, last : Int, sum : BOOLEAN]
Stream == [at : Nat, offset : Nat, start : Nat, left : Int]
Ends == {"row", "serve", "stream", "served", "broken", "refused", "failed", "listed"}

Typed ==
  /\ obj \in Row /\ ask \in Ask /\ (ask.kind \in {"attributes", "parts"} => ask.max > 0)
  /\ pc \in Ends /\ answer \in Answer /\ stream \in Stream

Asked == parseRangeSpec(ask.range)
Total == Asked.end - Asked.start + 1

\* What was sent is the beginning of the range, which is the range of the headers.
Sending ==
  /\ Asked.satisfiable
  /\ answer.length = Total /\ answer.first = Asked.start /\ answer.last = Asked.end
  /\ Len(sent) <= Total
  /\ sent = SubSeq(content, Asked.start + 1, Asked.start + Len(sent))
  /\ pc = "served" => Len(sent) = Total

\* The loop is at the beginning of a part. It is where the next byte is, or not past the range yet.
Streaming ==
  /\ obj.parts # <<>>
  /\ stream.at \in 1..(Len(obj.parts) + 1) /\ stream.offset = Before(obj.parts, stream.at - 1)
  /\ stream.start = Asked.start /\ stream.left = Total - Len(sent)
  /\ stream.left > 0 => \/ stream.offset = Asked.start + Len(sent)
                        \/ stream.offset <= Asked.start /\ Len(sent) = 0

Nothing == obj.parts = <<>> /\ size = 0 /\ sent = <<>> /\ answer.length = 0 /\ ~answer.partial

ReadInv ==
  /\ sent \in Seq(Bytes)
  /\ pc \notin {"stream", "served", "broken"} => sent = <<>>
  /\ pc \in {"row", "serve"} => ~answer.partial /\ stream.at = 1 /\ stream.offset = 0
  /\ answer.sum => ask.part = 0 /\ ask.range.form = "none"
  /\ pc \in {"serve", "stream", "served", "broken", "refused"} => Resolved
  /\ pc = "stream" => ask.kind = "get" /\ Streaming
  /\ ask.kind = "get" =>
       /\ pc = "refused" => NoSuchPart \/ ~Asked.satisfiable \/ IllFormed
       /\ pc \in {"stream", "broken"} => Sending
       /\ pc = "served" => Sending \/ Nothing

ReadsInv == Typed /\ ReadInv /\ ListInv

\* What depends on the object and the request only.
LEMMA SameRequest ==
  ASSUME UNCHANGED <<obj, ask>>
  PROVE  /\ size' = size /\ content' = content /\ Asked' = Asked /\ Total' = Total
         /\ Resolved' <=> Resolved
         /\ NoSuchPart' <=> NoSuchPart
         /\ IllFormed' <=> IllFormed
<1>1. size' = size BY DEF size
<1>2. content' = content BY DEF content
<1>3. Asked' = Asked BY <1>1 DEF Asked, parseRangeSpec
<1>4. Total' = Total BY <1>3 DEF Total
<1>5. Resolved' <=> Resolved BY DEF Resolved, EmptyPart
<1>6. (NoSuchPart' <=> NoSuchPart) /\ (IllFormed' <=> IllFormed) BY DEF NoSuchPart, IllFormed
<1>7. QED BY <1>1, <1>2, <1>3, <1>4, <1>5, <1>6

\* Reading leaves the listing alone.
LEMMA KeepsListInv ==
  ASSUME ListInv, UNCHANGED <<obj, listed, marker, began>>, pc' = "row" => pc = "row", pc' = "listed" => pc = "listed"
  PROVE  ListInv'
<1>1. (Present' = Present) /\ Listed' = Listed BY DEF Present, Listed
<1>2. obj' \in Row /\ Ascending(obj'.parts) BY DEF ListInv
<1>3. QED BY <1>1, <1>2 DEF ListInv

\* Listing leaves the reading alone.
LEMMA KeepsReadInv ==
  ASSUME ReadInv, pc = "row", pc' \in {"row", "listed"}, UNCHANGED <<ask, answer, sent, stream>>
  PROVE  ReadInv'
BY DEF ReadInv

LEMMA InitReadsInv == Init => ReadsInv
<1> SUFFICES ASSUME Init PROVE ReadsInv OBVIOUS
<1>1. /\ ask \in Asks /\ pc = "row" /\ answer = NoAnswer /\ sent = <<>>
      /\ stream = [at |-> 1, offset |-> 0, start |-> 0, left |-> 0]
      /\ listed = <<>> /\ marker = 0 /\ began = Present
  BY DEF Init, Present
<1>2. obj \in Row /\ obj.parts \in Parts \cup {<<>>}
  <2>1. \A ps \in Parts : ps \in Seq(Part) BY ReadsAssumption
  <2>2. Sizes \subseteq Nat /\ <<>> \in Seq(Part) BY ReadsAssumption
  <2>3. CASE obj \in [parts : Parts \ {<<>>}, size : {0}, sum : {FALSE}]
    <3> DEFINE Some == Parts \ {<<>>}
               None == {0}
               No == {FALSE}
    <3>1. obj \in [parts : Some, size : None, sum : No] BY <2>3
    <3>2. Some \subseteq Parts /\ None \subseteq Nat /\ No \subseteq BOOLEAN OBVIOUS
    <3> HIDE DEF Some, None, No
    <3>3. obj \in [parts : Seq(Part), size : Nat, sum : BOOLEAN] /\ obj.parts \in Some BY <2>1, <3>1, <3>2
    <3>4. QED BY <3>2, <3>3 DEF Row
  <2>4. CASE obj \in [parts : {<<>>}, size : Sizes, sum : BOOLEAN] BY <2>2, <2>4 DEF Row
  <2>5. QED BY <2>3, <2>4 DEF Init
<1>3. Ascending(obj.parts)
  <2>1. CASE obj.parts \in Parts BY <2>1, ReadsAssumption DEF Ascending
  <2>2. CASE obj.parts = <<>> BY <2>2 DEF Ascending
  <2>3. QED BY <1>2, <2>1, <2>2
<1>4. ask \in Ask /\ (ask.kind \in {"attributes", "parts"} => ask.max > 0) BY <1>1, ReadsAssumption
<1>5. answer \in Answer /\ ~answer.sum /\ ~answer.partial BY <1>1 DEF NoAnswer, Answer
<1>6. stream \in Stream BY <1>1 DEF Stream
<1>7. Typed BY <1>1, <1>2, <1>4, <1>5, <1>6 DEF Typed, Ends
<1>8. ReadInv BY <1>1, <1>5 DEF ReadInv
<1>9. began \subseteq Nat
  <2>1. obj.parts \in Seq(Part) BY <1>2 DEF Row
  <2>2. \A i \in DOMAIN obj.parts : obj.parts[i].number \in Nat BY <2>1, PartsTyped
  <2>3. QED BY <1>1, <2>2 DEF Present
<1>10. \A m \in began : ~(m <= marker)
  <2>1. obj.parts \in Seq(Part) BY <1>2 DEF Row
  <2>2. \A i \in DOMAIN obj.parts : obj.parts[i].number \in Nat \ {0} BY <2>1, PartsTyped
  <2>3. QED BY <1>1, <2>2 DEF Present
<1>11. ListInv BY <1>1, <1>2, <1>3, <1>9, <1>10 DEF ListInv
<1>12. QED BY <1>7, <1>8, <1>11 DEF ReadsInv

(***************************************************************************)
(* The listing actions.                                                    *)
(***************************************************************************)
\* A page is the parts of rest up to the k-th, and there is another if there are more.
LEMMA PagedKeeps ==
  ASSUME ReadsInv, pc = "row", NEW k \in Nat, NEW page, page = SubSeq(After(marker), 1, k), k <= Len(After(marker)),
         NEW rest, Paged(page, rest),
         Len(rest) > Len(page) => k > 0,
         ~(Len(rest) > Len(page)) => k = Len(After(marker))
  PROVE  ReadsInv'
<1> DEFINE all == After(marker)
<1>1. all \in Seq(Part) /\ Len(all) \in Nat BY AfterIs DEF ReadsInv, ListInv
<1>2. page \in Seq(Part) /\ Len(page) = k /\ \A i \in 1..k : page[i] = all[i] BY <1>1
<1>3. /\ listed' = listed \o NumbersOf(page)
      /\ IF Len(rest) > Len(page) THEN marker' = Last(page).number /\ UNCHANGED pc
         ELSE pc' = "listed" /\ UNCHANGED marker
      /\ UNCHANGED <<obj, ask, answer, sent, stream, began>>
  BY DEF Paged, NextMarker
<1>4. k \in 0..Len(all) BY <1>1
<1>5. Len(rest) > Len(page) => k > 0 /\ marker' = all[k].number /\ pc' = pc
  <2> SUFFICES ASSUME Len(rest) > Len(page) PROVE k > 0 /\ marker' = all[k].number /\ pc' = pc OBVIOUS
  <2>1. k > 0 /\ k \in 1..k OBVIOUS
  <2>2. Last(page) = all[k] BY <1>2, <2>1 DEF Last
  <2>3. QED BY <1>3, <2>1, <2>2
<1>6. ~(Len(rest) > Len(page)) => k = Len(all) /\ pc' = "listed" /\ marker' = marker BY <1>3
<1>7. ListInv'
  <2>1. \/ k > 0 /\ marker' = all[k].number /\ pc' = pc
        \/ k = Len(all) /\ pc' = "listed" /\ marker' = marker
    BY <1>5, <1>6
  <2>2. listed' = listed \o NumbersOf(SubSeq(all, 1, k)) BY <1>3
  <2>3. UNCHANGED <<obj, began>> BY <1>3
  <2>4. QED BY <1>4, <2>1, <2>2, <2>3, PageStep DEF ReadsInv
<1>8. pc' \in {"row", "listed"} BY <1>3
<1>9. ReadInv' BY <1>3, <1>8, KeepsReadInv DEF ReadsInv
<1>10. Typed' BY <1>3, <1>8 DEF Typed, ReadsInv, Ends
<1>11. QED BY <1>7, <1>9, <1>10 DEF ReadsInv

LEMMA ListingKeeps ==
  ASSUME ReadsInv, ListAttributes \/ ListParts \/ PutPart
  PROVE  ReadsInv'
<1> DEFINE all == After(marker)
           n == Len(all)
<1>0. ask \in Ask /\ obj \in Row /\ Ascending(obj.parts) /\ marker \in Nat BY DEF ReadsInv, Typed, ListInv
<1>1. all \in Seq(Part) /\ n \in Nat BY <1>0, AfterIs
<1>2. ask.max \in Nat BY <1>0 DEF Ask
<1> HIDE DEF all, n
<1>3. CASE ListAttributes
  <2> DEFINE k == Min({ask.max, n})
  <2>1. pc = "row" /\ ask.max > 0 BY <1>3 DEF ListAttributes, ReadsInv, Typed
  <2>2. k = IF ask.max <= n THEN ask.max ELSE n
    <3>1. ask.max \in Int /\ n \in Int BY <1>1, <1>2
    <3>2. QED BY <3>1, MinMax, Zenon
  <2>3. Paged(SubSeq(all, 1, k), all) BY <1>3 DEF ListAttributes, all, n
  <2> HIDE DEF k
  <2>4. k \in Nat /\ k <= n /\ (n > k => k > 0) /\ (~(n > k) => k = n) BY <1>1, <1>2, <2>1, <2>2
  <2>5. Len(SubSeq(all, 1, k)) = k BY <1>1, <2>4 DEF n
  <2>6. QED BY <2>1, <2>3, <2>4, <2>5, PagedKeeps DEF all, n
<1>4. CASE ListParts
  <2> DEFINE j == Min({ask.max + 1, n})
             rows == SubSeq(all, 1, j)
             k == Min({ask.max, Len(rows)})
  <2>1. pc = "row" /\ ask.max > 0 BY <1>4 DEF ListParts, ReadsInv, Typed
  <2>2. j = IF ask.max + 1 <= n THEN ask.max + 1 ELSE n
    <3>1. ask.max + 1 \in Int /\ n \in Int BY <1>1, <1>2
    <3>2. QED BY <3>1, MinMax, Zenon
  <2>3. Paged(SubSeq(rows, 1, k), rows) BY <1>4 DEF ListParts, all, n
  <2>4. j \in Nat /\ j <= n /\ j <= ask.max + 1 /\ (j < ask.max + 1 => j = n) BY <1>1, <1>2, <2>2
  <2> HIDE DEF j
  <2>5. rows \in Seq(Part) /\ Len(rows) = j /\ \A i \in 1..j : rows[i] = all[i] BY <1>1, <2>4 DEF n
  <2> HIDE DEF rows
  <2>6. k = IF ask.max <= j THEN ask.max ELSE j
    <3>1. ask.max \in Int /\ j \in Int BY <1>2, <2>4
    <3>2. k = Min({ask.max, j}) BY <2>5
    <3>3. Min({ask.max, j}) = IF ask.max <= j THEN ask.max ELSE j BY <3>1, MinMax, Zenon
    <3>4. QED BY <3>2, <3>3
  <2> HIDE DEF k
  <2>7. k \in Nat /\ k <= n /\ k <= j /\ (j > k => k > 0) /\ (~(j > k) => k = n)
    BY <1>1, <1>2, <2>1, <2>4, <2>6
  <2>8. SubSeq(rows, 1, k) = SubSeq(all, 1, k)
    <3>1. SubSeq(rows, 1, k) = [i \in 1..k |-> rows[i]] BY <2>5, <2>7
    <3>2. SubSeq(all, 1, k) = [i \in 1..k |-> all[i]] BY <1>1, <2>7 DEF n
    <3>3. \A i \in 1..k : i \in 1..j BY <2>4, <2>7
    <3>4. QED BY <2>5, <3>1, <3>2, <3>3
  <2>9. Len(SubSeq(all, 1, k)) = k BY <1>1, <2>7 DEF n
  <2>10. QED BY <2>1, <2>3, <2>5, <2>7, <2>8, <2>9, PagedKeeps DEF all, n
<1>5. CASE PutPart
  <2>1. PICK m \in Numbers, s \in Sizes :
          obj' = [obj EXCEPT !.parts = SubSeq(@, 1, UpTo(m - 1)) \o <<[number |-> m, size |-> s]>> \o After(m)]
    BY <1>5 DEF PutPart
  <2> DEFINE x == [number |-> m, size |-> s]
             q == SubSeq(obj.parts, 1, UpTo(m - 1)) \o <<x>> \o After(m)
  <2>2. m \in Nat \ {0} /\ x \in Part /\ x.number = m BY ReadsAssumption DEF Part
  <2>3. q \in Seq(Part) /\ Ascending(q) /\ \A i \in 1..Len(obj.parts) : \E j \in DOMAIN q : q[j].number = obj.parts[i].number
    BY <1>0, <2>2, PutIs
  <2>4. obj' = [obj EXCEPT !.parts = q] BY <2>1
  <2>5. pc = "row" /\ UNCHANGED <<ask, pc, answer, sent, stream, listed, marker, began>> BY <1>5 DEF PutPart
  <2> HIDE DEF q
  <2>6. obj' \in Row /\ obj'.parts = q BY <1>0, <2>3, <2>4 DEF Row
  <2>7. Present \subseteq Present'
    <3>1. obj.parts \in Seq(Part) BY <1>0 DEF Row
    <3>2. DOMAIN obj.parts = 1..Len(obj.parts) BY <3>1
    <3>3. QED BY <2>3, <2>6, <3>2 DEF Present
  <2>8. Listed' = Listed BY <2>5 DEF Listed
  <2>9. Ascending(obj'.parts) BY <2>3, <2>6
  <2>10. ListInv' BY <2>5, <2>6, <2>7, <2>8, <2>9 DEF ListInv, ReadsInv
  <2>11. ReadInv' BY <2>5, KeepsReadInv DEF ReadsInv
  <2>12. Typed' BY <2>5, <2>6 DEF Typed, ReadsInv
  <2>13. QED BY <2>10, <2>11, <2>12 DEF ReadsInv
<1>6. QED BY <1>3, <1>4, <1>5

(***************************************************************************)
(* The reading actions.                                                    *)
(***************************************************************************)
LEMMA AskedIs ==
  ASSUME Typed
  PROVE  /\ Asked.satisfiable => /\ Asked.start \in Nat /\ Asked.end \in Int /\ Asked.start <= Asked.end + 1
                                 /\ Asked.end < size /\ Total \in Nat /\ Asked.ok \in BOOLEAN
         /\ size \in Nat /\ content \in Seq(Bytes) /\ Len(content) = size
<1>1. obj \in Row /\ ask.range \in RangeSpec BY DEF Typed, Ask
<1>2. Asked.satisfiable => /\ Asked.start \in Nat /\ Asked.end \in Int /\ Asked.start <= Asked.end + 1
                           /\ Asked.end < size /\ Asked.ok \in BOOLEAN
  BY <1>1, ParseIs DEF Asked
<1>3. Asked.satisfiable => Total \in Nat BY <1>2 DEF Total
<1>4. QED BY <1>1, <1>2, <1>3, ContentIs

\* A part number becomes the range its part takes.
LEMMA PartRange ==
  ASSUME Typed, ask.part > 0, ~NoSuchPart
  PROVE  /\ preparePartRequest \in RangeSpec
         /\ ask.part \in DOMAIN obj.parts /\ obj.parts[ask.part].size # 0 =>
              /\ preparePartRequest.form = "span"
              /\ preparePartRequest.first = Before(obj.parts, ask.part - 1)
              /\ preparePartRequest.last = Before(obj.parts, ask.part - 1) + obj.parts[ask.part].size - 1
<1> DEFINE n == ask.part
           ps == obj.parts
           r == preparePartRequest
<1>1. n \in Nat /\ ask.range \in RangeSpec /\ ps \in Seq(Part) BY DEF Typed, Ask, Row
<1>2. Len(ps) \in Nat /\ DOMAIN ps = 1..Len(ps) BY <1>1
<1>3. CASE ps = <<>>
  <2>1. r = (IF size > 0 THEN [ask.range EXCEPT !.form = "from", !.first = 0] ELSE ask.range) BY <1>3 DEF preparePartRequest
  <2>2. [ask.range EXCEPT !.form = "from", !.first = 0] \in RangeSpec BY <1>1 DEF RangeSpec, Forms
  <2>3. n \notin DOMAIN ps BY <1>3
  <2>4. QED BY <1>1, <2>1, <2>2, <2>3
<1>4. CASE ps # <<>>
  <2>1. n \in 1..Len(ps)
    <3>1. Max({1, Len(ps)}) = IF 1 >= Len(ps) THEN 1 ELSE Len(ps)
      <4>1. 1 \in Int /\ Len(ps) \in Int BY <1>2
      <4>2. QED BY <4>1, MinMax, Zenon
    <3>2. Len(ps) >= 1 BY <1>1, <1>4
    <3>3. ~(n > Max({1, Len(ps)})) BY DEF NoSuchPart
    <3>4. QED BY <1>1, <1>2, <3>1, <3>2, <3>3
  <2> DEFINE from == Before(ps, n - 1)
             z == ps[n].size
  <2>2. from \in Nat /\ z \in Nat
    <3>1. n - 1 \in 0..Len(ps) BY <1>2, <2>1
    <3>2. QED BY <1>1, <2>1, <3>1, BeforeIs, PartsTyped
  <2>3. r = IF z > 0 THEN [form |-> "span", first |-> from, last |-> from + z - 1] ELSE ask.range
    BY <1>4 DEF preparePartRequest, Before
  <2> HIDE DEF from, z, r
  <2>4. CASE z > 0
    <3>1. from + z - 1 \in Nat BY <2>2, <2>4
    <3>2. r = [form |-> "span", first |-> from, last |-> from + z - 1] BY <2>3, <2>4
    <3>3. r \in RangeSpec BY <2>2, <3>1, <3>2 DEF RangeSpec, Forms
    <3>4. QED BY <3>2, <3>3 DEF from, z, r
  <2>5. CASE ~(z > 0)
    <3>1. r \in RangeSpec /\ z = 0 BY <1>1, <2>2, <2>3, <2>5
    <3>2. QED BY <3>1 DEF z, r
  <2>6. QED BY <2>4, <2>5
<1>5. QED BY <1>3, <1>4

LEMMA PrepareKeeps ==
  ASSUME ReadsInv, Prepare
  PROVE  ReadsInv'
<1>1. pc = "row" /\ UNCHANGED <<obj, sent, stream, listed, marker, began>> /\ sent = <<>>
  BY DEF Prepare, ReadsInv, ReadInv
<1>2. Typed /\ ask \in Ask /\ answer \in Answer /\ ~answer.partial BY <1>1 DEF ReadsInv, ReadInv, Typed
<1>3. ask.kind \in {"get", "head"} BY DEF Prepare
<1>4. CASE ~checkConditionals
  <2>1. pc' = "failed" /\ UNCHANGED <<answer, ask>> BY <1>4 DEF Prepare
  <2>2. ListInv' BY <1>1, <2>1, KeepsListInv DEF ReadsInv
  <2>3. Typed' BY <1>1, <2>1 DEF ReadsInv, Typed, Ends
  <2>4. ReadInv' BY <1>1, <2>1 DEF ReadsInv, ReadInv
  <2>5. QED BY <2>2, <2>3, <2>4 DEF ReadsInv
<1>5. CASE checkConditionals
  <2>1. /\ answer' = [answer EXCEPT !.sum = withChecksum]
        /\ pc' = IF NoSuchPart THEN "refused" ELSE "serve"
        /\ ask' = IF ask.part > 0 /\ ~NoSuchPart THEN [ask EXCEPT !.range = preparePartRequest] ELSE ask
    BY <1>5 DEF Prepare
  <2>2. pc' \in {"refused", "serve"} BY <2>1
  <2>3. ListInv' BY <1>1, <2>2, KeepsListInv DEF ReadsInv
  <2>4. withChecksum \in BOOLEAN BY DEF withChecksum
  <2>5. answer' \in Answer /\ ~answer'.partial /\ (answer'.sum <=> withChecksum)
    <3> DEFINE sum == withChecksum
    <3>1. sum \in BOOLEAN /\ answer' = [answer EXCEPT !.sum = sum] BY <2>1, <2>4
    <3> HIDE DEF sum
    <3>2. answer' \in Answer /\ ~answer'.partial /\ answer'.sum = sum BY <1>2, <3>1 DEF Answer
    <3>3. QED BY <3>2 DEF sum
  <2>6. ask' \in Ask /\ ask'.part = ask.part /\ ask'.kind = ask.kind /\ (ask.part = 0 => ask'.range = ask.range)
    <3>1. CASE ask.part > 0 /\ ~NoSuchPart
      <4>1. preparePartRequest \in RangeSpec BY <1>2, <3>1, PartRange
      <4>2. ask' = [ask EXCEPT !.range = preparePartRequest] BY <2>1, <3>1
      <4> DEFINE r == preparePartRequest
      <4> HIDE DEF r
      <4>3. r \in RangeSpec /\ ask' = [ask EXCEPT !.range = r] BY <4>1, <4>2 DEF r
      <4>4. ask' \in Ask /\ ask'.part = ask.part /\ ask'.kind = ask.kind BY <1>2, <4>3 DEF Ask
      <4>5. QED BY <3>1, <4>4
    <3>2. CASE ~(ask.part > 0 /\ ~NoSuchPart) BY <1>2, <2>1, <3>2
    <3>3. QED BY <3>1, <3>2
  <2>7. Resolved'
    <3> SUFFICES ASSUME ask.part \in DOMAIN obj.parts, obj.parts[ask.part].size # 0
                 PROVE  /\ ask'.range.form = "span" /\ ask'.range.first = Before(obj.parts, ask.part - 1)
                        /\ ask'.range.last = Before(obj.parts, ask.part - 1) + obj.parts[ask.part].size - 1
      BY <1>1, <2>6, ZenonT(60) DEF Resolved, EmptyPart, Before, Sum
    <3>1. obj.parts \in Seq(Part) /\ ask.part \in Nat BY <1>2 DEF Typed, Row, Ask
    <3>2. ask.part > 0 /\ ask.part <= Len(obj.parts) /\ Len(obj.parts) \in Nat BY <3>1
    <3>3. ~NoSuchPart
      <4>1. Max({1, Len(obj.parts)}) = IF 1 >= Len(obj.parts) THEN 1 ELSE Len(obj.parts)
        <5>1. 1 \in Int /\ Len(obj.parts) \in Int BY <3>2
        <5>2. QED BY <5>1, MinMax, Zenon
      <4>2. QED BY <3>1, <3>2, <4>1 DEF NoSuchPart
    <3>4. ask'.range = preparePartRequest
      <4>1. ask' = [ask EXCEPT !.range = preparePartRequest] BY <2>1, <3>2, <3>3
      <4>2. QED BY <1>2, <4>1 DEF Ask
    <3>5. QED BY <1>2, <3>2, <3>3, <3>4, PartRange
  <2>8. pc' = "refused" => NoSuchPart'
    <3>1. pc' = "refused" => NoSuchPart /\ ask' = ask BY <2>1
    <3>2. QED BY <1>1, <3>1 DEF NoSuchPart
  <2>9. answer'.sum => ask'.part = 0 /\ ask'.range.form = "none"
    BY <2>5, <2>6 DEF withChecksum
  <2>10. Typed'
    <3>1. obj' \in Row /\ stream' \in Stream BY <1>1 DEF ReadsInv, Typed
    <3>2. QED BY <1>3, <2>2, <2>5, <2>6, <3>1 DEF Typed, Ends
  <2>11. ReadInv' BY <1>1, <2>2, <2>5, <2>7, <2>8, <2>9 DEF ReadsInv, ReadInv
  <2>12. QED BY <2>3, <2>10, <2>11 DEF ReadsInv
<1>6. QED BY <1>4, <1>5

\* A cut of the content, and what there is of it.
LEMMA CutIs ==
  ASSUME NEW c \in Seq(Bytes), NEW a \in Nat, NEW n \in Nat, a + n <= Len(c)
  PROVE  /\ SubSeq(c, a + 1, a + n) \in Seq(Bytes) /\ Len(SubSeq(c, a + 1, a + n)) = n
         /\ \A m \in 0..n : SubSeq(SubSeq(c, a + 1, a + n), 1, m) = SubSeq(c, a + 1, a + m)
<1> DEFINE s(m) == SubSeq(c, a + 1, a + m)
<1>1. ASSUME NEW m \in 0..n
      PROVE  s(m) \in Seq(Bytes) /\ Len(s(m)) = m /\ \A k \in 1..m : s(m)[k] = c[a + k]
  <2>1. Len(c) \in Nat /\ \A k \in 1..Len(c) : c[k] \in Bytes OBVIOUS
  <2>2. m \in Nat /\ \A k \in (a + 1)..(a + m) : k \in 1..Len(c) BY <2>1
  <2>3. \A k \in (a + 1)..(a + m) : c[k] \in Bytes BY <2>1, <2>2
  <2>4. a + 1 \in Int /\ a + m \in Int /\ (a + m) - (a + 1) + 1 = m /\ (IF a + 1 <= a + m THEN (a + m) - (a + 1) + 1 ELSE 0) = m
    BY <2>2
  <2>5. s(m) \in Seq(Bytes) /\ Len(s(m)) = m /\ \A k \in 1..((a + m) - (a + 1) + 1) : s(m)[k] = c[(a + 1) + k - 1]
    BY <2>3, <2>4, SubSeqProperties
  <2>6. \A k \in 1..m : (a + 1) + k - 1 = a + k BY <2>2
  <2> HIDE DEF s
  <2>7. QED BY <2>4, <2>5, <2>6
<1> HIDE DEF s
<1>2. n \in 0..n OBVIOUS
<1>3. ASSUME NEW m \in 0..n PROVE SubSeq(s(n), 1, m) = s(m)
  <2> DEFINE t == SubSeq(s(n), 1, m)
  <2>1. s(n) \in Seq(Bytes) /\ Len(s(n)) = n /\ \A k \in 1..n : s(n)[k] = c[a + k] BY <1>1, <1>2
  <2>2. t \in Seq(Bytes) /\ Len(t) = m /\ \A k \in 1..m : t[k] = s(n)[k] BY <2>1
  <2> HIDE DEF t
  <2>3. s(m) \in Seq(Bytes) /\ Len(s(m)) = m /\ \A k \in 1..m : s(m)[k] = c[a + k] BY <1>1
  <2>4. \A k \in 1..m : t[k] = s(m)[k] BY <2>1, <2>2, <2>3
  <2>5. t = s(m) BY <2>2, <2>3, <2>4, SeqEqual
  <2>6. QED BY <2>5 DEF t
<1>4. QED BY <1>1, <1>2, <1>3 DEF s

LEMMA ServeHeadKeeps ==
  ASSUME ReadsInv, ServeHead
  PROVE  ReadsInv'
<1>1. /\ pc = "serve" /\ pc' = "served" /\ answer' = [answer EXCEPT !.length = size]
      /\ UNCHANGED <<obj, ask, sent, stream, listed, marker, began>>
      /\ ask.kind = "head" \/ (obj.parts = <<>> /\ size = 0)
  BY DEF ServeHead
<1>2. sent = <<>> /\ answer \in Answer /\ ~answer.partial /\ size \in Nat
  BY <1>1, AskedIs DEF ReadsInv, ReadInv, Typed
<1>3. answer' \in Answer /\ answer'.length = size /\ ~answer'.partial /\ (answer'.sum <=> answer.sum)
  <2> DEFINE z == size
  <2>1. z \in Nat /\ answer' = [answer EXCEPT !.length = z] BY <1>1, <1>2
  <2> HIDE DEF z
  <2>2. answer' \in Answer /\ answer'.length = z /\ ~answer'.partial /\ answer'.sum = answer.sum BY <1>2, <2>1 DEF Answer
  <2>3. QED BY <2>2 DEF z
<1>4. size' = size /\ Resolved' BY <1>1, SameRequest DEF ReadsInv, ReadInv
<1>5. ListInv' BY <1>1, KeepsListInv DEF ReadsInv
<1>6. Typed' BY <1>1, <1>3 DEF ReadsInv, Typed, Ends
<1>7. ask.kind = "get" => Nothing' BY <1>1, <1>2, <1>3, <1>4 DEF Nothing
<1>8. ReadInv' BY <1>1, <1>2, <1>3, <1>4, <1>7 DEF ReadsInv, ReadInv
<1>9. QED BY <1>5, <1>6, <1>8 DEF ReadsInv

\* The headers say how long the range is and where.
LEMMA HeadersAre ==
  ASSUME Typed, Asked.satisfiable, answer' = Headers(Asked)
  PROVE  /\ answer' \in Answer /\ answer'.length = Total /\ answer'.first = Asked.start /\ answer'.last = Asked.end
         /\ answer'.sum <=> answer.sum
<1> DEFINE l == Asked.end - Asked.start + 1
           ok == Asked.ok
           f == Asked.start
           e == Asked.end
<1>1. l \in Nat /\ ok \in BOOLEAN /\ f \in Nat /\ e \in Int /\ l = Total BY AskedIs DEF Total
<1>2. answer' = [answer EXCEPT !.length = l, !.partial = ok, !.first = f, !.last = e] BY DEF Headers
<1>3. answer \in Answer BY DEF Typed
<1> HIDE DEF l, ok, f, e
<1>4. answer' = [length |-> l, partial |-> ok, first |-> f, last |-> e, sum |-> answer.sum] /\ answer.sum \in BOOLEAN
  BY <1>2, <1>3 DEF Answer
<1> DEFINE now == answer'
<1> HIDE DEF now
<1>5. now = [length |-> l, partial |-> ok, first |-> f, last |-> e, sum |-> answer.sum] BY <1>4 DEF now
<1>6. now.length = l /\ now.first = f /\ now.last = e /\ now.sum = answer.sum BY <1>5
<1>7. now \in Answer BY <1>1, <1>4, <1>5 DEF Answer
<1>8. QED BY <1>1, <1>6, <1>7 DEF f, e, now

LEMMA ServeSimpleKeeps ==
  ASSUME ReadsInv, ServeSimple
  PROVE  ReadsInv'
<1>1. /\ pc = "serve" /\ ask.kind = "get" /\ UNCHANGED <<obj, ask, stream, listed, marker, began>>
      /\ \/ (~Asked.satisfiable \/ IllFormed) /\ pc' = "refused" /\ UNCHANGED <<answer, sent>>
         \/ pc' = "failed" /\ UNCHANGED <<answer, sent>>
         \/ /\ Asked.satisfiable /\ answer' = Headers(Asked)
            /\ \E n \in 0..(Asked.end - Asked.start + 1) :
                 /\ sent' = SubSeq(content, Asked.start + 1, Asked.start + n)
                 /\ pc' = IF n = Asked.end - Asked.start + 1 THEN "served" ELSE "broken"
  BY DEF ServeSimple, Asked
<1>2. Typed /\ sent = <<>> /\ sent \in Seq(Bytes) /\ Resolved /\ ~answer.partial BY <1>1 DEF ReadsInv, ReadInv
<1>3. /\ size' = size /\ content' = content /\ Asked' = Asked /\ Total' = Total /\ Resolved'
      /\ IllFormed' <=> IllFormed
  BY <1>1, <1>2, SameRequest
<1>4. pc' \in {"refused", "failed", "served", "broken"} BY <1>1
<1>5. ListInv' BY <1>1, <1>4, KeepsListInv DEF ReadsInv
<1>6. CASE pc' \in {"refused", "failed"}
  <2>1. UNCHANGED <<answer, sent>> /\ (pc' = "refused" => ~Asked.satisfiable \/ IllFormed) BY <1>1, <1>6
  <2>2. Typed' BY <1>1, <1>2, <1>4, <2>1 DEF Typed, Ends
  <2>3. ReadInv' BY <1>1, <1>2, <1>3, <1>6, <2>1 DEF ReadsInv, ReadInv
  <2>4. QED BY <1>5, <2>2, <2>3 DEF ReadsInv
<1>7. CASE pc' \in {"served", "broken"}
  <2>1. Asked.satisfiable /\ answer' = Headers(Asked) BY <1>1, <1>7
  <2>2. PICK n \in 0..(Asked.end - Asked.start + 1) :
          /\ sent' = SubSeq(content, Asked.start + 1, Asked.start + n)
          /\ pc' = IF n = Asked.end - Asked.start + 1 THEN "served" ELSE "broken"
    BY <1>1, <1>7
  <2>3. /\ answer' \in Answer /\ answer'.length = Total /\ answer'.first = Asked.start /\ answer'.last = Asked.end
        /\ answer'.sum <=> answer.sum
    BY <1>2, <2>1, HeadersAre
  <2>4. /\ Asked.start \in Nat /\ Asked.end \in Int /\ Asked.end < size /\ Total \in Nat /\ Total = Asked.end - Asked.start + 1
        /\ size \in Nat /\ content \in Seq(Bytes) /\ Len(content) = size
    BY <1>2, <2>1, AskedIs DEF Total
  <2>5. n \in Nat /\ n <= Total /\ Asked.start + n <= Len(content) BY <2>4
  <2>6. sent' \in Seq(Bytes) /\ Len(sent') = n BY <2>2, <2>4, <2>5, CutIs
  <2>7. Sending'
    <3>1. answer'.length = Total' /\ answer'.first = Asked'.start /\ answer'.last = Asked'.end /\ Asked'.satisfiable
      BY <1>3, <2>1, <2>3
    <3>2. Len(sent') <= Total' BY <1>3, <2>5, <2>6
    <3>3. sent' = SubSeq(content', Asked'.start + 1, Asked'.start + Len(sent')) BY <1>3, <2>2, <2>6
    <3>4. pc' = "served" => Len(sent') = Total' BY <1>3, <2>2, <2>4, <2>6
    <3>5. QED BY <3>1, <3>2, <3>3, <3>4 DEF Sending
  <2>8. Typed' BY <1>1, <1>2, <1>4, <2>3 DEF Typed, Ends
  <2>9. answer'.sum => ask'.part = 0 /\ ask'.range.form = "none" BY <1>1, <2>3 DEF ReadsInv, ReadInv
  <2>10. ReadInv' BY <1>1, <1>3, <1>7, <2>6, <2>7, <2>9 DEF ReadInv
  <2>11. QED BY <1>5, <2>8, <2>10 DEF ReadsInv
<1>8. QED BY <1>4, <1>6, <1>7

LEMMA StartCompositeKeeps ==
  ASSUME ReadsInv, StartComposite
  PROVE  ReadsInv'
<1>1. /\ pc = "serve" /\ ask.kind = "get" /\ obj.parts # <<>> /\ UNCHANGED <<obj, ask, sent, listed, marker, began>>
      /\ IF ~Asked.satisfiable THEN pc' = "refused" /\ UNCHANGED <<answer, stream>>
         ELSE /\ answer' = Headers(Asked) /\ pc' = "stream"
              /\ stream' = [stream EXCEPT !.start = Asked.start, !.left = Asked.end - Asked.start + 1]
  BY DEF StartComposite, Asked
<1>2. Typed /\ sent = <<>> /\ sent \in Seq(Bytes) /\ Resolved /\ ~answer.partial BY <1>1 DEF ReadsInv, ReadInv
<1>3. size' = size /\ content' = content /\ Asked' = Asked /\ Total' = Total /\ Resolved'
  BY <1>1, <1>2, SameRequest
<1>5. pc' \in {"refused", "stream"} BY <1>1
<1>6. ListInv' BY <1>1, <1>5, KeepsListInv DEF ReadsInv
<1>7. CASE ~Asked.satisfiable
  <2>1. UNCHANGED <<answer, stream>> /\ pc' = "refused" BY <1>1, <1>7
  <2>2. Typed' BY <1>1, <1>2, <1>5, <2>1 DEF Typed, Ends
  <2>3. ReadInv' BY <1>1, <1>2, <1>3, <1>7, <2>1 DEF ReadsInv, ReadInv
  <2>4. QED BY <1>6, <2>2, <2>3 DEF ReadsInv
<1>8. CASE Asked.satisfiable
  <2>1. /\ answer' = Headers(Asked) /\ pc' = "stream"
        /\ stream' = [stream EXCEPT !.start = Asked.start, !.left = Asked.end - Asked.start + 1]
    BY <1>1, <1>8
  <2>2. /\ answer' \in Answer /\ answer'.length = Total /\ answer'.first = Asked.start /\ answer'.last = Asked.end
        /\ answer'.sum <=> answer.sum
    BY <1>2, <1>8, <2>1, HeadersAre
  <2>3. /\ Asked.start \in Nat /\ Asked.end \in Int /\ Asked.end < size /\ Total \in Nat /\ Total = Asked.end - Asked.start + 1
        /\ size \in Nat /\ content \in Seq(Bytes) /\ Len(content) = size
    BY <1>2, <1>8, AskedIs DEF Total
  <2>4. Len(sent) = 0 /\ sent = SubSeq(content, Asked.start + 1, Asked.start + Len(sent))
    <3>1. Len(sent) = 0 BY <1>2
    <3>2. Asked.start + 0 < Asked.start + 1 /\ Asked.start + 0 \in Int /\ Asked.start + 1 \in Int BY <2>3
    <3>3. SubSeq(content, Asked.start + 1, Asked.start + 0) = <<>> BY <3>2, SubSeqEmpty
    <3>4. QED BY <1>2, <3>1, <3>3
  <2>5. Sending' BY <1>1, <1>3, <1>8, <2>1, <2>2, <2>3, <2>4 DEF Sending
  <2>6. stream' \in Stream /\ stream'.at = 1 /\ stream'.offset = 0 /\ stream'.start = Asked.start /\ stream'.left = Total
    <3> DEFINE f == Asked.start
               l == Asked.end - Asked.start + 1
    <3>1. f \in Nat /\ l = Total /\ l \in Nat /\ stream' = [stream EXCEPT !.start = f, !.left = l] BY <2>1, <2>3
    <3>2. stream \in Stream /\ stream.at = 1 /\ stream.offset = 0 BY <1>1 DEF ReadsInv, ReadInv, Typed
    <3> HIDE DEF f, l
    <3>3. stream' = [at |-> 1, offset |-> 0, start |-> f, left |-> l] BY <3>1, <3>2 DEF Stream
    <3>4. stream'.at = 1 /\ stream'.offset = 0 /\ stream'.start = f /\ stream'.left = l BY <3>3
    <3>5. stream' \in Stream BY <3>1, <3>3 DEF Stream
    <3>6. QED BY <3>1, <3>4, <3>5 DEF f
  <2>7. Streaming'
    <3>1. obj.parts \in Seq(Part) BY <1>2 DEF Typed, Row
    <3>2. Before(obj.parts, 0) = 0 /\ Len(obj.parts) \in Nat BY <3>1, BeforeIs
    <3>3. stream'.at \in 1..(Len(obj'.parts) + 1) BY <1>1, <2>6, <3>2
    <3>4. stream'.offset = Before(obj'.parts, stream'.at - 1)
      <4>1. stream'.at - 1 = 0 /\ obj' = obj BY <1>1, <2>6
      <4>2. QED BY <2>6, <3>2, <4>1
    <3>5. sent' = sent BY <1>1
    <3>6. stream'.start = Asked'.start /\ stream'.left = Total' - Len(sent') BY <1>3, <2>3, <2>4, <2>6, <3>5
    <3>7. stream'.offset <= Asked'.start /\ Len(sent') = 0 BY <1>3, <2>3, <2>4, <2>6, <3>5
    <3>8. obj'.parts # <<>> BY <1>1
    <3>9. QED BY <3>3, <3>4, <3>6, <3>7, <3>8 DEF Streaming
  <2>8. Typed' BY <1>1, <1>2, <1>5, <2>2, <2>6 DEF Typed, Ends
  <2>9. answer'.sum => ask'.part = 0 /\ ask'.range.form = "none" BY <1>1, <2>2 DEF ReadsInv, ReadInv
  <2>10. ReadInv' BY <1>1, <1>2, <1>3, <2>1, <2>5, <2>7, <2>9 DEF ReadInv
  <2>11. QED BY <1>6, <2>8, <2>10 DEF ReadsInv
<1>9. QED BY <1>7, <1>8

LEMMA EndCompositeKeeps ==
  ASSUME ReadsInv, EndComposite
  PROVE  ReadsInv'
<1>1. /\ pc = "stream" /\ (stream.at > Len(obj.parts) \/ stream.left <= 0) /\ pc' = "served"
      /\ UNCHANGED <<obj, ask, answer, sent, stream, listed, marker, began>>
  BY DEF EndComposite
<1>2. Typed /\ ask.kind = "get" /\ Sending /\ Streaming /\ Resolved /\ sent \in Seq(Bytes)
  BY <1>1 DEF ReadsInv, ReadInv
<1>3. size' = size /\ content' = content /\ Asked' = Asked /\ Total' = Total /\ Resolved'
  BY <1>1, <1>2, SameRequest
<1>4. ListInv' BY <1>1, KeepsListInv DEF ReadsInv
<1>5. Typed' BY <1>1, <1>2 DEF Typed, Ends
<1>6. Len(sent) = Total
  <2>1. /\ Asked.start \in Nat /\ Asked.end \in Int /\ Asked.end < size /\ Total \in Nat /\ Total = Asked.end - Asked.start + 1
        /\ size \in Nat
    BY <1>2, AskedIs DEF Sending, Total
  <2>2. Len(sent) \in Nat /\ Len(sent) <= Total /\ stream.left = Total - Len(sent) BY <1>2 DEF Sending, Streaming
  <2>3. CASE stream.left <= 0 BY <2>1, <2>2, <2>3
  <2>4. CASE stream.at > Len(obj.parts) /\ ~(stream.left <= 0)
    <3>1. obj.parts \in Seq(Part) /\ obj \in Row BY <1>2 DEF Typed, Row
    <3>2. stream.at = Len(obj.parts) + 1 /\ Len(obj.parts) \in Nat BY <1>2, <2>4, <3>1 DEF Streaming
    <3>3. stream.offset = Before(obj.parts, Len(obj.parts)) BY <1>2, <3>2 DEF Streaming
    <3>4. size = Before(obj.parts, Len(obj.parts)) BY <1>2, <3>1, ContentIs DEF Streaming
    <3>5. stream.offset = Asked.start + Len(sent) \/ (stream.offset <= Asked.start /\ Len(sent) = 0)
      BY <1>2, <2>1, <2>2, <2>4 DEF Streaming
    <3>6. QED BY <2>1, <2>2, <2>4, <3>3, <3>4, <3>5
  <2>5. QED BY <1>1, <2>3, <2>4
<1>7. Sending' BY <1>1, <1>2, <1>3, <1>6 DEF Sending
<1>8. ReadInv' BY <1>1, <1>2, <1>3, <1>7 DEF ReadsInv, ReadInv
<1>9. QED BY <1>4, <1>5, <1>8 DEF ReadsInv

\* One turn of the loop: what it sends follows what was sent.
LEMMA ServePartKeeps ==
  ASSUME ReadsInv, ServePart
  PROVE  ReadsInv'
<1> DEFINE ps == obj.parts
           i == stream.at
           z == obj.parts[stream.at].size
           next == [stream EXCEPT !.at = @ + 1, !.offset = @ + z]
           Passed == z = 0 \/ stream.offset + z - 1 < stream.start
<1>1. /\ pc = "stream" /\ i <= Len(ps) /\ stream.left > 0
      /\ UNCHANGED <<obj, ask, answer, listed, marker, began>>
      /\ Passed => stream' = next /\ UNCHANGED <<pc, sent>>
      /\ ~Passed => \E n \in 0..(hi - lo + 1) :
                       /\ sent' = sent \o SubSeq(PartBytes(i, z), lo + 1, lo + n)
                       /\ stream' = [next EXCEPT !.left = @ - n]
                       /\ pc' = IF n = hi - lo + 1 THEN "stream" ELSE "broken"
  BY ZenonT(60) DEF ServePart
<1>0. pc = "stream" BY DEF ServePart
<1>2. /\ Typed /\ ask.kind = "get" /\ Sending /\ Streaming /\ Resolved /\ sent \in Seq(Bytes)
      /\ answer.sum => ask.part = 0 /\ ask.range.form = "none"
  BY <1>0 DEF ReadsInv, ReadInv
<1>3. size' = size /\ content' = content /\ Asked' = Asked /\ Total' = Total /\ Resolved'
  BY <1>1, <1>2, SameRequest
<1>4. pc' \in {"stream", "broken"}
  <2>1. CASE Passed BY <1>1, <2>1, ZenonT(60)
  <2>2. CASE ~Passed BY <1>1, <2>2, ZenonT(60)
  <2>3. QED BY <2>1, <2>2
<1>5. ListInv' BY <1>1, <1>4, KeepsListInv DEF ReadsInv
<1>6. /\ Asked.start \in Nat /\ Asked.end \in Int /\ Asked.end < size /\ Total \in Nat /\ Total = Asked.end - Asked.start + 1
      /\ size \in Nat /\ content \in Seq(Bytes) /\ Len(content) = size
  BY <1>2, AskedIs DEF Sending, Total
<1>7. Len(sent) \in Nat /\ Len(sent) <= Total /\ stream.left = Total - Len(sent) /\ stream.start = Asked.start
  BY <1>2 DEF Sending, Streaming
<1>8. stream.offset = Asked.start + Len(sent) \/ (stream.offset <= Asked.start /\ Len(sent) = 0)
  BY <1>1, <1>2 DEF Streaming
<1>9. obj \in Row /\ ps \in Seq(Part) /\ stream \in Stream /\ Len(ps) \in Nat /\ ps # <<>>
  BY <1>2 DEF Typed, Row, Streaming
<1>10. i \in 1..Len(ps) /\ z \in Nat
  <2>1. i \in 1..(Len(ps) + 1) /\ i <= Len(ps) BY <1>1, <1>2 DEF Streaming
  <2> HIDE DEF i, ps
  <2>2. i \in 1..Len(ps) BY <1>9, <2>1
  <2> USE DEF i, ps
  <2>3. QED BY <1>9, <2>2, PartsTyped
<1> DEFINE from == stream.offset
<1>11. from \in Nat /\ from = Before(ps, i - 1) /\ from + z = Before(ps, i) /\ i + 1 \in 1..(Len(ps) + 1) /\ (i + 1) - 1 = i
  <2>1. i - 1 \in 0..Len(ps) BY <1>9, <1>10
  <2>2. from = Before(ps, i - 1) BY <1>2 DEF Streaming
  <2>3. QED BY <1>9, <1>10, <2>1, <2>2, BeforeIs
<1>12. i \in Nat /\ stream.left \in Int /\ stream.start \in Nat BY <1>9 DEF Stream
<1>13. ASSUME NEW n \in Nat, stream' = [next EXCEPT !.left = @ - n]
       PROVE  stream' \in Stream /\ stream'.at = i + 1 /\ stream'.offset = from + z /\ stream'.start = Asked.start /\ stream'.left = stream.left - n
  <2> DEFINE a == i + 1
             o == from + z
             l == stream.left - n
  <2>1. a \in Nat /\ o \in Nat /\ l \in Int
    <3> HIDE DEF i, from, z, next
    <3>1. i \in Nat /\ from \in Nat /\ z \in Nat /\ stream.left \in Int BY <1>10, <1>11, <1>12
    <3>2. QED BY <3>1
  <2>2. stream' = [stream EXCEPT !.at = a, !.offset = o, !.left = l] BY <1>9, <1>13 DEF Stream
  <2> HIDE DEF a, o, l
  <2>3. stream' \in Stream /\ stream'.at = a /\ stream'.offset = o /\ stream'.start = stream.start /\ stream'.left = l
    BY <1>9, <2>1, <2>2 DEF Stream
  <2>4. QED BY <1>7, <2>3 DEF a, o, l
<1>14. stream' \in Stream => Typed' BY <1>1, <1>2, <1>4 DEF Typed, Ends
<1>15. ASSUME stream' \in Stream, sent' \in Seq(Bytes), Sending', pc' = "stream" => Streaming' PROVE ReadsInv'
  <2>1. ReadInv' BY <1>1, <1>2, <1>3, <1>4, <1>15 DEF ReadInv
  <2>2. QED BY <1>5, <1>14, <1>15, <2>1 DEF ReadsInv
<1> HIDE DEF z, i, from, next
<1>16. CASE Passed
  <2>1. stream' = next /\ pc' = pc /\ sent' = sent BY <1>1, <1>16
  <2>3. /\ stream' \in Stream /\ stream'.at = i + 1 /\ stream'.offset = from + z /\ stream'.start = Asked.start
        /\ stream'.left = stream.left
    <3> DEFINE a == i + 1
               o == from + z
    <3>1. a \in Nat /\ o \in Nat BY <1>10, <1>11, <1>12
    <3>2. stream' = [stream EXCEPT !.at = a, !.offset = o] BY <2>1 DEF next, i, from
    <3> HIDE DEF a, o
    <3>3. stream' \in Stream /\ stream'.at = a /\ stream'.offset = o /\ stream'.start = stream.start /\ stream'.left = stream.left
      BY <1>9, <3>1, <3>2 DEF Stream
    <3>4. QED BY <1>7, <3>3 DEF a, o
  <2>4. Sending' BY <1>1, <1>2, <1>3, <2>1 DEF Sending
  <2>5. from + z = Asked.start + Len(sent) \/ (from + z <= Asked.start /\ Len(sent) = 0)
    BY <1>6, <1>7, <1>8, <1>10, <1>11, <1>16 DEF from
  <2>6. Streaming'
    <3>1. obj' = obj BY <1>1
    <3>2. stream'.at \in 1..(Len(ps) + 1) /\ stream'.offset = Before(ps, stream'.at - 1) BY <1>11, <2>3
    <3>3. stream'.left = Total' - Len(sent') /\ stream'.start = Asked'.start BY <1>3, <1>7, <2>1, <2>3
    <3>4. stream'.offset = Asked'.start + Len(sent') \/ (stream'.offset <= Asked'.start /\ Len(sent') = 0)
      BY <1>3, <2>1, <2>3, <2>5
    <3>5. QED BY <1>9, <3>1, <3>2, <3>3, <3>4 DEF Streaming
  <2>7. QED BY <1>2, <1>15, <2>1, <2>3, <2>4, <2>6
<1>17. CASE ~Passed
  <2> DEFINE left == stream.left
             first == Asked.start
             k == Len(sent)
  <2>1. PICK n \in 0..(hi - lo + 1) :
          /\ sent' = sent \o SubSeq(PartBytes(i, z), lo + 1, lo + n)
          /\ stream' = [next EXCEPT !.left = @ - n]
          /\ pc' = IF n = hi - lo + 1 THEN "stream" ELSE "broken"
    BY <1>1, <1>17
  <2>2. z > 0 /\ ~(from + z - 1 < Asked.start) BY <1>7, <1>10, <1>17 DEF from
  <2>3. lo = IF Asked.start - from >= 0 THEN Asked.start - from ELSE 0
    <3>1. stream.start - stream.offset \in Int /\ 0 \in Int BY <1>11, <1>12 DEF from
    <3>2. lo = IF stream.start - stream.offset >= 0 THEN stream.start - stream.offset ELSE 0 BY <3>1, MinMax, Zenon DEF lo
    <3>3. QED BY <1>7, <3>2 DEF from
  <2>0. /\ left \in Nat /\ left > 0 /\ first \in Nat /\ k \in Nat /\ z \in Nat /\ from \in Nat /\ Total \in Nat
        /\ first + Total <= size /\ k <= Total /\ left = Total - k /\ size \in Nat
        /\ from = first + k \/ (from <= first /\ k = 0)
    <3>1. left > 0 BY <1>1
    <3>2. from = first + k \/ (from <= first /\ k = 0) BY <1>8 DEF from
    <3>3. first \in Nat /\ Total \in Nat /\ size \in Nat /\ first + Total <= size BY <1>6
    <3>4. k \in Nat /\ k <= Total /\ left = Total - k BY <1>7
    <3>5. z \in Nat /\ from \in Nat BY <1>10, <1>11
    <3> HIDE DEF left, first, k
    <3>6. left \in Nat BY <3>1, <3>3, <3>4
    <3>7. QED BY <3>1, <3>2, <3>3, <3>4, <3>5, <3>6
  <2>4. lo \in Nat /\ lo < z /\ from + lo = first + k
    <3> HIDE DEF left, first, k
    <3>1. ~(from + z - 1 < first) /\ lo = IF first - from >= 0 THEN first - from ELSE 0 BY <2>2, <2>3 DEF first
    <3>2. z > 0 BY <2>2
    <3>3. QED BY <2>0, <3>1, <3>2
  <2>5. hi = IF z - 1 <= lo + stream.left - 1 THEN z - 1 ELSE lo + stream.left - 1
    <3>1. z - 1 \in Int /\ lo + stream.left - 1 \in Int BY <1>10, <1>12, <2>4
    <3>2. hi = Min({z - 1, lo + stream.left - 1}) BY DEF hi, z
    <3>3. QED BY <3>1, <3>2, MinMax, Zenon
  <2>6. /\ n \in Nat /\ lo + n <= z /\ n <= stream.left
        /\ n = hi - lo + 1 => lo + n = z \/ n = stream.left
    <3> HIDE DEF left, first, k
    <3>1. n \in 0..(hi - lo + 1) /\ hi = IF z - 1 <= lo + left - 1 THEN z - 1 ELSE lo + left - 1 BY <2>1, <2>5 DEF left
    <3>2. n \in Nat /\ lo + n <= z /\ n <= left /\ (n = hi - lo + 1 => lo + n = z \/ n = left) BY <2>0, <2>4, <3>1
    <3>3. QED BY <3>2 DEF left
  <2>7. SubSeq(PartBytes(i, z), lo + 1, lo + n) = SubSeq(content, from + lo + 1, from + (lo + n))
    <3>1. lo + n \in Nat /\ lo <= lo + n BY <2>4, <2>6
    <3>2. QED BY <1>9, <1>10, <1>11, <2>4, <2>6, <3>1, WithinPart DEF z, i
  <2>8. from + lo + 1 = (first + k) + 1 /\ from + (lo + n) = first + (k + n)
    <3> HIDE DEF left, first, k
    <3>1. QED BY <2>0, <2>4, <2>6
  <2>9. sent = SubSeq(content, Asked.start + 1, Asked.start + k) BY <1>2 DEF Sending
  <2>10. k + n \in Nat /\ k + n <= Total /\ first + (k + n) <= size
    <3>1. n \in Nat /\ n <= left BY <2>6
    <3> HIDE DEF left, first, k
    <3>2. QED BY <2>0, <3>1
  <2>11. sent' = SubSeq(content, Asked.start + 1, Asked.start + (k + n))
    <3> DEFINE a == Asked.start + 1
               b == Asked.start + k
               e == Asked.start + (k + n)
    <3>1. sent' = SubSeq(content, a, b) \o SubSeq(content, b + 1, e) BY <2>1, <2>7, <2>8, <2>9
    <3>2. a \in 1..(Len(content) + 1) /\ b \in (a - 1)..Len(content) /\ e \in b..Len(content)
      <4>1. Len(content) = size BY <1>6
      <4>2. a = first + 1 /\ b = first + k /\ e = first + (k + n) OBVIOUS
      <4> HIDE DEF left, first, k, a, b, e
      <4>3. QED BY <2>0, <2>6, <2>10, <4>1, <4>2
    <3> HIDE DEF a, b, e
    <3>3. content \in Seq(Bytes) BY <1>6
    <3>4. SubSeq(content, a, b) \o SubSeq(content, b + 1, e) = SubSeq(content, a, e)
      BY <3>2, <3>3, ConcatAdjacentSubSeq
    <3>5. QED BY <3>1, <3>4 DEF a, e
  <2> HIDE DEF k
  <2>12. sent' \in Seq(Bytes) /\ Len(sent') = k + n BY <1>6, <2>10, <2>11, CutIs
  <2>13. /\ stream' \in Stream /\ stream'.at = i + 1 /\ stream'.offset = from + z /\ stream'.start = Asked.start
         /\ stream'.left = stream.left - n
    BY <1>13, <2>1, <2>6
  <2>14. Sending'
    <3>1. Len(sent') <= Total' BY <1>3, <2>10, <2>12
    <3>2. sent' = SubSeq(content', Asked'.start + 1, Asked'.start + Len(sent')) BY <1>3, <2>11, <2>12
    <3>3. answer'.length = Total' /\ answer'.first = Asked'.start /\ answer'.last = Asked'.end /\ Asked'.satisfiable
      BY <1>1, <1>2, <1>3 DEF Sending
    <3>4. QED BY <1>4, <3>1, <3>2, <3>3 DEF Sending
  <2>15. ASSUME pc' = "stream" PROVE Streaming'
    <3>1. obj' = obj BY <1>1
    <3>2. stream'.at \in 1..(Len(ps) + 1) /\ stream'.offset = Before(ps, stream'.at - 1) BY <1>11, <2>13
    <3>3. stream'.left = Total' - Len(sent') /\ stream'.start = Asked'.start
      BY <1>3, <1>6, <1>7, <2>6, <2>12, <2>13 DEF k
    <3>4. n = hi - lo + 1 BY <2>1, <2>15
    <3>5. stream'.left > 0 => lo + n = z BY <1>12, <2>6, <2>13, <3>4
    <3>6. stream'.left > 0 => stream'.offset = Asked'.start + Len(sent')
      <4>1. lo + n = z => from + z = Asked.start + (k + n) BY <2>8
      <4>2. QED BY <1>3, <2>12, <2>13, <3>5, <4>1
    <3>7. QED BY <1>9, <3>1, <3>2, <3>3, <3>6 DEF Streaming
  <2>16. QED BY <1>15, <2>12, <2>13, <2>14, <2>15
<1>18. QED BY <1>16, <1>17

(***************************************************************************)
(* The invariant and the properties.                                       *)
(***************************************************************************)
LEMMA NextKeeps == ReadsInv /\ [Next]_vars => ReadsInv'
<1> SUFFICES ASSUME ReadsInv, [Next]_vars PROVE ReadsInv' OBVIOUS
<1>1. CASE Prepare BY <1>1, PrepareKeeps
<1>2. CASE ServeHead BY <1>2, ServeHeadKeeps
<1>3. CASE ServeSimple BY <1>3, ServeSimpleKeeps
<1>4. CASE StartComposite BY <1>4, StartCompositeKeeps
<1>5. CASE ServePart BY <1>5, ServePartKeeps
<1>6. CASE EndComposite BY <1>6, EndCompositeKeeps
<1>7. CASE ListAttributes \/ ListParts \/ PutPart BY <1>7, ListingKeeps
<1>8. CASE UNCHANGED vars
  <2>1. UNCHANGED <<obj, ask, pc, answer, sent, stream, listed, marker, began>> BY <1>8 DEF vars
  <2>2. ListInv' BY <2>1, KeepsListInv DEF ReadsInv
  <2>3. Typed' BY <2>1 DEF ReadsInv, Typed
  <2>4. /\ Asked' = Asked /\ Total' = Total /\ content' = content /\ size' = size
        /\ (Resolved' <=> Resolved) /\ (NoSuchPart' <=> NoSuchPart) /\ (IllFormed' <=> IllFormed)
    BY <2>1, SameRequest
  <2>5. (Sending' <=> Sending) /\ (Nothing' <=> Nothing) BY <2>1, <2>4 DEF Sending, Nothing
  <2>6. Streaming' <=> Streaming BY <2>1, <2>4 DEF Streaming, Before, Sum
  <2>7. ReadInv' BY <2>1, <2>4, <2>5, <2>6 DEF ReadsInv, ReadInv
  <2>8. QED BY <2>2, <2>3, <2>7 DEF ReadsInv
<1>9. QED BY <1>1, <1>2, <1>3, <1>4, <1>5, <1>6, <1>7, <1>8 DEF Next

\* Whatever is asked for is a sequence.
LEMMA RequestedIsSeq ==
  ASSUME Typed
  PROVE  Requested \in Seq(Bytes)
<1> DEFINE i == ask.part
           r == ask.range
<1>1. obj \in Row /\ r \in RangeSpec /\ obj.parts \in Seq(Part) BY DEF Typed, Ask, Row
<1>2. CASE i \in DOMAIN obj.parts
  <2>1. i \in Nat /\ obj.parts[i].size \in Nat BY <1>1, <1>2, PartsTyped
  <2>2. QED BY <1>2, <2>1, PartBytesAre DEF Requested
<1>3. CASE i \notin DOMAIN obj.parts
  <2>1. Requested = IF Selected(r) = {} THEN <<>> ELSE SubSeq(content, Min(Selected(r)) + 1, Max(Selected(r)) + 1)
    BY <1>3 DEF Requested
  <2>2. Selected(r) = {} \/ \E a \in Nat, b \in Int : a <= b /\ b < size /\ Selected(r) = a..b
    <3> DEFINE p == parseRangeSpec(r)
    <3>1. /\ p.satisfiable => p.start \in Nat /\ p.end \in Int /\ p.start <= p.end + 1 /\ p.end < size
          /\ p.satisfiable => Selected(r) = p.start..p.end
          /\ ~p.satisfiable => Selected(r) = {} \/ (r.form = "span" /\ r.last < r.first)
      BY <1>1, ParseIs
    <3> HIDE DEF p
    <3>2. CASE p.satisfiable
      <4>1. ~(p.start <= p.end) => Selected(r) = {} BY <3>1, <3>2
      <4>2. QED BY <3>1, <3>2, <4>1
    <3>3. CASE r.form = "span" /\ r.last < r.first
      <4>1. size \in Nat BY AskedIs
      <4>2. r.first \in Nat /\ r.last \in Nat BY <1>1 DEF RangeSpec
      <4>3. Selected(r) = 0..(size - 1) BY <3>3, <4>2 DEF Selected
      <4>4. CASE size = 0 BY <4>3, <4>4
      <4>5. CASE size # 0
        <5>1. 0 \in Nat /\ size - 1 \in Int /\ 0 <= size - 1 /\ size - 1 < size BY <4>1, <4>5
        <5>2. QED BY <4>3, <5>1
      <4>6. QED BY <4>4, <4>5
    <3>4. QED BY <3>1, <3>2, <3>3
  <2>3. CASE Selected(r) = {} BY <2>1, <2>3
  <2>4. CASE Selected(r) # {}
    <3>1. PICK a \in Nat, b \in Int : a <= b /\ b < size /\ Selected(r) = a..b BY <2>2, <2>4
    <3>2. Min(a..b) = a /\ Max(a..b) = b
      <4>1. a \in Int /\ b \in Int BY <3>1
      <4>2. QED BY <3>1, <4>1, MinMax, Zenon
    <3>3. Requested = SubSeq(content, a + 1, b + 1) BY <2>1, <2>4, <3>1, <3>2
    <3>4. content \in Seq(Bytes) /\ Len(content) = size /\ size \in Nat BY AskedIs
    <3>5. b - a + 1 \in Nat /\ a + (b - a + 1) = b + 1 /\ a + (b - a + 1) <= Len(content) BY <3>1, <3>4
    <3>6. SubSeq(content, a + 1, a + (b - a + 1)) \in Seq(Bytes) BY <3>4, <3>5, CutIs
    <3>7. QED BY <3>3, <3>5, <3>6
  <2>5. QED BY <2>3, <2>4
<1>4. QED BY <1>2, <1>3

LEMMA ReadsInvServes == ReadsInv => ServedAsAsked
<1> SUFFICES ASSUME ReadsInv, ask.kind = "get", ~EmptyPart
             PROVE  /\ IsPrefix(sent, Requested)
                    /\ pc = "served" => sent = Requested /\ answer.length = Len(Requested)
                    /\ pc \in {"served", "stream", "broken"} /\ answer.partial =>
                         SubSeq(content, answer.first + 1, answer.last + 1) = Requested
                    /\ pc \in {"served", "stream", "broken"} /\ answer.sum => Requested = content
                    /\ pc = "refused" => NoSuchPart \/ Requested = <<>> \/ IllFormed
  BY DEF ServedAsAsked
<1>1. Typed /\ ReadInv /\ obj \in Row /\ ask.range \in RangeSpec BY DEF ReadsInv, Typed, Ask
<1>2. Requested \in Seq(Bytes) BY <1>1, RequestedIsSeq
<1>3. size \in Nat /\ content \in Seq(Bytes) /\ Len(content) = size BY <1>1, AskedIs
<1>4. ASSUME Resolved
      PROVE  /\ Asked.satisfiable => Requested = SubSeq(content, Asked.start + 1, Asked.end + 1)
             /\ ~Asked.satisfiable => Requested = <<>> \/ IllFormed
  BY <1>1, <1>4, ReadsRequested DEF Asked, Cut
<1>5. ASSUME sent = <<>> PROVE IsPrefix(sent, Requested)
  <2>1. Len(sent) = 0 /\ Len(Requested) \in Nat BY <1>2, <1>5
  <2>2. SubSeq(sent, 1, 0) = <<>> /\ SubSeq(Requested, 1, 0) = <<>> BY SubSeqEmpty
  <2>3. QED BY <2>1, <2>2 DEF IsPrefix
<1>6. ASSUME Resolved, Sending
      PROVE  /\ IsPrefix(sent, Requested)
             /\ pc = "served" => sent = Requested /\ answer.length = Len(Requested)
             /\ SubSeq(content, answer.first + 1, answer.last + 1) = Requested
  <2> DEFINE a == Asked.start
             k == Len(sent)
  <2>1. /\ a \in Nat /\ Asked.end < size /\ Asked.end \in Int /\ Total \in Nat /\ Total = Asked.end - a + 1
    BY <1>1, <1>6, AskedIs DEF Sending, Total
  <2>2. Asked.end + 1 = a + Total /\ a + Total <= Len(content) BY <1>3, <2>1
  <2>3. Requested = SubSeq(content, a + 1, a + Total) BY <1>4, <1>6, <2>2 DEF Sending
  <2>4. k \in 0..Total /\ sent = SubSeq(content, a + 1, a + k)
    <3>1. sent \in Seq(Bytes) /\ k <= Total /\ sent = SubSeq(content, a + 1, a + k) BY <1>1, <1>6 DEF ReadInv, Sending
    <3>2. k \in Nat BY <3>1
    <3>3. QED BY <2>1, <3>1, <3>2
  <2> HIDE DEF a
  <2>5. Len(Requested) = Total /\ SubSeq(Requested, 1, k) = SubSeq(content, a + 1, a + k)
    <3>1. content \in Seq(Bytes) /\ a \in Nat /\ Total \in Nat /\ a + Total <= Len(content) /\ k \in 0..Total
      BY <1>3, <2>1, <2>2, <2>4
    <3> HIDE DEF k
    <3>2. /\ Len(SubSeq(content, a + 1, a + Total)) = Total
          /\ SubSeq(SubSeq(content, a + 1, a + Total), 1, k) = SubSeq(content, a + 1, a + k)
      BY <3>1, CutIs
    <3>3. QED BY <2>3, <3>2
  <2>6. SubSeq(sent, 1, k) = sent BY <1>1, SubSeqFull DEF ReadInv
  <2>7. IsPrefix(sent, Requested)
    <3>1. Len(sent) <= Len(Requested) BY <2>1, <2>4, <2>5
    <3>2. SubSeq(sent, 1, Len(sent)) = SubSeq(Requested, 1, Len(sent)) BY <2>4, <2>5, <2>6
    <3>3. QED BY <3>1, <3>2 DEF IsPrefix
  <2>8. pc = "served" => sent = Requested /\ answer.length = Len(Requested)
    BY <1>6, <2>3, <2>4, <2>5 DEF Sending
  <2>9. SubSeq(content, answer.first + 1, answer.last + 1) = Requested BY <1>4, <1>6 DEF Sending
  <2>10. QED BY <2>7, <2>8, <2>9
<1>7. ASSUME Nothing, pc = "served"
      PROVE  sent = Requested /\ answer.length = Len(Requested) /\ ~answer.partial
  <2>1. obj.parts = <<>> /\ size = 0 /\ sent = <<>> /\ answer.length = 0 /\ ~answer.partial BY <1>7 DEF Nothing
  <2>2. ask.part \notin DOMAIN obj.parts BY <2>1
  <2>3. Selected(ask.range) = {}
    <3>1. 0..(size - 1) = {} BY <2>1
    <3>2. QED BY <3>1 DEF Selected
  <2>4. Requested = <<>> BY <2>2, <2>3 DEF Requested
  <2>5. QED BY <2>1, <2>4
<1>8. ASSUME Resolved, answer.sum
      PROVE  Requested = content
  <2>1. ask.range.form = "none" BY <1>1, <1>8 DEF ReadInv
  <2>2. Asked = [start |-> 0, end |-> size - 1, ok |-> FALSE, satisfiable |-> TRUE] BY <2>1 DEF Asked, parseRangeSpec
  <2>3. Asked.satisfiable /\ Asked.start + 1 = 1 /\ Asked.end + 1 = size
    <3>1. Asked.satisfiable /\ Asked.start = 0 /\ Asked.end = size - 1 BY <2>2
    <3>2. QED BY <1>3, <3>1
  <2>4. Requested = SubSeq(content, 1, size) BY <1>4, <1>8, <2>3
  <2>5. QED BY <1>3, <2>4, SubSeqFull
<1>9. CASE pc \in {"stream", "broken"}
  <2>1. Resolved /\ Sending BY <1>1, <1>9 DEF ReadInv
  <2>2. QED BY <1>6, <1>8, <1>9, <2>1
<1>10. CASE pc = "served"
  <2>1. Resolved /\ (Sending \/ Nothing) BY <1>1, <1>10 DEF ReadInv
  <2>2. CASE Sending BY <1>6, <1>8, <1>10, <2>1, <2>2
  <2>3. CASE Nothing
    <3>1. sent = Requested /\ answer.length = Len(Requested) /\ ~answer.partial /\ sent = <<>>
      BY <1>7, <1>10, <2>3 DEF Nothing
    <3>2. QED BY <1>5, <1>8, <1>10, <2>1, <3>1
  <2>4. QED BY <2>1, <2>2, <2>3
<1>11. CASE pc = "refused"
  <2>1. Resolved /\ sent = <<>> /\ (NoSuchPart \/ ~Asked.satisfiable \/ IllFormed) BY <1>1, <1>11 DEF ReadInv
  <2>2. QED BY <1>4, <1>5, <1>11, <2>1
<1>12. CASE pc \notin {"stream", "broken", "served", "refused"}
  <2>1. sent = <<>> BY <1>1, <1>12 DEF ReadInv
  <2>2. QED BY <1>5, <1>12, <2>1
<1>13. QED BY <1>9, <1>10, <1>11, <1>12

\* The strengthening that the properties below follow from: while parts are streamed, what was sent
\* is the content from the first byte of the range on and the loop is where the next byte is; while
\* parts are listed, every part there from the beginning and not past the marker has been listed.
THEOREM ReadsInvHolds == Spec => []ReadsInv
<1>1. Init => ReadsInv BY InitReadsInv
<1>2. ReadsInv /\ [Next]_vars => ReadsInv' BY NextKeeps
<1>3. QED BY <1>1, <1>2, PTL DEF Spec

\* A GET sends the bytes asked for, in order, as far as it gets, whatever parts they lie in and
\* wherever Bee or the client fails, under headers that are right (serveSimple, serveComposite).
THEOREM ServesAsAsked == Spec => []ServedAsAsked
<1>1. ReadsInv => ServedAsAsked BY ReadsInvServes
<1>2. QED BY <1>1, ReadsInvHolds, PTL

\* Following the markers of ListParts or ObjectParts shows every part that was there all the time
\* once, in order, whatever is uploaded in between.
THEOREM ListsPartsOnce == Spec => []PartsListedOnce
<1>1. ReadsInv => PartsListedOnce BY DEF ReadsInv, ListInv, PartsListedOnce, Listed
<1>2. QED BY <1>1, ReadsInvHolds, PTL
=============================================================================
