--------------------------- MODULE SequenceLemmas ---------------------------
(***************************************************************************)
(* What the proofs of several modules need of numbers and of sequences.    *)
(***************************************************************************)
EXTENDS Select, SequencesExt, FiniteSetTheorems, SequenceTheorems, WellFoundedInduction, TLAPS

\* A set of natural numbers that is not empty has a least element.
LEMMA LeastElement ==
  ASSUME NEW S, S \subseteq Nat, S # {}
  PROVE  \E n \in S : \A m \in S : n <= m
<1> DEFINE Less == {p \in Nat \X Nat : p[1] < p[2]}
<1>2. IsWellFoundedOn(Less, Nat)
  BY NatLessThanWellFounded, Zenon DEF OpToRel
<1> HIDE DEF Less
<1>3. \E n \in S : \A m \in S : <<m, n>> \notin Less
  BY <1>2, WFMin
<1>4. \A m, n \in S : <<m, n>> \notin Less => n <= m
  BY DEF Less
<1> QED
  BY <1>3, <1>4

\* A set of natural numbers that has 0 and with every number the next has all of them.
LEMMA AllNumbers ==
  ASSUME NEW S, 0 \in S, \A n \in Nat : n \in S => n + 1 \in S
  PROVE  Nat \subseteq S
<1> SUFFICES ASSUME Nat \ S # {} PROVE FALSE
  OBVIOUS
<1>1. PICK n \in Nat \ S : \A m \in Nat \ S : n <= m
  BY LeastElement
<1>2. n # 0 /\ n - 1 \in Nat /\ n = (n - 1) + 1
  BY <1>1
<1>3. n - 1 \in S
  BY <1>1, <1>2
<1> QED
  BY <1>1, <1>2, <1>3

\* One that has a bound has a greatest.
LEMMA GreatestElement ==
  ASSUME NEW n \in Nat, NEW S, S \subseteq 0..n, S # {}
  PROVE  \E g \in S : \A m \in S : m <= g
<1> DEFINE T == {n - m : m \in S}
<1>1. T \subseteq Nat /\ T # {}
  <2>1. PICK m \in S : TRUE
    OBVIOUS
  <2>2. n - m \in T
    OBVIOUS
  <2>3. \A k \in S : n - k \in Nat
    OBVIOUS
  <2> QED
    BY <2>2, <2>3
<1>2. PICK l \in T : \A k \in T : l <= k
  <2> HIDE DEF T
  <2> QED  BY <1>1, LeastElement
<1>3. n - l \in S /\ \A m \in S : l <= n - m
  BY <1>2
<1>4. \A m \in S : m <= n - l
  BY <1>2, <1>3
<1> QED
  BY <1>3, <1>4

----------------------------------------------------------------------------
(* Select.                                                                 *)

\* One turn of the loop of Select.
Turn(f, s, kept, k) ==
  IF k = 0 THEN <<>> ELSE IF k \in kept THEN Append(f[k - 1], s[k]) ELSE f[k - 1]

\* The function that Select is written with exists.
LEMMA SelectExists ==
  ASSUME NEW s, NEW kept
  PROVE  \A n \in Nat : \E f : f = [k \in 0..n |-> Turn(f, s, kept, k)]
<1> DEFINE Upto == {n \in Nat : \E f : f = [k \in 0..n |-> Turn(f, s, kept, k)]}
<1>1. 0 \in Upto
  <2> DEFINE f == [k \in 0..0 |-> <<>>]
  <2>1. f = [k \in 0..0 |-> Turn(f, s, kept, k)]
    BY DEF Turn
  <2> QED
    BY <2>1
<1>2. ASSUME NEW n \in Nat, n \in Upto PROVE n + 1 \in Upto
  <2>1. PICK g : g = [k \in 0..n |-> Turn(g, s, kept, k)]
    BY <1>2
  <2> DEFINE f == [k \in 0..(n + 1) |-> IF k = n + 1 THEN Turn(g, s, kept, k) ELSE g[k]]
  <2>2. \A k \in 0..n : f[k] = g[k] /\ g[k] = Turn(g, s, kept, k)
    BY <2>1
  <2>3. \A k \in 0..(n + 1) : Turn(f, s, kept, k) = Turn(g, s, kept, k)
    BY <2>2 DEF Turn
  <2>4. f = [k \in 0..(n + 1) |-> Turn(f, s, kept, k)]
    BY <2>2, <2>3
  <2>5. \E h : h = [k \in 0..(n + 1) |-> Turn(h, s, kept, k)]
    <3> HIDE DEF f
    <3> QED  BY <2>4
  <2> QED
    BY <2>5
<1> HIDE DEF Upto
<1>3. Nat \subseteq Upto
  BY <1>1, <1>2, AllNumbers
<1> QED
  BY <1>3 DEF Upto

\* e shows for every place of r the place of s that its element was at: e grows, and
\* what is kept up to n is all there.
Picks(e, r, s, kept, n) ==
  /\ e \in [1..Len(r) -> kept \cap (1..n)]
  /\ \A p, q \in 1..Len(r) : p < q => e[p] < e[q]
  /\ \A k \in kept \cap (1..n) : \E p \in 1..Len(r) : e[p] = k
  /\ \A p \in 1..Len(r) : r[p] = s[e[p]]

\* Select keeps what is to be kept, in its order.
LEMMA SelectProperties ==
  ASSUME NEW S, NEW s \in Seq(S), NEW kept
  PROVE  /\ Select(s, kept) \in Seq(S)
         /\ \E e : Picks(e, Select(s, kept), s, kept, Len(s))
<1>1. Len(s) \in Nat /\ DOMAIN s = 1..Len(s)
  OBVIOUS
<1> DEFINE f == CHOOSE g : g = [k \in 0..Len(s) |-> Turn(g, s, kept, k)]
<1>2. f = [k \in 0..Len(s) |-> Turn(f, s, kept, k)]
  BY <1>1, SelectExists
<1>3. Select(s, kept) = f[Len(s)]
  BY Zenon DEF Select, Turn
<1> HIDE DEF f
<1> DEFINE Good ==
      {n \in Nat : n <= Len(s) => f[n] \in Seq(S) /\ \E e : Picks(e, f[n], s, kept, n)}
<1>4. 0 \in Good
  <2>1. f[0] = <<>>
    BY <1>1, <1>2 DEF Turn
  <2>2. Picks([p \in 1..0 |-> 0], <<>>, s, kept, 0)
    BY DEF Picks
  <2>3. f[0] \in Seq(S) /\ Picks([p \in 1..0 |-> 0], f[0], s, kept, 0)
    BY <2>1, <2>2
  <2>4. \E e : Picks(e, f[0], s, kept, 0)
    BY <2>3
  <2> QED
    BY <2>3, <2>4
<1>5. ASSUME NEW n \in Nat, n \in Good PROVE n + 1 \in Good
  <2> SUFFICES ASSUME n + 1 <= Len(s)
               PROVE  f[n + 1] \in Seq(S) /\ \E e : Picks(e, f[n + 1], s, kept, n + 1)
    OBVIOUS
  <2>1. f[n] \in Seq(S) /\ n + 1 \in 1..Len(s) /\ s[n + 1] \in S
    BY <1>1, <1>5
  <2>2. PICK e : Picks(e, f[n], s, kept, n)
    BY <1>1, <1>5
  <2>3. f[n + 1] = IF n + 1 \in kept THEN Append(f[n], s[n + 1]) ELSE f[n]
    <3>1. n + 1 \in 0..Len(s) /\ n + 1 # 0 /\ (n + 1) - 1 = n
      BY <1>1
    <3>2. f[n + 1] = Turn(f, s, kept, n + 1)
      BY <1>2, <3>1
    <3> QED
      BY <3>1, <3>2 DEF Turn
  <2>4. CASE n + 1 \notin kept
    <3>1. kept \cap (1..(n + 1)) = kept \cap (1..n)
      BY <2>4
    <3>2. Picks(e, f[n], s, kept, n + 1)
      BY <2>2, <3>1, Zenon DEF Picks
    <3> QED
      BY <2>1, <2>3, <2>4, <3>2
  <2>5. CASE n + 1 \in kept
    <3> DEFINE r == Append(f[n], s[n + 1])
               last == Len(f[n]) + 1
               d == [p \in 1..last |-> IF p = last THEN n + 1 ELSE e[p]]
    <3>1. /\ r \in Seq(S) /\ Len(r) = last /\ r[last] = s[n + 1] /\ Len(f[n]) \in Nat
          /\ \A p \in 1..Len(f[n]) : r[p] = f[n][p]
      BY <2>1, AppendProperties, LenProperties
    <3>2. /\ \A p \in 1..Len(f[n]) : p \in 1..last /\ p # last /\ d[p] = e[p]
          /\ d[last] = n + 1
      BY <3>1
    <3>3. \A p \in 1..Len(f[n]) : e[p] \in kept /\ e[p] \in 1..n /\ f[n][p] = s[e[p]]
      BY <2>2 DEF Picks
    <3>4. d \in [1..last -> kept \cap (1..(n + 1))]
      BY <2>5, <3>1, <3>3
    <3>5. \A p, q \in 1..last : p < q => d[p] < d[q]
      <4>1. \A p, q \in 1..Len(f[n]) : p < q => e[p] < e[q]
        BY <2>2 DEF Picks
      <4>2. \A p, q \in 1..last : p < q => p \in 1..Len(f[n])
        BY <3>1
      <4> QED
        BY <3>1, <3>2, <3>3, <4>1, <4>2
    <3>6. \A k \in kept \cap (1..(n + 1)) : \E p \in 1..last : d[p] = k
      <4>1. \A k \in kept \cap (1..n) : \E p \in 1..Len(f[n]) : e[p] = k
        BY <2>2 DEF Picks
      <4>2. \A k \in 1..(n + 1) : k \in 1..n \/ k = n + 1
        OBVIOUS
      <4>3. last \in 1..last
        BY <3>1
      <4> HIDE DEF d, last
      <4> QED
        BY <3>2, <4>1, <4>2, <4>3
    <3>7. \A p \in 1..last : r[p] = s[d[p]]
      BY <3>1, <3>2, <3>3
    <3>8. Picks(d, r, s, kept, n + 1)
      BY <3>1, <3>4, <3>5, <3>6, <3>7 DEF Picks
    <3> QED
      BY <2>3, <2>5, <3>1, <3>8
  <2> QED
    BY <2>4, <2>5
<1> HIDE DEF Good
<1>6. Len(s) \in Good
  BY <1>1, <1>4, <1>5, AllNumbers
<1> QED
  BY <1>1, <1>3, <1>6 DEF Good

----------------------------------------------------------------------------
(* Lists that are put together.                                            *)

\* Of two elements that R has as a pair the first one stands before the second.
Respects(list, R) == \A p, q \in DOMAIN list : <<list[p], list[q]>> \in R => p < q

\* Where the elements of a concatenation are.
LEMMA ConcatPlaces ==
  ASSUME NEW S, NEW s \in Seq(S), NEW t \in Seq(S)
  PROVE  /\ s \o t \in Seq(S) /\ Len(s) \in Nat /\ Len(t) \in Nat
         /\ DOMAIN s = 1..Len(s) /\ DOMAIN t = 1..Len(t)
         /\ DOMAIN (s \o t) = 1..(Len(s) + Len(t))
         /\ \A p \in 1..Len(s) : p \in DOMAIN (s \o t) /\ (s \o t)[p] = s[p]
         /\ \A p \in DOMAIN (s \o t) \ (1..Len(s)) :
              p - Len(s) \in 1..Len(t) /\ (s \o t)[p] = t[p - Len(s)] /\ p > Len(s)
         /\ \A p \in 1..Len(t) : Len(s) + p \in DOMAIN (s \o t) /\ (s \o t)[Len(s) + p] = t[p]
OBVIOUS

\* What a concatenation has is there once, and as it should stand, if it is in each part
\* and the parts fit.
LEMMA ConcatList ==
  ASSUME NEW S, NEW s \in Seq(S), NEW t \in Seq(S), NEW u, u = s \o t
  PROVE  /\ u \in Seq(S)
         /\ \A x : x \in Range(u) <=> x \in Range(s) \/ x \in Range(t)
         /\ IsInjective(s) /\ IsInjective(t) /\ Range(s) \cap Range(t) = {} => IsInjective(u)
         /\ \A R : Respects(s, R) /\ Respects(t, R) /\ (\A x \in Range(s), y \in Range(t) : <<y, x>> \notin R)
              => Respects(u, R)
<1>0. Len(s) \in Nat /\ Len(t) \in Nat /\ DOMAIN s = 1..Len(s) /\ DOMAIN t = 1..Len(t)
      /\ DOMAIN u = 1..(Len(s) + Len(t)) /\ u \in Seq(S)
  BY ConcatPlaces
<1>1. \A p \in DOMAIN s : p \in DOMAIN u /\ u[p] = s[p] /\ s[p] \in Range(s)
  BY ConcatPlaces DEF Range
<1>2. \A p \in DOMAIN u \ DOMAIN s :
        p - Len(s) \in DOMAIN t /\ u[p] = t[p - Len(s)] /\ p > Len(s) /\ t[p - Len(s)] \in Range(t)
  BY ConcatPlaces DEF Range
<1>3. \A p \in DOMAIN t : Len(s) + p \in DOMAIN u /\ u[Len(s) + p] = t[p]
  BY ConcatPlaces
<1>4. Range(u) = Range(s) \cup Range(t)
  <2>1. \A p \in DOMAIN u : u[p] \in Range(s) \cup Range(t)
    BY <1>1, <1>2
  <2>2. \A p \in DOMAIN s : s[p] \in Range(u)
    BY <1>1, Zenon DEF Range
  <2>3. \A p \in DOMAIN t : t[p] \in Range(u)
    BY <1>3, Zenon DEF Range
  <2>4. Range(u) \subseteq Range(s) \cup Range(t)
    BY <2>1 DEF Range
  <2>5. Range(s) \subseteq Range(u)
    BY <2>2, Zenon DEF Range
  <2>6. Range(t) \subseteq Range(u)
    BY <2>3, Zenon DEF Range
  <2> QED
    BY <2>4, <2>5, <2>6
<1>5. ASSUME IsInjective(s), IsInjective(t), Range(s) \cap Range(t) = {},
             NEW p \in DOMAIN u, NEW q \in DOMAIN u, u[p] = u[q]
      PROVE  p = q
  <2>1. CASE p \in DOMAIN s /\ q \in DOMAIN s
    BY <1>1, <1>5, <2>1 DEF IsInjective
  <2>2. CASE p \notin DOMAIN s /\ q \notin DOMAIN s
    <3>1. p - Len(s) = q - Len(s)
      BY <1>2, <1>5, <2>2 DEF IsInjective
    <3> QED
      BY <1>0, <3>1
  <2>3. ~(p \in DOMAIN s /\ q \notin DOMAIN s) /\ ~(p \notin DOMAIN s /\ q \in DOMAIN s)
    BY <1>1, <1>2, <1>5
  <2> QED
    BY <2>1, <2>2, <2>3
<1>6. ASSUME NEW R, Respects(s, R), Respects(t, R),
             \A x \in Range(s), y \in Range(t) : <<y, x>> \notin R,
             NEW p \in DOMAIN u, NEW q \in DOMAIN u, <<u[p], u[q]>> \in R
      PROVE  p < q
  <2>1. CASE p \in DOMAIN s /\ q \in DOMAIN s
    BY <1>1, <1>6, <2>1 DEF Respects
  <2>2. CASE p \notin DOMAIN s /\ q \notin DOMAIN s
    <3>1. p - Len(s) < q - Len(s)
      BY <1>2, <1>6, <2>2 DEF Respects
    <3> QED
      BY <1>0, <3>1
  <2>3. CASE p \in DOMAIN s /\ q \notin DOMAIN s
    BY <1>0, <1>2, <2>3
  <2>4. ~(p \notin DOMAIN s /\ q \in DOMAIN s)
    BY <1>1, <1>2, <1>6
  <2> QED
    BY <2>1, <2>2, <2>3, <2>4
<1>7. IsInjective(s) /\ IsInjective(t) /\ Range(s) \cap Range(t) = {} => IsInjective(u)
  BY <1>5, Zenon DEF IsInjective
<1>8. \A R : Respects(s, R) /\ Respects(t, R) /\ (\A x \in Range(s), y \in Range(t) : <<y, x>> \notin R)
        => Respects(u, R)
  BY <1>6, Zenon DEF Respects
<1>9. \A x : x \in Range(u) <=> x \in Range(s) \/ x \in Range(t)
  BY <1>4
<1> QED
  BY <1>0, <1>7, <1>8, <1>9, Zenon

\* One element is put behind a list.
LEMMA AppendList ==
  ASSUME NEW S, NEW s \in Seq(S), NEW e \in S, NEW u, u = Append(s, e)
  PROVE  /\ u \in Seq(S)
         /\ \A x : x \in Range(u) <=> x \in Range(s) \/ x = e
         /\ IsInjective(s) /\ e \notin Range(s) => IsInjective(u)
         /\ \A R : Respects(s, R) /\ <<e, e>> \notin R /\ (\A x \in Range(s) : <<e, x>> \notin R)
              => Respects(u, R)
<1>1. u = s \o <<e>> /\ <<e>> \in Seq(S)
  OBVIOUS
<1>2. DOMAIN <<e>> = {1} /\ <<e>>[1] = e
  OBVIOUS
<1>3. Range(<<e>>) = {e} /\ IsInjective(<<e>>)
  BY <1>2, Zenon DEF Range, IsInjective
<1>4. \A R : <<e, e>> \notin R => Respects(<<e>>, R)
  BY <1>2, Zenon DEF Respects
<1> DEFINE t == <<e>>
<1>5. /\ u \in Seq(S)
      /\ \A x : x \in Range(u) <=> x \in Range(s) \/ x \in Range(t)
      /\ IsInjective(s) /\ IsInjective(t) /\ Range(s) \cap Range(t) = {} => IsInjective(u)
      /\ \A R : Respects(s, R) /\ Respects(t, R) /\ (\A x \in Range(s), y \in Range(t) : <<y, x>> \notin R)
           => Respects(u, R)
  <2> HIDE DEF t
  <2>1. u = s \o t /\ t \in Seq(S)
    BY <1>1 DEF t
  <2> QED
    BY <2>1, ConcatList
<1>6. IsInjective(s) /\ e \notin Range(s) => IsInjective(u)
  <2>1. e \notin Range(s) => Range(s) \cap Range(t) = {}
    BY <1>3
  <2> QED
    BY <1>3, <1>5, <2>1, Zenon
<1>7. ASSUME NEW R, Respects(s, R), <<e, e>> \notin R, \A x \in Range(s) : <<e, x>> \notin R
      PROVE  Respects(u, R)
  <2>1. \A x \in Range(s), y \in Range(t) : <<y, x>> \notin R
    BY <1>3, <1>7
  <2> QED
    BY <1>4, <1>5, <1>7, <2>1, Zenon
<1> QED
  BY <1>3, <1>5, <1>6, <1>7

\* What has been selected is there once if it was, and stands as it stood.
LEMMA SelectList ==
  ASSUME NEW S, NEW s \in Seq(S), NEW kept
  PROVE  /\ Select(s, kept) \in Seq(S)
         /\ Range(Select(s, kept)) = {s[k] : k \in kept \cap DOMAIN s}
         /\ IsInjective(s) => IsInjective(Select(s, kept))
         /\ \A R : Respects(s, R) => Respects(Select(s, kept), R)
<1> DEFINE r == Select(s, kept)
<1>1. r \in Seq(S) /\ \E e : Picks(e, r, s, kept, Len(s))
  BY SelectProperties
<1>2. PICK e : Picks(e, r, s, kept, Len(s))
  BY <1>1
<1> HIDE DEF r
<1>3. /\ DOMAIN s = 1..Len(s) /\ DOMAIN r = 1..Len(r) /\ Len(s) \in Nat /\ Len(r) \in Nat
  BY <1>1, LenProperties
<1>4. /\ \A p \in DOMAIN r : e[p] \in kept \cap DOMAIN s /\ e[p] \in Nat /\ p \in Nat /\ r[p] = s[e[p]]
      /\ \A p, q \in DOMAIN r : p < q => e[p] < e[q]
      /\ \A k \in kept \cap DOMAIN s : \E p \in DOMAIN r : e[p] = k
  <2>1. /\ e \in [1..Len(r) -> kept \cap (1..Len(s))]
        /\ \A p, q \in 1..Len(r) : p < q => e[p] < e[q]
        /\ \A k \in kept \cap (1..Len(s)) : \E p \in 1..Len(r) : e[p] = k
        /\ \A p \in 1..Len(r) : r[p] = s[e[p]]
    BY <1>2 DEF Picks
  <2>2. \A p \in 1..Len(r) : e[p] \in kept \cap (1..Len(s)) /\ e[p] \in Nat /\ p \in Nat
    BY <1>3, <2>1
  <2> QED
    BY <1>3, <2>1, <2>2
<1>5. Range(r) = {s[k] : k \in kept \cap DOMAIN s}
  BY <1>4 DEF Range
<1>6. \A p, q \in DOMAIN r : e[p] = e[q] => p = q
  BY <1>4
<1>7. IsInjective(s) => IsInjective(r)
  BY <1>4, <1>6 DEF IsInjective
<1>8. \A p, q \in DOMAIN r : e[p] < e[q] => p < q
  BY <1>4
<1>9. ASSUME NEW R, Respects(s, R) PROVE Respects(r, R)
  BY <1>4, <1>8, <1>9 DEF Respects
<1> QED
  BY <1>1, <1>5, <1>7, <1>9 DEF r

----------------------------------------------------------------------------
(* Lists of lists.                                                         *)

\* One turn of the loop of FlattenSeq.
Flattening(f, seqs, i) == IF i = 1 THEN seqs[i] ELSE f[i - 1] \o seqs[i]

\* The function that FlattenSeq is written with exists.
LEMMA FlattenExists ==
  ASSUME NEW seqs
  PROVE  \A n \in Nat : \E f : f = [i \in 1..n |-> Flattening(f, seqs, i)]
<1> DEFINE Upto == {n \in Nat : \E f : f = [i \in 1..n |-> Flattening(f, seqs, i)]}
<1>1. 0 \in Upto
  <2>1. <<>> = [i \in 1..0 |-> Flattening(<<>>, seqs, i)]
    OBVIOUS
  <2> QED
    BY <2>1
<1>2. ASSUME NEW n \in Nat, n \in Upto PROVE n + 1 \in Upto
  <2>1. PICK g : g = [i \in 1..n |-> Flattening(g, seqs, i)]
    BY <1>2
  <2> DEFINE f == [i \in 1..(n + 1) |-> IF i = n + 1 THEN Flattening(g, seqs, i) ELSE g[i]]
  <2>2. \A i \in 1..n : f[i] = g[i] /\ g[i] = Flattening(g, seqs, i)
    BY <2>1
  <2>3. \A i \in 1..(n + 1) : Flattening(f, seqs, i) = Flattening(g, seqs, i)
    BY <2>2 DEF Flattening
  <2>4. \A i \in 1..(n + 1) : f[i] = IF i = n + 1 THEN Flattening(g, seqs, i) ELSE g[i]
    OBVIOUS
  <2>5. \A i \in 1..(n + 1) : f[i] = Flattening(f, seqs, i)
    <3>1. \A i \in 1..(n + 1) : i = n + 1 \/ i \in 1..n
      OBVIOUS
    <3> HIDE DEF f
    <3> QED  BY <2>2, <2>3, <2>4, <3>1
  <2>6. f = [i \in 1..(n + 1) |-> f[i]]
    OBVIOUS
  <2>7. \E h : h = [i \in 1..(n + 1) |-> Flattening(h, seqs, i)]
    <3> HIDE DEF f
    <3>1. f = [i \in 1..(n + 1) |-> Flattening(f, seqs, i)]
      BY <2>5, <2>6
    <3> QED  BY <3>1
  <2> QED
    BY <2>7
<1> HIDE DEF Upto
<1>3. Nat \subseteq Upto
  BY <1>1, <1>2, AllNumbers
<1> QED
  BY <1>3 DEF Upto

----------------------------------------------------------------------------
(* What holds of any two elements of a list.                               *)

\* R has every two elements of the list, in their order.
Pairwise(list, R) == \A p, q \in DOMAIN list : p < q => <<list[p], list[q]>> \in R

LEMMA ConcatPairs ==
  ASSUME NEW S, NEW s \in Seq(S), NEW t \in Seq(S), NEW R,
         Pairwise(s, R), Pairwise(t, R), \A x \in Range(s), y \in Range(t) : <<x, y>> \in R
  PROVE  Pairwise(s \o t, R)
<1> DEFINE u == s \o t
<1>0. Len(s) \in Nat /\ Len(t) \in Nat /\ DOMAIN s = 1..Len(s) /\ DOMAIN t = 1..Len(t)
      /\ DOMAIN u = 1..(Len(s) + Len(t))
  BY ConcatPlaces
<1>1. \A p \in DOMAIN s : u[p] = s[p] /\ s[p] \in Range(s)
  BY ConcatPlaces DEF Range
<1>2. \A p \in DOMAIN u \ DOMAIN s :
        p - Len(s) \in DOMAIN t /\ u[p] = t[p - Len(s)] /\ t[p - Len(s)] \in Range(t)
  BY ConcatPlaces DEF Range
<1> HIDE DEF u
<1>3. ASSUME NEW p \in DOMAIN u, NEW q \in DOMAIN u, p < q
      PROVE  <<u[p], u[q]>> \in R
  <2>1. CASE q \in DOMAIN s
    <3>1. p \in DOMAIN s
      BY <1>0, <1>3, <2>1
    <3> QED
      BY <1>1, <1>3, <2>1, <3>1 DEF Pairwise
  <2>2. CASE p \in DOMAIN s /\ q \notin DOMAIN s
    BY <1>1, <1>2, <1>3, <2>2
  <2>3. CASE p \notin DOMAIN s /\ q \notin DOMAIN s
    <3>1. p - Len(s) < q - Len(s)
      BY <1>0, <1>3
    <3> QED
      BY <1>2, <1>3, <2>3, <3>1 DEF Pairwise
  <2> QED
    BY <2>1, <2>2, <2>3
<1> QED
  BY <1>3, Zenon DEF Pairwise, u

\* What is put together of lists has what they have, and R has every two elements of it if
\* it has every two of each list and of each list with one of a later list.
LEMMA FlattenFacts ==
  ASSUME NEW S, NEW seqs \in Seq(Seq(S)), NEW R
  PROVE  /\ FlattenSeq(seqs) \in Seq(S)
         /\ Range(FlattenSeq(seqs)) = UNION {Range(seqs[m]) : m \in DOMAIN seqs}
         /\ /\ \A m \in DOMAIN seqs : Pairwise(seqs[m], R)
            /\ \A m, n \in DOMAIN seqs : m < n =>
                 \A x \in Range(seqs[m]), y \in Range(seqs[n]) : <<x, y>> \in R
            => Pairwise(FlattenSeq(seqs), R)
<1> DEFINE Fits == /\ \A m \in DOMAIN seqs : Pairwise(seqs[m], R)
                   /\ \A m, n \in DOMAIN seqs : m < n =>
                        \A x \in Range(seqs[m]), y \in Range(seqs[n]) : <<x, y>> \in R
<1>1. Len(seqs) \in Nat /\ DOMAIN seqs = 1..Len(seqs)
  OBVIOUS
<1>2. CASE Len(seqs) = 0
  <2>1. seqs = <<>>
    BY <1>2
  <2>2. FlattenSeq(seqs) = <<>>
    BY <2>1 DEF FlattenSeq
  <2> QED
    BY <1>1, <1>2, <2>2 DEF Range, Pairwise
<1>3. CASE Len(seqs) # 0
  <2> DEFINE f == CHOOSE g : g = [i \in 1..Len(seqs) |-> Flattening(g, seqs, i)]
  <2>1. f = [i \in 1..Len(seqs) |-> Flattening(f, seqs, i)]
    BY <1>1, FlattenExists
  <2>2. FlattenSeq(seqs) = f[Len(seqs)]
    BY <1>3, Zenon DEF FlattenSeq, Flattening
  <2> HIDE DEF f
  <2> DEFINE Good ==
        {n \in Nat : n \in 1..Len(seqs) =>
           /\ f[n] \in Seq(S) /\ Range(f[n]) = UNION {Range(seqs[m]) : m \in 1..n}
           /\ Fits => Pairwise(f[n], R)}
  <2>3. 0 \in Good
    OBVIOUS
  <2>4. ASSUME NEW n \in Nat, n \in Good PROVE n + 1 \in Good
    <3> SUFFICES ASSUME n + 1 \in 1..Len(seqs)
                 PROVE  /\ f[n + 1] \in Seq(S)
                        /\ Range(f[n + 1]) = UNION {Range(seqs[m]) : m \in 1..(n + 1)}
                        /\ Fits => Pairwise(f[n + 1], R)
      OBVIOUS
    <3>1. seqs[n + 1] \in Seq(S)
      BY <1>1
    <3>2. f[n + 1] = Flattening(f, seqs, n + 1)
      BY <2>1
    <3>3. CASE n = 0
      <4>1. f[n + 1] = seqs[1] /\ 1..(n + 1) = {1} /\ n + 1 = 1
        BY <3>2, <3>3 DEF Flattening
      <4> QED
        BY <1>1, <3>1, <4>1
    <3>4. CASE n # 0
      <4>1. n \in 1..Len(seqs) /\ n + 1 # 1 /\ (n + 1) - 1 = n
        BY <1>1, <3>4
      <4>2. /\ f[n] \in Seq(S) /\ f[n + 1] = f[n] \o seqs[n + 1]
            /\ Range(f[n]) = UNION {Range(seqs[m]) : m \in 1..n} /\ (Fits => Pairwise(f[n], R))
        BY <2>4, <3>2, <4>1 DEF Flattening
      <4>3. f[n + 1] \in Seq(S) /\ Range(f[n + 1]) = Range(f[n]) \cup Range(seqs[n + 1])
        <5> DEFINE s == f[n]
                   t == seqs[n + 1]
                   u == f[n + 1]
        <5>1. s \in Seq(S) /\ t \in Seq(S) /\ u = s \o t
          BY <3>1, <4>2
        <5> HIDE DEF s, t, u
        <5>2. u \in Seq(S) /\ \A x : x \in Range(u) <=> x \in Range(s) \/ x \in Range(t)
          BY <5>1, ConcatList
        <5>3. u \in Seq(S) /\ Range(u) = Range(s) \cup Range(t)
          BY <5>2
        <5> QED
          BY <5>3 DEF s, t, u
      <4>4. 1..(n + 1) = (1..n) \cup {n + 1}
        OBVIOUS
      <4>5. Range(f[n + 1]) = UNION {Range(seqs[m]) : m \in 1..(n + 1)}
        BY <4>2, <4>3, <4>4, Zenon
      <4>6. ASSUME Fits PROVE Pairwise(f[n + 1], R)
        <5>1. Pairwise(seqs[n + 1], R)
          BY <1>1, <4>6
        <5>2. \A m \in 1..n : m \in DOMAIN seqs /\ m < n + 1
          BY <1>1
        <5>3. \A x \in Range(f[n]), y \in Range(seqs[n + 1]) : <<x, y>> \in R
          BY <1>1, <4>2, <4>6, <5>2
        <5> QED
          BY <3>1, <4>2, <4>6, <5>1, <5>3, ConcatPairs
      <4> QED
        BY <4>3, <4>5, <4>6
    <3> QED
      BY <3>3, <3>4
  <2> HIDE DEF Good
  <2>5. Len(seqs) \in Good
    BY <1>1, <2>3, <2>4, AllNumbers
  <2>6. f[Len(seqs)] \in Seq(S) /\ Range(f[Len(seqs)]) = UNION {Range(seqs[m]) : m \in 1..Len(seqs)}
        /\ (Fits => Pairwise(f[Len(seqs)], R))
    BY <1>1, <1>3, <2>5 DEF Good
  <2> QED
    BY <1>1, <2>2, <2>6
<1> QED
  BY <1>2, <1>3

LEMMA FlattenList ==
  ASSUME NEW S, NEW seqs \in Seq(Seq(S))
  PROVE  /\ FlattenSeq(seqs) \in Seq(S)
         /\ Range(FlattenSeq(seqs)) = UNION {Range(seqs[m]) : m \in DOMAIN seqs}
BY FlattenFacts

LEMMA FlattenPairs ==
  ASSUME NEW S, NEW seqs \in Seq(Seq(S)), NEW R,
         \A m \in DOMAIN seqs : Pairwise(seqs[m], R),
         \A m, n \in DOMAIN seqs : m < n =>
           \A x \in Range(seqs[m]), y \in Range(seqs[n]) : <<x, y>> \in R
  PROVE  Pairwise(FlattenSeq(seqs), R)
BY FlattenFacts

----------------------------------------------------------------------------
(* The lists that have the elements of a finite set, each once.            *)

LEMMA EveryListOfSet ==
  ASSUME NEW S, IsFiniteSet(S)
  PROVE  \A list \in SetToSeqs(S) : list \in Seq(S) /\ IsInjective(list) /\ Range(list) = S
<1> DEFINE D == 1..Cardinality(S)
<1> SUFFICES ASSUME NEW list \in SetToSeqs(S)
             PROVE  list \in Seq(S) /\ IsInjective(list) /\ Range(list) = S
  OBVIOUS
<1>1. Cardinality(S) \in Nat /\ IsFiniteSet(D) /\ Cardinality(D) = Cardinality(S)
  BY FS_CardinalityType, FS_Interval
<1>2. list \in [D -> S] /\ \A i, j \in D : i # j => list[i] # list[j]
  BY Zenon DEF SetToSeqs
<1>3. list \in Injection(D, S)
  BY <1>2 DEF Injection, IsInjective
<1>4. list \in Surjection(D, S)
  BY <1>1, <1>3, FS_Injection
<1>5. Range(list) = S
  BY <1>2, <1>4 DEF Surjection, Range
<1> QED
  BY <1>1, <1>2, <1>5 DEF IsInjective

LEMMA OneListOfSet ==
  ASSUME NEW S, IsFiniteSet(S)
  PROVE  SetToSeqs(S) # {} /\ SetToSeq(S) \in Seq(S) /\ Range(SetToSeq(S)) = S
<1> DEFINE D == 1..Cardinality(S)
<1>1. ExistsBijection(D, S)
  BY FS_CardinalityType
<1>2. PICK list \in Bijection(D, S) : TRUE
  BY <1>1 DEF ExistsBijection
<1>3. list \in [D -> S] /\ IsInjective(list)
  BY <1>2 DEF Bijection, Injection
<1>4. list \in SetToSeqs(S)
  BY <1>3, Zenon DEF SetToSeqs, IsInjective
<1>5. SetToSeq(S) \in [D -> S] /\ IsInjective(SetToSeq(S))
  BY <1>3, Zenon DEF SetToSeq
<1>6. SetToSeq(S) \in SetToSeqs(S)
  BY <1>5, Zenon DEF SetToSeqs, IsInjective
<1> QED
  BY <1>4, <1>6, EveryListOfSet
=============================================================================
