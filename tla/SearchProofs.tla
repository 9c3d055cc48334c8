----------------------------- MODULE SearchProofs -----------------------------
(***************************************************************************)
(* A search and its meaning, for all texts, all letters and all records:   *)
(* what the steps of the program find is what Meaning says of the query,   *)
(* and they sort it.                                                       *)
(*                                                                         *)
(* Each step of the program that goes through a text, character by         *)
(* character or part by part, is a fold, and has an induction over the     *)
(* length of what was read: the parts of a text (PartsAre), the reading    *)
(* of a query (ReadAll, for TokensAre), the first places of the parts of   *)
(* a pattern against all that its stars may stand for (WildEnds, for       *)
(* WildcardIsGlob).  The filters are cases.  C is always a set of          *)
(* characters that contains all that is written.                           *)
(***************************************************************************)
EXTENDS Meaning, FiniteSetTheorems, SequenceTheorems, TLAPS

-----------------------------------------------------------------------------
ReadFold == INSTANCE FoldProofs WITH Op <- LAMBDA par, s, c : ReadChar(s, c)

-----------------------------------------------------------------------------
(* Sorting                                                                 *)

\* Two keys, number by number
LEMMA LexAt ==
  ASSUME NEW s \in Seq(Nat), NEW t \in Seq(Nat)
  PROVE  LexLess(s, t) <=>
           \E n \in Nat : /\ n <= Len(s) /\ n < Len(t) /\ \A k \in 1..n : s[k] = t[k]
                          /\ n = Len(s) \/ s[n + 1] < t[n + 1]
<1>1. Len(s) \in Nat /\ Len(t) \in Nat
  OBVIOUS
<1>2. ASSUME NEW n \in Nat, n <= Len(s), n <= Len(t)
      PROVE  SubSeq(s, 1, n) = SubSeq(t, 1, n) <=> \A k \in 1..n : s[k] = t[k]
  <2>1. /\ \A k \in 1..n : s[k] \in Nat /\ t[k] \in Nat
        /\ n - 1 + 1 = n /\ (IF 1 <= n THEN n - 1 + 1 ELSE 0) = n
    BY <1>1, <1>2
  <2>2. /\ SubSeq(s, 1, n) \in Seq(Nat) /\ SubSeq(t, 1, n) \in Seq(Nat)
        /\ Len(SubSeq(s, 1, n)) = n /\ Len(SubSeq(t, 1, n)) = n
        /\ \A k \in 1..n : SubSeq(s, 1, n)[k] = s[k] /\ SubSeq(t, 1, n)[k] = t[k]
    <3>1. \A k \in 1..n : 1 + k - 1 = k
      BY <1>2
    <3> QED BY <2>1, <3>1, SubSeqProperties
  <2>3. ASSUME \A k \in 1..n : s[k] = t[k] PROVE SubSeq(s, 1, n) = SubSeq(t, 1, n)
    BY <2>2, <2>3, SeqEqual
  <2>4. ASSUME SubSeq(s, 1, n) = SubSeq(t, 1, n), NEW k \in 1..n PROVE s[k] = t[k]
    BY <2>2, <2>4
  <2> QED BY <2>3, <2>4
<1>3. ASSUME LexLess(s, t)
      PROVE  \E n \in Nat : /\ n <= Len(s) /\ n < Len(t) /\ \A k \in 1..n : s[k] = t[k]
                            /\ n = Len(s) \/ s[n + 1] < t[n + 1]
  <2>1. PICK n \in 0..Len(s) : /\ n < Len(t) /\ SubSeq(s, 1, n) = SubSeq(t, 1, n)
                               /\ n = Len(s) \/ s[n + 1] < t[n + 1]
    BY <1>3 DEF LexLess
  <2>2. n \in Nat /\ n <= Len(s) /\ n <= Len(t)
    BY <1>1, <2>1
  <2> QED BY <1>2, <2>1, <2>2
<1>4. ASSUME NEW n \in Nat, n <= Len(s), n < Len(t), \A k \in 1..n : s[k] = t[k],
             n = Len(s) \/ s[n + 1] < t[n + 1]
      PROVE  LexLess(s, t)
  <2>1. n \in 0..Len(s) /\ n <= Len(t)
    BY <1>1, <1>4
  <2> QED BY <1>2, <1>4, <2>1 DEF LexLess
<1> QED BY <1>3, <1>4

LEMMA LexIrreflexive == ASSUME NEW s \in Seq(Nat) PROVE ~LexLess(s, s)
<1>1. Len(s) \in Nat /\ \A n \in 1..Len(s) : s[n] \in Nat
  OBVIOUS
<1>2. ASSUME NEW n \in Nat, n <= Len(s), n < Len(s), n = Len(s) \/ s[n + 1] < s[n + 1] PROVE FALSE
  <2>1. n + 1 \in 1..Len(s)
    BY <1>1, <1>2
  <2> QED BY <1>1, <1>2, <2>1
<1> QED BY <1>2, LexAt

LEMMA LexTransitive ==
  ASSUME NEW s \in Seq(Nat), NEW t \in Seq(Nat), NEW u \in Seq(Nat), LexLess(s, t), LexLess(t, u)
  PROVE  LexLess(s, u)
<1>1. /\ Len(s) \in Nat /\ Len(t) \in Nat /\ Len(u) \in Nat
      /\ \A n \in 1..Len(s) : s[n] \in Nat
      /\ \A n \in 1..Len(t) : t[n] \in Nat
      /\ \A n \in 1..Len(u) : u[n] \in Nat
  OBVIOUS
<1>2. PICK m \in Nat : /\ m <= Len(s) /\ m < Len(t) /\ \A k \in 1..m : s[k] = t[k]
                       /\ m = Len(s) \/ s[m + 1] < t[m + 1]
  BY LexAt
<1>3. PICK n \in Nat : /\ n <= Len(t) /\ n < Len(u) /\ \A k \in 1..n : t[k] = u[k]
                       /\ n = Len(t) \/ t[n + 1] < u[n + 1]
  BY LexAt
<1>4. CASE m < n
  <2>1. \A k \in 1..m : s[k] = u[k]
    <3>1. \A k \in 1..m : k \in 1..n
      BY <1>4
    <3> QED BY <1>2, <1>3, <3>1
  <2>2. t[m + 1] = u[m + 1]
    <3>1. m + 1 \in 1..n
      BY <1>4
    <3> QED BY <1>3, <3>1
  <2>3. m < Len(u)
    BY <1>1, <1>3, <1>4
  <2> QED BY <1>2, <2>1, <2>2, <2>3, LexAt
<1>5. CASE m = n
  <2>1. \A k \in 1..m : s[k] = u[k]
    BY <1>2, <1>3, <1>5
  <2>2. m = Len(s) \/ s[m + 1] < u[m + 1]
    <3>1. CASE m # Len(s)
      <4>1. m + 1 \in 1..Len(s) /\ m + 1 \in 1..Len(t) /\ m + 1 \in 1..Len(u)
        BY <1>1, <1>2, <1>3, <1>5, <3>1
      <4>2. s[m + 1] < t[m + 1] /\ t[m + 1] < u[m + 1]
        BY <1>1, <1>2, <1>3, <1>5, <3>1
      <4>3. s[m + 1] \in Nat /\ t[m + 1] \in Nat /\ u[m + 1] \in Nat
        BY <1>1, <4>1
      <4> QED BY <4>2, <4>3
    <3> QED BY <3>1
  <2> QED BY <1>2, <1>3, <1>5, <2>1, <2>2, LexAt
<1>6. CASE n < m
  <2>1. \A k \in 1..n : s[k] = u[k]
    <3>1. \A k \in 1..n : k \in 1..m
      BY <1>6
    <3> QED BY <1>2, <1>3, <3>1
  <2>2. s[n + 1] = t[n + 1] /\ n + 1 \in 1..m
    <3>1. n + 1 \in 1..m
      BY <1>6
    <3> QED BY <1>2, <3>1
  <2>3. n <= Len(s) /\ t[n + 1] < u[n + 1]
    BY <1>1, <1>2, <1>3, <1>6
  <2> QED BY <1>3, <2>1, <2>2, <2>3, LexAt
<1> QED BY <1>4, <1>5, <1>6

LEMMA LexTotal ==
  ASSUME NEW s \in Seq(Nat), NEW t \in Seq(Nat), s # t
  PROVE  LexLess(s, t) \/ LexLess(t, s)
<1>1. /\ Len(s) \in Nat /\ Len(t) \in Nat
      /\ \A n \in 1..Len(s) : s[n] \in Nat
      /\ \A n \in 1..Len(t) : t[n] \in Nat
  OBVIOUS
<1> DEFINE D == {k \in Nat \ {0} : k > Len(s) \/ k > Len(t) \/ s[k] # t[k]}
<1>2. Len(s) + 1 \in D
  BY <1>1
<1>3. PICK d \in D : \A k \in D : d <= k
  <2>1. D \subseteq Nat /\ D # {}
    BY <1>2
  <2> HIDE DEF D
  <2> QED BY <2>1, ReadFold!Least
<1> DEFINE n == d - 1
<1>4. n \in Nat /\ d = n + 1
  OBVIOUS
<1>5. ASSUME NEW k \in 1..n PROVE k <= Len(s) /\ k <= Len(t) /\ s[k] = t[k]
  <2>1. k \in Nat \ {0} /\ ~(d <= k)
    BY <1>4
  <2>2. k \notin D
    BY <1>3, <2>1
  <2> QED BY <1>1, <2>1, <2>2
<1>6. n <= Len(s) /\ n <= Len(t)
  <2>1. CASE n = 0
    BY <1>1, <2>1
  <2>2. CASE n # 0
    <3>1. n \in 1..n
      BY <1>4, <2>2
    <3> QED BY <1>5, <3>1
  <2> QED BY <2>1, <2>2
<1>7. n + 1 > Len(s) \/ n + 1 > Len(t) \/ s[n + 1] # t[n + 1]
  BY <1>4
<1> HIDE DEF n, D
<1>8. CASE n = Len(s)
  <2>1. n # Len(t)
    <3>1. ASSUME n = Len(t) PROVE s = t
      BY <1>5, <1>8, <3>1, SeqEqual
    <3> QED BY <3>1
  <2>2. n < Len(t) /\ n <= Len(s)
    BY <1>1, <1>4, <1>6, <1>8, <2>1
  <2>3. \A k \in 1..n : s[k] = t[k]
    BY <1>5
  <2> QED BY <1>4, <1>8, <2>2, <2>3, LexAt
<1>9. CASE n = Len(t) /\ n # Len(s)
  <2>1. n < Len(s) /\ \A k \in 1..n : t[k] = s[k]
    BY <1>1, <1>4, <1>5, <1>6, <1>9
  <2> QED BY <1>4, <1>6, <1>9, <2>1, LexAt
<1>10. CASE n # Len(t) /\ n # Len(s)
  <2>1. n < Len(s) /\ n < Len(t) /\ n + 1 \in 1..Len(s) /\ n + 1 \in 1..Len(t)
    BY <1>1, <1>4, <1>6, <1>10
  <2>2. s[n + 1] # t[n + 1] /\ s[n + 1] \in Nat /\ t[n + 1] \in Nat
    BY <1>1, <1>7, <2>1
  <2>3. s[n + 1] < t[n + 1] \/ t[n + 1] < s[n + 1]
    BY <2>2
  <2>4. \A k \in 1..n : t[k] = s[k] /\ s[k] = t[k]
    BY <1>5
  <2> QED BY <1>4, <1>6, <2>1, <2>3, <2>4, LexAt
<1> QED BY <1>8, <1>9, <1>10

\* The order of compare_hits is one order, whatever the keys: what is sorted is a list
\* of all hits, each once, each before those with larger keys.
THEOREM Sorted ==
  ASSUME NEW keys, NEW H, DOMAIN keys = H, IsFiniteSet(H),
         \A h \in H : keys[h] \in Seq(Nat), \A g, h \in H : keys[g] = keys[h] => g = h
  PROVE  /\ Cardinality(H) \in Nat
         /\ InOrderOf(keys) \in Bijection(1..Cardinality(H), H)
         /\ \A m, n \in 1..Cardinality(H) :
              m < n => LexLess(keys[InOrderOf(keys)[m]], keys[InOrderOf(keys)[n]])
<1> DEFINE before == [h \in H |-> {g \in H : LexLess(keys[g], keys[h])}]
           rank == [h \in H |-> Cardinality(before[h]) + 1]
           N == Cardinality(H)
           list == InOrderOf(keys)
<1>1. N \in Nat
  BY FS_CardinalityType
<1>2. ASSUME NEW h \in H PROVE before[h] \in SUBSET H /\ h \notin before[h]
  BY <1>2, LexIrreflexive
<1>3. ASSUME NEW h \in H
      PROVE  IsFiniteSet(before[h]) /\ Cardinality(before[h]) \in Nat /\ rank[h] \in 1..N
  <2> HIDE DEF before
  <2>1. IsFiniteSet(before[h]) /\ Cardinality(before[h]) <= N /\ (Cardinality(before[h]) = N => before[h] = H)
    BY <1>2, FS_Subset
  <2>2. Cardinality(before[h]) # N /\ Cardinality(before[h]) \in Nat
    BY <1>2, <2>1, FS_CardinalityType
  <2>3. Cardinality(before[h]) + 1 \in 1..N
    BY <1>1, <2>1, <2>2
  <2> QED BY <2>1, <2>2, <2>3
<1>4. ASSUME NEW g \in H, NEW h \in H, LexLess(keys[g], keys[h]) PROVE rank[g] < rank[h]
  <2>1. before[g] \in SUBSET before[h]
    BY <1>4, LexTransitive
  <2>2. g \in before[h] /\ g \notin before[g]
    BY <1>2, <1>4
  <2> HIDE DEF before
  <2>3. Cardinality(before[g]) <= Cardinality(before[h]) /\ Cardinality(before[g]) # Cardinality(before[h])
    BY <1>3, <2>1, <2>2, FS_Subset
  <2> QED BY <1>3, <2>3
<1>5. \A g, h \in H : g # h => rank[g] # rank[h]
  <2>1. ASSUME NEW g \in H, NEW h \in H, g # h PROVE LexLess(keys[g], keys[h]) \/ LexLess(keys[h], keys[g])
    BY <2>1, LexTotal
  <2>2. ASSUME NEW h \in H PROVE rank[h] \in Nat
    <3>1. rank[h] \in 1..N
      BY <1>3
    <3> HIDE DEF rank
    <3> QED BY <1>1, <3>1
  <2> HIDE DEF rank
  <2> QED BY <1>4, <2>1, <2>2
<1>6. rank \in Injection(H, 1..N)
  <2>1. rank \in [H -> 1..N]
    BY <1>3
  <2> HIDE DEF rank
  <2> QED BY <1>5, <2>1 DEF Injection, IsInjective
<1>7. rank \in Surjection(H, 1..N)
  <2>1. IsFiniteSet(1..N) /\ Cardinality(1..N) = N
    BY <1>1, FS_Interval
  <2> HIDE DEF rank
  <2> QED BY <1>6, <2>1, FS_Injection
<1>8. ASSUME NEW n \in 1..N PROVE list[n] \in H /\ rank[list[n]] = n
  <2>1. PICK h \in H : rank[h] = n
    BY <1>7 DEF Surjection
  <2>2. Cardinality(before[h]) = n - 1
    <3>1. Cardinality(before[h]) \in Nat /\ Cardinality(before[h]) + 1 = n
      BY <1>3, <2>1
    <3> HIDE DEF before
    <3> QED BY <1>1, <3>1
  <2>3. list[n] = CHOOSE e \in H : Cardinality(before[e]) = n - 1
    BY DEF InOrderOf
  <2>4. list[n] \in H /\ Cardinality(before[list[n]]) = n - 1
    <3> HIDE DEF list, before
    <3> QED BY <2>2, <2>3
  <2>5. rank[list[n]] = Cardinality(before[list[n]]) + 1
    BY <2>4
  <2> HIDE DEF list, before, rank
  <2> QED BY <1>1, <2>4, <2>5
<1>9. list \in [1..N -> H]
  <2>1. list = [n \in 1..N |-> CHOOSE h \in H : Cardinality(before[h]) = n - 1]
    BY DEF InOrderOf
  <2> HIDE DEF list
  <2> QED BY <1>8, <2>1
<1>10. ASSUME NEW h \in H PROVE \E n \in 1..N : list[n] = h
  <2>1. rank[h] \in 1..N
    BY <1>3
  <2>2. rank[list[rank[h]]] = rank[h] /\ list[rank[h]] \in H
    BY <1>8, <2>1
  <2> HIDE DEF list, rank
  <2> QED BY <1>5, <2>1, <2>2
<1>11. ASSUME NEW m \in 1..N, NEW n \in 1..N, m < n PROVE LexLess(keys[list[m]], keys[list[n]])
  <2>1. list[m] \in H /\ list[n] \in H /\ rank[list[m]] = m /\ rank[list[n]] = n
    BY <1>8
  <2> HIDE DEF list, rank
  <2>2. list[m] # list[n]
    BY <1>11, <2>1
  <2>3. keys[list[m]] # keys[list[n]] /\ keys[list[m]] \in Seq(Nat) /\ keys[list[n]] \in Seq(Nat)
    BY <2>1, <2>2
  <2>4. LexLess(keys[list[n]], keys[list[m]]) => n < m
    BY <1>4, <2>1
  <2> QED BY <1>11, <2>3, <2>4, LexTotal
<1>12. list \in Bijection(1..N, H)
  <2>1. ASSUME NEW m \in 1..N, NEW n \in 1..N, list[m] = list[n] PROVE m = n
    <3>1. rank[list[m]] = m /\ rank[list[n]] = n
      BY <1>8
    <3> HIDE DEF rank, list
    <3> QED BY <2>1, <3>1
  <2> HIDE DEF list
  <2> QED BY <1>9, <1>10, <2>1 DEF Bijection, Injection, Surjection, IsInjective
<1> QED BY <1>1, <1>11, <1>12

FlattenFold == INSTANCE FoldProofs WITH Op <- LAMBDA seqs, out, k : out \o seqs[k]

-----------------------------------------------------------------------------
(* Texts and their bytes                                                   *)

LEMMA SubTextAt ==
  ASSUME NEW C, NEW text \in Seq(C), NEW m \in Nat \ {0}, NEW n \in Nat, n <= Len(text), m <= n + 1
  PROVE  /\ SubSeq(text, m, n) \in Seq(C) /\ Len(SubSeq(text, m, n)) = n - m + 1
         /\ \A j \in 1..(n - m + 1) : SubSeq(text, m, n)[j] = text[m + j - 1]
<1>1. \A i \in m..n : text[i] \in C
  <2>1. \A i \in m..n : i \in 1..Len(text)
    OBVIOUS
  <2> QED BY <2>1
<1>2. (IF m <= n THEN n - m + 1 ELSE 0) = n - m + 1
  OBVIOUS
<1> QED BY <1>1, <1>2, SubSeqProperties

\* A part is found where its characters are.
LEMMA PlacesAre ==
  ASSUME NEW C, NEW part \in Seq(C), NEW text \in Seq(C), NEW from \in Nat \ {0}, NEW k
  PROVE  k \in Places(part, text, from) <=>
           /\ k \in Nat /\ from <= k /\ k + Len(part) <= Len(text) + 1
           /\ \A j \in 1..Len(part) : text[k + j - 1] = part[j]
<1>1. Len(part) \in Nat /\ Len(text) \in Nat
  OBVIOUS
<1>2. k \in from..(Len(text) - Len(part) + 1) <=> k \in Nat /\ from <= k /\ k + Len(part) <= Len(text) + 1
  BY <1>1
<1>3. ASSUME k \in Nat, from <= k, k + Len(part) <= Len(text) + 1
      PROVE  SubSeq(text, k, k + Len(part) - 1) = part <=>
               \A j \in 1..Len(part) : text[k + j - 1] = part[j]
  <2>1. k \in Nat \ {0} /\ k + Len(part) - 1 \in Nat /\ k + Len(part) - 1 <= Len(text)
        /\ k <= (k + Len(part) - 1) + 1 /\ (k + Len(part) - 1) - k + 1 = Len(part)
    BY <1>1, <1>3
  <2> DEFINE s == SubSeq(text, k, k + Len(part) - 1)
  <2>2. s \in Seq(C) /\ Len(s) = Len(part) /\ \A j \in 1..Len(part) : s[j] = text[k + j - 1]
    BY <2>1, SubTextAt
  <2> HIDE DEF s
  <2>3. ASSUME \A j \in 1..Len(part) : text[k + j - 1] = part[j] PROVE s = part
    BY <2>2, <2>3, SeqEqual
  <2>4. ASSUME s = part PROVE \A j \in 1..Len(part) : text[k + j - 1] = part[j]
    BY <2>2, <2>4
  <2> QED BY <2>3, <2>4 DEF s
<1> QED BY <1>2, <1>3 DEF Places

\* A sequence of sequences, one after the other
LEMMA Flattened ==
  ASSUME NEW B, NEW seqs \in Seq(Seq(B))
  PROVE  \E f \in [0..Len(seqs) -> Seq(B)] :
           /\ f[0] = <<>> /\ \A k \in 1..Len(seqs) : f[k] = f[k - 1] \o seqs[k]
           /\ FlattenSeq(seqs) = f[Len(seqs)]
<1> DEFINE n == Len(seqs)
<1>1. n \in Nat /\ \A k \in 1..n : seqs[k] \in Seq(B)
  OBVIOUS
<1>2. CASE n = 0
  <2>1. seqs = <<>> /\ FlattenSeq(seqs) = seqs
    BY <1>2 DEF FlattenSeq
  <2> DEFINE f == [k \in 0..0 |-> <<>>]
  <2>2. f \in [0..0 -> Seq(B)] /\ f[0] = <<>>
    OBVIOUS
  <2> HIDE DEF f
  <2> QED BY <1>2, <2>1, <2>2
<1>3. CASE n # 0
  <2> DEFINE Flat(g) == [i \in 1..n |-> IF i = 1 THEN seqs[i] ELSE g[i - 1] \o seqs[i]]
             g == CHOOSE g : g = Flat(g)
  <2>1. FlattenSeq(seqs) = g[n]
    BY <1>3 DEF FlattenSeq
  <2>2. \E h : h = Flat(h)
    <3>1. PICK h : h = [k \in Nat |-> IF k = 0 THEN <<>> ELSE h[k - 1] \o seqs[k]]
      <4> DEFINE Sums(p, b, h) == h = [k \in Nat |-> IF k = 0 THEN b ELSE h[k - 1] \o p[k]]
      <4>1. \A p, b : \E h : Sums(p, b, h)
        BY FlattenFold!Iteration
      <4> HIDE DEF Sums
      <4>2. \E h : Sums(seqs, <<>>, h)
        BY <4>1
      <4> QED BY <4>2 DEF Sums
    <3> DEFINE r == [i \in 1..n |-> h[i]]
    <3>2. ASSUME NEW i \in 1..n PROVE r[i] = IF i = 1 THEN seqs[i] ELSE r[i - 1] \o seqs[i]
      <4>1. h[i] = h[i - 1] \o seqs[i]
        <5>1. i \in Nat /\ i # 0
          BY <1>1
        <5> HIDE DEF n
        <5> QED BY <3>1, <5>1
      <4>2. CASE i = 1
        <5>1. h[0] = <<>> /\ i - 1 = 0
          BY <3>1, <4>2
        <5> QED BY <1>1, <4>1, <4>2, <5>1, ConcatEmptySeq
      <4>3. CASE i # 1
        <5>1. i - 1 \in 1..n
          BY <1>1, <4>3
        <5> QED BY <4>1, <4>3, <5>1
      <4> QED BY <4>2, <4>3
    <3>3. r = [i \in 1..n |-> r[i]]
      OBVIOUS
    <3> HIDE DEF r, n
    <3>4. r = Flat(r)
      BY <3>2, <3>3
    <3> QED BY <3>4
  <2>3. g = Flat(g)
    <3> HIDE DEF Flat
    <3> QED BY <2>2
  <2> HIDE DEF g
  <2>4. \A i \in 1..n : g[i] = IF i = 1 THEN seqs[i] ELSE g[i - 1] \o seqs[i]
    BY <2>3
  <2> DEFINE f == [k \in 0..n |-> IF k = 0 THEN <<>> ELSE g[k]]
  <2>5. \A k \in 1..n : f[k] = f[k - 1] \o seqs[k]
    <3> SUFFICES ASSUME NEW k \in 1..n PROVE f[k] = f[k - 1] \o seqs[k]
      OBVIOUS
    <3>1. CASE k = 1
      <4>1. f[k] = seqs[k] /\ f[k - 1] = <<>>
        BY <1>1, <2>4, <3>1
      <4> QED BY <1>1, <4>1, ConcatEmptySeq
    <3>2. CASE k # 1
      <4>1. k - 1 \in 1..n /\ k - 1 \in 0..n /\ k - 1 # 0 /\ k # 0 /\ k \in 0..n
        BY <1>1, <3>2
      <4> QED BY <2>4, <3>2, <4>1
    <3> QED BY <3>1, <3>2
  <2>6. f[0] = <<>> /\ f[n] = g[n] /\ DOMAIN f = 0..n /\ f = [k \in 0..n |-> f[k]]
    BY <1>1, <1>3
  <2> HIDE DEF f, n
  <2> DEFINE T == {k \in Nat : k <= n => f[k] \in Seq(B)}
  <2>7. 0 \in T
    <3>1. <<>> \in Seq(B)
      OBVIOUS
    <3> QED BY <2>6, <3>1
  <2>8. ASSUME NEW k \in Nat, k \in T PROVE k + 1 \in T
    <3> SUFFICES ASSUME k + 1 <= n PROVE f[k + 1] \in Seq(B)
      OBVIOUS
    <3>1. k + 1 \in 1..n /\ (k + 1) - 1 = k /\ k <= n
      BY <1>1
    <3>2. f[k + 1] = f[k] \o seqs[k + 1] /\ f[k] \in Seq(B) /\ seqs[k + 1] \in Seq(B)
      BY <1>1, <2>5, <2>8, <3>1
    <3> QED BY <3>2, ConcatProperties
  <2> HIDE DEF T
  <2>9. Nat \subseteq T
    BY <2>7, <2>8, FlattenFold!NatSet
  <2>10. \A k \in 0..n : f[k] \in Seq(B)
    BY <1>1, <2>9 DEF T
  <2> QED BY <2>1, <2>5, <2>6, <2>10 DEF n
<1> QED BY <1>2, <1>3

\* A byte of a text: a character and a place in it
ByteOf(C) == C \X Nat

LEMMA BytesAre ==
  ASSUME NEW C, NEW text \in Seq(C)
  PROVE  \E f \in [0..Len(text) -> Seq(ByteOf(C))] :
           /\ f[0] = <<>> /\ BytesOf(text) = f[Len(text)]
           /\ \A k \in 1..Len(text) :
                /\ [n \in 1..Width(text[k]) |-> <<text[k], n>>] \in Seq(ByteOf(C))
                /\ f[k] = f[k - 1] \o [n \in 1..Width(text[k]) |-> <<text[k], n>>]
<1> DEFINE code(c) == [n \in 1..Width(c) |-> <<c, n>>]
           seqs == [k \in DOMAIN text |-> code(text[k])]
<1>1. ASSUME NEW c \in C PROVE code(c) \in Seq(ByteOf(C))
  <2>1. Width(c) \in Nat
    BY TextAssumption DEF Width
  <2>2. \A n \in 1..Width(c) : <<c, n>> \in ByteOf(C)
    BY <2>1 DEF ByteOf
  <2>3. code(c) \in [1..Width(c) -> ByteOf(C)]
    BY <2>2
  <2> HIDE DEF code
  <2> QED BY <2>1, <2>3, SeqDef
<1>2. DOMAIN text = 1..Len(text) /\ Len(text) \in Nat /\ \A k \in 1..Len(text) : text[k] \in C
  OBVIOUS
<1> HIDE DEF code
<1>3. seqs \in [1..Len(text) -> Seq(ByteOf(C))]
  BY <1>1, <1>2
<1>4. seqs \in Seq(Seq(ByteOf(C))) /\ DOMAIN seqs = 1..Len(text)
  BY <1>2, <1>3, SeqDef
<1>5. Len(seqs) = Len(text)
  BY <1>2, <1>4, LenProperties
<1>6. BytesOf(text) = FlattenSeq(seqs)
  BY DEF BytesOf, code
<1>7. \A k \in 1..Len(text) : seqs[k] = code(text[k])
  BY <1>2
<1> HIDE DEF seqs
<1>8. \E f \in [0..Len(text) -> Seq(ByteOf(C))] :
        /\ f[0] = <<>> /\ \A k \in 1..Len(text) : f[k] = f[k - 1] \o seqs[k]
        /\ BytesOf(text) = f[Len(text)]
  <2>1. \E f \in [0..Len(seqs) -> Seq(ByteOf(C))] :
          /\ f[0] = <<>> /\ \A k \in 1..Len(seqs) : f[k] = f[k - 1] \o seqs[k]
          /\ FlattenSeq(seqs) = f[Len(seqs)]
    BY <1>4, Flattened
  <2> QED BY <1>5, <1>6, <2>1
<1>9. \A k \in 1..Len(text) : code(text[k]) \in Seq(ByteOf(C))
  BY <1>1, <1>2
<1> QED BY <1>7, <1>8, <1>9 DEF code

Within(S, p, t) == \E a, b \in Seq(S) : t = (a \o p) \o b

\* The bytes of a part are found among the bytes of the text.
LEMMA BytesContained ==
  ASSUME NEW C, NEW part \in Seq(C), NEW text \in Seq(C), Occurs(part, text)
  PROVE  /\ BytesOf(part) \in Seq(ByteOf(C))
         /\ Within(ByteOf(C), BytesOf(part), BytesOf(text))
<1> DEFINE m == Len(part)
           n == Len(text)
<1>1. m \in Nat /\ n \in Nat
  OBVIOUS
<1>2. PICK k \in Nat : /\ 1 <= k /\ k + m <= n + 1
                       /\ \A j \in 1..m : text[k + j - 1] = part[j]
  <2>1. PICK k \in Places(part, text, 1) : TRUE
    BY DEF Occurs
  <2>2. /\ k \in Nat /\ 1 <= k /\ k + Len(part) <= Len(text) + 1
        /\ \A j \in 1..Len(part) : text[k + j - 1] = part[j]
    <3>1. 1 \in Nat \ {0}
      OBVIOUS
    <3> QED BY <2>1, <3>1, PlacesAre
  <2> QED BY <2>2
<1> DEFINE code(c) == [i \in 1..Width(c) |-> <<c, i>>]
<1>3. PICK f \in [0..n -> Seq(ByteOf(C))] :
        /\ f[0] = <<>> /\ BytesOf(text) = f[n]
        /\ \A i \in 1..n : code(text[i]) \in Seq(ByteOf(C)) /\ f[i] = f[i - 1] \o code(text[i])
  BY BytesAre
<1>4. PICK g \in [0..m -> Seq(ByteOf(C))] :
        /\ g[0] = <<>> /\ BytesOf(part) = g[m]
        /\ \A i \in 1..m : code(part[i]) \in Seq(ByteOf(C)) /\ g[i] = g[i - 1] \o code(part[i])
  BY BytesAre
<1> HIDE DEF code, m, n
<1> DEFINE Same(j) == j <= m => f[k - 1 + j] = f[k - 1] \o g[j]
           S == {j \in Nat : Same(j)}
<1>5. 0 \in S
  <2>1. k - 1 \in 0..n /\ k - 1 + 0 = k - 1
    BY <1>1, <1>2
  <2>2. f[k - 1] \in Seq(ByteOf(C)) /\ g[0] = <<>>
    BY <1>3, <1>4, <2>1
  <2>3. f[k - 1] = f[k - 1] \o g[0]
    BY <2>2, ConcatEmptySeq
  <2> QED BY <2>1, <2>3
<1>6. ASSUME NEW j \in Nat, j \in S PROVE j + 1 \in S
  <2> SUFFICES ASSUME j + 1 <= m PROVE f[k - 1 + (j + 1)] = f[k - 1] \o g[j + 1]
    <3>1. Same(j + 1)
      OBVIOUS
    <3> HIDE DEF Same
    <3> QED BY <3>1
  <2> DEFINE i == k - 1 + (j + 1)
  <2>1. /\ i \in 1..n /\ i - 1 = k - 1 + j /\ i - 1 \in 0..n /\ k - 1 \in 0..n
        /\ j + 1 \in 1..m /\ (j + 1) - 1 = j /\ j <= m /\ j \in 0..m /\ i = k + (j + 1) - 1
    BY <1>1, <1>2
  <2> HIDE DEF i
  <2>2. f[i] = f[i - 1] \o code(text[i]) /\ g[j + 1] = g[j] \o code(part[j + 1])
    BY <1>3, <1>4, <2>1
  <2>3. text[i] = part[j + 1]
    BY <1>2, <2>1
  <2>4. f[i - 1] = f[k - 1] \o g[j]
    BY <1>6, <2>1
  <2>5. f[k - 1] \in Seq(ByteOf(C)) /\ g[j] \in Seq(ByteOf(C)) /\ code(part[j + 1]) \in Seq(ByteOf(C))
    BY <1>3, <1>4, <2>1
  <2>6. (f[k - 1] \o g[j]) \o code(part[j + 1]) = f[k - 1] \o (g[j] \o code(part[j + 1]))
    <3>1. \A x, y, z \in Seq(ByteOf(C)) : (x \o y) \o z = x \o (y \o z)
      BY ConcatAssociative
    <3> QED BY <2>5, <3>1
  <2> QED BY <2>2, <2>3, <2>4, <2>6 DEF i
<1>7. f[k - 1 + m] = f[k - 1] \o g[m]
  <2> HIDE DEF S
  <2>1. Nat \subseteq S
    BY <1>5, <1>6, FlattenFold!NatSet
  <2>2. m \in S
    BY <1>1, <2>1
  <2> QED BY <1>1, <2>2 DEF S
<1> DEFINE e == k - 1 + m
           Later(j) == e + j <= n => \E b \in Seq(ByteOf(C)) : f[e + j] = f[e] \o b
           R == {j \in Nat : Later(j)}
<1>8. e \in 0..n
  BY <1>1, <1>2
<1> HIDE DEF e
<1>9. 0 \in R
  <2>1. e + 0 = e /\ <<>> \in Seq(ByteOf(C)) /\ f[e] \in Seq(ByteOf(C))
    BY <1>1, <1>3, <1>8
  <2> QED BY <2>1, ConcatEmptySeq
<1>10. ASSUME NEW j \in Nat, j \in R PROVE j + 1 \in R
  <2> SUFFICES ASSUME e + (j + 1) <= n PROVE \E b \in Seq(ByteOf(C)) : f[e + (j + 1)] = f[e] \o b
    <3>1. Later(j + 1)
      OBVIOUS
    <3> HIDE DEF Later
    <3> QED BY <3>1
  <2> DEFINE i == e + (j + 1)
  <2>1. e + j <= n /\ i \in 1..n /\ i - 1 = e + j
    BY <1>1, <1>8
  <2>2. PICK b \in Seq(ByteOf(C)) : f[e + j] = f[e] \o b
    BY <1>10, <2>1
  <2> HIDE DEF i
  <2> DEFINE c == code(text[i])
  <2>3. c \in Seq(ByteOf(C)) /\ f[i] = f[e + j] \o c
    <3>1. code(text[i]) \in Seq(ByteOf(C)) /\ f[i] = f[i - 1] \o code(text[i])
      BY <1>3, <2>1
    <3> QED BY <2>1, <3>1
  <2> HIDE DEF c
  <2>4. f[e] \in Seq(ByteOf(C))
    BY <1>3, <1>8
  <2>5. (f[e] \o b) \o c = f[e] \o (b \o c) /\ b \o c \in Seq(ByteOf(C))
    <3>1. \A x, y, z \in Seq(ByteOf(C)) : (x \o y) \o z = x \o (y \o z) /\ x \o y \in Seq(ByteOf(C))
      BY ConcatAssociative, ConcatProperties
    <3> QED BY <2>3, <2>4, <3>1
  <2> QED BY <2>2, <2>3, <2>5 DEF i
<1>11. \E b \in Seq(ByteOf(C)) : f[n] = f[e] \o b
  <2> HIDE DEF R
  <2>1. Nat \subseteq R
    BY <1>9, <1>10, FlattenFold!NatSet
  <2>2. n - e \in Nat /\ e + (n - e) = n /\ e + (n - e) <= n
    BY <1>1, <1>8
  <2>3. n - e \in R
    BY <2>1, <2>2
  <2>4. \E b \in Seq(ByteOf(C)) : f[e + (n - e)] = f[e] \o b
    BY <2>2, <2>3 DEF R
  <2> QED BY <2>2, <2>4
<1>12. f[k - 1] \in Seq(ByteOf(C)) /\ g[m] \in Seq(ByteOf(C))
  BY <1>1, <1>2, <1>3, <1>4
<1> QED BY <1>3, <1>4, <1>7, <1>11, <1>12 DEF e, Within

\* The trigram index misses nothing (build_trigram_index, candidates_for_tokens): what
\* occurs in a name has no trigrams of bytes but those of the name.
THEOREM TrigramsOccur ==
  ASSUME NEW C, NEW part \in Seq(C), NEW text \in Seq(C), Occurs(part, text)
  PROVE  Trigrams(part) \subseteq Trigrams(text)
<1> DEFINE B == ByteOf(C)
           p == BytesOf(part)
           t == BytesOf(text)
<1>0. p \in Seq(B)
  BY BytesContained
<1>1. PICK a \in Seq(B), b \in Seq(B) : p \in Seq(B) /\ t = (a \o p) \o b
  <2>1. Within(B, p, t)
    BY BytesContained
  <2> QED BY <1>0, <2>1 DEF Within
<1> HIDE DEF B, p, t
<1>2. /\ Len(a) \in Nat /\ Len(p) \in Nat /\ Len(b) \in Nat
      /\ a \o p \in Seq(B) /\ Len(a \o p) = Len(a) + Len(p)
      /\ t \in Seq(B) /\ Len(t) = Len(a) + Len(p) + Len(b)
      /\ \A i \in 1..Len(p) : t[i + Len(a)] = p[i]
  <2>1. Len(a) \in Nat /\ Len(p) \in Nat /\ Len(b) \in Nat
    BY <1>1
  <2>2. a \o p \in Seq(B) /\ Len(a \o p) = Len(a) + Len(p)
        /\ \A i \in 1..(Len(a) + Len(p)) : (a \o p)[i] = IF i <= Len(a) THEN a[i] ELSE p[i - Len(a)]
    BY <1>1, ConcatProperties
  <2>3. t \in Seq(B) /\ Len(t) = (Len(a) + Len(p)) + Len(b)
        /\ \A i \in 1..((Len(a) + Len(p)) + Len(b)) :
             t[i] = IF i <= Len(a) + Len(p) THEN (a \o p)[i] ELSE b[i - (Len(a) + Len(p))]
    BY <1>1, <2>2, ConcatProperties
  <2>4. ASSUME NEW i \in 1..Len(p) PROVE t[i + Len(a)] = p[i]
    <3>1. /\ i + Len(a) \in 1..((Len(a) + Len(p)) + Len(b)) /\ i + Len(a) <= Len(a) + Len(p)
          /\ i + Len(a) \in 1..(Len(a) + Len(p)) /\ ~(i + Len(a) <= Len(a)) /\ (i + Len(a)) - Len(a) = i
      BY <2>1
    <3> QED BY <2>2, <2>3, <3>1
  <2> QED BY <2>1, <2>2, <2>3, <2>4
<1>3. ASSUME NEW k \in 1..(Len(p) - 2) PROVE SubSeq(p, k, k + 2) = SubSeq(t, k + Len(a), k + Len(a) + 2)
  <2>1. /\ k \in Nat \ {0} /\ k + 2 \in Nat /\ k + 2 <= Len(p) /\ k <= (k + 2) + 1 /\ (k + 2) - k + 1 = 3
        /\ k + Len(a) \in Nat \ {0} /\ k + Len(a) + 2 \in Nat /\ k + Len(a) + 2 <= Len(t)
        /\ k + Len(a) <= (k + Len(a) + 2) + 1 /\ (k + Len(a) + 2) - (k + Len(a)) + 1 = 3
    BY <1>2
  <2> DEFINE u == SubSeq(p, k, k + 2)
             v == SubSeq(t, k + Len(a), k + Len(a) + 2)
  <2>2. u \in Seq(B) /\ Len(u) = 3 /\ \A j \in 1..3 : u[j] = p[k + j - 1]
    BY <1>1, <2>1, SubTextAt
  <2>3. v \in Seq(B) /\ Len(v) = 3 /\ \A j \in 1..3 : v[j] = t[k + Len(a) + j - 1]
    BY <1>2, <2>1, SubTextAt
  <2>4. ASSUME NEW j \in 1..3 PROVE t[k + Len(a) + j - 1] = p[k + j - 1]
    <3>1. k + j - 1 \in 1..Len(p) /\ (k + j - 1) + Len(a) = k + Len(a) + j - 1
      BY <1>2, <2>1
    <3> QED BY <1>2, <3>1
  <2> HIDE DEF u, v
  <2>5. \A j \in 1..Len(u) : u[j] = v[j]
    BY <2>2, <2>3, <2>4
  <2>6. u = v
    BY <2>2, <2>3, <2>5, SeqEqual
  <2> QED BY <2>6 DEF u, v
<1>4. ASSUME NEW k \in 1..(Len(p) - 2) PROVE k + Len(a) \in 1..(Len(t) - 2)
  BY <1>2
<1> QED BY <1>3, <1>4 DEF Trigrams, p, t

PartStep(sep, parts, c) ==
  IF c = sep THEN Append(parts, <<>>) ELSE [parts EXCEPT ![Len(parts)] = Append(@, c)]

PartsFold == INSTANCE FoldProofs WITH Op <- PartStep

-----------------------------------------------------------------------------
(* The parts of a text                                                     *)

LEMMA PartsIsFold ==
  ASSUME NEW text, NEW sep
  PROVE  Parts(text, sep) = PartsFold!Fold(sep, <<<<>>>>, text)
BY DEF Parts, PartStep, FoldLeft, MapThenFoldSet, Max, PartsFold!Fold, PartsFold!FoldLeft,
   PartsFold!MapThenFoldSet, PartsFold!Max

LEMMA PartsGrow ==
  ASSUME NEW C, NEW text \in Seq(C), NEW c \in C, NEW sep
  PROVE  /\ Parts(<<>>, sep) = <<<<>>>>
         /\ c = sep => Parts(Append(text, c), sep) = Append(Parts(text, sep), <<>>)
         /\ c # sep => Parts(Append(text, c), sep) =
                         [Parts(text, sep) EXCEPT ![Len(Parts(text, sep))] = Append(@, c)]
<1>1. Parts(<<>>, sep) = <<<<>>>>
  BY PartsIsFold, PartsFold!FoldEmpty
<1> DEFINE parts == PartsFold!Fold(sep, <<<<>>>>, text)
<1>2. PartsFold!Fold(sep, <<<<>>>>, Append(text, c)) = PartStep(sep, parts, c)
  BY PartsFold!FoldAppend
<1>3. Parts(text, sep) = parts
  BY PartsIsFold
<1> HIDE DEF parts
<1>4. Parts(Append(text, c), sep) =
        IF c = sep THEN Append(parts, <<>>) ELSE [parts EXCEPT ![Len(parts)] = Append(@, c)]
  BY <1>2, PartsIsFold DEF PartStep
<1> QED BY <1>1, <1>3, <1>4

\* The parts of a text, and the places where they begin
Cut(C, text, sep, parts, b) ==
  /\ parts \in Seq(Seq(C)) /\ b \in Seq(Nat \ {0}) /\ Len(b) = Len(parts) /\ Len(parts) # 0
  /\ b[1] = 1
  /\ \A j \in 1..Len(parts) : \A i \in 1..Len(parts[j]) :
       text[b[j] + i - 1] = parts[j][i] /\ parts[j][i] # sep
  /\ \A j \in 1..(Len(parts) - 1) :
       b[j + 1] = b[j] + Len(parts[j]) + 1 /\ text[b[j + 1] - 1] = sep
  /\ \A j \in 1..Len(parts) : b[j] + Len(parts[j]) <= Len(text) + 1
  /\ b[Len(parts)] + Len(parts[Len(parts)]) = Len(text) + 1

LEMMA CutNone == ASSUME NEW C, NEW sep PROVE Cut(C, <<>>, sep, <<<<>>>>, <<1>>)
<1> DEFINE p == <<<<>>>>
           b == <<1>>
<1>1. p \in Seq(Seq(C)) /\ Len(p) = 1 /\ p[1] = <<>> /\ Len(<<>>) = 0
  OBVIOUS
<1>2. b \in Seq(Nat \ {0}) /\ Len(b) = 1 /\ b[1] = 1
  OBVIOUS
<1> HIDE DEF p, b
<1>3. Cut(C, <<>>, sep, p, b)
  BY <1>1, <1>2 DEF Cut
<1> QED BY <1>3 DEF p, b

LEMMA CutHere ==
  ASSUME NEW C, NEW s \in Seq(C), NEW sep \in C, NEW p, NEW b, Cut(C, s, sep, p, b)
  PROVE  Cut(C, Append(s, sep), sep, Append(p, <<>>), Append(b, Len(s) + 2))
<1> DEFINE text == Append(s, sep)
           q == Append(p, <<>>)
           d == Append(b, Len(s) + 2)
           m == Len(p)
<1>1. /\ p \in Seq(Seq(C)) /\ b \in Seq(Nat \ {0}) /\ Len(b) = m /\ m # 0 /\ m \in Nat /\ b[1] = 1
      /\ b[m] + Len(p[m]) = Len(s) + 1 /\ Len(s) \in Nat
  BY DEF Cut
<1>0. Len(s) \in Nat
  OBVIOUS
<1>2. /\ \A j \in 1..m : \A i \in 1..Len(p[j]) : s[b[j] + i - 1] = p[j][i] /\ p[j][i] # sep
      /\ \A j \in 1..(m - 1) : b[j + 1] = b[j] + Len(p[j]) + 1 /\ s[b[j + 1] - 1] = sep
      /\ \A j \in 1..m : b[j] + Len(p[j]) <= Len(s) + 1
  BY DEF Cut
<1>3. /\ text \in Seq(C) /\ Len(text) = Len(s) + 1 /\ \A i \in 1..Len(s) : text[i] = s[i]
      /\ text[Len(s) + 1] = sep
  BY AppendProperties
<1>4. /\ q \in Seq(Seq(C)) /\ Len(q) = m + 1 /\ \A j \in 1..m : q[j] = p[j]
      /\ q[m + 1] = <<>> /\ Len(q[m + 1]) = 0
  <2>1. <<>> \in Seq(C) /\ Len(<<>>) = 0
    OBVIOUS
  <2> QED BY <1>1, <2>1, AppendProperties
<1>5. d \in Seq(Nat \ {0}) /\ Len(d) = m + 1 /\ (\A j \in 1..m : d[j] = b[j]) /\ d[m + 1] = Len(s) + 2
  <2>1. Len(s) + 2 \in Nat \ {0}
    BY <1>1
  <2> QED BY <1>1, <2>1, AppendProperties
<1>6. \A j \in 1..m : b[j] \in Nat \ {0} /\ p[j] \in Seq(C) /\ Len(p[j]) \in Nat
  BY <1>1
<1> HIDE DEF text, q, d, m
<1>7. d[1] = 1
  BY <1>1, <1>5
<1>8. ASSUME NEW j \in 1..(m + 1), NEW i \in 1..Len(q[j])
      PROVE  text[d[j] + i - 1] = q[j][i] /\ q[j][i] # sep
  <2>1. j # m + 1
    <3>1. ASSUME j = m + 1 PROVE FALSE
      BY <1>4, <1>8, <3>1
    <3> QED BY <3>1
  <2>2. j \in 1..m
    BY <1>1, <2>1
  <2>3. q[j] = p[j] /\ d[j] = b[j] /\ i \in 1..Len(p[j])
    BY <1>4, <1>5, <2>2
  <2>4. b[j] \in Nat \ {0} /\ Len(p[j]) \in Nat /\ b[j] + Len(p[j]) <= Len(s) + 1
    BY <1>2, <1>6, <2>2
  <2>5. b[j] + i - 1 \in 1..Len(s)
    BY <1>1, <2>3, <2>4
  <2> QED BY <1>2, <1>3, <2>2, <2>3, <2>5
<1>9. ASSUME NEW j \in 1..m PROVE d[j + 1] = d[j] + Len(q[j]) + 1 /\ text[d[j + 1] - 1] = sep
  <2>1. CASE j = m
    <3>1. d[j] = b[m] /\ q[j] = p[m] /\ d[j + 1] = Len(s) + 2
      BY <1>4, <1>5, <2>1
    <3>2. (Len(s) + 2) - 1 = Len(s) + 1 /\ b[m] + Len(p[m]) + 1 = Len(s) + 2
      BY <1>1, <1>6, <2>1
    <3> QED BY <1>3, <3>1, <3>2
  <2>2. CASE j # m
    <3>1. j \in 1..(m - 1) /\ j + 1 \in 1..m
      BY <1>1, <2>2
    <3>2. d[j] = b[j] /\ q[j] = p[j] /\ d[j + 1] = b[j + 1]
      BY <1>4, <1>5, <3>1
    <3>3. b[j + 1] = b[j] + Len(p[j]) + 1 /\ s[b[j + 1] - 1] = sep
      BY <1>2, <3>1
    <3>5. /\ b[j] \in Nat \ {0} /\ Len(p[j]) \in Nat /\ Len(p[j + 1]) \in Nat
          /\ b[j + 1] + Len(p[j + 1]) <= Len(s) + 1
      BY <1>2, <1>6, <3>1
    <3>4. b[j + 1] - 1 \in 1..Len(s)
      BY <1>0, <3>3, <3>5
    <3> QED BY <1>3, <3>2, <3>3, <3>4
  <2> QED BY <2>1, <2>2
<1>10. ASSUME NEW j \in 1..(m + 1) PROVE d[j] + Len(q[j]) <= Len(text) + 1
  <2>1. CASE j = m + 1
    BY <1>1, <1>3, <1>4, <1>5, <2>1
  <2>2. CASE j # m + 1
    <3>1. j \in 1..m
      BY <1>1, <2>2
    <3>2. d[j] = b[j] /\ q[j] = p[j]
      BY <1>4, <1>5, <3>1
    <3>3. b[j] \in Nat \ {0} /\ Len(p[j]) \in Nat /\ b[j] + Len(p[j]) <= Len(s) + 1
      BY <1>2, <1>6, <3>1
    <3> QED BY <1>1, <1>3, <3>2, <3>3
  <2> QED BY <2>1, <2>2
<1>11. d[m + 1] + Len(q[m + 1]) = Len(text) + 1 /\ m + 1 # 0 /\ (m + 1) - 1 = m
  <2>1. d[m + 1] + Len(q[m + 1]) = Len(text) + 1
    BY <1>1, <1>3, <1>4, <1>5
  <2>2. m + 1 # 0 /\ (m + 1) - 1 = m
    BY <1>1
  <2> QED BY <2>1, <2>2
<1>12. Cut(C, text, sep, q, d)
  BY <1>4, <1>5, <1>7, <1>8, <1>9, <1>10, <1>11 DEF Cut
<1> QED BY <1>12 DEF text, q, d

LEMMA CutOn ==
  ASSUME NEW C, NEW s \in Seq(C), NEW sep, NEW c \in C, c # sep, NEW p, NEW b, Cut(C, s, sep, p, b)
  PROVE  Cut(C, Append(s, c), sep, [p EXCEPT ![Len(p)] = Append(@, c)], b)
<1> DEFINE text == Append(s, c)
           m == Len(p)
           last == Append(p[m], c)
           q == [p EXCEPT ![m] = last]
<1>1. /\ p \in Seq(Seq(C)) /\ b \in Seq(Nat \ {0}) /\ Len(b) = m /\ m # 0 /\ m \in Nat /\ b[1] = 1
      /\ b[m] + Len(p[m]) = Len(s) + 1 /\ Len(s) \in Nat
  BY DEF Cut
<1>0. Len(s) \in Nat
  OBVIOUS
<1>2. /\ \A j \in 1..m : \A i \in 1..Len(p[j]) : s[b[j] + i - 1] = p[j][i] /\ p[j][i] # sep
      /\ \A j \in 1..(m - 1) : b[j + 1] = b[j] + Len(p[j]) + 1 /\ s[b[j + 1] - 1] = sep
      /\ \A j \in 1..m : b[j] + Len(p[j]) <= Len(s) + 1
  BY DEF Cut
<1>3. /\ text \in Seq(C) /\ Len(text) = Len(s) + 1 /\ \A i \in 1..Len(s) : text[i] = s[i]
      /\ text[Len(s) + 1] = c
  BY AppendProperties
<1>4. \A j \in 1..m : b[j] \in Nat \ {0} /\ p[j] \in Seq(C) /\ Len(p[j]) \in Nat
  BY <1>1
<1>5. m \in 1..m
  BY <1>1
<1>6. /\ last \in Seq(C) /\ Len(last) = Len(p[m]) + 1 /\ \A i \in 1..Len(p[m]) : last[i] = p[m][i]
      /\ last[Len(p[m]) + 1] = c
  BY <1>4, <1>5, AppendProperties
<1> HIDE DEF text, last
<1>7. q \in Seq(Seq(C)) /\ Len(q) = m /\ \A j \in 1..m : q[j] = IF j = m THEN last ELSE p[j]
  BY <1>1, <1>5, <1>6, ExceptSeq
<1> HIDE DEF q, m
<1>8. ASSUME NEW j \in 1..m, NEW i \in 1..Len(q[j])
      PROVE  text[b[j] + i - 1] = q[j][i] /\ q[j][i] # sep
  <2>1. CASE i \in 1..Len(p[j])
    <3>1. q[j][i] = p[j][i]
      BY <1>6, <1>7, <2>1
    <3>3. b[j] \in Nat \ {0} /\ Len(p[j]) \in Nat /\ b[j] + Len(p[j]) <= Len(s) + 1
      BY <1>2, <1>4
    <3>2. b[j] + i - 1 \in 1..Len(s)
      BY <1>0, <2>1, <3>3
    <3> QED BY <1>2, <1>3, <2>1, <3>1, <3>2
  <2>2. CASE i \notin 1..Len(p[j])
    <3>1. j = m
      BY <1>7, <1>8, <2>2
    <3>2. i = Len(p[m]) + 1
      BY <1>4, <1>6, <1>7, <1>8, <2>2, <3>1
    <3>3. b[j] + i - 1 = Len(s) + 1
      BY <1>1, <1>4, <3>1, <3>2
    <3> QED BY <1>3, <1>6, <1>7, <3>1, <3>2, <3>3
  <2> QED BY <2>1, <2>2
<1>9. ASSUME NEW j \in 1..(m - 1) PROVE b[j + 1] = b[j] + Len(q[j]) + 1 /\ text[b[j + 1] - 1] = sep
  <2>1. j \in 1..m /\ j # m /\ j + 1 \in 1..m
    BY <1>1
  <2>2. q[j] = p[j] /\ b[j + 1] = b[j] + Len(p[j]) + 1 /\ s[b[j + 1] - 1] = sep
    BY <1>2, <1>7, <2>1
  <2>4. /\ b[j] \in Nat \ {0} /\ Len(p[j]) \in Nat /\ Len(p[j + 1]) \in Nat
        /\ b[j + 1] + Len(p[j + 1]) <= Len(s) + 1
    BY <1>2, <1>4, <2>1
  <2>3. b[j + 1] - 1 \in 1..Len(s)
    BY <1>0, <2>2, <2>4
  <2> QED BY <1>3, <2>2, <2>3
<1>10. ASSUME NEW j \in 1..m PROVE b[j] + Len(q[j]) <= Len(text) + 1
  <2>1. b[j] \in Nat \ {0} /\ Len(p[j]) \in Nat /\ b[j] + Len(p[j]) <= Len(s) + 1
    BY <1>2, <1>4
  <2>2. CASE j = m
    <3>1. Len(q[j]) = Len(p[j]) + 1
      BY <1>6, <1>7, <2>2
    <3> QED BY <1>1, <1>3, <2>1, <3>1
  <2>3. CASE j # m
    <3>1. Len(q[j]) = Len(p[j])
      BY <1>7, <2>3
    <3> QED BY <1>1, <1>3, <2>1, <3>1
  <2> QED BY <2>2, <2>3
<1>11. b[m] + Len(q[m]) = Len(text) + 1
  <2>1. Len(q[m]) = Len(p[m]) + 1 /\ b[m] \in Nat /\ Len(p[m]) \in Nat
    BY <1>4, <1>5, <1>6, <1>7
  <2>2. b[m] + Len(p[m]) = Len(s) + 1
    BY <1>1
  <2>3. Len(text) = Len(s) + 1
    BY <1>3
  <2> QED BY <1>0, <2>1, <2>2, <2>3
<1>12. Cut(C, text, sep, q, b)
  BY <1>1, <1>7, <1>8, <1>9, <1>10, <1>11 DEF Cut
<1> QED BY <1>12 DEF text, q, m, last

LEMMA PartsAre ==
  ASSUME NEW C, NEW text \in Seq(C), NEW sep
  PROVE  \E b : Cut(C, text, sep, Parts(text, sep), b)
<1> DEFINE Good(t) == \E b : Cut(C, t, sep, Parts(t, sep), b)
           T == {n \in Nat : \A t \in Seq(C) : Len(t) = n => Good(t)}
<1>1. 0 \in T
  <2> SUFFICES ASSUME NEW t \in Seq(C), Len(t) = 0 PROVE Good(t)
    OBVIOUS
  <2>1. t = <<>>
    OBVIOUS
  <2>2. Parts(<<>>, sep) = <<<<>>>>
    BY PartsIsFold, PartsFold!FoldEmpty
  <2> QED BY <2>1, <2>2, CutNone
<1>2. ASSUME NEW n \in Nat, n \in T PROVE n + 1 \in T
  <2> SUFFICES ASSUME NEW t \in Seq(C), Len(t) = n + 1 PROVE Good(t)
    OBVIOUS
  <2>1. t # <<>>
    OBVIOUS
  <2>2. PICK s \in Seq(C), c \in C : t = Append(s, c)
    BY <2>1, SequenceEmptyOrAppend
  <2>3. Len(s) = n
    BY <2>2, AppendProperties
  <2>4. PICK b : Cut(C, s, sep, Parts(s, sep), b)
    BY <1>2, <2>3
  <2>5. CASE c = sep
    <3>1. Parts(t, sep) = Append(Parts(s, sep), <<>>)
      <4>1. Parts(Append(s, c), sep) = Append(Parts(s, sep), <<>>)
        BY <2>5, PartsGrow
      <4> QED BY <2>2, <4>1
    <3>2. Cut(C, Append(s, sep), sep, Append(Parts(s, sep), <<>>), Append(b, Len(s) + 2))
      BY <2>4, <2>5, CutHere
    <3> QED BY <2>2, <2>5, <3>1, <3>2
  <2>6. CASE c # sep
    <3>1. Parts(t, sep) = [Parts(s, sep) EXCEPT ![Len(Parts(s, sep))] = Append(@, c)]
      BY <2>2, <2>6, PartsGrow
    <3>2. Cut(C, Append(s, c), sep, [Parts(s, sep) EXCEPT ![Len(Parts(s, sep))] = Append(@, c)], b)
      BY <2>4, <2>6, CutOn
    <3> QED BY <2>2, <3>1, <3>2
  <2> QED BY <2>5, <2>6
<1> HIDE DEF T
<1>3. Nat \subseteq T
  BY <1>1, <1>2, PartsFold!NatSet
<1>4. Len(text) \in T
  BY <1>3
<1> QED BY <1>4 DEF T

EndStep(par, ends, p) ==
  IF par[1][p] = "*" THEN {u \in 0..Len(par[2]) : \E t \in ends : t <= u}
  ELSE {u \in 1..Len(par[2]) : u - 1 \in ends /\ par[2][u] = par[1][p]}

EndsFold == INSTANCE FoldProofs WITH Op <- EndStep

WildStep(par, rest, k) ==
  LET found == Places(par[1][k], par[2], rest)
  IN  IF rest = 0 \/ par[1][k] = <<>> THEN rest
      ELSE IF k = 1 THEN IF IsPrefix(par[1][1], par[2]) THEN Len(par[1][1]) + 1 ELSE 0
      ELSE IF found = {} THEN 0 ELSE First(found) + Len(par[1][k])

WildFold == INSTANCE FoldProofs WITH Op <- WildStep

-----------------------------------------------------------------------------
(* Beginnings and ends of texts                                            *)

LEMMA TextPrefix ==
  ASSUME NEW C, NEW part \in Seq(C), NEW text \in Seq(C)
  PROVE  /\ IsPrefix(part, text) <=>
              Len(part) <= Len(text) /\ \A j \in 1..Len(part) : text[j] = part[j]
         /\ IsPrefix(part, text) <=> 1 \in Places(part, text, 1)
<1>1. Len(part) \in Nat /\ Len(text) \in Nat
  OBVIOUS
<1>2. ASSUME Len(part) <= Len(text)
      PROVE  SubSeq(part, 1, Len(part)) = SubSeq(text, 1, Len(part)) <=>
               \A j \in 1..Len(part) : text[j] = part[j]
  <2> DEFINE m == Len(part)
             s == SubSeq(part, 1, m)
             t == SubSeq(text, 1, m)
  <2>1. 1 \in Nat \ {0} /\ m \in Nat /\ m <= Len(part) /\ m <= Len(text) /\ 1 <= m + 1 /\ m - 1 + 1 = m
    BY <1>1, <1>2
  <2>2. s \in Seq(C) /\ Len(s) = m /\ \A j \in 1..m : s[j] = part[1 + j - 1]
    BY <2>1, SubTextAt
  <2>3. t \in Seq(C) /\ Len(t) = m /\ \A j \in 1..m : t[j] = text[1 + j - 1]
    BY <2>1, SubTextAt
  <2>4. \A j \in 1..m : 1 + j - 1 = j
    BY <2>1
  <2> HIDE DEF s, t
  <2>5. ASSUME \A j \in 1..m : text[j] = part[j] PROVE s = t
    BY <2>2, <2>3, <2>4, <2>5, SeqEqual
  <2>6. ASSUME s = t PROVE \A j \in 1..m : text[j] = part[j]
    BY <2>2, <2>3, <2>4, <2>6
  <2> QED BY <2>5, <2>6 DEF s, t
<1>3. IsPrefix(part, text) <=>
        Len(part) <= Len(text) /\ \A j \in 1..Len(part) : text[j] = part[j]
  BY <1>2 DEF IsPrefix
<1>4. 1 \in Places(part, text, 1) <=>
        1 + Len(part) <= Len(text) + 1 /\ \A j \in 1..Len(part) : text[1 + j - 1] = part[j]
  <2>1. 1 \in Nat \ {0}
    OBVIOUS
  <2> QED BY <2>1, PlacesAre
<1>5. /\ 1 + Len(part) <= Len(text) + 1 <=> Len(part) <= Len(text)
      /\ \A j \in 1..Len(part) : 1 + j - 1 = j
  BY <1>1
<1> QED BY <1>3, <1>4, <1>5

LEMMA ReversedText ==
  ASSUME NEW C, NEW s \in Seq(C)
  PROVE  Reverse(s) \in Seq(C) /\ Len(Reverse(s)) = Len(s) /\ \A j \in 1..Len(s) : Reverse(s)[j] = s[Len(s) - j + 1]
<1>1. Len(s) \in Nat /\ \A j \in 1..Len(s) : Len(s) - j + 1 \in 1..Len(s)
  OBVIOUS
<1>2. Reverse(s) \in [1..Len(s) -> C]
  BY <1>1 DEF Reverse
<1>3. Reverse(s) \in Seq(C)
  BY <1>1, <1>2, SeqDef
<1>4. Len(Reverse(s)) = Len(s)
  BY <1>1, <1>2, <1>3, LenProperties
<1> QED BY <1>1, <1>3, <1>4 DEF Reverse

LEMMA SuffixAt ==
  ASSUME NEW C, NEW part \in Seq(C), NEW text \in Seq(C)
  PROVE  IsSuffix(part, text) <=>
           /\ Len(part) <= Len(text)
           /\ \A j \in 1..Len(part) : text[Len(text) - Len(part) + j] = part[j]
<1> DEFINE m == Len(part)
           n == Len(text)
           r == Reverse(part)
           s == Reverse(text)
<1>1. m \in Nat /\ n \in Nat
  OBVIOUS
<1>2. r \in Seq(C) /\ Len(r) = m /\ \A j \in 1..m : r[j] = part[m - j + 1]
  BY ReversedText
<1>3. s \in Seq(C) /\ Len(s) = n /\ \A j \in 1..n : s[j] = text[n - j + 1]
  BY ReversedText
<1> HIDE DEF r, s
<1>4. IsPrefix(r, s) <=> m <= n /\ \A j \in 1..m : s[j] = r[j]
  BY <1>2, <1>3, TextPrefix
<1> HIDE DEF m, n
<1>5. ASSUME m <= n, \A j \in 1..m : s[j] = r[j], NEW j \in 1..m PROVE text[n - m + j] = part[j]
  <2> DEFINE i == m - j + 1
  <2>3. m <= n
    BY <1>5
  <2>1. i \in 1..m /\ i \in 1..n /\ m - i + 1 = j /\ n - i + 1 = n - m + j
    BY <1>1, <2>3
  <2> HIDE DEF i
  <2>2. s[i] = text[n - i + 1] /\ r[i] = part[m - i + 1]
    BY <1>2, <1>3, <2>1
  <2> QED BY <1>5, <2>1, <2>2
<1>6. ASSUME m <= n, \A j \in 1..m : text[n - m + j] = part[j], NEW j \in 1..m PROVE s[j] = r[j]
  <2> DEFINE i == m - j + 1
  <2>1. i \in 1..m /\ j \in 1..n /\ n - m + i = n - j + 1
    BY <1>1, <1>6
  <2>2. r[j] = part[i] /\ s[j] = text[n - j + 1]
    BY <1>2, <1>3, <2>1
  <2> HIDE DEF i
  <2> QED BY <1>6, <2>1, <2>2
<1>7. IsPrefix(r, s) <=> m <= n /\ \A j \in 1..m : text[n - m + j] = part[j]
  BY <1>4, <1>5, <1>6
<1> QED BY <1>7 DEF IsSuffix, m, n, r, s

-----------------------------------------------------------------------------
(* What the stars may stand for                                            *)

AreEnds(ends, pattern, text) ==
  /\ ends[0] = {0}
  /\ \A p \in 1..Len(pattern) : ends[p] = EndStep(<<pattern, text>>, ends[p - 1], p)

LEMMA GlobEnds ==
  ASSUME NEW C, NEW pattern \in Seq(C), NEW text \in Seq(C)
  PROVE  \E ends : /\ AreEnds(ends, pattern, text)
                   /\ Glob(pattern, text) <=> Len(text) \in ends[Len(pattern)]
<1> DEFINE P == Len(pattern)
           par == <<pattern, text>>
           Ends(f) == [p \in 0..P |->
             IF p = 0 THEN {0}
             ELSE IF pattern[p] = "*" THEN {u \in 0..Len(text) : \E t \in f[p - 1] : t <= u}
             ELSE {u \in 1..Len(text) : u - 1 \in f[p - 1] /\ text[u] = pattern[p]}]
           g == CHOOSE f : f = Ends(f)
<1>1. P \in Nat
  OBVIOUS
<1>2. Glob(pattern, text) <=> Len(text) \in g[P]
  BY DEF Glob
<1>3. \E f : f = Ends(f)
  <2> DEFINE Same(q, base, f) == f = [k \in Nat |-> IF k = 0 THEN base ELSE EndStep(q, f[k - 1], k)]
  <2>1. \A q, base : \E f : Same(q, base, f)
    BY EndsFold!Iteration
  <2>2. PICK h : Same(par, {0}, h)
    <3> HIDE DEF Same
    <3> QED BY <2>1
  <2> DEFINE r == [p \in 0..P |-> h[p]]
  <2> HIDE DEF P, par
  <2>3. \A p \in 0..P : h[p] = IF p = 0 THEN {0} ELSE EndStep(par, h[p - 1], p)
    <3>1. \A p \in Nat : h[p] = IF p = 0 THEN {0} ELSE EndStep(par, h[p - 1], p)
      BY <2>2
    <3>2. \A p \in 0..P : p \in Nat
      BY <1>1
    <3> QED BY <3>1, <3>2
  <2>4. \A p \in 0..P : p # 0 => r[p - 1] = h[p - 1]
    BY <1>1
  <2>5. \A p \in 0..P : r[p] = IF p = 0 THEN {0} ELSE EndStep(par, r[p - 1], p)
    BY <2>3, <2>4
  <2>6. r = [p \in 0..P |-> r[p]]
    OBVIOUS
  <2> HIDE DEF r
  <2>7. r = [p \in 0..P |-> IF p = 0 THEN {0} ELSE EndStep(par, r[p - 1], p)]
    BY <2>5, <2>6
  <2>8. r = Ends(r)
    BY <2>7 DEF EndStep, par
  <2> QED BY <2>8
<1>4. g = Ends(g)
  <2> HIDE DEF Ends
  <2> QED BY <1>3
<1> HIDE DEF g
<1>5. g[0] = {0}
  BY <1>1, <1>4
<1>6. ASSUME NEW p \in 1..P PROVE g[p] = EndStep(par, g[p - 1], p)
  <2>1. p \in 0..P /\ p # 0
    BY <1>1
  <2> QED BY <1>4, <2>1 DEF EndStep
<1> QED BY <1>2, <1>5, <1>6 DEF AreEnds

LEMMA EndsIn ==
  ASSUME NEW C, NEW pattern \in Seq(C), NEW text \in Seq(C), NEW ends, AreEnds(ends, pattern, text)
  PROVE  \A p \in 0..Len(pattern) : ends[p] \subseteq 0..Len(text)
<1>1. Len(text) \in Nat /\ Len(pattern) \in Nat
  OBVIOUS
<1>2. ends[0] \subseteq 0..Len(text)
  BY <1>1 DEF AreEnds
<1>3. ASSUME NEW p \in 1..Len(pattern) PROVE ends[p] \subseteq 0..Len(text)
  <2>1. ends[p] = EndStep(<<pattern, text>>, ends[p - 1], p)
    BY DEF AreEnds
  <2> QED BY <1>1, <2>1 DEF EndStep
<1>4. \A p \in 0..Len(pattern) : p = 0 \/ p \in 1..Len(pattern)
  BY <1>1
<1> QED BY <1>2, <1>3, <1>4

\* What n characters without a star do, after q others
RunTo(pattern, text, ends, q, n) ==
  \A u : u \in ends[q + n] <=>
    /\ u \in 0..Len(text) /\ u - n \in ends[q]
    /\ \A i \in 1..n : text[u - n + i] = pattern[q + i]

\* Characters stand for themselves.
LEMMA RunEnds ==
  ASSUME NEW C, NEW pattern \in Seq(C), NEW text \in Seq(C), NEW ends, AreEnds(ends, pattern, text),
         NEW q \in Nat, NEW n \in Nat, q + n <= Len(pattern), \A i \in 1..n : pattern[q + i] # "*"
  PROVE  RunTo(pattern, text, ends, q, n)
<1> DEFINE T == Len(text)
           P == Len(pattern)
           Sure(u, m) == /\ u \in 0..T /\ u - m \in ends[q]
                         /\ \A i \in 1..m : text[u - m + i] = pattern[q + i]
           S == {m \in Nat : m <= n => \A u : u \in ends[q + m] <=> Sure(u, m)}
<1>1. T \in Nat /\ P \in Nat
  OBVIOUS
<1>2. \A p \in 0..P : ends[p] \subseteq 0..T
  BY EndsIn
<1> HIDE DEF T, P
<1>3. q \in 0..P /\ ends[q] \subseteq 0..T
  <2>1. q \in 0..P
    BY <1>1 DEF P
  <2> QED BY <1>2, <2>1
<1>4. 0 \in S
  <2>1. ASSUME NEW u PROVE u \in ends[q + 0] <=> Sure(u, 0)
    <3>1. q + 0 = q
      OBVIOUS
    <3>2. u \in 0..T => u - 0 = u
      BY <1>1
    <3>3. u \in ends[q] => u \in 0..T
      BY <1>3
    <3> QED BY <3>1, <3>2, <3>3
  <2> HIDE DEF Sure
  <2> QED BY <2>1
<1>5. ASSUME NEW m \in Nat, m \in S PROVE m + 1 \in S
  <2> SUFFICES ASSUME m + 1 <= n, NEW u PROVE u \in ends[q + (m + 1)] <=> Sure(u, m + 1)
    <3> HIDE DEF Sure
    <3> QED OBVIOUS
  <2>1. /\ q + (m + 1) \in 1..P /\ (q + (m + 1)) - 1 = q + m /\ m + 1 \in 1..n /\ m <= n
        /\ q + m \in 0..P
    BY <1>1 DEF P
  <2>2. pattern[q + (m + 1)] # "*"
    BY <2>1
  <2>3. ends[q + (m + 1)] = {v \in 1..T : v - 1 \in ends[q + m] /\ text[v] = pattern[q + (m + 1)]}
    BY <2>1, <2>2 DEF AreEnds, EndStep, T, P
  <2>4. \A v : v \in ends[q + m] <=> Sure(v, m)
    <3> HIDE DEF Sure
    <3> QED BY <1>5, <2>1
  <2>5. ASSUME u \in ends[q + (m + 1)] PROVE Sure(u, m + 1)
    <3>1. u \in 1..T /\ Sure(u - 1, m) /\ text[u] = pattern[q + (m + 1)]
      <4> HIDE DEF Sure
      <4> QED BY <2>3, <2>4, <2>5
    <3>2. u \in 0..T /\ (u - 1) - m = u - (m + 1) /\ u - (m + 1) + (m + 1) = u
      BY <1>1, <3>1
    <3>3. u - (m + 1) \in ends[q]
      BY <3>1, <3>2
    <3>4. \A i \in 1..m : text[u - (m + 1) + i] = pattern[q + i]
      BY <3>1, <3>2
    <3>5. \A i \in 1..(m + 1) : i \in 1..m \/ i = m + 1
      OBVIOUS
    <3> QED BY <3>1, <3>2, <3>3, <3>4, <3>5
  <2>6. ASSUME Sure(u, m + 1) PROVE u \in ends[q + (m + 1)]
    <3>1. /\ u \in 0..T /\ u - (m + 1) \in ends[q] /\ m + 1 \in 1..(m + 1)
          /\ \A i \in 1..m : i \in 1..(m + 1)
      BY <2>6
    <3>2. u - (m + 1) \in 0..T
      BY <1>3, <3>1
    <3>3. /\ u \in 1..T /\ u - 1 \in 0..T /\ (u - 1) - m = u - (m + 1)
          /\ u - (m + 1) + (m + 1) = u
      BY <1>1, <3>1, <3>2
    <3>4. text[u] = pattern[q + (m + 1)]
      BY <2>6, <3>1, <3>3
    <3>5. \A i \in 1..m : text[(u - 1) - m + i] = pattern[q + i]
      BY <2>6, <3>1, <3>3
    <3>6. Sure(u - 1, m)
      BY <3>1, <3>3, <3>5
    <3> HIDE DEF Sure
    <3> QED BY <2>3, <2>4, <3>3, <3>4, <3>6
  <2> QED BY <2>5, <2>6
<1>6. n \in S
  <2> HIDE DEF S
  <2> QED BY <1>4, <1>5, EndsFold!NatSet
<1>7. n <= n
  OBVIOUS
<1>8. \A u : u \in ends[q + n] <=> Sure(u, n)
  <2> HIDE DEF Sure
  <2> QED BY <1>6, <1>7
<1> QED BY <1>8 DEF T, RunTo

LEMMA FirstIs ==
  ASSUME NEW S, S \subseteq Nat, S # {}
  PROVE  First(S) \in S /\ \A j \in S : First(S) <= j
<1>1. PICK k \in S : \A j \in S : k <= j
  BY WildFold!Least
<1> QED BY <1>1 DEF First

LEMMA PlacesFrom ==
  ASSUME NEW C, NEW part \in Seq(C), NEW text \in Seq(C), NEW from \in Nat \ {0}, NEW k
  PROVE  /\ k \in Places(part, text, from) <=> k \in Places(part, text, 1) /\ from <= k
         /\ k \in Places(part, text, from) => k \in Nat \ {0} /\ k + Len(part) <= Len(text) + 1
<1>1. 1 \in Nat \ {0}
  OBVIOUS
<1>2. k \in Places(part, text, from) <=>
        /\ k \in Nat /\ from <= k /\ k + Len(part) <= Len(text) + 1
        /\ \A j \in 1..Len(part) : text[k + j - 1] = part[j]
  <2> DEFINE AtPlace(p, t, f, x) ==
               x \in Places(p, t, f) <=>
                 /\ x \in Nat /\ f <= x /\ x + Len(p) <= Len(t) + 1
                 /\ \A j \in 1..Len(p) : t[x + j - 1] = p[j]
  <2>1. \A p, t \in Seq(C) : \A f \in Nat \ {0} : \A x : AtPlace(p, t, f, x)
    BY PlacesAre
  <2>2. AtPlace(part, text, from, k)
    <3> HIDE DEF AtPlace
    <3> QED BY <2>1
  <2> QED BY <2>2
<1>3. k \in Places(part, text, 1) <=>
        /\ k \in Nat /\ 1 <= k /\ k + Len(part) <= Len(text) + 1
        /\ \A j \in 1..Len(part) : text[k + j - 1] = part[j]
  BY <1>1, PlacesAre
<1>4. k \in Nat /\ from <= k => 1 <= k /\ k # 0
  OBVIOUS
<1> QED BY <1>2, <1>3, <1>4

\* How far a pattern is through, after every part
AreRests(rest, parts, text) ==
  /\ rest[0] = 1
  /\ \A k \in 1..Len(parts) : rest[k] = WildStep(<<parts, text>>, rest[k - 1], k)

LEMMA WildRests ==
  ASSUME NEW C, NEW pattern, NEW text, Parts(pattern, "*") \in Seq(C)
  PROVE  \E rest :
           /\ AreRests(rest, Parts(pattern, "*"), text)
           /\ WildcardMatches(pattern, text) <=>
                IF Len(Parts(pattern, "*")) = 1 THEN pattern = text
                ELSE /\ rest[Len(Parts(pattern, "*"))] # 0
                     /\ IsSuffix(Last(Parts(pattern, "*")), text)
<1> DEFINE parts == Parts(pattern, "*")
           par == <<parts, text>>
           order == [k \in DOMAIN parts |-> k]
           m == Len(parts)
           after(rest, k) ==
             LET found == Places(parts[k], text, rest)
             IN  IF rest = 0 \/ parts[k] = <<>> THEN rest
                 ELSE IF k = 1 THEN IF IsPrefix(parts[1], text) THEN Len(parts[1]) + 1 ELSE 0
                 ELSE IF found = {} THEN 0 ELSE First(found) + Len(parts[k])
<1>1. WildcardMatches(pattern, text) <=>
        IF m = 1 THEN pattern = text
        ELSE FoldLeft(after, 1, order) # 0 /\ IsSuffix(Last(parts), text)
  BY DEF WildcardMatches
<1> HIDE DEF parts
<1>2. FoldLeft(after, 1, order) = WildFold!Fold(par, 1, order)
  BY DEF WildStep, FoldLeft, MapThenFoldSet, Max, WildFold!Fold, WildFold!FoldLeft,
     WildFold!MapThenFoldSet, WildFold!Max
<1>3. m \in Nat /\ DOMAIN parts = 1..m
  BY DEF parts
<1>4. order \in Seq(Nat) /\ Len(order) = m /\ \A k \in 1..m : order[k] = k
  <2>1. order \in [1..m -> Nat]
    BY <1>3
  <2>2. order \in Seq(Nat)
    BY <1>3, <2>1, SeqDef
  <2>3. Len(order) = m
    BY <1>3, <2>1, <2>2, LenProperties
  <2> QED BY <1>3, <2>2, <2>3
<1> HIDE DEF order, par, after, m
<1> DEFINE Good(p, base, s, g) ==
             /\ \A k \in 0..Len(s) : g[1..k] = IF k = 0 THEN base ELSE WildStep(p, g[1..(k - 1)], s[k])
             /\ WildFold!Fold(p, base, s) = g[1..Len(s)]
<1>5. \A p, base : \A s \in Seq(Nat) : \E g : Good(p, base, s, g)
  BY WildFold!FoldResults
<1>6. PICK g : Good(par, 1, order, g)
  <2> HIDE DEF Good
  <2> QED BY <1>4, <1>5
<1>7. g[1..0] = 1 /\ \A k \in 1..m : g[1..k] = WildStep(par, g[1..(k - 1)], k)
  <2>1. 0 \in 0..m /\ \A k \in 1..m : k \in 0..m /\ k # 0
    BY <1>3
  <2> QED BY <1>4, <1>6, <2>1
<1>8. WildFold!Fold(par, 1, order) = g[1..m]
  BY <1>4, <1>6
<1> HIDE DEF Good
<1> DEFINE rest == [k \in 0..m |-> g[1..k]]
<1>9. rest[0] = 1 /\ rest[m] = g[1..m]
  BY <1>3, <1>7
<1>10. \A k \in 1..m : rest[k] = WildStep(par, rest[k - 1], k)
  <2>1. \A k \in 1..m : k \in 0..m /\ k - 1 \in 0..m
    BY <1>3
  <2> QED BY <1>7, <2>1
<1> HIDE DEF rest
<1>11. AreRests(rest, parts, text)
  BY <1>9, <1>10 DEF AreRests, par, m
<1>12. WildcardMatches(pattern, text) <=>
         IF m = 1 THEN pattern = text ELSE rest[m] # 0 /\ IsSuffix(Last(parts), text)
  BY <1>1, <1>2, <1>8, <1>9
<1> QED BY <1>11, <1>12 DEF parts, m

RestStep(rest, parts, text, k) ==
  /\ rest[k - 1] \in Nat
  /\ rest[k] \in Nat
  /\ k = 1 => rest[k] = IF 1 \in Places(parts[k], text, 1) THEN Len(parts[k]) + 1 ELSE 0
  /\ k # 1 /\ rest[k - 1] = 0 => rest[k] = 0
  /\ k # 1 /\ rest[k - 1] # 0 =>
       rest[k] = IF Places(parts[k], text, rest[k - 1]) = {} THEN 0
                 ELSE First(Places(parts[k], text, rest[k - 1])) + Len(parts[k])
  /\ rest[k] <= Len(text) + 1

\* One step, said of the places of the part
LEMMA RestOf ==
  ASSUME NEW C, NEW parts \in Seq(Seq(C)), NEW text \in Seq(C), NEW rest, AreRests(rest, parts, text),
         NEW k \in 1..Len(parts)
  PROVE  RestStep(rest, parts, text, k)
<1> DEFINE m == Len(parts)
           T == Len(text)
           Fits1(j) == rest[j] \in Nat /\ rest[j] <= T + 1
           S == {j \in Nat : j <= m => Fits1(j)}
<1>1. m \in Nat /\ T \in Nat /\ rest[0] = 1
  BY DEF AreRests
<1>2. ASSUME NEW j \in 1..m, Fits1(j - 1)
      PROVE  /\ Fits1(j)
             /\ j = 1 => rest[j] = IF 1 \in Places(parts[j], text, 1) THEN Len(parts[j]) + 1 ELSE 0
             /\ j # 1 /\ rest[j - 1] = 0 => rest[j] = 0
             /\ j # 1 /\ rest[j - 1] # 0 =>
                  rest[j] = IF Places(parts[j], text, rest[j - 1]) = {} THEN 0
                            ELSE First(Places(parts[j], text, rest[j - 1])) + Len(parts[j])
  <2> DEFINE part == parts[j]
             n == Len(part)
             r == rest[j - 1]
             found == Places(part, text, r)
  <2>1. part \in Seq(C) /\ n \in Nat /\ (part = <<>> <=> n = 0) /\ r \in Nat /\ r <= T + 1
    BY <1>2
  <2>2. rest[j] = IF r = 0 \/ part = <<>> THEN r
                  ELSE IF j = 1 THEN IF IsPrefix(part, text) THEN n + 1 ELSE 0
                  ELSE IF found = {} THEN 0 ELSE First(found) + n
    BY DEF AreRests, WildStep
  <2>3. IsPrefix(part, text) <=> 1 \in Places(part, text, 1)
    BY <2>1, TextPrefix
  <2>4. ASSUME r # 0, found # {}
        PROVE  First(found) \in Nat /\ First(found) + n <= T + 1 /\ (n = 0 => First(found) = r)
    <3>1. \A x \in found : x \in Nat /\ r <= x /\ x + n <= T + 1
      BY <2>1, <2>4, PlacesAre
    <3>2. First(found) \in found /\ \A x \in found : First(found) <= x
      <4> HIDE DEF found
      <4> QED BY <2>4, <3>1, FirstIs
    <3>3. ASSUME n = 0 PROVE r \in found
      <4>1. r \in Nat \ {0} /\ r <= r /\ r + n <= T + 1 /\ 1..n = {}
        BY <1>1, <2>1, <2>4, <3>3
      <4> QED BY <2>1, <4>1, PlacesAre
    <3> HIDE DEF found, r, n
    <3>4. First(found) \in Nat /\ r <= First(found) /\ First(found) + n <= T + 1
      BY <3>1, <3>2
    <3>5. n = 0 => First(found) <= r
      BY <3>2, <3>3
    <3> QED BY <2>1, <3>4, <3>5
  <2>5. ASSUME r # 0, n = 0 PROVE r \in found /\ 1 \in Places(part, text, 1)
    <3>1. /\ 1 \in Nat \ {0} /\ 1 + n <= T + 1 /\ r + n <= T + 1 /\ r \in Nat \ {0}
          /\ r <= r /\ 1 <= 1 /\ 1..n = {}
      BY <1>1, <2>1, <2>5
    <3>2. r \in found
      BY <2>1, <3>1, PlacesAre
    <3>3. 1 \in Places(part, text, 1)
      BY <2>1, <3>1, PlacesAre
    <3> QED BY <3>2, <3>3
  <2>6. ASSUME j = 1
        PROVE  r = 1 /\ rest[j] = IF 1 \in Places(part, text, 1) THEN n + 1 ELSE 0
    <3>1. r = 1
      BY <1>1, <2>6
    <3>2. CASE n = 0
      BY <2>1, <2>2, <2>5, <3>1, <3>2
    <3>3. CASE n # 0
      BY <2>1, <2>2, <2>3, <2>6, <3>1, <3>3
    <3> QED BY <3>1, <3>2, <3>3
  <2>7. ASSUME j = 1 PROVE Fits1(j)
    <3>1. 1 \in Places(part, text, 1) => 1 + n <= T + 1
      <4>1. 1 \in Nat \ {0}
        OBVIOUS
      <4> QED BY <2>1, <4>1, PlacesAre
    <3> HIDE DEF part, n
    <3> QED BY <1>1, <2>1, <2>6, <2>7, <3>1
  <2>8. ASSUME j # 1, r = 0 PROVE rest[j] = 0
    BY <2>2, <2>8
  <2>9. ASSUME j # 1, r # 0 PROVE rest[j] = IF found = {} THEN 0 ELSE First(found) + n
    <3>1. CASE n = 0
      <4>1. rest[j] = r /\ found # {} /\ First(found) = r
        BY <2>1, <2>2, <2>4, <2>5, <2>9, <3>1
      <4> HIDE DEF found, r
      <4> QED BY <2>1, <3>1, <4>1
    <3>2. CASE n # 0
      BY <2>1, <2>2, <2>9, <3>2
    <3> QED BY <3>1, <3>2
  <2>10. ASSUME j # 1 PROVE Fits1(j)
    <3>1. CASE r = 0
      BY <1>1, <2>8, <2>10, <3>1
    <3>2. CASE r # 0
      <4> HIDE DEF found, n, r, T
      <4> QED BY <1>1, <2>1, <2>4, <2>9, <2>10, <3>2
    <3> QED BY <3>1, <3>2
  <2> HIDE DEF found, Fits1
  <2> QED BY <2>6, <2>7, <2>8, <2>9, <2>10 DEF found
<1>3. 0 \in S
  BY <1>1
<1>4. ASSUME NEW j \in Nat, j \in S PROVE j + 1 \in S
  <2> SUFFICES ASSUME j + 1 <= m PROVE Fits1(j + 1)
    OBVIOUS
  <2>1. j + 1 \in 1..m /\ (j + 1) - 1 = j /\ j <= m
    BY <1>1
  <2>2. Fits1((j + 1) - 1)
    BY <1>4, <2>1
  <2> HIDE DEF Fits1
  <2> QED BY <1>2, <2>1, <2>2
<1> HIDE DEF S
<1>5. k \in S /\ k - 1 \in S
  <2>1. k \in Nat /\ k - 1 \in Nat
    BY <1>1
  <2> QED BY <1>3, <1>4, <2>1, WildFold!NatSet
<1>6. Fits1(k) /\ Fits1(k - 1)
  <2>1. k <= m /\ k - 1 <= m
    BY <1>1
  <2> QED BY <1>5, <2>1 DEF S
<1> QED BY <1>2, <1>6 DEF RestStep

LEMMA PartEnds ==
  ASSUME NEW C, NEW pattern \in Seq(C), NEW text \in Seq(C), NEW ends, AreEnds(ends, pattern, text),
         NEW parts, NEW b, Cut(C, pattern, "*", parts, b), NEW k \in 1..Len(parts)
  PROVE  \A u : u \in ends[b[k] - 1 + Len(parts[k])] <=>
           /\ u \in 0..Len(text) /\ u - Len(parts[k]) \in ends[b[k] - 1]
           /\ u - Len(parts[k]) + 1 \in Places(parts[k], text, 1)
<1> DEFINE part == parts[k]
           n == Len(part)
           q == b[k] - 1
           T == Len(text)
<1>1. part \in Seq(C) /\ b[k] \in Nat \ {0} /\ k \in 1..Len(b)
  BY DEF Cut
<1>2. n \in Nat /\ q \in Nat /\ b[k] = q + 1 /\ T \in Nat /\ Len(pattern) \in Nat
  BY <1>1
<1>3. \A i \in 1..n : pattern[b[k] + i - 1] = part[i] /\ part[i] # "*"
  BY DEF Cut
<1>4. b[k] + n <= Len(pattern) + 1
  BY DEF Cut
<1> HIDE DEF part, n, q, T
<1>5. q + n <= Len(pattern)
  BY <1>2, <1>4
<1>6. \A i \in 1..n : pattern[q + i] = part[i] /\ part[i] # "*"
  <2>1. \A i \in 1..n : b[k] + i - 1 = q + i
    BY <1>2
  <2> QED BY <1>3, <2>1
<1>7. \A u : u \in ends[q + n] <=>
        u \in 0..T /\ u - n \in ends[q] /\ \A i \in 1..n : text[u - n + i] = pattern[q + i]
  <2>1. \A i \in 1..n : pattern[q + i] # "*"
    BY <1>6
  <2>2. \A u : u \in ends[q + n] <=>
          u \in 0..Len(text) /\ u - n \in ends[q] /\ \A i \in 1..n : text[u - n + i] = pattern[q + i]
    <3>1. q \in Nat /\ n \in Nat
      BY <1>2
    <3>2. RunTo(pattern, text, ends, q, n)
      BY <1>5, <2>1, <3>1, RunEnds
    <3> QED BY <3>2 DEF RunTo
  <2> QED BY <2>2 DEF T
<1>8. ends[q] \subseteq 0..T
  <2>1. q \in 0..Len(pattern)
    BY <1>2, <1>5
  <2> QED BY <2>1, EndsIn DEF T
<1>9. ASSUME NEW u \in 0..T, u - n \in ends[q]
      PROVE  u - n + 1 \in Places(part, text, 1) <=> \A i \in 1..n : text[u - n + i] = part[i]
  <2> DEFINE w == u - n + 1
  <2>1. w \in Nat /\ 1 <= w /\ w + n <= T + 1 /\ \A i \in 1..n : w + i - 1 = u - n + i
    <3>1. u - n \in 0..T
      BY <1>8, <1>9
    <3> QED BY <1>2, <3>1
  <2> HIDE DEF w
  <2>2. w \in Places(part, text, 1) <=>
          /\ w \in Nat /\ 1 <= w /\ w + n <= T + 1
          /\ \A i \in 1..n : text[w + i - 1] = part[i]
    <3>1. 1 \in Nat \ {0}
      OBVIOUS
    <3> QED BY <1>1, <3>1, PlacesAre DEF part, n, T
  <2>3. w \in Places(part, text, 1) <=> \A i \in 1..n : text[u - n + i] = part[i]
    BY <2>1, <2>2
  <2> QED BY <2>3 DEF w
<1>10. \A u : u \in ends[q + n] <=>
         u \in 0..T /\ u - n \in ends[q] /\ u - n + 1 \in Places(part, text, 1)
  BY <1>6, <1>7, <1>9
<1> QED BY <1>10 DEF q, n, part, T

LEMMA StarEnds ==
  ASSUME NEW C, NEW pattern \in Seq(C), NEW text \in Seq(C), NEW ends, AreEnds(ends, pattern, text),
         NEW parts, NEW b, Cut(C, pattern, "*", parts, b), NEW k \in 1..(Len(parts) - 1)
  PROVE  \A u : u \in ends[b[k + 1] - 1] <=>
           u \in 0..Len(text) /\ \E t \in ends[b[k] - 1 + Len(parts[k])] : t <= u
<1> DEFINE p == b[k + 1] - 1
           l == Len(parts[k])
<1>1. Len(parts) \in Nat /\ Len(pattern) \in Nat
  BY DEF Cut
<1>2. k \in 1..Len(parts) /\ k + 1 \in 1..Len(parts)
  BY <1>1
<1>3. b[k + 1] = b[k] + l + 1 /\ pattern[p] = "*"
  BY DEF Cut
<1>4. /\ b[k] \in Nat \ {0} /\ l \in Nat /\ Len(parts[k + 1]) \in Nat
      /\ b[k + 1] + Len(parts[k + 1]) <= Len(pattern) + 1
  <2>1. /\ b \in Seq(Nat \ {0}) /\ parts \in Seq(Seq(C)) /\ Len(b) = Len(parts)
        /\ b[k + 1] + Len(parts[k + 1]) <= Len(pattern) + 1
    BY <1>2 DEF Cut
  <2>2. parts[k] \in Seq(C) /\ parts[k + 1] \in Seq(C) /\ b[k] \in Nat \ {0}
    BY <1>2, <2>1
  <2> QED BY <2>1, <2>2
<1> HIDE DEF l
<1>5. p \in 1..Len(pattern) /\ p - 1 = b[k] - 1 + l
  <2>1. p = b[k] + l
    BY <1>3, <1>4
  <2>2. b[k] + l + 1 <= Len(pattern) + 1
    BY <1>1, <1>3, <1>4
  <2> QED BY <1>1, <1>4, <2>1, <2>2
<1> HIDE DEF p
<1>6. ends[p] = {u \in 0..Len(text) : \E t \in ends[p - 1] : t <= u}
  BY <1>3, <1>5 DEF AreEnds, EndStep
<1> QED BY <1>5, <1>6 DEF p, l

\* After the star that follows a part, a text may go on anywhere behind the part.
LEMMA WildEnds ==
  ASSUME NEW C, NEW pattern \in Seq(C), NEW text \in Seq(C), NEW ends, AreEnds(ends, pattern, text),
         NEW parts, NEW b, Cut(C, pattern, "*", parts, b), NEW rest, AreRests(rest, parts, text),
         NEW k \in 1..Len(parts), k < Len(parts)
  PROVE  \A u : u \in ends[b[k + 1] - 1] <=> u \in 0..Len(text) /\ rest[k] # 0 /\ rest[k] <= u + 1
<1> DEFINE m == Len(parts)
           T == Len(text)
           Holds(j) == \A u : u \in ends[b[j + 1] - 1] <=> u \in 0..T /\ rest[j] # 0 /\ rest[j] <= u + 1
           S == {j \in Nat : j + 1 < m => Holds(j + 1)}
<1>1. m \in Nat /\ T \in Nat /\ parts \in Seq(Seq(C)) /\ b[1] = 1
  BY DEF Cut
<1>2. 0 \in S
  <2> SUFFICES ASSUME 0 + 1 < m PROVE Holds(1)
    OBVIOUS
  <2> DEFINE part == parts[1]
             n == Len(part)
  <2>1. 1 \in 1..m /\ 1 \in 1..(m - 1)
    BY <1>1
  <2>2. part \in Seq(C) /\ n \in Nat
    BY <1>1, <2>1
  <2>3. rest[1] \in Nat /\ rest[1] = IF 1 \in Places(part, text, 1) THEN n + 1 ELSE 0
    <3>1. RestStep(rest, parts, text, 1)
      BY <1>1, <2>1, RestOf
    <3> QED BY <3>1 DEF RestStep
  <2>4. \A u : u \in ends[b[1] - 1 + n] <=>
                 u \in 0..T /\ u - n \in ends[b[1] - 1] /\ u - n + 1 \in Places(part, text, 1)
    BY <2>1, PartEnds
  <2>5. \A u : u \in ends[b[1 + 1] - 1] <=> u \in 0..T /\ \E t \in ends[b[1] - 1 + n] : t <= u
    BY <2>1, StarEnds
  <2> HIDE DEF n, part, T
  <2>6. b[1] - 1 = 0 /\ b[1] - 1 + n = n /\ ends[0] = {0}
    BY <1>1, <2>2 DEF AreEnds
  <2>7. \A u \in 0..T : u - n = 0 => u = n /\ u - n + 1 = 1
    BY <1>1, <2>2
  <2>8. \A t : t \in ends[n] <=> t = n /\ t \in 0..T /\ 1 \in Places(part, text, 1)
    <3>1. n - n = 0 /\ n - n + 1 = 1
      BY <2>2
    <3> QED BY <2>4, <2>6, <2>7, <3>1
  <2>9. 1 \in Places(part, text, 1) => n \in 0..T
    <3>1. 1 \in Nat \ {0}
      OBVIOUS
    <3>2. 1 \in Places(part, text, 1) => 1 + n <= T + 1
      BY <2>2, <3>1, PlacesAre DEF n, T
    <3> QED BY <1>1, <2>2, <3>2
  <2>10. \A u : u \in ends[b[1 + 1] - 1] <=> u \in 0..T /\ 1 \in Places(part, text, 1) /\ n <= u
    BY <2>5, <2>6, <2>8, <2>9
  <2>11. \A u \in 0..T : (1 \in Places(part, text, 1) /\ n <= u) <=> (rest[1] # 0 /\ rest[1] <= u + 1)
    BY <1>1, <2>2, <2>3
  <2> QED BY <2>10, <2>11
<1>3. ASSUME NEW j \in Nat, j \in S PROVE j + 1 \in S
  <2> DEFINE i == (j + 1) + 1
  <2> SUFFICES ASSUME i < m PROVE Holds(i)
    <3> HIDE DEF Holds
    <3> QED OBVIOUS
  <2> DEFINE part == parts[i]
             n == Len(part)
             r == rest[j + 1]
             found == Places(part, text, r)
  <2>1. i \in 1..m /\ i \in 1..(m - 1) /\ j + 1 < m /\ i - 1 = j + 1 /\ i # 1
    BY <1>1
  <2>2. part \in Seq(C) /\ n \in Nat
    BY <1>1, <2>1
  <2>3. Holds(j + 1)
    <3> HIDE DEF Holds
    <3> QED BY <1>3, <2>1
  <2>4. \A u : u \in ends[b[i] - 1 + n] <=>
                 u \in 0..T /\ u - n \in ends[b[i] - 1] /\ u - n + 1 \in Places(part, text, 1)
    BY <2>1, PartEnds
  <2>5. \A u : u \in ends[b[i + 1] - 1] <=> u \in 0..T /\ \E t \in ends[b[i] - 1 + n] : t <= u
    BY <2>1, StarEnds
  <2>6. \A v : v \in ends[b[i] - 1] <=> v \in 0..T /\ r # 0 /\ r <= v + 1
    BY <2>3
  <2>7. /\ r \in Nat /\ rest[i] \in Nat
        /\ r = 0 => rest[i] = 0
        /\ r # 0 => rest[i] = IF found = {} THEN 0 ELSE First(found) + n
    <3>1. /\ rest[i - 1] \in Nat /\ rest[i] \in Nat
          /\ i # 1 /\ rest[i - 1] = 0 => rest[i] = 0
          /\ i # 1 /\ rest[i - 1] # 0 =>
               rest[i] = IF Places(parts[i], text, rest[i - 1]) = {} THEN 0
                         ELSE First(Places(parts[i], text, rest[i - 1])) + Len(parts[i])
      <4>1. RestStep(rest, parts, text, i)
        <5> HIDE DEF i
        <5> QED BY <1>1, <2>1, RestOf
      <4> HIDE DEF i
      <4> QED BY <4>1 DEF RestStep
    <3>2. rest[i - 1] = r
      BY <2>1
    <3> HIDE DEF r, i
    <3> QED BY <2>1, <3>1, <3>2
  <2>8. r # 0 => \A w : /\ w \in found <=> w \in Places(part, text, 1) /\ r <= w
                        /\ w \in found => w \in Nat \ {0} /\ w + n <= T + 1
    BY <2>2, <2>7, PlacesFrom
  <2>9. r # 0 /\ found # {} => First(found) \in found /\ \A w \in found : First(found) <= w
    BY <2>8, FirstIs
  <2> HIDE DEF found, r, n, part, T, i, m
  <2>10. \A u : u \in ends[b[i] - 1 + n] <=> u \in 0..T /\ r # 0 /\ u - n + 1 \in found
    <3>1. ASSUME NEW u \in 0..T, r # 0, u - n + 1 \in found
          PROVE  u - n \in 0..T /\ r <= (u - n) + 1 /\ u - n + 1 \in Places(part, text, 1)
      <4>1. u - n + 1 \in Nat \ {0} /\ r <= u - n + 1 /\ u - n + 1 \in Places(part, text, 1)
        BY <2>8, <3>1
      <4> QED BY <1>1, <2>2, <4>1
    <3> QED BY <2>4, <2>6, <2>8, <3>1
  <2>11. ASSUME NEW u \in 0..T
         PROVE  (\E t \in ends[b[i] - 1 + n] : t <= u) <=> rest[i] # 0 /\ rest[i] <= u + 1
    <3>1. ASSUME NEW t \in ends[b[i] - 1 + n], t <= u PROVE rest[i] # 0 /\ rest[i] <= u + 1
      <4>1. t \in 0..T /\ r # 0 /\ t - n + 1 \in found
        BY <2>10
      <4>2. /\ rest[i] = First(found) + n /\ First(found) \in Nat \ {0}
            /\ First(found) <= t - n + 1
        BY <2>7, <2>8, <2>9, <4>1
      <4>3. t <= u
        BY <3>1
      <4> HIDE DEF found
      <4> QED BY <1>1, <2>2, <4>1, <4>2, <4>3
    <3>2. ASSUME rest[i] # 0, rest[i] <= u + 1 PROVE \E t \in ends[b[i] - 1 + n] : t <= u
      <4>1. r # 0 /\ found # {} /\ rest[i] = First(found) + n
        BY <2>7, <3>2
      <4> DEFINE f == First(found)
                 t == f - 1 + n
      <4>2. f \in found /\ f \in Nat \ {0} /\ f + n <= T + 1 /\ f + n = rest[i]
        BY <2>8, <2>9, <4>1
      <4>5. rest[i] <= u + 1
        BY <3>2
      <4> HIDE DEF f
      <4>3. t \in 0..T /\ t - n + 1 = f /\ t <= u
        BY <1>1, <2>2, <4>2, <4>5
      <4>4. t \in ends[b[i] - 1 + n]
        BY <2>10, <4>1, <4>2, <4>3
      <4> QED BY <4>3, <4>4
    <3> QED BY <3>1, <3>2
  <2> QED BY <2>5, <2>11
<1> HIDE DEF Holds
<1>4. k - 1 \in S
  <2>1. k - 1 \in Nat
    BY <1>1
  <2> HIDE DEF S
  <2> QED BY <1>2, <1>3, <2>1, WildFold!NatSet
<1>5. Holds(k)
  <2>1. (k - 1) + 1 = k /\ k < m
    BY <1>1
  <2> QED BY <1>4, <2>1
<1> QED BY <1>5 DEF Holds

\* wildcard_matches, which takes the first place of every part and never goes back,
\* finds the texts that the pattern means.
THEOREM WildcardIsGlob ==
  ASSUME NEW C, NEW pattern \in Seq(C), NEW text \in Seq(C)
  PROVE  WildcardMatches(pattern, text) <=> Glob(pattern, text)
<1> DEFINE parts == Parts(pattern, "*")
           m == Len(parts)
           T == Len(text)
           P == Len(pattern)
           last == parts[m]
           n == Len(last)
<1>1. PICK b : Cut(C, pattern, "*", parts, b)
  BY PartsAre
<1>2. parts \in Seq(Seq(C)) /\ m \in Nat /\ m # 0 /\ b[1] = 1 /\ b[m] + n = P + 1
  BY <1>1 DEF Cut
<1>3. PICK ends : AreEnds(ends, pattern, text) /\ (Glob(pattern, text) <=> T \in ends[P])
  BY GlobEnds
<1>4. PICK rest : /\ AreRests(rest, parts, text)
                  /\ WildcardMatches(pattern, text) <=>
                       IF m = 1 THEN pattern = text ELSE rest[m] # 0 /\ IsSuffix(Last(parts), text)
  BY <1>2, WildRests
<1> HIDE DEF parts
<1>5. m \in 1..m /\ last \in Seq(C) /\ n \in Nat /\ T \in Nat /\ P \in Nat /\ b[m] \in Nat \ {0}
  <2>1. m \in 1..m
    BY <1>2
  <2>2. b \in Seq(Nat \ {0}) /\ Len(b) = m
    BY <1>1 DEF Cut
  <2>3. last \in Seq(C)
    BY <1>2, <2>1
  <2> QED BY <2>1, <2>2, <2>3
<1>6. \A u : u \in ends[b[m] - 1 + n] <=>
        u \in 0..T /\ u - n \in ends[b[m] - 1] /\ u - n + 1 \in Places(last, text, 1)
  BY <1>1, <1>3, <1>5, PartEnds
<1>7. Last(parts) = last
  BY DEF Last
<1> HIDE DEF last, n, m, T, P
<1>8. b[m] - 1 + n = P /\ T \in 0..T
  <2>1. b[m] + n = P + 1
    BY <1>2
  <2>2. b[m] \in Nat /\ n \in Nat /\ P \in Nat /\ T \in Nat
    BY <1>5
  <2> QED BY <2>1, <2>2
<1>9. T \in ends[P] <=> T - n \in ends[b[m] - 1] /\ T - n + 1 \in Places(last, text, 1)
  BY <1>6, <1>8
<1>10. T - n + 1 \in Places(last, text, 1) <=>
         n <= T /\ \A j \in 1..n : text[T - n + j] = last[j]
  <2> DEFINE w == T - n + 1
  <2>1. w \in Places(last, text, 1) <=>
          /\ w \in Nat /\ 1 <= w /\ w + n <= T + 1
          /\ \A j \in 1..n : text[w + j - 1] = last[j]
    <3>1. 1 \in Nat \ {0}
      OBVIOUS
    <3>2. w \in Places(last, text, 1) <=>
            /\ w \in Nat /\ 1 <= w /\ w + Len(last) <= Len(text) + 1
            /\ \A j \in 1..Len(last) : text[w + j - 1] = last[j]
      <4> HIDE DEF w
      <4> QED BY <1>5, <3>1, PlacesAre
    <3> HIDE DEF w
    <3> QED BY <3>2 DEF n, T
  <2>2. (w \in Nat /\ 1 <= w /\ w + n <= T + 1) <=> n <= T
    BY <1>5
  <2>3. \A j \in 1..n : w + j - 1 = T - n + j
    BY <1>5
  <2> HIDE DEF w
  <2>4. w \in Places(last, text, 1) <=> n <= T /\ \A j \in 1..n : text[T - n + j] = last[j]
    BY <2>1, <2>2, <2>3
  <2> QED BY <2>4 DEF w
<1>11. CASE m = 1
  <2>1. b[m] - 1 = 0 /\ n = P /\ ends[0] = {0}
    BY <1>2, <1>3, <1>5, <1>8, <1>11 DEF AreEnds
  <2>2. \A j \in 1..P : pattern[j] = last[j]
    <3>1. \A j \in 1..n : pattern[b[m] + j - 1] = last[j]
      BY <1>1, <1>5 DEF Cut, last, n, m
    <3>2. \A j \in 1..n : b[m] + j - 1 = j
      BY <1>2, <1>5, <1>11
    <3> QED BY <2>1, <3>1, <3>2
  <2>3. T \in ends[P] <=> T - P = 0 /\ n <= T /\ \A j \in 1..n : text[T - n + j] = last[j]
    BY <1>9, <1>10, <2>1
  <2>4. ASSUME T = P PROVE n <= T /\ \A j \in 1..n : T - n + j = j
    BY <1>5, <2>1, <2>4
  <2>5. T - P = 0 <=> T = P
    BY <1>5
  <2>6. T \in ends[P] <=> T = P /\ \A j \in 1..P : text[j] = pattern[j]
    BY <2>1, <2>2, <2>3, <2>4, <2>5
  <2>7. pattern = text <=> T = P /\ \A j \in 1..P : text[j] = pattern[j]
    <3>1. ASSUME Len(text) = Len(pattern), \A j \in 1..Len(pattern) : text[j] = pattern[j]
          PROVE  pattern = text
      BY <3>1, SeqEqual
    <3> QED BY <3>1 DEF T, P
  <2> QED BY <1>3, <1>4, <1>11, <2>6, <2>7
<1>12. CASE m # 1
  <2> DEFINE r == rest[m - 1]
             found == Places(last, text, r)
  <2>1. m - 1 \in 1..m /\ m - 1 < m /\ (m - 1) + 1 = m
    BY <1>2, <1>12
  <2>2. \A u : u \in ends[b[(m - 1) + 1] - 1] <=>
                 u \in 0..T /\ rest[m - 1] # 0 /\ rest[m - 1] <= u + 1
    BY <1>1, <1>3, <1>4, <2>1, WildEnds DEF T, m
  <2>3. \A u : u \in ends[b[m] - 1] <=> u \in 0..T /\ r # 0 /\ r <= u + 1
    BY <2>1, <2>2
  <2>4. RestStep(rest, parts, text, m)
    BY <1>2, <1>4, <1>5, RestOf DEF m
  <2>5. /\ r \in Nat /\ rest[m] \in Nat /\ (r = 0 => rest[m] = 0)
        /\ r # 0 => rest[m] = IF found = {} THEN 0 ELSE First(found) + n
    BY <1>12, <2>4 DEF RestStep, last, n
  <2>6. r # 0 => \A w : /\ w \in found <=> w \in Places(last, text, 1) /\ r <= w
                        /\ w \in found => w \in Nat \ {0} /\ w + n <= T + 1
    BY <1>5, <2>5, PlacesFrom DEF n, T
  <2>7. r # 0 /\ found # {} => First(found) \in found
    BY <2>6, FirstIs
  <2>8. IsSuffix(last, text) <=> T - n + 1 \in Places(last, text, 1)
    <3>1. IsSuffix(last, text) <=> n <= T /\ \A j \in 1..n : text[T - n + j] = last[j]
      BY <1>5, SuffixAt DEF n, T
    <3> QED BY <1>10, <3>1
  <2> HIDE DEF r, found
  <2>9. rest[m] # 0 <=> r # 0 /\ found # {}
    <3>1. ASSUME r # 0, found # {} PROVE rest[m] # 0
      <4>1. First(found) \in Nat \ {0} /\ rest[m] = First(found) + n
        BY <2>5, <2>6, <2>7, <3>1
      <4> QED BY <1>5, <4>1
    <3> QED BY <2>5, <3>1
  <2>10. ASSUME T \in ends[P] PROVE rest[m] # 0 /\ IsSuffix(last, text)
    <3>1. /\ T - n \in 0..T /\ r # 0 /\ r <= (T - n) + 1 /\ T - n + 1 \in Places(last, text, 1)
      BY <1>9, <2>3, <2>10
    <3>2. T - n + 1 \in found
      BY <2>6, <3>1
    <3> QED BY <2>8, <2>9, <3>1, <3>2
  <2>11. ASSUME rest[m] # 0, IsSuffix(last, text) PROVE T \in ends[P]
    <3>1. r # 0 /\ found # {} /\ T - n + 1 \in Places(last, text, 1)
      BY <2>8, <2>9, <2>11
    <3>2. n <= T
      BY <1>10, <3>1
    <3>3. PICK w \in found : TRUE
      BY <3>1
    <3>4. r <= w /\ w \in Nat \ {0} /\ w + n <= T + 1
      BY <2>6, <3>1, <3>3
    <3>5. T - n \in 0..T /\ r <= (T - n) + 1
      BY <1>5, <2>5, <3>2, <3>4
    <3> QED BY <1>9, <2>3, <3>1, <3>5
  <2> QED BY <1>3, <1>4, <1>7, <1>12, <2>10, <2>11
<1> QED BY <1>11, <1>12

\* All parts of a pattern occur where it matches.
LEMMA WildcardParts ==
  ASSUME NEW C, NEW pattern \in Seq(C), NEW text \in Seq(C), WildcardMatches(pattern, text)
  PROVE  /\ Parts(pattern, "*") \in Seq(Seq(C))
         /\ \A part \in ToSet(Parts(pattern, "*")) : Occurs(part, text)
<1> DEFINE parts == Parts(pattern, "*")
           m == Len(parts)
<1>1. PICK b : Cut(C, pattern, "*", parts, b)
  BY PartsAre
<1>2. parts \in Seq(Seq(C)) /\ m \in Nat /\ m # 0 /\ b[1] = 1 /\ b[m] + Len(parts[m]) = Len(pattern) + 1
  BY <1>1 DEF Cut
<1>3. PICK rest : /\ AreRests(rest, parts, text)
                  /\ WildcardMatches(pattern, text) <=>
                       IF m = 1 THEN pattern = text ELSE rest[m] # 0 /\ IsSuffix(Last(parts), text)
  BY <1>2, WildRests
<1> HIDE DEF parts
<1>4. ASSUME NEW part \in Seq(C), 1 \in Places(part, text, 1) PROVE Occurs(part, text)
  BY <1>4 DEF Occurs
<1>5. CASE m = 1
  <2>1. parts[1] \in Seq(C) /\ Len(parts[1]) = Len(text) /\ text = pattern
    <3>1. parts[1] \in Seq(C)
      <4>1. parts \in Seq(Seq(C)) /\ 1 \in 1..Len(parts)
        BY <1>2, <1>5
      <4> QED BY <4>1
    <3>2. Len(parts[1]) \in Nat /\ Len(pattern) \in Nat /\ b[1] = 1 /\ b[1] + Len(parts[1]) = Len(pattern) + 1
      BY <1>2, <1>5, <3>1
    <3>3. Len(parts[1]) = Len(pattern)
      BY <3>2
    <3> QED BY <1>3, <1>5, <3>1, <3>3
  <2>2. \A j \in 1..Len(parts[1]) : pattern[b[1] + j - 1] = parts[1][j]
    BY <1>1, <1>5 DEF Cut
  <2>3. \A j \in 1..Len(parts[1]) : b[1] + j - 1 = j
    BY <1>2
  <2>4. IsPrefix(parts[1], text)
    <3>1. \A j \in 1..Len(parts[1]) : text[j] = parts[1][j]
      BY <2>1, <2>2, <2>3
    <3>2. Len(parts[1]) <= Len(text)
      BY <2>1
    <3> QED BY <2>1, <3>1, <3>2, TextPrefix
  <2>5. 1 \in Places(parts[1], text, 1)
    BY <2>1, <2>4, TextPrefix
  <2>6. \A part \in ToSet(parts) : part = parts[1]
    BY <1>2, <1>5 DEF ToSet
  <2> QED BY <1>2, <1>4, <2>1, <2>5, <2>6 DEF parts
<1>6. CASE m # 1
  <2> DEFINE S == {j \in Nat : j < m => rest[m - j] # 0}
  <2>1. 0 \in S
    <3>1. m - 0 = m
      BY <1>2
    <3> QED BY <1>3, <1>6, <3>1
  <2>2. ASSUME NEW k \in 1..m PROVE RestStep(rest, parts, text, k)
    BY <1>2, <1>3, RestOf
  <2>3. ASSUME NEW j \in Nat, j \in S PROVE j + 1 \in S
    <3> SUFFICES ASSUME j + 1 < m PROVE rest[m - (j + 1)] # 0
      OBVIOUS
    <3> DEFINE k == m - j
    <3>1. k \in 1..m /\ k # 1 /\ k - 1 = m - (j + 1) /\ j < m
      BY <1>2
    <3>2. rest[k] # 0
      BY <2>3, <3>1
    <3> HIDE DEF k
    <3>3. RestStep(rest, parts, text, k)
      BY <2>2, <3>1
    <3>4. rest[k - 1] # 0
      BY <3>1, <3>2, <3>3 DEF RestStep
    <3> QED BY <3>1, <3>4
  <2>4. ASSUME NEW k \in 1..m PROVE rest[k] # 0
    <3>1. m - k \in Nat /\ m - k < m /\ m - (m - k) = k
      BY <1>2
    <3> HIDE DEF S
    <3>2. m - k \in S
      BY <2>1, <2>3, <3>1, WildFold!NatSet
    <3>3. rest[m - (m - k)] # 0
      BY <3>1, <3>2 DEF S
    <3> QED BY <3>1, <3>3
  <2>5. ASSUME NEW k \in 1..m PROVE Occurs(parts[k], text)
    <3>1. RestStep(rest, parts, text, k) /\ rest[k] # 0 /\ parts[k] \in Seq(C)
      BY <1>2, <2>2, <2>4
    <3>2. CASE k = 1
      <4>1. 1 \in Places(parts[k], text, 1)
        BY <3>1, <3>2 DEF RestStep
      <4> QED BY <4>1 DEF Occurs
    <3>3. CASE k # 1
      <4> DEFINE r == rest[k - 1]
      <4>1. r \in Nat /\ r # 0 /\ Places(parts[k], text, r) # {}
        BY <3>1, <3>3 DEF RestStep
      <4>2. PICK w \in Places(parts[k], text, r) : TRUE
        BY <4>1
      <4>3. w \in Places(parts[k], text, 1)
        <5> HIDE DEF r
        <5> QED BY <3>1, <4>1, <4>2, PlacesFrom
      <4> QED BY <4>3 DEF Occurs
    <3> QED BY <3>2, <3>3
  <2>6. \A part \in ToSet(parts) : \E k \in 1..m : part = parts[k]
    BY <1>2 DEF ToSet
  <2> QED BY <1>2, <2>5, <2>6 DEF parts
<1> QED BY <1>5, <1>6

ModeStep(query, before, k) ==
  CASE before = "inside" /\ query[k] = Backslash -> "protected"
    [] before = "inside" /\ query[k] = Quote     -> "outside"
    [] before = "outside" /\ query[k] = Quote    -> "inside"
    [] before = "protected"                      -> "inside"
    [] OTHER                                     -> before

ModeFold == INSTANCE FoldProofs WITH Op <- ModeStep

-----------------------------------------------------------------------------
(* Words                                                                   *)

AreModes(query, mode) ==
  /\ mode[0] = "outside"
  /\ \A k \in 1..Len(query) : mode[k] = ModeStep(query, mode[k - 1], k)

LEMMA ModesAre ==
  ASSUME NEW C, NEW query \in Seq(C)
  PROVE  AreModes(query, Reading(query))
<1> DEFINE n == Len(query)
           Modes(f) == [k \in 0..n |->
             IF k = 0 THEN "outside"
             ELSE LET before == f[k - 1]
                  IN  CASE before = "inside" /\ query[k] = Backslash -> "protected"
                        [] before = "inside" /\ query[k] = Quote     -> "outside"
                        [] before = "outside" /\ query[k] = Quote    -> "inside"
                        [] before = "protected"                      -> "inside"
                        [] OTHER                                     -> before]
           g == CHOOSE f : f = Modes(f)
<1>1. n \in Nat
  OBVIOUS
<1>2. Reading(query) = g
  BY DEF Reading
<1>3. \E f : f = Modes(f)
  <2> DEFINE Same(q, base, f) == f = [k \in Nat |-> IF k = 0 THEN base ELSE ModeStep(q, f[k - 1], k)]
  <2>1. \A q, base : \E f : Same(q, base, f)
    BY ModeFold!Iteration
  <2>2. PICK h : Same(query, "outside", h)
    <3> HIDE DEF Same
    <3> QED BY <2>1
  <2> DEFINE r == [k \in 0..n |-> h[k]]
  <2> HIDE DEF n
  <2>3. \A k \in 0..n : h[k] = IF k = 0 THEN "outside" ELSE ModeStep(query, h[k - 1], k)
    <3>1. \A k \in Nat : h[k] = IF k = 0 THEN "outside" ELSE ModeStep(query, h[k - 1], k)
      BY <2>2
    <3>2. \A k \in 0..n : k \in Nat
      BY <1>1
    <3> QED BY <3>1, <3>2
  <2>4. \A k \in 0..n : k # 0 => r[k - 1] = h[k - 1]
    BY <1>1
  <2>5. \A k \in 0..n : r[k] = IF k = 0 THEN "outside" ELSE ModeStep(query, r[k - 1], k)
    BY <2>3, <2>4
  <2>6. r = [k \in 0..n |-> r[k]]
    OBVIOUS
  <2> HIDE DEF r
  <2>7. r = [k \in 0..n |-> IF k = 0 THEN "outside" ELSE ModeStep(query, r[k - 1], k)]
    BY <2>5, <2>6
  <2>8. r = Modes(r)
    BY <2>7 DEF ModeStep
  <2> QED BY <2>8
<1>4. g = Modes(g)
  <2> HIDE DEF Modes
  <2> QED BY <1>3
<1> HIDE DEF g
<1>5. g[0] = "outside"
  BY <1>1, <1>4
<1>6. ASSUME NEW k \in 1..n PROVE g[k] = ModeStep(query, g[k - 1], k)
  <2>1. k \in 0..n /\ k # 0
    BY <1>1
  <2> QED BY <1>4, <2>1 DEF ModeStep
<1> QED BY <1>2, <1>5, <1>6 DEF AreModes

\* What one character does to a reading
LEMMA ModeAt ==
  ASSUME NEW C, NEW query \in Seq(C), NEW k \in 1..Len(query)
  PROVE  LET before == Reading(query)[k - 1]
             after  == Reading(query)[k]
         IN  /\ before \in {"outside", "inside", "protected"} /\ after = ModeStep(query, before, k)
             /\ after \in {"outside", "inside", "protected"}
<1> DEFINE M == Reading(query)
           Modes == {"outside", "inside", "protected"}
           S == {j \in Nat : j <= Len(query) => M[j] \in Modes}
<1>1. M[0] = "outside" /\ \A j \in 1..Len(query) : M[j] = ModeStep(query, M[j - 1], j)
  BY ModesAre DEF AreModes
<1> HIDE DEF M
<1>2. 0 \in S
  BY <1>1
<1>3. ASSUME NEW j \in Nat, j \in S PROVE j + 1 \in S
  <2> SUFFICES ASSUME j + 1 <= Len(query) PROVE M[j + 1] \in Modes
    OBVIOUS
  <2>1. j + 1 \in 1..Len(query) /\ (j + 1) - 1 = j /\ j <= Len(query)
    OBVIOUS
  <2>2. M[j] \in Modes /\ M[j + 1] = ModeStep(query, M[j], j + 1)
    BY <1>1, <1>3, <2>1
  <2> QED BY <2>2 DEF ModeStep
<1>4. k \in Nat /\ k <= Len(query) /\ k - 1 \in Nat /\ k - 1 <= Len(query)
  OBVIOUS
<1> HIDE DEF S
<1>5. k \in S /\ k - 1 \in S
  BY <1>2, <1>3, <1>4, ModeFold!NatSet
<1> QED BY <1>1, <1>4, <1>5 DEF S, M

-----------------------------------------------------------------------------
(* A word, character by character                                          *)

LEMMA SeqFrom ==
  ASSUME NEW S, NEW n \in Nat, NEW f \in [1..n -> S]
  PROVE  f \in Seq(S) /\ Len(f) = n
<1>1. f \in Seq(S)
  BY SeqDef
<1>2. Len(f) = n
  BY <1>1, LenProperties
<1> QED BY <1>1, <1>2

\* What is put at the end comes last.
LEMMA FlattenAppend ==
  ASSUME NEW B, NEW seqs \in Seq(Seq(B)), NEW e \in Seq(B)
  PROVE  FlattenSeq(Append(seqs, e)) = FlattenSeq(seqs) \o e /\ FlattenSeq(seqs) \in Seq(B)
<1> DEFINE n == Len(seqs)
           t == Append(seqs, e)
<1>1. /\ t \in Seq(Seq(B)) /\ n \in Nat /\ Len(t) = n + 1 /\ t[n + 1] = e
      /\ \A i \in 1..n : t[i] = seqs[i]
  BY AppendProperties
<1>2. PICK f \in [0..n -> Seq(B)] :
        /\ f[0] = <<>> /\ \A k \in 1..n : f[k] = f[k - 1] \o seqs[k]
        /\ FlattenSeq(seqs) = f[n]
  BY Flattened
<1> HIDE DEF t
<1>3. PICK h \in [0..Len(t) -> Seq(B)] :
        /\ h[0] = <<>> /\ \A k \in 1..Len(t) : h[k] = h[k - 1] \o t[k]
        /\ FlattenSeq(t) = h[Len(t)]
  BY <1>1, Flattened
<1> HIDE DEF n
<1> DEFINE T == {k \in Nat : k <= n => h[k] = f[k]}
<1>4. 0 \in T
  BY <1>2, <1>3
<1>5. ASSUME NEW k \in Nat, k \in T PROVE k + 1 \in T
  <2> SUFFICES ASSUME k + 1 <= n PROVE h[k + 1] = f[k + 1]
    OBVIOUS
  <2>1. k + 1 \in 1..n /\ k + 1 \in 1..Len(t) /\ (k + 1) - 1 = k /\ k <= n
    BY <1>1
  <2>2. f[k + 1] = f[k] \o seqs[k + 1] /\ h[k + 1] = h[k] \o t[k + 1]
    BY <1>2, <1>3, <2>1
  <2>3. h[k] = f[k] /\ t[k + 1] = seqs[k + 1]
    BY <1>1, <1>5, <2>1
  <2> QED BY <2>2, <2>3
<1>6. n \in T
  <2> HIDE DEF T
  <2> QED BY <1>1, <1>4, <1>5, ModeFold!NatSet
<1>7. h[n + 1] = h[n] \o t[n + 1] /\ h[n] = f[n]
  <2>1. n + 1 \in 1..Len(t) /\ (n + 1) - 1 = n /\ n <= n
    BY <1>1
  <2>2. h[n + 1] = h[(n + 1) - 1] \o t[n + 1]
    BY <1>3, <2>1
  <2>3. h[n] = f[n]
    BY <1>6, <2>1
  <2> QED BY <2>1, <2>2, <2>3
<1>8. f[n] \in Seq(B)
  BY <1>1, <1>2
<1> QED BY <1>1, <1>2, <1>3, <1>7, <1>8 DEF t

WordIs(query, b, k, text, quoted) == Word(query, <<b, k>>) = [text |-> text, quoted |-> quoted]

LEMMA WordEmpty ==
  ASSUME NEW query, NEW b \in Nat \ {0}
  PROVE  WordIs(query, b, b - 1, <<>>, FALSE)
<1>1. (b - 1) - b + 1 = 0 /\ b..(b - 1) = {} /\ 1..0 = {}
  OBVIOUS
<1> DEFINE w == <<b, b - 1>>
           kept(k) == IF Mark(query, k) THEN <<>> ELSE <<query[k]>>
           seqs == [n \in 1..(w[2] - w[1] + 1) |-> kept(w[1] + n - 1)]
<1>2. w[1] = b /\ w[2] = b - 1
  OBVIOUS
<1> HIDE DEF w, kept
<1>3. seqs = <<>>
  BY <1>1, <1>2
<1>4. FlattenSeq(<<>>) = <<>>
  BY DEF FlattenSeq
<1> HIDE DEF seqs
<1>5. ~\E k \in w[1]..w[2] : query[k] = Quote /\ Mark(query, k)
  BY <1>1, <1>2
<1>6. Word(query, w) = [text |-> FlattenSeq(seqs),
                        quoted |-> \E k \in w[1]..w[2] : query[k] = Quote /\ Mark(query, k)]
  BY DEF Word, seqs, kept
<1>7. Word(query, w) = [text |-> <<>>, quoted |-> FALSE]
  BY <1>3, <1>4, <1>5, <1>6
<1> QED BY <1>7 DEF WordIs, w

LEMMA WordGrows ==
  ASSUME NEW C, NEW query \in Seq(C), NEW b \in 1..Len(query), NEW k \in b..Len(query),
         NEW text, NEW quoted \in BOOLEAN, WordIs(query, b, k - 1, text, quoted)
  PROVE  /\ WordIs(query, b, k, IF Mark(query, k) THEN text ELSE Append(text, query[k]),
                   quoted \/ (query[k] = Quote /\ Mark(query, k)))
         /\ text \in Seq(C)
<1> DEFINE kept(j) == IF Mark(query, j) THEN <<>> ELSE <<query[j]>>
           old == [n \in 1..(k - b) |-> kept(b + n - 1)]
           new == [n \in 1..(k - b + 1) |-> kept(b + n - 1)]
           q(j) == query[j] = Quote /\ Mark(query, j)
<1>1. b \in Nat \ {0} /\ k \in Nat \ {0} /\ Len(query) \in Nat /\ b <= k /\ k <= Len(query)
  OBVIOUS
<1>2. Word(query, <<b, k - 1>>) = [text |-> FlattenSeq(old), quoted |-> \E j \in b..(k - 1) : q(j)]
  <2>1. (k - 1) - b + 1 = k - b
    BY <1>1
  <2> DEFINE w == <<b, k - 1>>
  <2>2. w[1] = b /\ w[2] = k - 1
    OBVIOUS
  <2> HIDE DEF w
  <2>3. Word(query, w) = [text |-> FlattenSeq([n \in 1..(w[2] - w[1] + 1) |-> kept(w[1] + n - 1)]),
                          quoted |-> \E j \in w[1]..w[2] : q(j)]
    BY DEF Word
  <2> QED BY <2>1, <2>2, <2>3 DEF w
<1>3. Word(query, <<b, k>>) = [text |-> FlattenSeq(new), quoted |-> \E j \in b..k : q(j)]
  <2> DEFINE w == <<b, k>>
  <2>2. w[1] = b /\ w[2] = k
    OBVIOUS
  <2> HIDE DEF w
  <2>3. Word(query, w) = [text |-> FlattenSeq([n \in 1..(w[2] - w[1] + 1) |-> kept(w[1] + n - 1)]),
                          quoted |-> \E j \in w[1]..w[2] : q(j)]
    BY DEF Word
  <2> QED BY <2>2, <2>3 DEF w
<1>4. \A j \in b..k : kept(j) \in Seq(C)
  <2>1. ASSUME NEW j \in b..k PROVE kept(j) \in Seq(C)
    <3>1. query[j] \in C
      <4>1. j \in 1..Len(query)
        BY <1>1
      <4> QED BY <4>1
    <3>2. <<>> \in Seq(C) /\ <<query[j]>> \in Seq(C)
      BY <3>1
    <3> QED BY <3>2
  <2> QED BY <2>1
<1> HIDE DEF kept
<1>5. old \in Seq(Seq(C)) /\ Len(old) = k - b /\ \A n \in 1..(k - b) : old[n] = kept(b + n - 1)
  <2>1. k - b \in Nat /\ \A n \in 1..(k - b) : b + n - 1 \in b..k
    BY <1>1
  <2>2. old \in [1..(k - b) -> Seq(C)]
    BY <1>4, <2>1
  <2>3. old \in Seq(Seq(C)) /\ Len(old) = k - b
    <3> DEFINE d == k - b
    <3>1. d \in Nat /\ old \in [1..d -> Seq(C)]
      BY <2>1, <2>2
    <3> HIDE DEF d, old
    <3>2. old \in Seq(Seq(C)) /\ Len(old) = d
      BY <3>1, SeqFrom
    <3> QED BY <3>2 DEF d
  <2> QED BY <2>3
<1>6. new \in Seq(Seq(C)) /\ Len(new) = k - b + 1 /\ \A n \in 1..(k - b + 1) : new[n] = kept(b + n - 1)
  <2>1. k - b + 1 \in Nat /\ \A n \in 1..(k - b + 1) : b + n - 1 \in b..k
    BY <1>1
  <2>2. new \in [1..(k - b + 1) -> Seq(C)]
    BY <1>4, <2>1
  <2>3. new \in Seq(Seq(C)) /\ Len(new) = k - b + 1
    <3> DEFINE d == k - b + 1
    <3>1. d \in Nat /\ new \in [1..d -> Seq(C)]
      BY <2>1, <2>2
    <3> HIDE DEF d, new
    <3>2. new \in Seq(Seq(C)) /\ Len(new) = d
      BY <3>1, SeqFrom
    <3> QED BY <3>2 DEF d
  <2> QED BY <2>3
<1> HIDE DEF old, new
<1>7. kept(k) \in Seq(C)
  BY <1>1, <1>4
<1>8. new = Append(old, kept(k))
  <2> DEFINE t == Append(old, kept(k))
  <2>1. /\ t \in Seq(Seq(C)) /\ Len(t) = (k - b) + 1 /\ t[(k - b) + 1] = kept(k)
        /\ \A n \in 1..(k - b) : t[n] = old[n]
    BY <1>5, <1>7, AppendProperties
  <2> HIDE DEF t
  <2>2. \A n \in 1..(k - b + 1) : n \in 1..(k - b) \/ n = k - b + 1
    BY <1>1
  <2>3. b + (k - b + 1) - 1 = k
    BY <1>1
  <2>4. \A n \in 1..(k - b + 1) : new[n] = t[n]
    BY <1>5, <1>6, <2>1, <2>2, <2>3
  <2>5. Len(new) = Len(t)
    BY <1>6, <2>1
  <2>6. new = t
    BY <1>6, <2>1, <2>4, <2>5, SeqEqual
  <2> QED BY <2>6 DEF t
<1>9. FlattenSeq(new) = FlattenSeq(old) \o kept(k) /\ FlattenSeq(old) \in Seq(C)
  BY <1>5, <1>7, <1>8, FlattenAppend
<1>10. text = FlattenSeq(old) /\ quoted = \E j \in b..(k - 1) : q(j)
  <2>1. [text |-> text, quoted |-> quoted] = [text |-> FlattenSeq(old), quoted |-> \E j \in b..(k - 1) : q(j)]
    BY <1>2 DEF WordIs
  <2> HIDE DEF q
  <2>2. [text |-> text, quoted |-> quoted].text = [text |-> FlattenSeq(old), quoted |-> \E j \in b..(k - 1) : q(j)].text
    BY <2>1
  <2>3. [text |-> text, quoted |-> quoted].quoted = [text |-> FlattenSeq(old), quoted |-> \E j \in b..(k - 1) : q(j)].quoted
    BY <2>1
  <2> QED BY <2>2, <2>3
<1>11. text \o kept(k) = IF Mark(query, k) THEN text ELSE Append(text, query[k])
  <2>1. text \in Seq(C) /\ query[k] \in C
    <3>1. k \in 1..Len(query)
      BY <1>1
    <3> QED BY <1>9, <1>10, <3>1
  <2>2. text \o <<>> = text
    BY <2>1, ConcatEmptySeq
  <2>3. text \o <<query[k]>> = Append(text, query[k])
    BY <2>1, AppendIsConcat
  <2> QED BY <2>2, <2>3 DEF kept
<1>12. (\E j \in b..k : q(j)) <=> quoted \/ q(k)
  <2>1. \A j : j \in b..k <=> j \in b..(k - 1) \/ j = k
    BY <1>1
  <2> HIDE DEF q
  <2> QED BY <1>10, <2>1
<1>13. (\E j \in b..k : q(j)) = (quoted \/ q(k))
  BY <1>12
<1> QED BY <1>3, <1>9, <1>10, <1>11, <1>13 DEF WordIs

-----------------------------------------------------------------------------
(* Reading a query, character by character                                 *)

\* The word that is being read begins at b.
Begin(query, b, k) ==
  b \in 1..(k + 1) /\ (b = 1 \/ Gap(query, b - 1)) /\ \A j \in b..k : ~Gap(query, j)

\* The words that a gap has ended
Done(query, k) ==
  {w \in (DOMAIN query) \X (DOMAIN query) :
     /\ w[1] <= w[2] /\ \A j \in w[1]..w[2] : ~Gap(query, j)
     /\ w[1] = 1 \/ Gap(query, w[1] - 1)
     /\ w[2] < k /\ Gap(query, w[2] + 1)}

Token(C) == [text : Seq(C), quoted : BOOLEAN]

ReadState(query, k, tokens, text, quoted) ==
  [tokens |-> tokens, text |-> text, inside |-> Reading(query)[k] # "outside", quoted |-> quoted,
   escaped |-> Reading(query)[k] = "protected"]

ReadSoFar(C, query, k, b, tokens, text, quoted) ==
  /\ Begin(query, b, k) /\ WordIs(query, b, k, text, quoted)
  /\ text \in Seq(C) /\ quoted \in BOOLEAN /\ tokens \in Seq(Token(C))
  /\ ToSet(tokens) = {Word(query, w) : w \in Done(query, k)}

ReadAt(C, query, s, k) ==
  \E b, tokens, text, quoted :
    /\ ReadSoFar(C, query, k, b, tokens, text, quoted)
    /\ s = ReadState(query, k, tokens, text, quoted)

\* A word that has begun is not nothing: its first character is kept, or it is quoted.
LEMMA WordStarts ==
  ASSUME NEW C, NEW query \in Seq(C), NEW b, NEW k \in 1..Len(query), Begin(query, b, k), b <= k,
         NEW text, NEW quoted \in BOOLEAN, WordIs(query, b, k, text, quoted)
  PROVE  text # <<>> \/ quoted
<1> DEFINE n == Len(query)
           Some(j) == \E t \in Seq(C), q \in BOOLEAN : WordIs(query, b, j, t, q) /\ (t # <<>> \/ q)
           S == {i \in Nat : b + i <= k => Some(b + i)}
<1>1. b \in 1..k /\ n \in Nat /\ b \in Nat \ {0} /\ b \in 1..n /\ k <= n
  <2>1. b \in 1..(k + 1) /\ b <= k
    BY DEF Begin
  <2> QED BY <2>1
<1>2. Reading(query)[b - 1] = "outside"
  <2>1. CASE b = 1
    <3>1. Reading(query)[0] = "outside" /\ b - 1 = 0
      BY <2>1, ModesAre DEF AreModes
    <3> QED BY <3>1
  <2>2. CASE b # 1
    <3>1. Gap(query, b - 1) /\ b - 1 \in 1..n
      BY <1>1, <2>2 DEF Begin
    <3> DEFINE c == b - 1
    <3>2. query[c] = Space /\ Reading(query)[c - 1] = "outside" /\ c \in 1..Len(query)
      BY <3>1 DEF Gap
    <3> HIDE DEF c
    <3>3. Reading(query)[c] = ModeStep(query, Reading(query)[c - 1], c)
      BY <3>2, ModeAt
    <3>4. Reading(query)[c] = "outside"
      BY <3>2, <3>3 DEF ModeStep, Space, Quote, Backslash
    <3> QED BY <3>4 DEF c
  <2> QED BY <2>1, <2>2
<1>3. Some(b)
  <2>1. WordIs(query, b, b - 1, <<>>, FALSE)
    BY <1>1, WordEmpty
  <2>2. b \in b..Len(query)
    BY <1>1
  <2> DEFINE t == IF Mark(query, b) THEN <<>> ELSE Append(<<>>, query[b])
             q == FALSE \/ (query[b] = Quote /\ Mark(query, b))
  <2>3. WordIs(query, b, b, t, q)
    BY <1>1, <2>1, <2>2, WordGrows
  <2>4. Mark(query, b) => query[b] = Quote
    <3>1. Reading(query)[b] = ModeStep(query, Reading(query)[b - 1], b)
      BY <1>1, ModeAt
    <3> QED BY <1>2, <3>1 DEF Mark, ModeStep
  <2>5. query[b] \in C
    BY <1>1
  <2>6. t \in Seq(C) /\ q \in BOOLEAN
    <3>1. <<>> \in Seq(C) /\ Append(<<>>, query[b]) \in Seq(C)
      BY <2>5
    <3> QED BY <3>1
  <2>7. t # <<>> \/ q
    BY <2>4
  <2> HIDE DEF t, q
  <2> QED BY <2>3, <2>6, <2>7
<1>4. 0 \in S
  <2>1. b + 0 = b
    BY <1>1
  <2> HIDE DEF Some
  <2> QED BY <1>3, <2>1
<1>5. ASSUME NEW i \in Nat, i \in S PROVE i + 1 \in S
  <2> SUFFICES ASSUME b + (i + 1) <= k PROVE Some(b + (i + 1))
    <3> HIDE DEF Some
    <3> QED OBVIOUS
  <2> DEFINE j == b + (i + 1)
  <2>1. j \in b..Len(query) /\ j - 1 = b + i /\ b + i <= k
    BY <1>1
  <2>2. Some(b + i)
    <3> HIDE DEF Some
    <3> QED BY <1>5, <2>1
  <2>3. PICK t \in Seq(C), q \in BOOLEAN : WordIs(query, b, j - 1, t, q) /\ (t # <<>> \/ q)
    BY <2>1, <2>2
  <2> HIDE DEF j
  <2> DEFINE t2 == IF Mark(query, j) THEN t ELSE Append(t, query[j])
             q2 == q \/ (query[j] = Quote /\ Mark(query, j))
  <2>4. WordIs(query, b, j, t2, q2)
    BY <1>1, <2>1, <2>3, WordGrows
  <2>5. query[j] \in C
    <3>1. j \in 1..Len(query)
      BY <1>1, <2>1
    <3> QED BY <3>1
  <2>6. t2 \in Seq(C) /\ q2 \in BOOLEAN /\ (t2 # <<>> \/ q2)
    <3>1. Append(t, query[j]) \in Seq(C) /\ Append(t, query[j]) # <<>>
      BY <2>5, AppendProperties
    <3> QED BY <2>3, <3>1
  <2> HIDE DEF t2, q2
  <2> QED BY <2>4, <2>6 DEF j
<1>6. Some(k)
  <2>1. k - b \in Nat /\ b + (k - b) = k /\ b + (k - b) <= k
    BY <1>1
  <2> HIDE DEF Some, S
  <2>2. k - b \in S
    BY <1>4, <1>5, <2>1, ModeFold!NatSet
  <2>3. Some(b + (k - b))
    BY <2>1, <2>2 DEF S
  <2> QED BY <2>1, <2>3
<1>7. PICK t \in Seq(C), q \in BOOLEAN : WordIs(query, b, k, t, q) /\ (t # <<>> \/ q)
  BY <1>6
<1>8. t = text /\ q = quoted
  <2>1. [text |-> t, quoted |-> q] = [text |-> text, quoted |-> quoted]
    BY <1>7 DEF WordIs
  <2>2. [text |-> t, quoted |-> q].text = [text |-> text, quoted |-> quoted].text
        /\ [text |-> t, quoted |-> q].quoted = [text |-> text, quoted |-> quoted].quoted
    BY <2>1
  <2> QED BY <2>2
<1> QED BY <1>7, <1>8

\* A character of a word
LEMMA ReadOn ==
  ASSUME NEW C, NEW query \in Seq(C), NEW k \in 1..Len(query), NEW b, NEW tokens, NEW text, NEW quoted,
         ReadSoFar(C, query, k - 1, b, tokens, text, quoted), ~Gap(query, k)
  PROVE  ReadSoFar(C, query, k, b, tokens, IF Mark(query, k) THEN text ELSE Append(text, query[k]),
                   quoted \/ (query[k] = Quote /\ Mark(query, k)))
<1> DEFINE t == IF Mark(query, k) THEN text ELSE Append(text, query[k])
           q == quoted \/ (query[k] = Quote /\ Mark(query, k))
<1>1. /\ b \in 1..((k - 1) + 1) /\ (b = 1 \/ Gap(query, b - 1))
      /\ \A j \in b..(k - 1) : ~Gap(query, j)
  BY DEF ReadSoFar, Begin
<1>2. k \in Nat \ {0} /\ Len(query) \in Nat /\ (k - 1) + 1 = k /\ k <= Len(query)
  OBVIOUS
<1>3. b \in 1..k /\ b \in 1..Len(query) /\ k \in b..Len(query) /\ b \in 1..(k + 1)
  BY <1>1, <1>2
<1>4. \A j \in b..k : ~Gap(query, j)
  <2>1. \A j \in b..k : j \in b..(k - 1) \/ j = k
    BY <1>2, <1>3
  <2> QED BY <1>1, <2>1
<1>5. Begin(query, b, k)
  BY <1>1, <1>3, <1>4 DEF Begin
<1>6. quoted \in BOOLEAN /\ text \in Seq(C) /\ WordIs(query, b, k - 1, text, quoted)
      /\ tokens \in Seq(Token(C)) /\ ToSet(tokens) = {Word(query, w) : w \in Done(query, k - 1)}
  BY DEF ReadSoFar
<1>7. WordIs(query, b, k, t, q)
  BY <1>3, <1>6, WordGrows
<1>8. t \in Seq(C) /\ q \in BOOLEAN
  <2>1. Append(text, query[k]) \in Seq(C)
    BY <1>6
  <2> QED BY <1>6, <2>1
<1>9. Done(query, k) = Done(query, k - 1)
  <2>1. \A i \in DOMAIN query : i < k /\ Gap(query, i + 1) <=> i < k - 1 /\ Gap(query, i + 1)
    <3>1. ASSUME NEW i \in DOMAIN query, i < k, Gap(query, i + 1) PROVE i < k - 1
      <4>1. i \in Nat /\ i + 1 # k
        BY <3>1
      <4> QED BY <1>2, <3>1, <4>1
    <3>2. \A i \in DOMAIN query : i < k - 1 => i < k
      BY <1>2
    <3> QED BY <3>1, <3>2
  <2>2. \A w \in (DOMAIN query) \X (DOMAIN query) : w[2] \in DOMAIN query
    OBVIOUS
  <2> QED BY <2>1, <2>2 DEF Done
<1> HIDE DEF t, q
<1>10. ReadSoFar(C, query, k, b, tokens, t, q)
  BY <1>5, <1>6, <1>7, <1>8, <1>9 DEF ReadSoFar
<1> QED BY <1>10 DEF t, q

\* A gap ends the word, if there is one.
LEMMA ReadGap ==
  ASSUME NEW C, NEW query \in Seq(C), NEW k \in 1..Len(query), NEW b, NEW tokens, NEW text, NEW quoted,
         ReadSoFar(C, query, k - 1, b, tokens, text, quoted), Gap(query, k)
  PROVE  ReadSoFar(C, query, k, k + 1,
                   IF text = <<>> /\ ~quoted THEN tokens
                   ELSE Append(tokens, [text |-> text, quoted |-> quoted]), <<>>, FALSE)
<1> DEFINE t == IF text = <<>> /\ ~quoted THEN tokens
                ELSE Append(tokens, [text |-> text, quoted |-> quoted])
<1>1. /\ b \in 1..((k - 1) + 1) /\ (b = 1 \/ Gap(query, b - 1))
      /\ \A j \in b..(k - 1) : ~Gap(query, j)
  BY DEF ReadSoFar, Begin
<1>2. k \in Nat \ {0} /\ Len(query) \in Nat /\ (k - 1) + 1 = k /\ k <= Len(query) /\ (k + 1) - 1 = k
  OBVIOUS
<1>3. b \in 1..k
  BY <1>1, <1>2
<1>4. Begin(query, k + 1, k)
  <2>1. k + 1 \in 1..(k + 1) /\ (k + 1)..k = {}
    BY <1>2
  <2> QED BY <1>2, <2>1 DEF Begin
<1>5. WordIs(query, k + 1, k, <<>>, FALSE)
  <2>1. k + 1 \in Nat \ {0}
    BY <1>2
  <2> QED BY <1>2, <2>1, WordEmpty
<1>6. quoted \in BOOLEAN /\ text \in Seq(C) /\ WordIs(query, b, k - 1, text, quoted)
      /\ tokens \in Seq(Token(C)) /\ ToSet(tokens) = {Word(query, w) : w \in Done(query, k - 1)}
  BY DEF ReadSoFar
<1> DEFINE w == <<b, k - 1>>
<1>7. b = k <=> text = <<>> /\ ~quoted
  <2>1. ASSUME b = k PROVE text = <<>> /\ ~quoted
    <3>1. WordIs(query, b, b - 1, <<>>, FALSE)
      BY <1>2, <2>1, WordEmpty
    <3>2. [text |-> text, quoted |-> quoted] = [text |-> <<>>, quoted |-> FALSE]
      BY <1>6, <2>1, <3>1 DEF WordIs
    <3>3. [text |-> text, quoted |-> quoted].text = [text |-> <<>>, quoted |-> FALSE].text
          /\ [text |-> text, quoted |-> quoted].quoted = [text |-> <<>>, quoted |-> FALSE].quoted
      BY <3>2
    <3> QED BY <3>3
  <2>2. ASSUME b # k PROVE text # <<>> \/ quoted
    <3>1. k - 1 \in 1..Len(query) /\ b <= k - 1
      BY <1>2, <1>3, <2>2
    <3>2. Begin(query, b, k - 1)
      BY DEF ReadSoFar
    <3> QED BY <1>6, <3>1, <3>2, WordStarts
  <2> QED BY <2>1, <2>2
<1>8. Done(query, k) = Done(query, k - 1) \cup (IF b = k THEN {} ELSE {w})
  <2>1. ASSUME NEW v \in Done(query, k), v \notin Done(query, k - 1) PROVE b # k /\ v = w
    <3>1. /\ v \in (DOMAIN query) \X (DOMAIN query) /\ v[1] <= v[2]
          /\ \A j \in v[1]..v[2] : ~Gap(query, j)
          /\ v[1] = 1 \/ Gap(query, v[1] - 1)
          /\ v[2] < k /\ ~(v[2] < k - 1)
      BY <2>1 DEF Done
    <3>2. v[1] \in 1..Len(query) /\ v[2] \in 1..Len(query) /\ v = <<v[1], v[2]>>
      BY <3>1
    <3>3. v[2] = k - 1
      BY <1>2, <3>1, <3>2
    <3>4. v[1] = b
      <4>1. ASSUME v[1] < b PROVE FALSE
        <5>1. b - 1 \in v[1]..v[2] /\ b # 1
          BY <1>2, <1>3, <3>2, <3>3, <4>1
        <5> QED BY <1>1, <3>1, <5>1
      <4>2. ASSUME b < v[1] PROVE FALSE
        <5>1. v[1] - 1 \in b..(k - 1) /\ v[1] # 1
          BY <1>2, <1>3, <3>1, <3>2, <3>3, <4>2
        <5> QED BY <1>1, <3>1, <5>1
      <4> QED BY <1>3, <3>2, <4>1, <4>2
    <3>5. b # k
      BY <1>2, <1>3, <3>1, <3>2, <3>3, <3>4
    <3> QED BY <3>2, <3>3, <3>4, <3>5
  <2>2. ASSUME NEW v \in Done(query, k - 1) PROVE v \in Done(query, k)
    <3>1. v[2] \in DOMAIN query /\ v[2] < k - 1
      BY DEF Done
    <3>2. v[2] < k
      BY <1>2, <3>1
    <3> QED BY <3>2 DEF Done
  <2>3. ASSUME b # k PROVE w \in Done(query, k)
    <3>1. w \in (DOMAIN query) \X (DOMAIN query) /\ w[1] = b /\ w[2] = k - 1
      <4>1. b \in 1..Len(query) /\ k - 1 \in 1..Len(query)
        BY <1>2, <1>3, <2>3
      <4> QED BY <4>1
    <3>2. b <= k - 1 /\ k - 1 < k
      BY <1>2, <1>3, <2>3
    <3>3. Gap(query, (k - 1) + 1)
      BY <1>2
    <3> HIDE DEF w
    <3> QED BY <1>1, <3>1, <3>2, <3>3 DEF Done
  <2> HIDE DEF w
  <2> QED BY <2>1, <2>2, <2>3
<1>9. t \in Seq(Token(C)) /\ ToSet(t) = {Word(query, v) : v \in Done(query, k)}
  <2>1. CASE b = k
    BY <1>6, <1>7, <1>8, <2>1
  <2>2. CASE b # k
    <3>1. Word(query, w) = [text |-> text, quoted |-> quoted]
      BY <1>6 DEF WordIs
    <3>2. Word(query, w) \in Token(C) /\ t = Append(tokens, Word(query, w))
      BY <1>6, <1>7, <2>2, <3>1 DEF Token
    <3> HIDE DEF w, t
    <3>3. t \in Seq(Token(C)) /\ ToSet(t) = ToSet(tokens) \cup {Word(query, w)}
      <4>1. /\ t \in Seq(Token(C)) /\ Len(t) = Len(tokens) + 1 /\ t[Len(tokens) + 1] = Word(query, w)
            /\ \A i \in 1..Len(tokens) : t[i] = tokens[i]
        BY <1>6, <3>2, AppendProperties
      <4>2. DOMAIN t = 1..(Len(tokens) + 1) /\ DOMAIN tokens = 1..Len(tokens) /\ Len(tokens) \in Nat
        BY <1>6, <4>1
      <4>3. \A i : i \in 1..(Len(tokens) + 1) <=> i \in 1..Len(tokens) \/ i = Len(tokens) + 1
        BY <4>2
      <4> QED BY <4>1, <4>2, <4>3 DEF ToSet
    <3>4. Done(query, k) = Done(query, k - 1) \cup {w}
      BY <1>8, <2>2
    <3> QED BY <1>6, <3>3, <3>4
  <2> QED BY <2>1, <2>2
<1> HIDE DEF t
<1>10. <<>> \in Seq(C)
  OBVIOUS
<1>11. ReadSoFar(C, query, k, k + 1, t, <<>>, FALSE)
  BY <1>4, <1>5, <1>9, <1>10 DEF ReadSoFar
<1> QED BY <1>11 DEF t

LEMMA ReadStep ==
  ASSUME NEW C, NEW query \in Seq(C), NEW k \in 1..Len(query), NEW s, ReadAt(C, query, s, k - 1)
  PROVE  ReadAt(C, query, ReadChar(s, query[k]), k)
<1> DEFINE M == Reading(query)[k - 1]
           N == Reading(query)[k]
           c == query[k]
<1>1. PICK b, tokens, text, quoted :
        /\ ReadSoFar(C, query, k - 1, b, tokens, text, quoted)
        /\ s = ReadState(query, k - 1, tokens, text, quoted)
  BY DEF ReadAt
<1>2. M \in {"outside", "inside", "protected"} /\ N = ModeStep(query, M, k)
  BY ModeAt
<1> DEFINE t == IF Mark(query, k) THEN text ELSE Append(text, c)
           q == quoted \/ (c = Quote /\ Mark(query, k))
<1>3. ASSUME ~Gap(query, k) PROVE ReadSoFar(C, query, k, b, tokens, t, q)
  BY <1>1, <1>3, ReadOn
<1>4. s = [tokens |-> tokens, text |-> text, inside |-> M # "outside", quoted |-> quoted,
           escaped |-> M = "protected"]
  BY <1>1 DEF ReadState
<1>5. Gap(query, k) <=> c = Space /\ M = "outside"
  BY DEF Gap
<1>6. Mark(query, k) <=> (c = Quote /\ M # "protected") \/ N = "protected"
  BY DEF Mark
<1>7. N = CASE M = "inside" /\ c = Backslash -> "protected"
            [] M = "inside" /\ c = Quote     -> "outside"
            [] M = "outside" /\ c = Quote    -> "inside"
            [] M = "protected"               -> "inside"
            [] OTHER                         -> M
  BY <1>2 DEF ModeStep
<1>8. quoted \in BOOLEAN /\ tokens \in Seq(Token(C)) /\ text \in Seq(C)
  BY <1>1 DEF ReadSoFar
<1> HIDE DEF M, N, c
<1>9. ASSUME ~Gap(query, k),
             ReadChar(s, c) = [tokens |-> tokens, text |-> t, inside |-> N # "outside",
                               quoted |-> q, escaped |-> N = "protected"]
      PROVE  ReadAt(C, query, ReadChar(s, c), k)
  <2>1. ReadChar(s, c) = ReadState(query, k, tokens, t, q)
    BY <1>9 DEF ReadState, N
  <2> HIDE DEF t, q
  <2> QED BY <1>3, <1>9, <2>1 DEF ReadAt
<1>10. CASE M = "protected"
  <2>1. N = "inside" /\ ~Mark(query, k) /\ ~Gap(query, k)
    BY <1>5, <1>6, <1>7, <1>10
  <2>2. ReadChar(s, c) = [s EXCEPT !.text = Append(@, c), !.escaped = FALSE]
    BY <1>4, <1>10 DEF ReadChar
  <2>3. t = Append(text, c) /\ q = quoted
    BY <1>8, <2>1
  <2> HIDE DEF t, q
  <2>4. ReadChar(s, c) = [tokens |-> tokens, text |-> t, inside |-> N # "outside",
                          quoted |-> q, escaped |-> N = "protected"]
    BY <1>4, <1>10, <2>1, <2>2, <2>3
  <2> QED BY <1>9, <2>1, <2>4 DEF c
<1>11. CASE M # "protected" /\ c = Quote
  <2>1. N = (IF M = "inside" THEN "outside" ELSE "inside") /\ Mark(query, k) /\ ~Gap(query, k)
    BY <1>2, <1>5, <1>6, <1>7, <1>11 DEF Quote, Space, Backslash, M
  <2>2. ReadChar(s, c) = [s EXCEPT !.inside = ~@, !.quoted = TRUE]
    <3>1. ~s.escaped
      BY <1>4, <1>11
    <3>2. ReadChar(s, Quote) = [s EXCEPT !.inside = ~@, !.quoted = TRUE]
      BY <3>1 DEF ReadChar, Quote, Space, Backslash
    <3> QED BY <1>11, <3>2
  <2>3. t = text /\ q = TRUE
    BY <1>8, <1>11, <2>1
  <2> HIDE DEF t, q
  <2>4. ReadChar(s, c) = [tokens |-> tokens, text |-> t, inside |-> N # "outside",
                          quoted |-> q, escaped |-> N = "protected"]
    <3>1. CASE M = "inside"
      BY <1>4, <1>11, <2>1, <2>2, <2>3, <3>1
    <3>2. CASE M = "outside"
      BY <1>4, <1>11, <2>1, <2>2, <2>3, <3>2
    <3> QED BY <1>2, <1>11, <3>1, <3>2 DEF M
  <2> QED BY <1>9, <2>1, <2>4 DEF c
<1>12. CASE M = "inside" /\ c = Backslash
  <2>1. N = "protected" /\ Mark(query, k) /\ ~Gap(query, k) /\ c # Quote
    BY <1>5, <1>6, <1>7, <1>12 DEF Quote, Space, Backslash
  <2>2. ReadChar(s, c) = [s EXCEPT !.escaped = TRUE]
    BY <1>4, <1>12 DEF ReadChar, Quote, Space, Backslash
  <2>3. t = text /\ q = quoted
    BY <1>8, <2>1
  <2> HIDE DEF t, q
  <2>4. ReadChar(s, c) = [tokens |-> tokens, text |-> t, inside |-> N # "outside",
                          quoted |-> q, escaped |-> N = "protected"]
    BY <1>4, <1>12, <2>1, <2>2, <2>3
  <2> QED BY <1>9, <2>1, <2>4 DEF c
<1>13. CASE M = "outside" /\ c = Space
  <2> DEFINE u == IF text = <<>> /\ ~quoted THEN tokens
                  ELSE Append(tokens, [text |-> text, quoted |-> quoted])
  <2>1. N = "outside" /\ Gap(query, k)
    BY <1>5, <1>7, <1>13 DEF Quote, Space, Backslash
  <2>2. ReadChar(s, c) = EndToken(s)
    BY <1>4, <1>13 DEF ReadChar, Quote, Space, Backslash
  <2>3. EndToken(s) = [tokens |-> u, text |-> <<>>, inside |-> FALSE, quoted |-> FALSE,
                       escaped |-> FALSE]
    <3>1. CASE text = <<>> /\ ~quoted
      BY <1>4, <1>8, <1>13, <3>1 DEF EndToken
    <3>2. CASE ~(text = <<>> /\ ~quoted)
      BY <1>4, <1>8, <1>13, <3>2 DEF EndToken
    <3> QED BY <3>1, <3>2
  <2>4. ReadSoFar(C, query, k, k + 1, u, <<>>, FALSE)
    BY <1>1, <2>1, ReadGap
  <2> HIDE DEF u
  <2>5. ReadChar(s, c) = ReadState(query, k, u, <<>>, FALSE)
    BY <2>1, <2>2, <2>3 DEF ReadState, N
  <2> QED BY <2>4, <2>5 DEF ReadAt, c
<1>14. CASE /\ M # "protected" /\ c # Quote /\ ~(M = "inside" /\ c = Backslash)
            /\ ~(M = "outside" /\ c = Space)
  <2>1. N = M /\ ~Mark(query, k) /\ ~Gap(query, k)
    BY <1>5, <1>6, <1>7, <1>14
  <2>2. ReadChar(s, c) = [s EXCEPT !.text = Append(@, c)]
    <3>1. M \in {"inside", "outside"}
      BY <1>2, <1>14 DEF M
    <3> QED BY <1>4, <1>14, <3>1 DEF ReadChar
  <2>3. t = Append(text, c) /\ q = quoted
    BY <1>8, <2>1
  <2> HIDE DEF t, q
  <2>4. ReadChar(s, c) = [tokens |-> tokens, text |-> t, inside |-> N # "outside",
                          quoted |-> q, escaped |-> N = "protected"]
    BY <1>4, <1>14, <2>1, <2>2, <2>3
  <2> QED BY <1>9, <2>1, <2>4 DEF c
<1> QED BY <1>10, <1>11, <1>12, <1>13, <1>14

\* tokenize_query reads the whole query.
LEMMA ReadAll ==
  ASSUME NEW C, NEW query \in Seq(C)
  PROVE  \E s : /\ ReadAt(C, query, s, Len(query))
                /\ Tokens(query) = IF s.inside THEN {} ELSE {ToSet(EndToken(s).tokens)}
<1> DEFINE n == Len(query)
           end == FoldLeft(ReadChar, Tokenizing, query)
<1>1. n \in Nat
  OBVIOUS
<1>2. end = ReadFold!Fold(0, Tokenizing, query)
  BY DEF FoldLeft, MapThenFoldSet, Max, ReadFold!Fold, ReadFold!FoldLeft,
     ReadFold!MapThenFoldSet, ReadFold!Max
<1>3. Tokens(query) = IF end.inside THEN {} ELSE {ToSet(EndToken(end).tokens)}
  BY DEF Tokens
<1> HIDE DEF end
<1> DEFINE Good(base, s, g) ==
             /\ \A k \in 0..Len(s) : g[1..k] = IF k = 0 THEN base ELSE ReadChar(g[1..(k - 1)], s[k])
             /\ ReadFold!Fold(0, base, s) = g[1..Len(s)]
<1>4. \A base : \A s \in Seq(C) : \E g : Good(base, s, g)
  BY ReadFold!FoldResults
<1>5. PICK g : Good(Tokenizing, query, g)
  <2> HIDE DEF Good
  <2> QED BY <1>4
<1>6. g[1..0] = Tokenizing /\ \A k \in 1..n : g[1..k] = ReadChar(g[1..(k - 1)], query[k])
  <2>1. 0 \in 0..n /\ \A k \in 1..n : k \in 0..n /\ k # 0
    BY <1>1
  <2> QED BY <1>5, <2>1
<1>7. end = g[1..n]
  BY <1>2, <1>5
<1> HIDE DEF Good, n
<1> DEFINE S == {k \in Nat : k <= n => ReadAt(C, query, g[1..k], k)}
<1>8. 0 \in S
  <2>1. Reading(query)[0] = "outside"
    BY ModesAre DEF AreModes
  <2>2. Tokenizing = ReadState(query, 0, <<>>, <<>>, FALSE)
    BY <2>1 DEF Tokenizing, ReadState
  <2>3. Begin(query, 1, 0)
    <3>1. 1 \in 1..(0 + 1) /\ 1..0 = {}
      OBVIOUS
    <3> QED BY <3>1 DEF Begin
  <2>4. WordIs(query, 1, 0, <<>>, FALSE)
    <3>1. 1 \in Nat \ {0} /\ 1 - 1 = 0
      OBVIOUS
    <3> QED BY <3>1, WordEmpty
  <2>5. Done(query, 0) = {}
    <3>1. \A w \in (DOMAIN query) \X (DOMAIN query) : ~(w[2] < 0)
      <4>1. \A i \in DOMAIN query : ~(i < 0)
        OBVIOUS
      <4>2. \A w \in (DOMAIN query) \X (DOMAIN query) : w[2] \in DOMAIN query
        OBVIOUS
      <4> QED BY <4>1, <4>2
    <3> QED BY <3>1 DEF Done
  <2>6. <<>> \in Seq(C) /\ <<>> \in Seq(Token(C)) /\ ToSet(<<>>) = {}
    BY DEF ToSet
  <2>7. ReadSoFar(C, query, 0, 1, <<>>, <<>>, FALSE)
    BY <2>3, <2>4, <2>5, <2>6 DEF ReadSoFar
  <2>8. ReadAt(C, query, g[1..0], 0)
    BY <1>6, <2>2, <2>7 DEF ReadAt
  <2> QED BY <2>8
<1>9. ASSUME NEW k \in Nat, k \in S PROVE k + 1 \in S
  <2> SUFFICES ASSUME k + 1 <= n PROVE ReadAt(C, query, g[1..(k + 1)], k + 1)
    OBVIOUS
  <2>1. k + 1 \in 1..n /\ (k + 1) - 1 = k /\ k <= n
    BY <1>1
  <2>2. ReadAt(C, query, g[1..k], k)
    BY <1>9, <2>1
  <2>3. ReadAt(C, query, g[1..((k + 1) - 1)], (k + 1) - 1)
    BY <2>1, <2>2
  <2>4. ReadAt(C, query, ReadChar(g[1..((k + 1) - 1)], query[k + 1]), k + 1)
    BY <2>1, <2>3, ReadStep DEF n
  <2> QED BY <1>6, <2>1, <2>4
<1>10. ReadAt(C, query, g[1..n], n)
  <2> HIDE DEF S
  <2>1. n \in S
    BY <1>1, <1>8, <1>9, ModeFold!NatSet
  <2>2. n <= n
    BY <1>1
  <2> QED BY <2>1, <2>2 DEF S
<1> QED BY <1>3, <1>7, <1>10 DEF n

\* tokenize_query finds the words of a query, whatever quotation marks, backslashes and
\* blanks it has; a quotation without end is refused.
THEOREM TokensAre ==
  ASSUME NEW C, NEW query \in Seq(C)
  PROVE  /\ Reading(query)[Len(query)] # "outside" => Tokens(query) = {}
         /\ Reading(query)[Len(query)] = "outside" =>
              \E tokens \in SUBSET Token(C) :
                Tokens(query) = {tokens} /\ {t \in tokens : t.text # <<>>} = WordsOf(query)
<1> DEFINE n == Len(query)
<1>1. PICK s : /\ ReadAt(C, query, s, n)
               /\ Tokens(query) = IF s.inside THEN {} ELSE {ToSet(EndToken(s).tokens)}
  BY ReadAll
<1>2. PICK b, tokens, text, quoted :
        /\ ReadSoFar(C, query, n, b, tokens, text, quoted)
        /\ s = ReadState(query, n, tokens, text, quoted)
  BY <1>1 DEF ReadAt
<1>3. s.inside = (Reading(query)[n] # "outside") /\ s.tokens = tokens /\ s.text = text /\ s.quoted = quoted
  BY <1>2 DEF ReadState
<1>4. /\ Begin(query, b, n) /\ WordIs(query, b, n, text, quoted)
      /\ text \in Seq(C) /\ quoted \in BOOLEAN /\ tokens \in Seq(Token(C))
      /\ ToSet(tokens) = {Word(query, w) : w \in Done(query, n)}
  BY <1>2 DEF ReadSoFar
<1>5. n \in Nat /\ b \in 1..(n + 1) /\ (b = 1 \/ Gap(query, b - 1)) /\ \A j \in b..n : ~Gap(query, j)
  BY <1>4 DEF Begin
<1> DEFINE w == <<b, n>>
           new == IF b = n + 1 THEN {} ELSE {w}
           all == ToSet(EndToken(s).tokens)
<1>6. b = n + 1 <=> text = <<>> /\ ~quoted
  <2>1. ASSUME b = n + 1 PROVE text = <<>> /\ ~quoted
    <3>1. WordIs(query, b, b - 1, <<>>, FALSE) /\ b - 1 = n
      <4>1. b \in Nat \ {0} /\ b - 1 = n
        BY <1>5, <2>1
      <4> QED BY <4>1, WordEmpty
    <3>2. [text |-> text, quoted |-> quoted] = [text |-> <<>>, quoted |-> FALSE]
      BY <1>4, <3>1 DEF WordIs
    <3>3. [text |-> text, quoted |-> quoted].text = [text |-> <<>>, quoted |-> FALSE].text
          /\ [text |-> text, quoted |-> quoted].quoted = [text |-> <<>>, quoted |-> FALSE].quoted
      BY <3>2
    <3> QED BY <3>3
  <2>2. ASSUME b # n + 1 PROVE text # <<>> \/ quoted
    <3>1. n \in 1..Len(query) /\ b <= n
      BY <1>5, <2>2
    <3> QED BY <1>4, <3>1, WordStarts
  <2> QED BY <2>1, <2>2
<1>7. Words(query) = Done(query, n) \cup new
  <2>1. ASSUME NEW v \in Words(query), v \notin Done(query, n) PROVE v \in new
    <3>1. /\ v \in (DOMAIN query) \X (DOMAIN query) /\ v[1] <= v[2]
          /\ \A j \in v[1]..v[2] : ~Gap(query, j)
          /\ v[1] = 1 \/ Gap(query, v[1] - 1)
          /\ v[2] = n \/ Gap(query, v[2] + 1)
      BY DEF Words
    <3>2. v[1] \in 1..n /\ v[2] \in 1..n /\ v = <<v[1], v[2]>>
      BY <3>1
    <3>3. v[2] = n
      <4>1. ASSUME v[2] # n PROVE FALSE
        <5>1. v[2] < n
          BY <1>5, <3>2, <4>1
        <5> QED BY <2>1, <3>1, <4>1, <5>1 DEF Done
      <4> QED BY <4>1
    <3>4. v[1] = b
      <4>1. ASSUME v[1] < b PROVE FALSE
        <5>1. b - 1 \in v[1]..v[2] /\ b # 1
          BY <1>5, <3>2, <3>3, <4>1
        <5> QED BY <1>5, <3>1, <5>1
      <4>2. ASSUME b < v[1] PROVE FALSE
        <5>1. v[1] - 1 \in b..n /\ v[1] # 1
          BY <1>5, <3>1, <3>2, <3>3, <4>2
        <5> QED BY <1>5, <3>1, <5>1
      <4> QED BY <1>5, <3>2, <4>1, <4>2
    <3>5. b # n + 1
      BY <1>5, <3>1, <3>2, <3>3, <3>4
    <3> QED BY <3>2, <3>3, <3>4, <3>5
  <2>2. ASSUME NEW v \in Done(query, n) PROVE v \in Words(query)
    BY DEF Done, Words
  <2>3. ASSUME b # n + 1 PROVE w \in Words(query)
    <3>1. b \in 1..n /\ n \in 1..n /\ b <= n
      BY <1>5, <2>3
    <3>2. w \in (DOMAIN query) \X (DOMAIN query) /\ w[1] = b /\ w[2] = n
      BY <3>1
    <3> HIDE DEF w
    <3> QED BY <1>5, <3>1, <3>2 DEF Words
  <2> HIDE DEF w
  <2> QED BY <2>1, <2>2, <2>3
<1>8. all = {Word(query, v) : v \in Words(query)} /\ all \subseteq Token(C)
  <2>1. CASE b = n + 1
    <3>1. EndToken(s) = s /\ Done(query, n) = Words(query)
      BY <1>3, <1>6, <1>7, <2>1 DEF EndToken
    <3>2. ToSet(tokens) \subseteq Token(C)
      BY <1>4 DEF ToSet
    <3> QED BY <1>3, <1>4, <3>1, <3>2
  <2>2. CASE b # n + 1
    <3> DEFINE e == [text |-> text, quoted |-> quoted]
    <3>1. EndToken(s).tokens = Append(tokens, e)
      BY <1>2, <1>6, <2>2 DEF EndToken, ReadState
    <3>2. Word(query, w) = e /\ e \in Token(C)
      BY <1>4 DEF WordIs, Token
    <3> HIDE DEF e
    <3> DEFINE t == Append(tokens, e)
    <3>3. t \in Seq(Token(C)) /\ ToSet(t) = ToSet(tokens) \cup {e}
      <4>1. /\ t \in Seq(Token(C)) /\ Len(t) = Len(tokens) + 1 /\ t[Len(tokens) + 1] = e
            /\ \A i \in 1..Len(tokens) : t[i] = tokens[i]
        BY <1>4, <3>2, AppendProperties
      <4> HIDE DEF t
      <4>2. DOMAIN t = 1..(Len(tokens) + 1) /\ DOMAIN tokens = 1..Len(tokens) /\ Len(tokens) \in Nat
        BY <1>4, <4>1
      <4>3. \A i : i \in 1..(Len(tokens) + 1) <=> i \in 1..Len(tokens) \/ i = Len(tokens) + 1
        BY <4>2
      <4> QED BY <4>1, <4>2, <4>3 DEF ToSet
    <3>4. ToSet(t) \subseteq Token(C)
      BY <3>3 DEF ToSet
    <3> HIDE DEF t
    <3>5. Words(query) = Done(query, n) \cup {w}
      BY <1>7, <2>2
    <3> HIDE DEF w
    <3> QED BY <1>4, <3>1, <3>2, <3>3, <3>4, <3>5 DEF t
  <2> QED BY <2>1, <2>2
<1>9. {t \in all : t.text # <<>>} = WordsOf(query)
  <2>1. ASSUME NEW v \in Words(query) PROVE Word(query, v).text # <<>> \/ Word(query, v).quoted
    <3>1. /\ v \in (DOMAIN query) \X (DOMAIN query) /\ v[1] <= v[2]
          /\ \A j \in v[1]..v[2] : ~Gap(query, j)
          /\ v[1] = 1 \/ Gap(query, v[1] - 1)
      BY DEF Words
    <3> DEFINE x == v[1]
               y == v[2]
    <3>2. x \in 1..n /\ y \in 1..n /\ v = <<x, y>> /\ x <= y
      BY <3>1
    <3>3. Begin(query, x, y)
      <4>1. x \in 1..(y + 1)
        BY <3>2
      <4> QED BY <3>1, <4>1 DEF Begin
    <3>4. Word(query, v) \in Token(C)
      BY <1>8
    <3>5. WordIs(query, x, y, Word(query, v).text, Word(query, v).quoted)
      <4> HIDE DEF x, y
      <4> QED BY <3>2, <3>4 DEF WordIs, Token
    <3>6. Word(query, v).quoted \in BOOLEAN
      BY <3>4 DEF Token
    <3> HIDE DEF x, y
    <3> QED BY <3>2, <3>3, <3>5, <3>6, WordStarts
  <2>2. ASSUME NEW t \in all PROVE t.text # <<>> <=> t # [text |-> <<>>, quoted |-> TRUE]
    <3>1. t \in Token(C)
      BY <1>8
    <3>2. t = [text |-> t.text, quoted |-> t.quoted] /\ t.quoted \in BOOLEAN
      BY <3>1 DEF Token
    <3>3. t.text # <<>> \/ t.quoted
      BY <1>8, <2>1
    <3>4. ASSUME t.text = <<>> PROVE t = [text |-> <<>>, quoted |-> TRUE]
      BY <3>2, <3>3, <3>4
    <3>5. ASSUME t = [text |-> <<>>, quoted |-> TRUE] PROVE t.text = <<>>
      BY <3>5
    <3> QED BY <3>4, <3>5
  <2> HIDE DEF all
  <2> QED BY <1>8, <2>2 DEF WordsOf
<1>10. ASSUME Reading(query)[n] = "outside" PROVE Tokens(query) = {all}
  BY <1>1, <1>3, <1>10
<1>11. ASSUME Reading(query)[n] # "outside" PROVE Tokens(query) = {}
  BY <1>1, <1>3, <1>11
<1> HIDE DEF all
<1> QED BY <1>8, <1>9, <1>10, <1>11 DEF n

-----------------------------------------------------------------------------
(* Upper and lower case                                                    *)

\* What a text is folded to
Wide(C) == C \cup ToSet(Letters)

LEMMA SeqShape ==
  ASSUME NEW C, NEW text \in Seq(C)
  PROVE  Len(text) \in Nat /\ DOMAIN text = 1..Len(text)
OBVIOUS

LEMMA Prefixed ==
  ASSUME NEW n \in Nat
  PROVE  /\ 1..n \subseteq Nat
         /\ \A a, b \in 1..n : a <= b => /\ a \in Nat \ {0} /\ b \in Nat /\ b <= n
                                       /\ a <= b + 1 /\ a <= n + 1 /\ n <= n
OBVIOUS

LEMMA FoldedText ==
  ASSUME NEW C, NEW text \in Seq(C)
  PROVE  /\ Folded(text) \in Seq(Wide(C)) /\ Len(Folded(text)) = Len(text)
         /\ \A k \in 1..Len(text) :
              Folded(text)[k] = IF text[k] \in DOMAIN Lower THEN Lower[text[k]] ELSE text[k]
<1>1. Len(text) \in Nat /\ DOMAIN text = 1..Len(text) /\ \A k \in 1..Len(text) : text[k] \in C
  OBVIOUS
<1>2. Folded(text) \in [1..Len(text) -> Wide(C)]
  BY <1>1, TextAssumption DEF Folded, Wide
<1>3. Folded(text) \in Seq(Wide(C)) /\ Len(Folded(text)) = Len(text)
  BY <1>1, <1>2, SeqFrom
<1> QED BY <1>1, <1>3 DEF Folded

\* Separators are no letters with another case.
LEMMA FoldedSame ==
  ASSUME NEW C, NEW text \in Seq(C), NEW k \in 1..Len(text), NEW c \in {" ", ".", ","}
  PROVE  Folded(text)[k] = c <=> text[k] = c
<1>1. Folded(text)[k] = IF text[k] \in DOMAIN Lower THEN Lower[text[k]] ELSE text[k]
  BY FoldedText
<1>2. ASSUME text[k] \in DOMAIN Lower PROVE text[k] # c /\ Lower[text[k]] # c
  BY <1>2, QueryAssumption
<1> QED BY <1>1, <1>2

-----------------------------------------------------------------------------
(* Trimming                                                                *)

LEMMA FinalIs ==
  ASSUME NEW n \in Nat, NEW S, S \subseteq 1..n, S # {}
  PROVE  Final(S) \in S /\ \A j \in S : j <= Final(S)
<1> DEFINE bounds == {u \in Nat : \A k \in S : k <= u}
<1>1. n \in bounds
  OBVIOUS
<1>2. PICK m \in bounds : \A u \in bounds : m <= u
  BY <1>1, ModeFold!Least
<1>3. m \in S
  <2> SUFFICES ASSUME m \notin S PROVE FALSE
    OBVIOUS
  <2>1. \A k \in S : k \in Nat /\ k <= m /\ k # m /\ k # 0
    BY <1>2
  <2>2. PICK k \in S : TRUE
    OBVIOUS
  <2>3. m \in Nat /\ m - 1 \in Nat
    BY <1>2, <2>1, <2>2
  <2>4. m - 1 \in bounds
    BY <2>1, <2>3
  <2> QED BY <1>2, <2>3, <2>4
<1>4. m \in S /\ \A j \in S : j <= m
  BY <1>2, <1>3
<1> QED BY <1>4 DEF Final

LEMMA FoldedPart ==
  ASSUME NEW C, NEW text \in Seq(C), NEW m \in Nat \ {0}, NEW n \in Nat, n <= Len(text), m <= n + 1
  PROVE  SubSeq(Folded(text), m, n) = Folded(SubSeq(text, m, n))
<1> DEFINE f == Folded(text)
           s == SubSeq(text, m, n)
           a == SubSeq(f, m, n)
           b == Folded(s)
<1>1. f \in Seq(Wide(C)) /\ Len(f) = Len(text)
  BY FoldedText
<1>2. /\ s \in Seq(C) /\ Len(s) = n - m + 1 /\ \A j \in 1..(n - m + 1) : s[j] = text[m + j - 1]
  BY SubTextAt
<1>3. a \in Seq(Wide(C)) /\ Len(a) = n - m + 1 /\ \A j \in 1..(n - m + 1) : a[j] = f[m + j - 1]
  <2> HIDE DEF f
  <2> QED BY <1>1, SubTextAt
<1> HIDE DEF s
<1>4. /\ b \in Seq(Wide(C)) /\ Len(b) = Len(s)
      /\ \A j \in 1..Len(s) : b[j] = IF s[j] \in DOMAIN Lower THEN Lower[s[j]] ELSE s[j]
  BY <1>2, FoldedText
<1>5. ASSUME NEW j \in 1..(n - m + 1) PROVE a[j] = b[j]
  <2>1. m + j - 1 \in 1..Len(text)
    OBVIOUS
  <2> DEFINE i == m + j - 1
  <2>2. f[i] = IF text[i] \in DOMAIN Lower THEN Lower[text[i]] ELSE text[i]
    BY <2>1, FoldedText
  <2>3. a[j] = f[i] /\ s[j] = text[i] /\ j \in 1..Len(s)
    BY <1>2, <1>3
  <2> HIDE DEF i, a, b, f
  <2> QED BY <1>4, <2>2, <2>3
<1> HIDE DEF a, b
<1>6. \A j \in 1..Len(a) : a[j] = b[j]
  BY <1>3, <1>5
<1>7. a = b
  BY <1>2, <1>3, <1>4, <1>6, SeqEqual
<1> QED BY <1>7 DEF a, b, s, f

LEMMA FoldedEmpty ==
  ASSUME NEW C
  PROVE  <<>> \in Seq(C) /\ Folded(<<>>) = <<>>
<1>1. <<>> \in Seq(C) /\ Len(<<>>) = 0
  OBVIOUS
<1>2. Folded(<<>>) \in Seq(Wide(C)) /\ Len(Folded(<<>>)) = 0
  BY <1>1, FoldedText
<1> HIDE DEF Folded
<1>3. Folded(<<>>) = <<>>
  BY <1>2, EmptySeq
<1> QED BY <1>1, <1>3

LEMMA TrimmedAre ==
  ASSUME NEW C, NEW text \in Seq(C), NEW c \in {" ", ".", ","}
  PROVE  /\ Trimmed(text, {c}) \in Seq(C)
         /\ Trimmed(Folded(text), {c}) = Folded(Trimmed(text, {c}))
         /\ TrimmedStart(text, {c}) \in Seq(C)
         /\ TrimmedStart(Folded(text), {c}) = Folded(TrimmedStart(text, {c}))
<1> DEFINE f == Folded(text)
           kept == {k \in DOMAIN text : text[k] \notin {c}}
           keptf == {k \in DOMAIN f : f[k] \notin {c}}
           n == Len(text)
<1>1. f \in Seq(Wide(C)) /\ Len(f) = n /\ n \in Nat /\ DOMAIN text = 1..n
  <2>1. f \in Seq(Wide(C)) /\ Len(f) = n
    BY FoldedText
  <2>2. n \in Nat /\ DOMAIN text = 1..n
    BY SeqShape
  <2> QED BY <2>1, <2>2
<1>2. DOMAIN f = 1..n
  <2>1. f \in Seq(Wide(C)) /\ Len(f) = n
    BY <1>1
  <2>2. DOMAIN f = 1..Len(f)
    BY <2>1, SeqShape
  <2> HIDE DEF f, n
  <2> QED BY <2>1, <2>2
<1>3. keptf = kept
  <2>1. \A k \in 1..n : f[k] = c <=> text[k] = c
    BY FoldedSame
  <2> HIDE DEF f, n
  <2> QED BY <1>1, <1>2, <2>1
<1>4. <<>> \in Seq(C) /\ Folded(<<>>) = <<>>
  BY FoldedEmpty
<1>5. CASE kept = {}
  <2>1. Trimmed(text, {c}) = <<>> /\ TrimmedStart(text, {c}) = <<>>
    BY <1>5 DEF Trimmed, TrimmedStart
  <2>2. Trimmed(f, {c}) = <<>> /\ TrimmedStart(f, {c}) = <<>>
    BY <1>3, <1>5 DEF Trimmed, TrimmedStart
  <2> QED BY <1>4, <2>1, <2>2
<1>6. CASE kept # {}
  <2> DEFINE a == First(kept)
             b == Final(kept)
  <2>1. a \in 1..n /\ b \in 1..n /\ a <= b
    <3>1. kept \subseteq 1..n
      BY <1>1
    <3> HIDE DEF kept, n
    <3>4. kept \subseteq Nat
      <4>1. 1..n \subseteq Nat
        BY <1>1, Prefixed
      <4> QED BY <3>1, <4>1
    <3>2. First(kept) \in kept /\ \A j \in kept : First(kept) <= j
      BY <1>6, <3>4, FirstIs
    <3>3. Final(kept) \in kept
      BY <1>1, <1>6, <3>1, FinalIs
    <3> QED BY <3>1, <3>2, <3>3
  <2>2. Trimmed(text, {c}) = SubSeq(text, a, b) /\ TrimmedStart(text, {c}) = SubSeq(text, a, n)
    BY <1>6 DEF Trimmed, TrimmedStart
  <2>3. Trimmed(f, {c}) = SubSeq(f, a, b) /\ TrimmedStart(f, {c}) = SubSeq(f, a, Len(f))
    <3>1. /\ Trimmed(f, {c}) = IF keptf = {} THEN <<>> ELSE SubSeq(f, First(keptf), Final(keptf))
          /\ TrimmedStart(f, {c}) = IF keptf = {} THEN <<>> ELSE SubSeq(f, First(keptf), Len(f))
      BY DEF Trimmed, TrimmedStart
    <3> HIDE DEF kept, keptf, f
    <3> QED BY <1>3, <1>6, <3>1
  <2> HIDE DEF a, b, kept, keptf
  <2>4. /\ a \in Nat \ {0} /\ b \in Nat /\ n \in Nat /\ b <= Len(text) /\ n <= Len(text)
        /\ a <= b + 1 /\ a <= n + 1
    <3>1. n \in Nat /\ n = Len(text)
      BY <1>1
    <3> HIDE DEF n
    <3>2. /\ a \in Nat \ {0} /\ b \in Nat /\ b <= n /\ a <= b + 1 /\ a <= n + 1 /\ n <= n
      BY <2>1, <3>1, Prefixed
    <3> QED BY <3>1, <3>2
  <2> HIDE DEF n
  <2>5. SubSeq(text, a, b) \in Seq(C) /\ SubSeq(text, a, n) \in Seq(C)
    BY <2>4, SubTextAt
  <2>6. SubSeq(f, a, b) = Folded(SubSeq(text, a, b)) /\ SubSeq(f, a, n) = Folded(SubSeq(text, a, n))
    BY <2>4, FoldedPart
  <2> QED BY <1>1, <2>2, <2>3, <2>5, <2>6
<1> QED BY <1>5, <1>6

\* normalize_extension: what is bare, in lower case
LEMMA ExtensionIs ==
  ASSUME NEW C, NEW part \in Seq(C)
  PROVE  Bare(part) \in Seq(C) /\ Extension(part) = Folded(Bare(part))
<1> DEFINE a == Trimmed(part, {Space})
           b == TrimmedStart(a, {"."})
<1>1. a \in Seq(C)
  BY TrimmedAre DEF Space
<1>2. b \in Seq(C)
  <2> HIDE DEF a
  <2> QED BY <1>1, TrimmedAre
<1>3. Trimmed(b, {Space}) \in Seq(C) /\ Trimmed(Folded(b), {Space}) = Folded(Trimmed(b, {Space}))
  <2> HIDE DEF b
  <2> QED BY <1>2, TrimmedAre DEF Space
<1> QED BY <1>3 DEF Bare, Extension

\* file_extension: a name has the extension that follows its last dot.
LEMMA ExtensionAt ==
  ASSUME NEW C, NEW name \in Seq(C), NEW ext \in Seq(C), ext # <<>>, "." \in C
  PROVE  ext \in ExtensionsOf(name) <=> "." \notin ToSet(ext) /\ IsSuffix(<<".">> \o ext, name)
<1> DEFINE dots == {k \in DOMAIN name : name[k] = "."}
           n == Len(name)
           m == Len(ext)
           s == <<".">> \o ext
<1>1. n \in Nat /\ m \in Nat \ {0} /\ dots \subseteq 1..n /\ m # 0
  OBVIOUS
<1>2. s \in Seq(C) /\ Len(s) = m + 1 /\ s[1] = "." /\ \A j \in 1..m : s[j + 1] = ext[j]
  <2>1. <<".">> \in Seq(C) /\ Len(<<".">>) = 1 /\ <<".">>[1] = "."
    OBVIOUS
  <2>2. /\ s \in Seq(C) /\ Len(s) = 1 + m
        /\ \A i \in 1..(1 + m) : s[i] = IF i <= 1 THEN <<".">>[i] ELSE ext[i - 1]
    BY <2>1, ConcatProperties
  <2>3. 1 \in 1..(1 + m) /\ \A j \in 1..m : j + 1 \in 1..(1 + m) /\ ~(j + 1 <= 1) /\ (j + 1) - 1 = j
    BY <1>1
  <2> HIDE DEF s, m
  <2> QED BY <1>1, <2>1, <2>2, <2>3
<1> HIDE DEF s
<1>3. IsSuffix(s, name) <=>
        m + 1 <= n /\ name[n - m] = "." /\ \A j \in 1..m : name[n - m + j] = ext[j]
  <2>1. IsSuffix(s, name) <=> m + 1 <= n /\ \A i \in 1..(m + 1) : name[n - (m + 1) + i] = s[i]
    <3>1. s \in Seq(C) /\ Len(s) = m + 1
      BY <1>2
    <3>2. IsSuffix(s, name) <=> /\ Len(s) <= Len(name)
                               /\ \A i \in 1..Len(s) : name[Len(name) - Len(s) + i] = s[i]
      BY <3>1, SuffixAt
    <3> HIDE DEF m
    <3> QED BY <3>1, <3>2
  <2>2. /\ \A j \in 1..m : j + 1 \in 1..(m + 1) /\ n - (m + 1) + (j + 1) = n - m + j
        /\ \A i \in 1..(m + 1) : i = 1 \/ (i - 1 \in 1..m /\ (i - 1) + 1 = i)
        /\ 1 \in 1..(m + 1) /\ n - (m + 1) + 1 = n - m
    BY <1>1
  <2> HIDE DEF n, m
  <2>3. ASSUME \A i \in 1..(m + 1) : name[n - (m + 1) + i] = s[i]
        PROVE  name[n - m] = "." /\ \A j \in 1..m : name[n - m + j] = ext[j]
    <3>1. name[n - m] = "."
      BY <1>2, <2>2, <2>3
    <3>2. ASSUME NEW j \in 1..m PROVE name[n - m + j] = ext[j]
      BY <1>2, <2>2, <2>3
    <3> QED BY <3>1, <3>2
  <2>4. ASSUME name[n - m] = ".", \A j \in 1..m : name[n - m + j] = ext[j], NEW i \in 1..(m + 1)
        PROVE  name[n - (m + 1) + i] = s[i]
    <3>1. CASE i = 1
      BY <1>2, <2>2, <2>4, <3>1
    <3>2. CASE i # 1
      <4> DEFINE j == i - 1
      <4>1. j \in 1..m /\ j + 1 = i /\ n - (m + 1) + i = n - m + j
        BY <1>1, <3>2
      <4> HIDE DEF j
      <4> QED BY <1>2, <2>4, <4>1
    <3> QED BY <3>1, <3>2
  <2> QED BY <2>1, <2>3, <2>4
<1>4. "." \notin ToSet(ext) <=> \A j \in 1..m : ext[j] # "."
  BY DEF ToSet
<1>5. CASE dots = {}
  <2>1. ExtensionsOf(name) = {}
    BY <1>5 DEF ExtensionsOf
  <2>2. ~(m + 1 <= n /\ name[n - m] = ".")
    <3>1. m + 1 <= n => n - m \in 1..n
      BY <1>1
    <3> QED BY <1>5, <3>1
  <2> HIDE DEF n, m
  <2> QED BY <1>3, <2>1, <2>2 DEF s
<1>6. CASE dots # {}
  <2> DEFINE d == Final(dots)
             e == SubSeq(name, d + 1, n)
  <2>1. d \in dots /\ d \in 1..n /\ name[d] = "." /\ \A j \in dots : j <= d
    <3>1. Final(dots) \in dots /\ \A j \in dots : j <= Final(dots)
      <4> HIDE DEF dots, n
      <4> QED BY <1>1, <1>6, FinalIs
    <3> QED BY <3>1
  <2>2. e \in Seq(C) /\ Len(e) = n - d /\ \A j \in 1..(n - d) : e[j] = name[d + j]
    <3>1. d + 1 \in Nat \ {0} /\ n \in Nat /\ n <= Len(name) /\ d + 1 <= n + 1 /\ n - (d + 1) + 1 = n - d
      BY <1>1, <2>1
    <3>2. \A j \in 1..(n - d) : (d + 1) + j - 1 = d + j
      BY <1>1, <2>1
    <3> HIDE DEF d
    <3>3. /\ SubSeq(name, d + 1, n) \in Seq(C) /\ Len(SubSeq(name, d + 1, n)) = n - (d + 1) + 1
          /\ \A j \in 1..(n - (d + 1) + 1) : SubSeq(name, d + 1, n)[j] = name[(d + 1) + j - 1]
      BY <3>1, SubTextAt
    <3> HIDE DEF n
    <3> QED BY <3>1, <3>2, <3>3
  <2>3. ExtensionsOf(name) = {e} \ {<<>>}
    BY <1>6 DEF ExtensionsOf
  <2> HIDE DEF d, e
  <2>4. ASSUME ext = e
        PROVE  /\ "." \notin ToSet(ext) /\ m + 1 <= n /\ name[n - m] = "."
               /\ \A j \in 1..m : name[n - m + j] = ext[j]
    <3>1. m = n - d /\ n - m = d /\ m + 1 <= n
      BY <1>1, <2>1, <2>2, <2>4
    <3>2. ASSUME NEW j \in 1..m PROVE ext[j] = name[d + j] /\ ext[j] # "."
      <4>1. j \in 1..(n - d) /\ d + j \in 1..n /\ ~(d + j <= d)
        BY <1>1, <2>1, <3>1
      <4>2. d + j \notin dots
        BY <2>1, <4>1
      <4> QED BY <2>2, <2>4, <4>1, <4>2
    <3> HIDE DEF n, m
    <3> QED BY <1>4, <2>1, <3>1, <3>2
  <2>5. ASSUME "." \notin ToSet(ext), m + 1 <= n, name[n - m] = ".",
               \A j \in 1..m : name[n - m + j] = ext[j]
        PROVE  ext = e
    <3>1. n - m \in dots
      <4>1. n - m \in 1..n
        BY <1>1, <2>5
      <4> QED BY <2>5, <4>1
    <3>2. d = n - m
      <4>1. n - m <= d
        BY <2>1, <3>1
      <4>2. ASSUME n - m < d PROVE FALSE
        <5> DEFINE j == d - (n - m)
        <5>1. j \in 1..m /\ n - m + j = d
          BY <1>1, <2>1, <4>2
        <5> HIDE DEF j
        <5> QED BY <1>4, <2>1, <2>5, <5>1
      <4> HIDE DEF n, m
      <4> QED BY <1>1, <2>1, <4>1, <4>2
    <3>3. n - d = m
      BY <1>1, <2>1, <3>2
    <3>4. \A j \in 1..m : e[j] = ext[j]
      BY <2>2, <2>5, <3>2, <3>3
    <3> QED BY <2>2, <3>3, <3>4, SeqEqual
  <2> HIDE DEF n, m, s
  <2>6. ext \in ExtensionsOf(name) <=> ext = e
    BY <2>3
  <2> QED BY <1>3, <2>4, <2>5, <2>6 DEF s
<1> HIDE DEF s
<1> QED BY <1>5, <1>6

-----------------------------------------------------------------------------
(* Numbers, ages and dates: one value or none                              *)

OneOf(S, T) == S = {} \/ \E n \in T : S = {n}

LEMMA NumbersAre == ASSUME NEW text PROVE OneOf(Numbers(text), 0..MaxSize)
BY DEF Numbers, OneOf

LEMMA SizesAre == ASSUME NEW text PROVE OneOf(Sizes(text), 0..MaxSize)
<1> DEFINE digits == {k \in DOMAIN text : ToSet(SubSeq(text, 1, k)) \subseteq DOMAIN Digits}
           unit   == SubSeq(text, Cardinality(digits) + 1, Len(text))
           read   == Numbers(SubSeq(text, 1, Cardinality(digits)))
           times  == Multipliers[unit]
<1>1. Sizes(text) = {} \/ Sizes(text) = {n * times : n \in read} \cap 0..MaxSize
  BY DEF Sizes
<1>2. OneOf(read, 0..MaxSize)
  BY NumbersAre
<1> HIDE DEF read, times
<1> QED BY <1>1, <1>2 DEF OneOf

LEMMA DaysInAre == ASSUME NEW text PROVE OneOf(DaysIn(text), Nat)
BY QueryAssumption DEF DaysIn, OneOf

\* What fits is as it is.
LEMMA WrappedIs ==
  ASSUME NEW n \in Int, -MaxTime <= n, n <= MaxTime
  PROVE  Wrapped(n) = n
<1> DEFINE k == n + MaxTime + 1
           m == 2 * MaxTime + 2
<1>1. MaxTime \in Nat
  BY QueryAssumption
<1>2. k \in Nat /\ m \in Nat \ {0} /\ k < m
  BY <1>1
<1>3. k % m = k
  <2> HIDE DEF k, m
  <2>1. k \div m \in Int /\ k % m \in 0..(m - 1) /\ k = m * (k \div m) + (k % m)
    BY <1>2
  <2>2. k \div m = 0
    <3> DEFINE q == k \div m
               r == k % m
    <3>1. q \in Int /\ r \in 0..(m - 1) /\ k = m * q + r
      BY <2>1
    <3> HIDE DEF q, r
    <3>2. ASSUME q >= 1 PROVE FALSE
      <4>1. m * q >= m
        BY <1>2, <3>1, <3>2
      <4>2. m * q \in Int
        BY <1>2, <3>1
      <4> QED BY <1>2, <3>1, <4>1, <4>2
    <3>3. ASSUME q <= -1 PROVE FALSE
      <4>1. m * q <= -m
        BY <1>2, <3>1, <3>3
      <4>2. m * q \in Int
        BY <1>2, <3>1
      <4> QED BY <1>2, <3>1, <4>1, <4>2
    <3>4. q = 0
      BY <3>1, <3>2, <3>3
    <3> QED BY <3>4 DEF q
  <2> QED BY <1>2, <2>1, <2>2
<1>4. Wrapped(n) = (k % m) - (MaxTime + 1)
  BY DEF Wrapped
<1> QED BY <1>1, <1>3, <1>4

Ago(n) == Wrapped(Now - n * DayLength)

AgoFits(n) == n * DayLength <= MaxTime => Ago(n) = Now - n * DayLength

LEMMA DaysAgoAre ==
  ASSUME NEW text
  PROVE  \/ DaysAgo(text) = {}
         \/ \E n \in Nat : Numbers(Front(text)) = {n} /\ DaysAgo(text) = {Ago(n)} /\ AgoFits(n)
<1>1. DaysAgo(text) = {} \/ DaysAgo(text) = {Ago(n) : n \in Numbers(Front(text)) \cap 0..MaxTime}
  BY DEF DaysAgo, Ago
<1>2. OneOf(Numbers(Front(text)), 0..MaxSize)
  BY NumbersAre
<1>3. CASE Numbers(Front(text)) = {}
  BY <1>1, <1>3
<1>4. ASSUME NEW n \in 0..MaxSize, Numbers(Front(text)) = {n}
      PROVE  \/ DaysAgo(text) = {}
             \/ n \in Nat /\ DaysAgo(text) = {Ago(n)} /\ AgoFits(n)
  <2>1. n \in Nat /\ n * DayLength \in Nat /\ Now \in 0..MaxTime /\ MaxTime \in Nat
    BY QueryAssumption
  <2>2. AgoFits(n)
    <3> SUFFICES ASSUME n * DayLength <= MaxTime PROVE Ago(n) = Now - n * DayLength
      BY DEF AgoFits
    <3> DEFINE x == Now - n * DayLength
    <3>1. x \in Int /\ -MaxTime <= x /\ x <= MaxTime
      BY <2>1
    <3> HIDE DEF x
    <3>2. Wrapped(x) = x
      BY <3>1, WrappedIs
    <3> QED BY <3>2 DEF Ago, x
  <2> HIDE DEF Ago
  <2> QED BY <1>1, <1>4, <2>1, <2>2
<1> QED BY <1>2, <1>3, <1>4 DEF OneOf

LEMMA ComparisonIs ==
  ASSUME NEW text
  PROVE  Comparison(text) \in {"..", ">=", ">", "<=", "<", "="}
BY DEF Comparison

-----------------------------------------------------------------------------
(* size: and mtime:                                                        *)

SizeMeant(text, size, c) ==
  /\ c.kind = "size"
  /\ ~Undocumented("size:", text) => (Between(size, c) <=> SizeIs(text, size))

LEMMA RangesAny ==
  ASSUME NEW kind, NEW A, NEW B
  PROVE  Ranges(kind, A, B) # {} <=> A # {} /\ B # {}
BY DEF Ranges

\* The range from the one value to the other
Spans(c, kind, A, B, S, T) ==
  \E a \in S, b \in T : A = {a} /\ B = {b} /\ c.kind = kind /\ c.min = a /\ c.max = b

LEMMA RangesAre ==
  ASSUME NEW kind, NEW A, NEW B, NEW S, NEW T, OneOf(A, S), OneOf(B, T),
         NEW c \in Ranges(kind, A, B)
  PROVE  Spans(c, kind, A, B, S, T)
<1>1. PICK a \in A, b \in B : c = RangeClause(kind, a, b)
  BY DEF Ranges
<1>2. c.kind = kind /\ c.min = a /\ c.max = b
  BY <1>1 DEF RangeClause
<1>3. A = {a} /\ B = {b} /\ a \in S /\ b \in T
  BY DEF OneOf
<1> QED BY <1>2, <1>3 DEF Spans

LEMMA SizeFilter ==
  ASSUME NEW text, NEW size \in 0..(MaxSize - 1)
  PROVE  /\ SizeClauses(text) # {} <=> SizeForm(text)
         /\ \A c \in SizeClauses(text) : SizeMeant(text, size, c)
<1> DEFINE given == Sizes(Operand(text))
           low   == Sizes(LowerPart(text))
           high  == Sizes(UpperPart(text))
           form  == Comparison(text)
<1>1. OneOf(given, 0..MaxSize) /\ OneOf(low, 0..MaxSize) /\ OneOf(high, 0..MaxSize)
  BY SizesAre
<1>2. form \in {"..", ">=", ">", "<=", "<", "="}
  BY ComparisonIs
<1>3. MaxSize \in Nat \ {0} /\ size \in Nat /\ size < MaxSize
  BY QueryAssumption
<1>4. OneOf({MaxSize}, 0..MaxSize) /\ OneOf({0}, 0..MaxSize)
  BY <1>3 DEF OneOf
<1>5. /\ form = ".." => SizeClauses(text) = Ranges("size", low, high)
      /\ form = ">=" => SizeClauses(text) = Ranges("size", given, {MaxSize})
      /\ form = ">" =>
           SizeClauses(text) = Ranges("size", {IF n = MaxSize THEN n ELSE n + 1 : n \in given}, {MaxSize})
      /\ form = "<=" => SizeClauses(text) = Ranges("size", {0}, given)
      /\ form = "<" =>
           SizeClauses(text) = Ranges("size", {0}, {IF n = 0 THEN n ELSE n - 1 : n \in given})
      /\ form = "=" => SizeClauses(text) = {RangeClause("size", n, n) : n \in given}
  BY DEF SizeClauses
<1>6. /\ form = ".." => (SizeIs(text, size) <=> (\A n \in low : n <= size) /\ (\A n \in high : size <= n))
      /\ form = ">"  => (SizeIs(text, size) <=> \A n \in given : size > n)
      /\ form = ">=" => (SizeIs(text, size) <=> \A n \in given : size >= n)
      /\ form = "<"  => (SizeIs(text, size) <=> \A n \in given : size < n)
      /\ form = "<=" => (SizeIs(text, size) <=> \A n \in given : size <= n)
      /\ form = "="  => (SizeIs(text, size) <=> \A n \in given : size = n)
  BY DEF SizeIs
<1>7. SizeForm(text) <=> IF form = ".." THEN low # {} /\ high # {} ELSE given # {}
  BY DEF SizeForm
<1>8. ~Undocumented("size:", text) => ~(form = "<" /\ 0 \in given)
  BY DEF Undocumented
<1> HIDE DEF given, low, high, form
<1>9. CASE form = ".."
  <2>1. SizeClauses(text) # {} <=> SizeForm(text)
    BY <1>1, <1>5, <1>7, <1>9, RangesAny
  <2>2. ASSUME NEW c \in SizeClauses(text) PROVE SizeMeant(text, size, c)
    <3>0. Spans(c, "size", low, high, 0..MaxSize, 0..MaxSize)
      <4>1. c \in Ranges("size", low, high)
        BY <1>1, <1>5, <1>9, <2>2
      <4> QED BY <4>1, <1>1, <1>4, RangesAre
    <3>1. PICK a \in 0..MaxSize, b \in 0..MaxSize :
            low = {a} /\ high = {b} /\ c.kind = "size" /\ c.min = a /\ c.max = b
      BY <3>0 DEF Spans
    <3> QED BY <1>6, <1>9, <3>1 DEF SizeMeant, Between
  <2> QED BY <2>1, <2>2
<1>10. CASE form = ">="
  <2>1. SizeClauses(text) # {} <=> SizeForm(text)
    BY <1>1, <1>4, <1>5, <1>7, <1>10, RangesAny
  <2>2. ASSUME NEW c \in SizeClauses(text) PROVE SizeMeant(text, size, c)
    <3>0. Spans(c, "size", given, {MaxSize}, 0..MaxSize, 0..MaxSize)
      <4>1. c \in Ranges("size", given, {MaxSize})
        BY <1>1, <1>4, <1>5, <1>10, <2>2
      <4> QED BY <4>1, <1>1, <1>4, RangesAre
    <3>1. PICK a \in 0..MaxSize, b \in 0..MaxSize :
            given = {a} /\ {MaxSize} = {b} /\ c.kind = "size" /\ c.min = a /\ c.max = b
      BY <3>0 DEF Spans
    <3> QED BY <1>3, <1>6, <1>10, <3>1 DEF SizeMeant, Between
  <2> QED BY <2>1, <2>2
<1>11. CASE form = ">"
  <2> DEFINE above == {IF n = MaxSize THEN n ELSE n + 1 : n \in given}
  <2>1. OneOf(above, 0..MaxSize) /\ (above # {} <=> given # {})
    BY <1>1, <1>3 DEF OneOf
  <2>2. SizeClauses(text) = Ranges("size", above, {MaxSize})
    BY <1>5, <1>11
  <2>3. \A a : above = {a} => \E n \in 0..MaxSize : given = {n} /\ a = IF n = MaxSize THEN n ELSE n + 1
    BY <1>1 DEF OneOf
  <2> HIDE DEF above
  <2>4. SizeClauses(text) # {} <=> SizeForm(text)
    BY <1>4, <1>7, <1>11, <2>1, <2>2, RangesAny
  <2>5. ASSUME NEW c \in SizeClauses(text) PROVE SizeMeant(text, size, c)
    <3>0. Spans(c, "size", above, {MaxSize}, 0..MaxSize, 0..MaxSize)
      <4>1. c \in Ranges("size", above, {MaxSize})
        BY <1>4, <2>1, <2>2, <2>5
      <4> QED BY <4>1, <1>4, <2>1, RangesAre
    <3>1. PICK a \in 0..MaxSize, b \in 0..MaxSize :
            above = {a} /\ {MaxSize} = {b} /\ c.kind = "size" /\ c.min = a /\ c.max = b
      BY <3>0 DEF Spans
    <3>2. PICK n \in 0..MaxSize : given = {n} /\ a = IF n = MaxSize THEN n ELSE n + 1
      BY <2>3, <3>1
    <3> QED BY <1>3, <1>6, <1>11, <3>1, <3>2 DEF SizeMeant, Between
  <2> QED BY <2>4, <2>5
<1>12. CASE form = "<="
  <2>1. SizeClauses(text) # {} <=> SizeForm(text)
    BY <1>1, <1>4, <1>5, <1>7, <1>12, RangesAny
  <2>2. ASSUME NEW c \in SizeClauses(text) PROVE SizeMeant(text, size, c)
    <3>0. Spans(c, "size", {0}, given, 0..MaxSize, 0..MaxSize)
      <4>1. c \in Ranges("size", {0}, given)
        BY <1>1, <1>4, <1>5, <1>12, <2>2
      <4> QED BY <4>1, <1>1, <1>4, RangesAre
    <3>1. PICK a \in 0..MaxSize, b \in 0..MaxSize :
            {0} = {a} /\ given = {b} /\ c.kind = "size" /\ c.min = a /\ c.max = b
      BY <3>0 DEF Spans
    <3> QED BY <1>3, <1>6, <1>12, <3>1 DEF SizeMeant, Between
  <2> QED BY <2>1, <2>2
<1>13. CASE form = "<"
  <2> DEFINE below == {IF n = 0 THEN n ELSE n - 1 : n \in given}
  <2>1. OneOf(below, 0..MaxSize) /\ (below # {} <=> given # {})
    BY <1>1, <1>3 DEF OneOf
  <2>2. SizeClauses(text) = Ranges("size", {0}, below)
    BY <1>5, <1>13
  <2>3. \A b : below = {b} => \E n \in 0..MaxSize : given = {n} /\ b = IF n = 0 THEN n ELSE n - 1
    BY <1>1 DEF OneOf
  <2> HIDE DEF below
  <2>4. SizeClauses(text) # {} <=> SizeForm(text)
    BY <1>4, <1>7, <1>13, <2>1, <2>2, RangesAny
  <2>5. ASSUME NEW c \in SizeClauses(text) PROVE SizeMeant(text, size, c)
    <3>0. Spans(c, "size", {0}, below, 0..MaxSize, 0..MaxSize)
      <4>1. c \in Ranges("size", {0}, below)
        BY <1>4, <2>1, <2>2, <2>5
      <4> QED BY <4>1, <1>4, <2>1, RangesAre
    <3>1. PICK a \in 0..MaxSize, b \in 0..MaxSize :
            {0} = {a} /\ below = {b} /\ c.kind = "size" /\ c.min = a /\ c.max = b
      BY <3>0 DEF Spans
    <3>2. PICK n \in 0..MaxSize : given = {n} /\ b = IF n = 0 THEN n ELSE n - 1
      BY <2>3, <3>1
    <3> QED BY <1>3, <1>6, <1>8, <1>13, <3>1, <3>2 DEF SizeMeant, Between
  <2> QED BY <2>4, <2>5
<1>14. CASE form = "="
  <2>1. SizeClauses(text) # {} <=> SizeForm(text)
    BY <1>5, <1>7, <1>14
  <2>2. ASSUME NEW c \in SizeClauses(text) PROVE SizeMeant(text, size, c)
    <3>1. PICK n \in 0..MaxSize : given = {n} /\ c.kind = "size" /\ c.min = n /\ c.max = n
      BY <1>1, <1>5, <1>14, <2>2 DEF OneOf, RangeClause
    <3> QED BY <1>3, <1>6, <1>14, <3>1 DEF SizeMeant, Between
  <2> QED BY <2>1, <2>2
<1> QED BY <1>2, <1>9, <1>10, <1>11, <1>12, <1>13, <1>14

\* A day is the seconds from its first to its last.
LEMMA DaySeconds ==
  ASSUME NEW n \in Int, NEW time \in Nat
  PROVE  /\ DayStart(n) <= time <=> n <= DayOf(time)
         /\ time <= DayEnd(n) <=> DayOf(time) <= n
         /\ DayOf(time) \in Int /\ DayStart(n) \in Int /\ DayEnd(n) \in Int
<1> DEFINE q == (time + Offset) \div DayLength
           r == (time + Offset) % DayLength
<1>1. DayLength \in Nat \ {0} /\ Offset \in Int
  BY QueryAssumption
<1>2. q \in Int /\ r \in 0..(DayLength - 1) /\ time = q * DayLength + r - Offset
  <2> DEFINE t == time + Offset
  <2>1. t \in Int
    BY <1>1
  <2> HIDE DEF t
  <2>2. /\ t \div DayLength \in Int /\ t % DayLength \in 0..(DayLength - 1)
        /\ t = DayLength * (t \div DayLength) + (t % DayLength)
    BY <1>1, <2>1
  <2>3. t = q * DayLength + r /\ q \in Int /\ r \in 0..(DayLength - 1)
    BY <1>1, <2>2 DEF t
  <2> HIDE DEF q, r
  <2>4. q * DayLength \in Int
    BY <1>1, <2>3
  <2> QED BY <1>1, <2>3, <2>4 DEF t
<1> HIDE DEF q, r
<1>3. n * DayLength \in Int /\ q * DayLength \in Int
  BY <1>1, <1>2
<1>4. CASE n <= q
  <2>1. n * DayLength <= q * DayLength
    BY <1>1, <1>2, <1>4
  <2>2. CASE n = q
    BY <1>1, <1>2, <1>3, <2>2 DEF DayStart, DayEnd, DayOf, q
  <2>3. CASE n < q
    <3>1. n + 1 <= q /\ (n + 1) * DayLength = n * DayLength + DayLength
      BY <1>1, <1>2, <2>3
    <3>2. (n + 1) * DayLength <= q * DayLength
      BY <1>1, <1>2, <3>1
    <3> QED BY <1>1, <1>2, <1>3, <2>1, <2>3, <3>1, <3>2 DEF DayStart, DayEnd, DayOf, q
  <2> QED BY <1>2, <1>4, <2>2, <2>3
<1>5. CASE n > q
  <2>1. q + 1 <= n /\ (q + 1) * DayLength = q * DayLength + DayLength
    BY <1>1, <1>2, <1>5
  <2>2. (q + 1) * DayLength <= n * DayLength
    BY <1>1, <1>2, <2>1
  <2> QED BY <1>1, <1>2, <1>3, <1>5, <2>1, <2>2 DEF DayStart, DayEnd, DayOf, q
<1> QED BY <1>2, <1>4, <1>5

TimeMeant(text, mtime, c) ==
  /\ c.kind = "mtime"
  /\ ~Undocumented("mtime:", text) => (Between(mtime, c) <=> TimeIs(text, mtime))

LEMMA DayRangeIs ==
  ASSUME NEW days, NEW c \in DayRange(days), NEW mtime \in Nat, days \subseteq Int
  PROVE  c.kind = "mtime" /\ \E n \in days : Between(mtime, c) <=> DayOf(mtime) = n
<1>1. PICK n \in days : c = RangeClause("mtime", DayStart(n), DayEnd(n))
  BY DEF DayRange
<1>2. c.kind = "mtime" /\ c.min = DayStart(n) /\ c.max = DayEnd(n)
  BY <1>1 DEF RangeClause
<1>3. n \in Int
  BY <1>1
<1>4. /\ DayStart(n) <= mtime <=> n <= DayOf(mtime)
      /\ mtime <= DayEnd(n) <=> DayOf(mtime) <= n
      /\ DayOf(mtime) \in Int
  BY <1>3, DaySeconds
<1>5. Between(mtime, c) <=> DayOf(mtime) = n
  BY <1>2, <1>3, <1>4 DEF Between
<1> QED BY <1>1, <1>2, <1>5

LEMMA WordsOfTime ==
  ASSUME NEW text
  PROVE  /\ text = <<"today">> => Comparison(text) = "=" /\ text # <<"yesterday">>
         /\ text = <<"yesterday">> => Comparison(text) = "=" /\ text # <<"today">>
<1>1. ASSUME NEW s, s \in {"today", "yesterday"}, text = <<s>>
      PROVE  Comparison(text) = "="
  <2>1. Len(text) = 1 /\ text[1] = s /\ Len(<<".", ".">>) = 2
    BY <1>1
  <2>2. ~Occurs(<<".", ".">>, text)
    BY <2>1 DEF Occurs, Places
  <2>3. ~IsPrefix(<<">", "=">>, text) /\ ~IsPrefix(<<"<", "=">>, text)
    <3>1. Len(<<">", "=">>) = 2 /\ Len(<<"<", "=">>) = 2
      OBVIOUS
    <3> QED BY <2>1, <3>1 DEF IsPrefix
  <2>4. ~IsPrefix(<<">">>, text) /\ ~IsPrefix(<<"<">>, text)
    <3>1. Len(<<">">>) = 1 /\ Len(<<"<">>) = 1 /\ <<">">>[1] = ">" /\ <<"<">>[1] = "<"
      OBVIOUS
    <3> DEFINE C == {s, ">", "<"}
    <3>2. text \in Seq(C) /\ <<">">> \in Seq(C) /\ <<"<">> \in Seq(C)
      BY <1>1
    <3>3. s # ">" /\ s # "<"
      BY <1>1
    <3> HIDE DEF C
    <3>4. ASSUME NEW c, <<c>> \in Seq(C), Len(<<c>>) = 1, <<c>>[1] = c, c # s
          PROVE  ~IsPrefix(<<c>>, text)
      <4>1. IsPrefix(<<c>>, text) <=>
              Len(<<c>>) <= Len(text) /\ \A j \in 1..Len(<<c>>) : text[j] = <<c>>[j]
        BY <3>2, <3>4, TextPrefix
      <4>2. 1 \in 1..Len(<<c>>)
        BY <3>4
      <4> QED BY <2>1, <3>4, <4>1, <4>2
    <3> QED BY <3>1, <3>2, <3>3, <3>4
  <2> QED BY <2>2, <2>3, <2>4 DEF Comparison
<1>2. <<"today">> # <<"yesterday">>
  OBVIOUS
<1> QED BY <1>1, <1>2

\* What parse_time_filter makes of a text that is not the name of a day
LEMMA TimeCases ==
  ASSUME NEW text, text \notin {<<"today">>, <<"yesterday">>}
  PROVE  LET given == Operand(text)
             form  == Comparison(text)
         IN  /\ form = ".." =>
                  TimeClauses(text) = Ranges("mtime", {DayStart(n) : n \in DaysIn(LowerPart(text))},
                                                      {DayEnd(n) : n \in DaysIn(UpperPart(text))})
             /\ form \in {">", ">="} => TimeClauses(text) = Ranges("mtime", TimesFrom(given), {EndOfTime})
             /\ form = "<=" => TimeClauses(text) = Ranges("mtime", {0}, TimesTo(given))
             /\ form = "<" /\ DaysAgo(given) # {} =>
                  TimeClauses(text) = Ranges("mtime", DaysAgo(given), {Now})
             /\ form = "<" /\ DaysAgo(given) = {} =>
                  TimeClauses(text) = Ranges("mtime", {0}, TimesFrom(given))
             /\ form = "=" => TimeClauses(text) = DayRange(DaysIn(text))
BY DEF TimeClauses

LEMMA TimeMeanings ==
  ASSUME NEW text, text \notin {<<"today">>, <<"yesterday">>}, NEW mtime
  PROVE  /\ Comparison(text) = ".." => TimeIs(text, mtime) =
              (/\ \A n \in DaysIn(LowerPart(text)) : n <= DayOf(mtime)
               /\ \A n \in DaysIn(UpperPart(text)) : DayOf(mtime) <= n)
         /\ Comparison(text) = "<" => TimeIs(text, mtime) =
              (/\ mtime <= Now
               /\ \A n \in Numbers(Front(Tail(text))) : Now - mtime <= n * DayLength)
         /\ Comparison(text) = "=" => TimeIs(text, mtime) = (\A n \in DaysIn(text) : DayOf(mtime) = n)
BY DEF TimeIs

LEMMA TimeFilter ==
  ASSUME NEW text, NEW mtime \in Nat
  PROVE  /\ TimeClauses(text) # {} <=> TimeForm(text)
         /\ \A c \in TimeClauses(text) : TimeMeant(text, mtime, c)
<1> DEFINE form  == Comparison(text)
           given == Operand(text)
           low   == DaysIn(LowerPart(text))
           high  == DaysIn(UpperPart(text))
<1>1. form \in {"..", ">=", ">", "<=", "<", "="}
  BY ComparisonIs
<1>2. Now \in Nat /\ DayLength \in Nat \ {0}
  BY QueryAssumption
<1>3. DayOf(Now) \in Int
  BY <1>2, DaySeconds
<1>4. CASE text = <<"today">>
  <2>1. form = "=" /\ TimeForm(text) /\ TimeClauses(text) = DayRange({DayOf(Now)})
    BY <1>4, WordsOfTime DEF TimeForm, TimeClauses, DayOf, Today
  <2>2. TimeIs(text, mtime) = (DayOf(mtime) = DayOf(Now))
    BY <1>4, <2>1, WordsOfTime DEF TimeIs
  <2>3. TimeClauses(text) # {}
    BY <2>1 DEF DayRange
  <2>4. ASSUME NEW c \in TimeClauses(text) PROVE TimeMeant(text, mtime, c)
    <3>1. c \in DayRange({DayOf(Now)}) /\ {DayOf(Now)} \subseteq Int
      BY <1>3, <2>1
    <3>2. c.kind = "mtime" /\ (Between(mtime, c) <=> DayOf(mtime) = DayOf(Now))
      BY <3>1, DayRangeIs
    <3> QED BY <2>2, <3>2 DEF TimeMeant
  <2> QED BY <2>1, <2>3, <2>4
<1>5. CASE text = <<"yesterday">>
  <2> DEFINE n == DayOf(Now) - 1
  <2>1. form = "=" /\ TimeForm(text) /\ TimeClauses(text) = DayRange({n})
    BY <1>5, WordsOfTime DEF TimeForm, TimeClauses, DayOf, Today
  <2>2. TimeIs(text, mtime) = (DayOf(mtime) + 1 = DayOf(Now))
    BY <1>5, <2>1, WordsOfTime DEF TimeIs
  <2>3. TimeClauses(text) # {}
    BY <2>1 DEF DayRange
  <2>4. ASSUME NEW c \in TimeClauses(text) PROVE TimeMeant(text, mtime, c)
    <3>1. n \in Int /\ DayOf(mtime) \in Int
      BY <1>3, DaySeconds
    <3>2. DayOf(mtime) + 1 = DayOf(Now) <=> DayOf(mtime) = n
      BY <1>3, <3>1
    <3> HIDE DEF n
    <3>3. c \in DayRange({n}) /\ {n} \subseteq Int
      BY <2>1, <3>1
    <3>4. c.kind = "mtime" /\ (Between(mtime, c) <=> DayOf(mtime) = n)
      BY <3>3, DayRangeIs
    <3> QED BY <2>2, <3>2, <3>4 DEF TimeMeant
  <2> QED BY <2>1, <2>3, <2>4
<1>6. CASE text \notin {<<"today">>, <<"yesterday">>}
  <2>1. TimeForm(text) <=>
          \/ form = ".." /\ low # {} /\ high # {}
          \/ form \in {"<", "<=", ">", ">="} /\ DaysAgo(given) \cup DaysIn(given) # {}
          \/ form = "=" /\ DaysIn(text) # {}
    BY <1>6 DEF TimeForm
  <2>2. (TimesFrom(given) # {} <=> DaysAgo(given) \cup DaysIn(given) # {})
        /\ (TimesTo(given) # {} <=> DaysAgo(given) \cup DaysIn(given) # {})
    BY DEF TimesFrom, TimesTo
  <2>3. CASE form = ".."
    <3> DEFINE A == {DayStart(n) : n \in low}
               B == {DayEnd(n) : n \in high}
    <3>1. TimeClauses(text) = Ranges("mtime", A, B)
      BY <1>6, <2>3, TimeCases
    <3>2. OneOf(low, Nat) /\ OneOf(high, Nat)
      BY DaysInAre
    <3>3. TimeIs(text, mtime) =
            ((\A n \in low : n <= DayOf(mtime)) /\ (\A n \in high : DayOf(mtime) <= n))
      BY <1>6, <2>3, TimeMeanings
    <3> HIDE DEF low, high
    <3>4. (A # {} <=> low # {}) /\ (B # {} <=> high # {})
      OBVIOUS
    <3>5. TimeClauses(text) # {} <=> TimeForm(text)
      <4> HIDE DEF A, B
      <4> QED BY <2>1, <2>3, <3>1, <3>4, RangesAny
    <3>6. ASSUME NEW c \in TimeClauses(text) PROVE TimeMeant(text, mtime, c)
      <4>1. PICK a \in A, b \in B : c = RangeClause("mtime", a, b)
        BY <3>1 DEF Ranges
      <4>2. PICK m \in low, n \in high : a = DayStart(m) /\ b = DayEnd(n)
        BY <4>1
      <4>3. low = {m} /\ high = {n} /\ m \in Int /\ n \in Int
        BY <3>2 DEF OneOf
      <4>4. c.kind = "mtime" /\ c.min = DayStart(m) /\ c.max = DayEnd(n)
        BY <4>1, <4>2 DEF RangeClause
      <4>5. DayStart(m) <= mtime <=> m <= DayOf(mtime)
        BY <4>3, DaySeconds
      <4>6. mtime <= DayEnd(n) <=> DayOf(mtime) <= n
        BY <4>3, DaySeconds
      <4>7. Between(mtime, c) <=> m <= DayOf(mtime) /\ DayOf(mtime) <= n
        BY <4>4, <4>5, <4>6 DEF Between
      <4>8. TimeIs(text, mtime) <=> m <= DayOf(mtime) /\ DayOf(mtime) <= n
        <5> HIDE DEF TimeIs
        <5> QED BY <3>3, <4>3
      <4> QED BY <4>4, <4>7, <4>8 DEF TimeMeant
    <3> QED BY <3>5, <3>6
  <2>4. CASE form = "="
    <3>1. TimeClauses(text) = DayRange(DaysIn(text))
      BY <1>6, <2>4, TimeCases
    <3>2. OneOf(DaysIn(text), Nat)
      BY DaysInAre
    <3>3. TimeIs(text, mtime) = (\A n \in DaysIn(text) : DayOf(mtime) = n)
      BY <1>6, <2>4, TimeMeanings
    <3>4. TimeClauses(text) # {} <=> TimeForm(text)
      BY <2>1, <2>4, <3>1 DEF DayRange
    <3>5. ASSUME NEW c \in TimeClauses(text) PROVE TimeMeant(text, mtime, c)
      <4>1. DaysIn(text) \subseteq Int /\ c \in DayRange(DaysIn(text))
        BY <3>1, <3>2 DEF OneOf
      <4>2. c.kind = "mtime" /\ \E n \in DaysIn(text) : Between(mtime, c) <=> DayOf(mtime) = n
        BY <4>1, DayRangeIs
      <4>3. PICK n \in DaysIn(text) : Between(mtime, c) <=> DayOf(mtime) = n
        BY <4>2
      <4>4. DaysIn(text) = {n}
        BY <3>2 DEF OneOf
      <4>5. TimeIs(text, mtime) <=> DayOf(mtime) = n
        BY <3>3, <4>4
      <4> QED BY <4>2, <4>3, <4>5 DEF TimeMeant
    <3> QED BY <3>4, <3>5
  <2>5. CASE form \in {">", ">=", "<="} \/ (form = "<" /\ DaysAgo(given) = {})
    <3>1. PICK A, B :
            /\ TimeClauses(text) = Ranges("mtime", A, B)
            /\ (A # {} /\ B # {}) <=> DaysAgo(given) \cup DaysIn(given) # {}
      <4>1. CASE form \in {">", ">="}
        BY <1>6, <2>2, <4>1, TimeCases
      <4>2. CASE form = "<="
        BY <1>6, <2>2, <4>2, TimeCases
      <4>3. CASE form = "<" /\ DaysAgo(given) = {}
        BY <1>6, <2>2, <4>3, TimeCases
      <4> QED BY <2>5, <4>1, <4>2, <4>3
    <3>2. TimeClauses(text) # {} <=> TimeForm(text)
      <4>1. Ranges("mtime", A, B) # {} <=> DaysAgo(given) \cup DaysIn(given) # {}
        BY <3>1, RangesAny
      <4>2. form # ".." /\ form # "=" /\ form \in {"<", "<=", ">", ">="}
        BY <2>5
      <4> HIDE DEF form, given
      <4>3. TimeForm(text) <=> DaysAgo(given) \cup DaysIn(given) # {}
        BY <2>1, <4>2
      <4> QED BY <3>1, <4>1, <4>3
    <3>3. Undocumented("mtime:", text)
      <4>1. form = "<" => given = Tail(text)
        BY DEF Operand
      <4> QED BY <2>5, <4>1 DEF Undocumented
    <3>4. ASSUME NEW c \in TimeClauses(text) PROVE TimeMeant(text, mtime, c)
      <4>1. c.kind = "mtime"
        <5>1. PICK a \in A, b \in B : c = RangeClause("mtime", a, b)
          BY <3>1 DEF Ranges
        <5> QED BY <5>1 DEF RangeClause
      <4> QED BY <3>3, <4>1 DEF TimeMeant
    <3> QED BY <3>2, <3>4
  <2>6. CASE form = "<" /\ DaysAgo(given) # {}
    <3>1. TimeClauses(text) = Ranges("mtime", DaysAgo(given), {Now})
      BY <1>6, <2>6, TimeCases
    <3>2. TimeClauses(text) # {} <=> TimeForm(text)
      BY <2>1, <2>6, <3>1, RangesAny
    <3>3. given = Tail(text)
      BY <2>6 DEF Operand
    <3>4. PICK n \in Nat : /\ Numbers(Front(given)) = {n}
                          /\ DaysAgo(given) = {Ago(n)} /\ AgoFits(n)
      BY <2>6, DaysAgoAre
    <3>5. TimeIs(text, mtime) =
            (mtime <= Now /\ \A k \in Numbers(Front(given)) : Now - mtime <= k * DayLength)
      BY <1>6, <2>6, <3>3, TimeMeanings
    <3>6. TimeIs(text, mtime) <=> mtime <= Now /\ Now - mtime <= n * DayLength
      BY <3>4, <3>5
    <3>9. ~Undocumented("mtime:", text) => n * DayLength <= MaxTime
      <4>1. n * DayLength \in Nat /\ MaxTime \in Nat
        BY <1>2, QueryAssumption
      <4> QED BY <2>6, <3>3, <3>4, <4>1 DEF Undocumented
    <3>7. n * DayLength <= MaxTime => (Ago(n) <= mtime <=> Now - mtime <= n * DayLength)
      <4> DEFINE x == n * DayLength
      <4> SUFFICES ASSUME x <= MaxTime PROVE Ago(n) <= mtime <=> Now - mtime <= x
        OBVIOUS
      <4>1. x \in Nat
        BY <1>2
      <4>2. Ago(n) = Now - x
        BY <3>4 DEF AgoFits
      <4> HIDE DEF x
      <4>3. Ago(n) <= mtime <=> Now - mtime <= x
        BY <1>2, <4>1, <4>2
      <4> QED BY <4>3 DEF x
    <3>8. ASSUME NEW c \in TimeClauses(text) PROVE TimeMeant(text, mtime, c)
      <4>1. c = RangeClause("mtime", Ago(n), Now)
        BY <3>1, <3>4 DEF Ranges
      <4>2. c.kind = "mtime" /\ c.min = Ago(n) /\ c.max = Now
        BY <4>1 DEF RangeClause
      <4>3. n * DayLength <= MaxTime =>
              (Between(mtime, c) <=> Now - mtime <= n * DayLength /\ mtime <= Now)
        BY <3>7, <4>2 DEF Between
      <4> QED BY <3>6, <3>9, <4>2, <4>3 DEF TimeMeant
    <3> QED BY <3>2, <3>8
  <2> QED BY <1>1, <2>3, <2>4, <2>5, <2>6
<1> QED BY <1>4, <1>5, <1>6

-----------------------------------------------------------------------------
(* The other filters                                                       *)

LEMMA ToSetIn ==
  ASSUME NEW S, NEW s \in Seq(S)
  PROVE  ToSet(s) \subseteq S
<1>1. DOMAIN s = 1..Len(s) /\ \A k \in 1..Len(s) : s[k] \in S
  OBVIOUS
<1> QED BY <1>1 DEF ToSet

LEMMA WideSame ==
  ASSUME NEW C, ToSet(Letters) \subseteq C
  PROVE  Wide(C) = C
BY DEF Wide

LEMMA FoldedEmptyOnly ==
  ASSUME NEW C, NEW text \in Seq(C)
  PROVE  Folded(text) = <<>> <=> text = <<>>
<1>1. Folded(text) \in Seq(Wide(C)) /\ Len(Folded(text)) = Len(text)
  BY FoldedText
<1>2. (text = <<>> <=> Len(text) = 0)
  BY EmptySeq
<1> HIDE DEF Folded
<1>3. (Folded(text) = <<>> <=> Len(Folded(text)) = 0)
  BY <1>1, EmptySeq
<1> QED BY <1>1, <1>2, <1>3

LEMMA FoldedDot ==
  ASSUME NEW C, NEW text \in Seq(C)
  PROVE  "." \in ToSet(Folded(text)) <=> "." \in ToSet(text)
<1> DEFINE f == Folded(text)
<1>1. f \in Seq(Wide(C)) /\ Len(f) = Len(text)
  BY FoldedText
<1>2. DOMAIN f = 1..Len(text) /\ DOMAIN text = 1..Len(text)
  BY <1>1, SeqShape
<1>3. \A k \in 1..Len(text) : f[k] = "." <=> text[k] = "."
  BY FoldedSame
<1> HIDE DEF f
<1>4. "." \in ToSet(f) <=> "." \in ToSet(text)
  BY <1>2, <1>3 DEF ToSet
<1> QED BY <1>4 DEF f

LEMMA ExtensionFilter ==
  ASSUME NEW C, ToSet(Letters) \subseteq C, "." \in C, NEW text \in Seq(C), NEW name \in Seq(C)
  PROVE  /\ Extensions(text) # {} <=> \E part \in ToSet(Parts(text, ",")) : Bare(part) # <<>>
         /\ ExtensionsOf(name) \cap Extensions(text) # {} <=> HasExtension(name, text)
<1> DEFINE parts == ToSet(Parts(text, ","))
<1>1. parts \subseteq Seq(C)
  <2>1. Parts(text, ",") \in Seq(Seq(C))
    BY PartsAre DEF Cut
  <2> QED BY <2>1, ToSetIn
<1>2. Extensions(text) = {Extension(part) : part \in parts} \ {<<>>}
  BY DEF Extensions
<1>3. HasExtension(name, text) <=>
        \E part \in parts : /\ Bare(part) # <<>> /\ "." \notin ToSet(Bare(part))
                            /\ IsSuffix(<<".">> \o Folded(Bare(part)), name)
  BY DEF HasExtension
<1>4. ASSUME NEW part \in parts
      PROVE  /\ Extension(part) # <<>> <=> Bare(part) # <<>>
             /\ Bare(part) # <<>> =>
                  (Extension(part) \in ExtensionsOf(name) <=>
                     /\ "." \notin ToSet(Bare(part))
                     /\ IsSuffix(<<".">> \o Folded(Bare(part)), name))
  <2>1. Bare(part) \in Seq(C) /\ Extension(part) = Folded(Bare(part))
    BY <1>1, ExtensionIs
  <2>2. Folded(Bare(part)) \in Seq(C)
    BY <2>1, FoldedText, WideSame
  <2>3. Folded(Bare(part)) = <<>> <=> Bare(part) = <<>>
    BY <2>1, FoldedEmptyOnly
  <2>4. "." \in ToSet(Folded(Bare(part))) <=> "." \in ToSet(Bare(part))
    BY <2>1, FoldedDot
  <2> DEFINE ext == Folded(Bare(part))
  <2>5. ASSUME ext # <<>>
        PROVE  ext \in ExtensionsOf(name) <=> "." \notin ToSet(ext) /\ IsSuffix(<<".">> \o ext, name)
    <3> HIDE DEF ext
    <3>1. ext \in Seq(C)
      BY <2>2 DEF ext
    <3> QED BY <2>5, <3>1, ExtensionAt
  <2> QED BY <2>1, <2>3, <2>4, <2>5
<1> HIDE DEF parts
<1>5. Extensions(text) # {} <=> \E part \in parts : Bare(part) # <<>>
  BY <1>2, <1>4
<1>6. ExtensionsOf(name) \cap Extensions(text) # {} <=> HasExtension(name, text)
  <2>1. ASSUME ExtensionsOf(name) \cap Extensions(text) # {} PROVE HasExtension(name, text)
    <3>1. PICK part \in parts : Extension(part) # <<>> /\ Extension(part) \in ExtensionsOf(name)
      BY <1>2, <2>1
    <3> QED BY <1>3, <1>4, <3>1
  <2>2. ASSUME HasExtension(name, text) PROVE ExtensionsOf(name) \cap Extensions(text) # {}
    <3>1. PICK part \in parts : /\ Bare(part) # <<>> /\ "." \notin ToSet(Bare(part))
                                /\ IsSuffix(<<".">> \o Folded(Bare(part)), name)
      BY <1>3, <2>2
    <3>2. Extension(part) # <<>> /\ Extension(part) \in ExtensionsOf(name)
      BY <1>4, <3>1
    <3> QED BY <1>2, <3>2
  <2> QED BY <2>1, <2>2
<1> QED BY <1>5, <1>6 DEF parts

LEMMA TypeFilter ==
  ASSUME NEW text, NEW c \in {TypeClause(t) : t \in FileTypes(text)}, NEW kind
  PROVE  c.kind = "type" /\ (kind = c.type <=> kind \in FileTypes(text))
<1>1. PICK t \in FileTypes(text) : c = TypeClause(t)
  OBVIOUS
<1>2. c.kind = "type" /\ c.type = t
  BY <1>1 DEF TypeClause
<1>3. FileTypes(text) = {t}
  BY DEF FileTypes
<1> QED BY <1>2, <1>3

-----------------------------------------------------------------------------
(* Words and clauses                                                       *)

\* What is known of a record: its name is a text, it has a size below u64::MAX and
\* a time of modification.
Suited(C, index, i) ==
  /\ FoldedName(index, i) \in Seq(C)
  /\ index.records[i].meta.size \in 0..(MaxSize - 1) /\ index.records[i].meta.mtime \in Nat

FilterFits(index, i, filter, what) ==
  LET name == FoldedName(index, i)
      meta == index.records[i].meta
  IN  CASE filter = "ext:"   -> HasExtension(name, what)
        [] filter = "path:"  -> Occurs(Folded(what), Folded(PathText(index.paths[i])))
        [] filter = "type:"  -> meta.kind \in FileTypes(what)
        [] filter = "size:"  -> SizeIs(what, meta.size)
        [] filter = "mtime:" -> TimeIs(what, meta.mtime)

ClauseFits(index, i, c, filter, what) ==
  ~Undocumented(filter, what) => (MatchesClause(index, i, c) <=> FilterFits(index, i, filter, what))

LEMMA FilterMeans ==
  ASSUME NEW C, ToSet(Letters) \subseteq C, "." \in C, NEW what \in Seq(C),
         NEW index, NEW i, Suited(C, index, i), NEW filter \in Filters
  PROVE  /\ FilterClauses(filter, what) # {} <=> FilterForm(filter, what)
         /\ \A c \in FilterClauses(filter, what) : ClauseFits(index, i, c, filter, what)
<1> DEFINE name == FoldedName(index, i)
           meta == index.records[i].meta
<1>1. name \in Seq(C) /\ meta.size \in 0..(MaxSize - 1) /\ meta.mtime \in Nat
  BY DEF Suited
<1>2. CASE filter = "ext:"
  <2>1. /\ FilterClauses(filter, what) =
              IF Extensions(what) = {} THEN {} ELSE {ExtensionClause(Extensions(what))}
        /\ FilterForm(filter, what) <=> \E part \in ToSet(Parts(what, ",")) : Bare(part) # <<>>
        /\ FilterFits(index, i, filter, what) = HasExtension(name, what)
    BY <1>2 DEF FilterClauses, FilterForm, FilterFits
  <2>2. MatchesClause(index, i, ExtensionClause(Extensions(what))) <=>
          ExtensionsOf(name) \cap Extensions(what) # {}
    BY DEF MatchesClause, ExtensionClause
  <2> HIDE DEF name
  <2>3. /\ Extensions(what) # {} <=> \E part \in ToSet(Parts(what, ",")) : Bare(part) # <<>>
        /\ ExtensionsOf(name) \cap Extensions(what) # {} <=> HasExtension(name, what)
    BY <1>1, ExtensionFilter
  <2> QED BY <2>1, <2>2, <2>3 DEF ClauseFits
<1>3. CASE filter = "path:"
  <2>1. /\ FilterClauses(filter, what) = IF what = <<>> THEN {} ELSE {PathClause(Folded(what))}
        /\ FilterForm(filter, what) <=> what # <<>>
        /\ FilterFits(index, i, filter, what) = Occurs(Folded(what), Folded(PathText(index.paths[i])))
    BY <1>3 DEF FilterClauses, FilterForm, FilterFits
  <2>2. MatchesClause(index, i, PathClause(Folded(what))) <=>
          Occurs(Folded(what), Folded(PathText(index.paths[i])))
    BY DEF MatchesClause, PathClause
  <2> QED BY <2>1, <2>2 DEF ClauseFits
<1>4. CASE filter = "type:"
  <2>1. /\ FilterClauses(filter, what) = {TypeClause(t) : t \in FileTypes(what)}
        /\ FilterForm(filter, what) <=> FileTypes(what) # {}
        /\ FilterFits(index, i, filter, what) = (meta.kind \in FileTypes(what))
    BY <1>4 DEF FilterClauses, FilterForm, FilterFits
  <2>2. ASSUME NEW c \in FilterClauses(filter, what) PROVE ClauseFits(index, i, c, filter, what)
    <3>1. c.kind = "type" /\ (meta.kind = c.type <=> meta.kind \in FileTypes(what))
      BY <2>1, TypeFilter
    <3>2. MatchesClause(index, i, c) = (meta.kind = c.type)
      BY <3>1 DEF MatchesClause
    <3> QED BY <2>1, <3>1, <3>2 DEF ClauseFits
  <2> QED BY <2>1, <2>2
<1>5. CASE filter = "size:"
  <2>1. /\ FilterClauses(filter, what) = SizeClauses(what)
        /\ FilterForm(filter, what) = SizeForm(what)
        /\ FilterFits(index, i, filter, what) = SizeIs(what, meta.size)
    BY <1>5 DEF FilterClauses, FilterForm, FilterFits
  <2>2. /\ SizeClauses(what) # {} <=> SizeForm(what)
        /\ \A c \in SizeClauses(what) : SizeMeant(what, meta.size, c)
    BY <1>1, SizeFilter
  <2>3. ASSUME NEW c \in FilterClauses(filter, what) PROVE ClauseFits(index, i, c, filter, what)
    <3>1. SizeMeant(what, meta.size, c)
      BY <2>1, <2>2
    <3>2. MatchesClause(index, i, c) = Between(meta.size, c)
      BY <3>1 DEF SizeMeant, MatchesClause
    <3> QED BY <1>5, <2>1, <3>1, <3>2 DEF ClauseFits, SizeMeant
  <2> QED BY <2>1, <2>2, <2>3
<1>6. CASE filter = "mtime:"
  <2>1. /\ FilterClauses(filter, what) = TimeClauses(what)
        /\ FilterForm(filter, what) = TimeForm(what)
        /\ FilterFits(index, i, filter, what) = TimeIs(what, meta.mtime)
    BY <1>6 DEF FilterClauses, FilterForm, FilterFits
  <2>2. /\ TimeClauses(what) # {} <=> TimeForm(what)
        /\ \A c \in TimeClauses(what) : TimeMeant(what, meta.mtime, c)
    BY <1>1, TimeFilter
  <2>3. ASSUME NEW c \in FilterClauses(filter, what) PROVE ClauseFits(index, i, c, filter, what)
    <3>1. TimeMeant(what, meta.mtime, c)
      BY <2>1, <2>2
    <3>2. MatchesClause(index, i, c) = Between(meta.mtime, c)
      BY <3>1 DEF TimeMeant, MatchesClause
    <3> QED BY <1>6, <2>1, <3>1, <3>2 DEF ClauseFits, TimeMeant
  <2> QED BY <2>1, <2>2, <2>3
<1> QED BY <1>2, <1>3, <1>4, <1>5, <1>6 DEF Filters

LEMMA SizeIsBoolean == ASSUME NEW text, NEW size PROVE SizeIs(text, size) \in BOOLEAN
<1> DEFINE given == Sizes(Operand(text))
           low   == Sizes(LowerPart(text))
           high  == Sizes(UpperPart(text))
           form  == Comparison(text)
<1>1. form \in {"..", ">=", ">", "<=", "<", "="}
  BY ComparisonIs
<1>2. /\ form = ".." => SizeIs(text, size) = ((\A n \in low : n <= size) /\ (\A n \in high : size <= n))
      /\ form = ">"  => SizeIs(text, size) = (\A n \in given : size > n)
      /\ form = ">=" => SizeIs(text, size) = (\A n \in given : size >= n)
      /\ form = "<"  => SizeIs(text, size) = (\A n \in given : size < n)
      /\ form = "<=" => SizeIs(text, size) = (\A n \in given : size <= n)
      /\ form = "="  => SizeIs(text, size) = (\A n \in given : size = n)
  BY DEF SizeIs
<1> HIDE DEF given, low, high, form
<1> QED BY <1>1, <1>2

LEMMA TimeIsBoolean == ASSUME NEW text, NEW mtime PROVE TimeIs(text, mtime) \in BOOLEAN
<1> DEFINE form == Comparison(text)
           low  == DaysIn(LowerPart(text))
           high == DaysIn(UpperPart(text))
<1>1. CASE text = <<"today">>
  <2>1. TimeIs(text, mtime) = (DayOf(mtime) = DayOf(Now))
    BY <1>1, WordsOfTime DEF TimeIs
  <2> QED BY <2>1
<1>2. CASE text = <<"yesterday">>
  <2>1. TimeIs(text, mtime) = (DayOf(mtime) + 1 = DayOf(Now))
    BY <1>2, WordsOfTime DEF TimeIs
  <2> QED BY <2>1
<1>3. CASE text \notin {<<"today">>, <<"yesterday">>}
  <2>1. CASE form = ".."
    <3>1. TimeIs(text, mtime) =
            ((\A n \in low : n <= DayOf(mtime)) /\ (\A n \in high : DayOf(mtime) <= n))
      BY <1>3, <2>1, TimeMeanings
    <3> HIDE DEF low, high
    <3> QED BY <3>1
  <2>2. CASE form = "<"
    <3>1. TimeIs(text, mtime) =
            (mtime <= Now /\ \A n \in Numbers(Front(Tail(text))) : Now - mtime <= n * DayLength)
      BY <1>3, <2>2, TimeMeanings
    <3> QED BY <3>1
  <2>3. CASE form \notin {"..", "<"}
    <3>1. TimeIs(text, mtime) = (\A n \in DaysIn(text) : DayOf(mtime) = n)
      BY <1>3, <2>3 DEF TimeIs
    <3> QED BY <3>1
  <2> QED BY <2>1, <2>2, <2>3
<1> QED BY <1>1, <1>2, <1>3

LEMMA FilterFitsBoolean ==
  ASSUME NEW index, NEW i, NEW what, NEW filter \in Filters
  PROVE  FilterFits(index, i, filter, what) \in BOOLEAN
<1> DEFINE name == FoldedName(index, i)
           meta == index.records[i].meta
<1>1. CASE filter = "ext:"
  <2>1. FilterFits(index, i, filter, what) = HasExtension(name, what)
    BY <1>1 DEF FilterFits
  <2>2. HasExtension(name, what) \in BOOLEAN
    BY DEF HasExtension
  <2> QED BY <2>1, <2>2
<1>2. CASE filter = "path:"
  <2>1. FilterFits(index, i, filter, what) = Occurs(Folded(what), Folded(PathText(index.paths[i])))
    BY <1>2 DEF FilterFits
  <2>2. Occurs(Folded(what), Folded(PathText(index.paths[i]))) \in BOOLEAN
    BY DEF Occurs
  <2> QED BY <2>1, <2>2
<1>3. CASE filter = "type:"
  <2>1. FilterFits(index, i, filter, what) = (meta.kind \in FileTypes(what))
    BY <1>3 DEF FilterFits
  <2> QED BY <2>1
<1>4. CASE filter = "size:"
  <2>1. FilterFits(index, i, filter, what) = SizeIs(what, meta.size)
    BY <1>4 DEF FilterFits
  <2> QED BY <2>1, SizeIsBoolean
<1>5. CASE filter = "mtime:"
  <2>1. FilterFits(index, i, filter, what) = TimeIs(what, meta.mtime)
    BY <1>5 DEF FilterFits
  <2> QED BY <2>1, TimeIsBoolean
<1> QED BY <1>1, <1>2, <1>3, <1>4, <1>5 DEF Filters

\* Whether a filter makes sense has nothing to do with any record.
LEMMA FormsAre ==
  ASSUME NEW C, ToSet(Letters) \subseteq C, "." \in C, NEW what \in Seq(C), NEW filter \in Filters
  PROVE  FilterClauses(filter, what) # {} <=> FilterForm(filter, what)
<1> DEFINE record == [name |-> NoName, meta |-> [size |-> 0, mtime |-> 0]]
           index  == [records |-> <<record>>]
<1>1. index.records[1] = record
  OBVIOUS
<1>2. record.name \notin Names
  BY IndexAssumption
<1>3. FoldedName(index, 1) = <<>> /\ <<>> \in Seq(C)
  BY <1>1, <1>2, EmptySeq DEF FoldedName
<1>4. 0 \in 0..(MaxSize - 1) /\ 0 \in Nat
  BY QueryAssumption
<1>5. record.meta.size = 0 /\ record.meta.mtime = 0
  OBVIOUS
<1> HIDE DEF record
<1>6. index.records[1].meta.size = 0 /\ index.records[1].meta.mtime = 0
  BY <1>1, <1>5
<1> HIDE DEF index
<1>7. Suited(C, index, 1)
  BY <1>3, <1>4, <1>6 DEF Suited
<1> QED BY <1>7, FilterMeans

Understood(word) == IsFilter(word) => FilterForm(Wanted(word)[1], Tail(Wanted(word)))
Clear(word) == IsFilter(word) => ~Undocumented(Wanted(word)[1], Tail(Wanted(word)))

\* The word without what negates it
LEMMA WantedIs ==
  ASSUME NEW C, NEW word \in Token(C), word.text # <<>>
  PROVE  /\ Negated(word) = Exclusion(word) /\ Positive(word) = Wanted(word)
         /\ Exclusion(word) \in BOOLEAN /\ word.quoted \in BOOLEAN
         /\ Wanted(word) \in Seq(C) /\ Wanted(word) # <<>> /\ Tail(Wanted(word)) \in Seq(C)
<1>1. word.text \in Seq(C) /\ word.quoted \in BOOLEAN
  BY DEF Token
<1>2. Negated(word) = Exclusion(word) /\ Positive(word) = Wanted(word) /\ Exclusion(word) \in BOOLEAN
  BY DEF Negated, Exclusion, Positive, Wanted
<1>3. Wanted(word) \in Seq(C) /\ Wanted(word) # <<>>
  <2>1. CASE Exclusion(word)
    <3>1. Len(word.text) > 1 /\ Wanted(word) = Tail(word.text)
      BY <2>1 DEF Exclusion, Wanted
    <3> DEFINE s == word.text
    <3>2. s \in Seq(C) /\ Len(s) > 1
      BY <1>1, <3>1
    <3> HIDE DEF s
    <3>3. Tail(s) \in Seq(C) /\ Len(Tail(s)) = Len(s) - 1 /\ Len(s) \in Nat
      BY <3>2
    <3>4. Tail(s) # <<>>
      <4>1. Len(Tail(s)) # 0
        BY <3>2, <3>3
      <4> QED BY <4>1, EmptySeq
    <3> QED BY <3>1, <3>3, <3>4 DEF s
  <2>2. CASE ~Exclusion(word)
    BY <1>1, <2>2 DEF Wanted
  <2> QED BY <2>1, <2>2
<1> DEFINE w == Wanted(word)
<1> HIDE DEF w
<1>4. w \in Seq(C) /\ w # <<>>
  BY <1>3 DEF w
<1>5. Tail(w) \in Seq(C)
  BY <1>4
<1> QED BY <1>1, <1>2, <1>3, <1>5 DEF w

LEMMA MatchBoolean ==
  ASSUME NEW pattern, NEW text
  PROVE  Glob(pattern, text) \in BOOLEAN /\ Occurs(pattern, text) \in BOOLEAN
<1>1. Glob(pattern, text) \in BOOLEAN
  BY DEF Glob
<1>2. Occurs(pattern, text) \in BOOLEAN
  BY DEF Occurs
<1> QED BY <1>1, <1>2

\* The clause of a word that is no filter
LEMMA NameMeans ==
  ASSUME NEW C, ToSet(Letters) \subseteq C, NEW text \in Seq(C), NEW quoted \in BOOLEAN,
         NEW index, NEW i, Suited(C, index, i)
  PROVE  LET kind == CASE "*" \in ToSet(text)  -> "wildcard"
                       [] "*" \notin ToSet(text) /\ quoted  -> "phrase"
                       [] "*" \notin ToSet(text) /\ ~quoted -> "contains"
         IN  MatchesClause(index, i, NameClause(kind, Folded(text))) <=>
               IF "*" \in ToSet(text) THEN Glob(Folded(text), FoldedName(index, i))
               ELSE Occurs(Folded(text), FoldedName(index, i))
<1> DEFINE kind == CASE "*" \in ToSet(text)  -> "wildcard"
                     [] "*" \notin ToSet(text) /\ quoted  -> "phrase"
                     [] "*" \notin ToSet(text) /\ ~quoted -> "contains"
           clause == NameClause(kind, Folded(text))
           name == FoldedName(index, i)
<1>1. CASE "*" \in ToSet(text)
  <2>1. kind = "wildcard"
    BY <1>1
  <2>2. clause.kind = "wildcard" /\ clause.text = Folded(text)
    BY <2>1 DEF NameClause
  <2>3. MatchesClause(index, i, clause) <=> WildcardMatches(Folded(text), name)
    <3> HIDE DEF clause
    <3> QED BY <2>2 DEF MatchesClause
  <2>4. Folded(text) \in Seq(C) /\ name \in Seq(C)
    BY FoldedText, WideSame DEF Suited
  <2> HIDE DEF name, clause
  <2>5. WildcardMatches(Folded(text), name) <=> Glob(Folded(text), name)
    BY <2>4, WildcardIsGlob
  <2> QED BY <1>1, <2>3, <2>5 DEF name, clause
<1>2. CASE "*" \notin ToSet(text)
  <2>1. kind \in {"phrase", "contains"}
    BY <1>2
  <2>2. clause.kind \in {"phrase", "contains"} /\ clause.text = Folded(text)
    BY <2>1 DEF NameClause
  <2>3. MatchesClause(index, i, clause) <=> Occurs(Folded(text), name)
    <3> HIDE DEF clause
    <3> QED BY <2>2 DEF MatchesClause
  <2> HIDE DEF name, clause
  <2> QED BY <1>2, <2>3 DEF name, clause
<1> QED BY <1>1, <1>2

LEMMA FitsAre ==
  ASSUME NEW index, NEW i, NEW word
  PROVE  /\ IsFilter(word) => Fits(index, i, word) =
                                FilterFits(index, i, Wanted(word)[1], Tail(Wanted(word)))
         /\ ~IsFilter(word) => Fits(index, i, word) =
              (IF "*" \in ToSet(Wanted(word)) THEN Glob(Folded(Wanted(word)), FoldedName(index, i))
               ELSE Occurs(Folded(Wanted(word)), FoldedName(index, i)))
BY DEF Fits, FilterFits

\* parse_clause and matches_clause take a word as it is meant.
LEMMA WordForm ==
  ASSUME NEW C, ToSet(Letters) \subseteq C, "." \in C, NEW word \in Token(C), word.text # <<>>
  PROVE  ClausesOf(word) # {} <=> Understood(word)
<1>1. /\ Positive(word) = Wanted(word) /\ Tail(Wanted(word)) \in Seq(C)
  BY WantedIs
<1>2. ClausesOf(word) = Clauses(Wanted(word), word.quoted)
  BY <1>1 DEF ClausesOf
<1>3. CASE IsFilter(word)
  <2>1. ClausesOf(word) = FilterClauses(Wanted(word)[1], Tail(Wanted(word))) /\ Wanted(word)[1] \in Filters
    BY <1>2, <1>3 DEF IsFilter, Clauses
  <2> QED BY <1>1, <1>3, <2>1, FormsAre DEF Understood
<1>4. CASE ~IsFilter(word)
  BY <1>2, <1>4 DEF IsFilter, Clauses, Understood
<1> QED BY <1>3, <1>4

LEMMA WordMeans ==
  ASSUME NEW C, ToSet(Letters) \subseteq C, "." \in C, NEW word \in Token(C), word.text # <<>>,
         NEW index, NEW i, Suited(C, index, i), Understood(word), Clear(word)
  PROVE  /\ Fits(index, i, word) \in BOOLEAN
         /\ \A c \in ClausesOf(word) : MatchesClause(index, i, c) <=> Fits(index, i, word)
<1>1. /\ Positive(word) = Wanted(word) /\ Wanted(word) \in Seq(C) /\ Tail(Wanted(word)) \in Seq(C)
      /\ word.quoted \in BOOLEAN
  BY WantedIs
<1>2. ClausesOf(word) = Clauses(Wanted(word), word.quoted)
  BY <1>1 DEF ClausesOf
<1>3. CASE IsFilter(word)
  <2> DEFINE f == Wanted(word)[1]
             what == Tail(Wanted(word))
  <2>1. ClausesOf(word) = FilterClauses(f, what) /\ f \in Filters
    BY <1>2, <1>3 DEF IsFilter, Clauses
  <2>2. Fits(index, i, word) = FilterFits(index, i, f, what) /\ ~Undocumented(f, what)
    BY <1>3, FitsAre DEF Clear
  <2>3. what \in Seq(C)
    BY <1>1
  <2> HIDE DEF f, what
  <2>4. \A c \in FilterClauses(f, what) : ClauseFits(index, i, c, f, what)
    BY <2>1, <2>3, FilterMeans
  <2>5. FilterFits(index, i, f, what) \in BOOLEAN
    BY <2>1, FilterFitsBoolean
  <2> QED BY <2>1, <2>2, <2>4, <2>5 DEF ClauseFits
<1>4. CASE ~IsFilter(word)
  <2> DEFINE text == Wanted(word)
             kind == CASE "*" \in ToSet(text)  -> "wildcard"
                       [] "*" \notin ToSet(text) /\ word.quoted  -> "phrase"
                       [] "*" \notin ToSet(text) /\ ~word.quoted -> "contains"
             clause == NameClause(kind, Folded(text))
             meant == IF "*" \in ToSet(text) THEN Glob(Folded(text), FoldedName(index, i))
                      ELSE Occurs(Folded(text), FoldedName(index, i))
  <2>1. ClausesOf(word) = {clause}
    BY <1>2, <1>4 DEF IsFilter, Clauses
  <2>2. Fits(index, i, word) = meant
    BY <1>4, FitsAre
  <2>3. meant \in BOOLEAN
    BY MatchBoolean
  <2>4. MatchesClause(index, i, clause) <=> meant
    BY <1>1, NameMeans
  <2> HIDE DEF clause, meant
  <2> QED BY <2>1, <2>2, <2>3, <2>4
<1> QED BY <1>3, <1>4

-----------------------------------------------------------------------------
(* Requests                                                                *)

NameKinds == {"contains", "phrase", "wildcard"}

LEMMA FilterKinds ==
  ASSUME NEW filter \in Filters, NEW what, NEW c \in FilterClauses(filter, what)
  PROVE  c.kind \notin NameKinds
<1>1. CASE filter = "ext:"
  <2>1. c = ExtensionClause(Extensions(what))
    BY <1>1 DEF FilterClauses
  <2> QED BY <2>1 DEF ExtensionClause, NameKinds
<1>2. CASE filter = "path:"
  <2>1. c = PathClause(Folded(what))
    BY <1>2 DEF FilterClauses
  <2> QED BY <2>1 DEF PathClause, NameKinds
<1>3. CASE filter = "type:"
  <2>1. c \in {TypeClause(t) : t \in FileTypes(what)}
    BY <1>3 DEF FilterClauses
  <2>2. PICK t : c = TypeClause(t)
    BY <2>1
  <2> QED BY <2>2 DEF TypeClause, NameKinds
<1>4. CASE filter = "size:"
  <2>1. c \in SizeClauses(what) /\ 0 \in 0..(MaxSize - 1)
    BY <1>4, QueryAssumption DEF FilterClauses
  <2> QED BY <2>1, SizeFilter DEF SizeMeant, NameKinds
<1>5. CASE filter = "mtime:"
  <2>1. c \in TimeClauses(what) /\ 0 \in Nat
    BY <1>5 DEF FilterClauses
  <2> QED BY <2>1, TimeFilter DEF TimeMeant, NameKinds
<1> QED BY <1>1, <1>2, <1>3, <1>4, <1>5 DEF Filters

\* What the clauses that look at names look for
NameTexts(S) == {c.text : c \in {c \in S : c.kind \in {"contains", "phrase"}}}

\* A word that is no filter and no pattern
Literal(word) == ~IsFilter(word) /\ "*" \notin ToSet(Wanted(word))

LEMMA WordTexts ==
  ASSUME NEW C, ToSet(Letters) \subseteq C, NEW word \in Token(C), word.text # <<>>
  PROVE  /\ \A c \in ClausesOf(word) : c.kind \in NameKinds => c.text \in Seq(C)
         /\ NameTexts(ClausesOf(word)) = IF Literal(word) THEN {Folded(Wanted(word))} ELSE {}
<1>1. /\ Positive(word) = Wanted(word) /\ Wanted(word) \in Seq(C) /\ word.quoted \in BOOLEAN
  BY WantedIs
<1>2. ClausesOf(word) = Clauses(Wanted(word), word.quoted)
  BY <1>1 DEF ClausesOf
<1>3. CASE IsFilter(word)
  <2>1. /\ ClausesOf(word) = FilterClauses(Wanted(word)[1], Tail(Wanted(word)))
        /\ Wanted(word)[1] \in Filters
    BY <1>2, <1>3 DEF IsFilter, Clauses
  <2>2. \A c \in ClausesOf(word) : c.kind \notin NameKinds
    BY <2>1, FilterKinds
  <2> QED BY <1>3, <2>2 DEF NameTexts, Literal, NameKinds
<1>4. CASE ~IsFilter(word)
  <2> DEFINE text == Wanted(word)
             kind == CASE "*" \in ToSet(text)  -> "wildcard"
                       [] "*" \notin ToSet(text) /\ word.quoted  -> "phrase"
                       [] "*" \notin ToSet(text) /\ ~word.quoted -> "contains"
             clause == NameClause(kind, Folded(text))
  <2>1. ClausesOf(word) = {clause}
    BY <1>2, <1>4 DEF IsFilter, Clauses
  <2>2. clause.text = Folded(text) /\ clause.kind = kind
    BY DEF NameClause
  <2>3. kind \in {"contains", "phrase"} <=> "*" \notin ToSet(text)
    BY <1>1
  <2>4. Folded(text) \in Seq(C)
    BY <1>1, FoldedText, WideSame
  <2> HIDE DEF clause, kind
  <2>5. NameTexts(ClausesOf(word)) = IF "*" \notin ToSet(text) THEN {Folded(text)} ELSE {}
    BY <2>1, <2>2, <2>3 DEF NameTexts
  <2> QED BY <1>4, <2>1, <2>2, <2>4, <2>5 DEF Literal
<1> QED BY <1>3, <1>4

\* What parse_search_query makes of the words of a query
RequestOf(query, r) ==
  /\ r.include = UNION {ClausesOf(word) : word \in {w \in WordsOf(query) : ~Exclusion(w)}}
  /\ r.exclude = UNION {ClausesOf(word) : word \in {w \in WordsOf(query) : Exclusion(w)}}

LEMMA WordsTyped ==
  ASSUME NEW C, NEW query \in Seq(C), Reading(query)[Len(query)] = "outside",
         NEW word \in WordsOf(query)
  PROVE  word \in Token(C) /\ word.text # <<>>
<1>1. PICK T \in SUBSET Token(C) :
        Tokens(query) = {T} /\ {t \in T : t.text # <<>>} = WordsOf(query)
  BY TokensAre
<1> QED BY <1>1

\* parse_search_query understands the queries that are well formed, and no others.
THEOREM RequestsAre ==
  ASSUME NEW C, ToSet(Letters) \subseteq C, "." \in C, NEW query \in Seq(C)
  PROVE  /\ Requests(query) # {} <=> WellFormed(query)
         /\ \A r \in Requests(query) : RequestOf(query, r) /\ DOMAIN r = {"include", "exclude"}
<1>1. CASE Reading(query)[Len(query)] # "outside"
  <2>1. Tokens(query) = {}
    BY <1>1, TokensAre
  <2>2. Requests(query) = {}
    BY <2>1 DEF Requests
  <2> QED BY <1>1, <2>2 DEF WellFormed
<1>2. CASE Reading(query)[Len(query)] = "outside"
  <2>1. PICK T \in SUBSET Token(C) :
          Tokens(query) = {T} /\ {t \in T : t.text # <<>>} = WordsOf(query)
    BY <1>2, TokensAre
  <2> DEFINE request == [include |-> UNION {ClausesOf(t) : t \in {t \in T : ~Negated(t)}},
                         exclude |-> UNION {ClausesOf(t) : t \in {t \in T : Negated(t)}}]
  <2>2. Requests(query) = IF \A t \in T : t.text # <<>> => ClausesOf(t) # {} THEN {request} ELSE {}
    BY <2>1 DEF Requests
  <2>3. (\A t \in T : t.text # <<>> => ClausesOf(t) # {}) <=> \A w \in WordsOf(query) : Understood(w)
    <3>1. \A w \in WordsOf(query) : w \in Token(C) /\ w.text # <<>>
      BY <2>1
    <3>2. \A w \in WordsOf(query) : ClausesOf(w) # {} <=> Understood(w)
      BY <3>1, WordForm
    <3> QED BY <2>1, <3>2
  <2>4. WellFormed(query) <=> \A w \in WordsOf(query) : Understood(w)
    BY <1>2 DEF WellFormed, Understood
  <2>5. \A t \in T : t.text = <<>> => ClausesOf(t) = {}
    BY DEF ClausesOf
  <2>6. \A w \in WordsOf(query) : Negated(w) <=> Exclusion(w)
    BY DEF Negated, Exclusion
  <2>7. RequestOf(query, request)
    <3>1. /\ request.include = UNION {ClausesOf(t) : t \in {t \in T : ~Negated(t)}}
          /\ request.exclude = UNION {ClausesOf(t) : t \in {t \in T : Negated(t)}}
      OBVIOUS
    <3>2. UNION {ClausesOf(t) : t \in {t \in T : ~Negated(t)}} =
            UNION {ClausesOf(word) : word \in {w \in WordsOf(query) : ~Exclusion(w)}}
      BY <2>1, <2>5, <2>6
    <3>3. UNION {ClausesOf(t) : t \in {t \in T : Negated(t)}} =
            UNION {ClausesOf(word) : word \in {w \in WordsOf(query) : Exclusion(w)}}
      BY <2>1, <2>5, <2>6
    <3> HIDE DEF request
    <3> QED BY <3>1, <3>2, <3>3 DEF RequestOf
  <2>8. DOMAIN request = {"include", "exclude"}
    OBVIOUS
  <2> HIDE DEF request
  <2> QED BY <2>2, <2>3, <2>4, <2>7, <2>8
<1> QED BY <1>1, <1>2

\* A request says of a record what the query means (matches_request), if the
\* documentation says what that is.
THEOREM RequestMeans ==
  ASSUME NEW C, ToSet(Letters) \subseteq C, "." \in C, NEW query \in Seq(C), WellFormed(query),
         Documented(query), NEW r, RequestOf(query, r), NEW index, NEW i, Suited(C, index, i)
  PROVE  MatchesRequest(index, i, r) <=> Answers(index, i, query)
<1>1. ASSUME NEW word \in WordsOf(query)
      PROVE  /\ Fits(index, i, word) \in BOOLEAN /\ Exclusion(word) \in BOOLEAN
             /\ ClausesOf(word) # {}
             /\ \A c \in ClausesOf(word) : MatchesClause(index, i, c) <=> Fits(index, i, word)
  <2>1. word \in Token(C) /\ word.text # <<>>
    BY WordsTyped DEF WellFormed
  <2>2. Understood(word) /\ Clear(word)
    BY DEF WellFormed, Documented, Understood, Clear
  <2>3. ClausesOf(word) # {}
    BY <2>1, <2>2, WordForm
  <2>4. Exclusion(word) \in BOOLEAN
    BY <2>1, WantedIs
  <2> QED BY <2>1, <2>2, <2>3, <2>4, WordMeans
<1>2. ASSUME MatchesRequest(index, i, r), NEW word \in WordsOf(query)
      PROVE  Fits(index, i, word) # Exclusion(word)
  <2>1. PICK c \in ClausesOf(word) : TRUE
    BY <1>1
  <2>2. CASE Exclusion(word)
    <3>1. c \in r.exclude
      BY <2>1, <2>2 DEF RequestOf
    <3>2. ~MatchesClause(index, i, c)
      BY <1>2, <3>1 DEF MatchesRequest
    <3>3. ~Fits(index, i, word)
      BY <1>1, <2>1, <3>2
    <3> QED BY <2>2, <3>3
  <2>3. CASE ~Exclusion(word)
    <3>1. c \in r.include
      BY <2>1, <2>3 DEF RequestOf
    <3>2. MatchesClause(index, i, c)
      BY <1>2, <3>1 DEF MatchesRequest
    <3>3. Fits(index, i, word)
      BY <1>1, <2>1, <3>2
    <3> QED BY <2>3, <3>3
  <2> QED BY <2>2, <2>3
<1>3. ASSUME Answers(index, i, query) PROVE MatchesRequest(index, i, r)
  <2>1. ASSUME NEW c \in r.include PROVE MatchesClause(index, i, c)
    <3>1. PICK word \in WordsOf(query) : ~Exclusion(word) /\ c \in ClausesOf(word)
      BY DEF RequestOf
    <3>2. Fits(index, i, word) # Exclusion(word)
      BY <1>3 DEF Answers
    <3>3. Fits(index, i, word)
      BY <1>1, <3>1, <3>2
    <3> QED BY <1>1, <3>1, <3>3
  <2>2. ASSUME NEW c \in r.exclude PROVE ~MatchesClause(index, i, c)
    <3>1. PICK word \in WordsOf(query) : Exclusion(word) /\ c \in ClausesOf(word)
      BY DEF RequestOf
    <3>2. Fits(index, i, word) # Exclusion(word)
      BY <1>3 DEF Answers
    <3>3. ~Fits(index, i, word)
      BY <1>1, <3>1, <3>2
    <3> QED BY <1>1, <3>1, <3>3
  <2> QED BY <2>1, <2>2 DEF MatchesRequest
<1>4. MatchesRequest(index, i, r) => Answers(index, i, query)
  BY <1>2 DEF Answers
<1> QED BY <1>3, <1>4

LEMMA RequestTexts ==
  ASSUME NEW C, ToSet(Letters) \subseteq C, "." \in C, NEW query \in Seq(C), WellFormed(query),
         NEW r, RequestOf(query, r)
  PROVE  /\ \A c \in r.include : c.kind \in NameKinds => c.text \in Seq(C)
         /\ NameTexts(r.include) =
              {Folded(Wanted(w)) : w \in {w \in WordsOf(query) : Literal(w) /\ ~Exclusion(w)}}
<1>1. \A w \in WordsOf(query) :
        /\ \A c \in ClausesOf(w) : c.kind \in NameKinds => c.text \in Seq(C)
        /\ NameTexts(ClausesOf(w)) = IF Literal(w) THEN {Folded(Wanted(w))} ELSE {}
  BY WordsTyped, WordTexts DEF WellFormed
<1>2. \A c \in r.include : c.kind \in NameKinds => c.text \in Seq(C)
  BY <1>1 DEF RequestOf
<1>3. NameTexts(r.include) =
        UNION {NameTexts(ClausesOf(w)) : w \in {w \in WordsOf(query) : ~Exclusion(w)}}
  BY DEF NameTexts, RequestOf
<1>4. NameTexts(r.include) =
        {Folded(Wanted(w)) : w \in {w \in WordsOf(query) : Literal(w) /\ ~Exclusion(w)}}
  BY <1>1, <1>3
<1> QED BY <1>2, <1>4

-----------------------------------------------------------------------------
(* What is found in one index                                              *)

LEMMA SeqWider ==
  ASSUME NEW S, NEW T, S \subseteq T
  PROVE  Seq(S) \subseteq Seq(T)
<1>1. ASSUME NEW s \in Seq(S) PROVE s \in Seq(T)
  <2>1. Len(s) \in Nat /\ s \in [1..Len(s) -> S]
    OBVIOUS
  <2>2. s \in [1..Len(s) -> T]
    BY <2>1
  <2> QED BY <2>1, <2>2, SeqFrom
<1> QED BY <1>1

LEMMA NothingOccurs ==
  ASSUME NEW C, NEW text \in Seq(C)
  PROVE  Occurs(<<>>, text)
<1>1. <<>> \in Seq(C) /\ Len(<<>>) = 0 /\ Len(text) \in Nat
  OBVIOUS
<1>2. SubSeq(text, 1, 0) \in Seq(C) /\ Len(SubSeq(text, 1, 0)) = 0
  OBVIOUS
<1>3. SubSeq(text, 1, 0) = <<>>
  BY <1>2, EmptySeq
<1>4. 1 \in 1..(Len(text) - 0 + 1) /\ 1 + 0 - 1 = 0
  BY <1>1
<1>5. 1 \in Places(<<>>, text, 1)
  BY <1>1, <1>3, <1>4 DEF Places
<1> QED BY <1>5 DEF Occurs

LEMMA PathTyped ==
  ASSUME NEW C, ToSet(Letters) \subseteq C, NEW path \in Seq(Names)
  PROVE  PathText(path) \in Seq(C)
<1>1. "/" \in C
  BY SearchAssumption
<1>2. CASE path = <<>>
  <2>1. PathText(path) = <<"/">>
    BY <1>2 DEF PathText
  <2>2. <<"/">> \in Seq(C)
    BY <1>1
  <2> QED BY <2>1, <2>2
<1>3. CASE path # <<>>
  <2> DEFINE part(k) == <<"/">> \o Spelling[path[k]]
             parts == [k \in DOMAIN path |-> part(k)]
             L == ToSet(Letters)
  <2>1. ASSUME NEW k \in 1..Len(path) PROVE part(k) \in Seq(L)
    <3>1. path[k] \in Names
      OBVIOUS
    <3>2. Spelling[path[k]] \in Seq(L) /\ "/" \in L
      BY <3>1, SearchAssumption
    <3> HIDE DEF L
    <3>3. <<"/">> \in Seq(L)
      BY <3>2
    <3> QED BY <3>2, <3>3, ConcatProperties
  <2>2. Len(path) \in Nat /\ DOMAIN path = 1..Len(path)
    BY SeqShape
  <2>3. PathText(path) = FlattenSeq(parts)
    BY <1>3 DEF PathText
  <2> HIDE DEF part, L
  <2>4. parts \in [1..Len(path) -> Seq(L)]
    BY <2>1, <2>2
  <2> HIDE DEF parts
  <2>5. parts \in Seq(Seq(L)) /\ Len(parts) = Len(path)
    BY <2>2, <2>4, SeqFrom
  <2>6. FlattenSeq(parts) \in Seq(L)
    <3>1. PICK f \in [0..Len(parts) -> Seq(L)] : FlattenSeq(parts) = f[Len(parts)]
      BY <2>5, Flattened
    <3>2. Len(parts) \in 0..Len(parts)
      BY <2>2, <2>5
    <3> QED BY <3>1, <3>2
  <2>7. L \subseteq C
    BY DEF L
  <2>8. Seq(L) \subseteq Seq(C)
    <3> HIDE DEF L
    <3> QED BY <2>7, SeqWider
  <2> QED BY <2>3, <2>6, <2>8
<1> QED BY <1>2, <1>3

\* Its records have names, paths, sizes and times.
Searchable(C, ix) ==
  \A i \in DOMAIN ix.records : Suited(C, ix, i) /\ PathText(ix.paths[i]) \in Seq(C)

\* No record that matches is missed by the trigrams.
LEMMA FoundAre ==
  ASSUME NEW C, NEW ix, Searchable(C, ix), NEW r,
         \A c \in r.include : c.kind \in NameKinds => c.text \in Seq(C)
  PROVE  Found(ix, r) = {i \in DOMAIN ix.records : MatchesRequest(ix, i, r)}
<1>1. CASE r.include \cup r.exclude = {}
  <2>1. Found(ix, r) = DOMAIN ix.records
    BY <1>1 DEF Found
  <2>2. \A i \in DOMAIN ix.records : MatchesRequest(ix, i, r)
    BY <1>1 DEF MatchesRequest
  <2> QED BY <2>1, <2>2
<1>2. CASE r.include \cup r.exclude # {}
  <2>1. Found(ix, r) =
          {i \in Candidates(ix, CandidateTokens(r)) : MatchesRequest(ix, i, r)}
    BY <1>2 DEF Found
  <2>2. Candidates(ix, CandidateTokens(r)) \subseteq DOMAIN ix.records
    BY DEF Candidates
  <2>3. ASSUME NEW i \in DOMAIN ix.records, MatchesRequest(ix, i, r),
               NEW t \in CandidateTokens(r)
        PROVE  Trigrams(t) \subseteq Trigrams(FoldedName(ix, i))
    <3> DEFINE name == FoldedName(ix, i)
    <3>1. name \in Seq(C)
      BY DEF Searchable, Suited
    <3>2. t \in Seq(C) /\ Occurs(t, name)
      <4>1. CASE \E c \in r.include : c.kind \in {"contains", "phrase"} /\ t = c.text
        <5>1. PICK c \in r.include : c.kind \in {"contains", "phrase"} /\ t = c.text
          BY <4>1
        <5>2. MatchesClause(ix, i, c) /\ t \in Seq(C)
          BY <2>3, <5>1 DEF MatchesRequest, NameKinds
        <5>3. Occurs(c.text, name)
          BY <5>1, <5>2 DEF MatchesClause
        <5> QED BY <5>1, <5>2, <5>3
      <4>2. CASE \E c \in r.include : c.kind = "wildcard" /\ t \in ToSet(Parts(c.text, "*"))
        <5>1. PICK c \in r.include : c.kind = "wildcard" /\ t \in ToSet(Parts(c.text, "*"))
          BY <4>2
        <5>2. MatchesClause(ix, i, c) /\ c.text \in Seq(C)
          BY <2>3, <5>1 DEF MatchesRequest, NameKinds
        <5>3. WildcardMatches(c.text, name)
          BY <5>1, <5>2 DEF MatchesClause
        <5> HIDE DEF name
        <5> DEFINE pattern == c.text
        <5>4. pattern \in Seq(C) /\ WildcardMatches(pattern, name) /\ t \in ToSet(Parts(pattern, "*"))
          BY <5>1, <5>2, <5>3
        <5> HIDE DEF pattern
        <5>5. /\ Parts(pattern, "*") \in Seq(Seq(C))
              /\ \A part \in ToSet(Parts(pattern, "*")) : Occurs(part, name)
          BY <3>1, <5>4, WildcardParts
        <5>6. t \in Seq(C)
          BY <5>4, <5>5, ToSetIn
        <5> QED BY <5>4, <5>5, <5>6
      <4>3. \/ \E c \in r.include : c.kind \in {"contains", "phrase"} /\ t = c.text
            \/ \E c \in r.include : c.kind = "wildcard" /\ t \in ToSet(Parts(c.text, "*"))
        BY DEF CandidateTokens, Plain
      <4> QED BY <4>1, <4>2, <4>3
    <3> HIDE DEF name
    <3>3. Trigrams(t) \subseteq Trigrams(name)
      BY <3>1, <3>2, TrigramsOccur
    <3> QED BY <3>3 DEF name
  <2>4. ASSUME NEW i \in DOMAIN ix.records, MatchesRequest(ix, i, r)
        PROVE  i \in Candidates(ix, CandidateTokens(r))
    BY <2>3, <2>4 DEF Candidates
  <2> QED BY <2>1, <2>2, <2>4
<1> QED BY <1>1, <1>2

-----------------------------------------------------------------------------
(* The numbers by which hits are sorted, and the scores                    *)

LEMMA CodesAre ==
  ASSUME NEW text \in Seq(ToSet(Letters))
  PROVE  Codes(text) \in Seq(Nat \ {0})
<1>1. ASSUME NEW c \in ToSet(Letters) PROVE CodeOf[c] \in Nat \ {0}
  <2>1. \E k \in DOMAIN Letters : Letters[k] = c
    BY DEF ToSet
  <2>2. DOMAIN Letters \subseteq Nat \ {0}
    BY TextAssumption
  <2> QED BY <2>1, <2>2 DEF CodeOf
<1>2. Len(text) \in Nat /\ DOMAIN text = 1..Len(text) /\ \A k \in DOMAIN text : text[k] \in ToSet(Letters)
  OBVIOUS
<1>3. Codes(text) \in [1..Len(text) -> Nat \ {0}]
  BY <1>1, <1>2 DEF Codes
<1> QED BY <1>2, <1>3, SeqFrom

\* A text that comes before another one does so with an end mark below all letters.
LEMMA Ended ==
  ASSUME NEW s \in Seq(Nat \ {0}), NEW t \in Seq(Nat \ {0}), NEW u \in Seq(Nat), NEW v \in Seq(Nat),
         LexLess(s, t)
  PROVE  LexLess((s \o <<0>>) \o u, (t \o <<0>>) \o v)
<1> DEFINE x == (s \o <<0>>) \o u
           y == (t \o <<0>>) \o v
<1>1. s \in Seq(Nat) /\ t \in Seq(Nat) /\ Len(s) \in Nat /\ Len(t) \in Nat
      /\ \A k \in 1..Len(t) : t[k] \in Nat \ {0}
  BY SeqWider
<1>2. PICK n \in Nat : /\ n <= Len(s) /\ n < Len(t) /\ \A k \in 1..n : s[k] = t[k]
                       /\ n = Len(s) \/ s[n + 1] < t[n + 1]
  BY <1>1, LexAt
<1>3. /\ x \in Seq(Nat) /\ Len(x) >= Len(s) + 1 /\ x[Len(s) + 1] = 0 /\ \A k \in 1..Len(s) : x[k] = s[k]
  BY <1>1
<1>4. /\ y \in Seq(Nat) /\ Len(y) >= Len(t) + 1 /\ \A k \in 1..Len(t) : y[k] = t[k]
  BY <1>1
<1> HIDE DEF x, y
<1>5. /\ n <= Len(x) /\ n < Len(y) /\ \A k \in 1..n : x[k] = y[k]
  <2>1. Len(x) \in Nat /\ Len(y) \in Nat
    BY <1>3, <1>4
  <2>2. \A k \in 1..n : k \in 1..Len(s) /\ k \in 1..Len(t)
    BY <1>1, <1>2
  <2>3. n <= Len(x) /\ n < Len(y)
    BY <1>1, <1>2, <1>3, <1>4, <2>1
  <2>4. \A k \in 1..n : x[k] = s[k] /\ y[k] = t[k] /\ s[k] = t[k]
    BY <1>2, <1>3, <1>4, <2>2
  <2> QED BY <2>3, <2>4
<1>6. x[n + 1] < y[n + 1]
  <2>1. y[n + 1] = t[n + 1] /\ t[n + 1] \in Nat \ {0}
    BY <1>1, <1>2, <1>4
  <2>2. CASE n = Len(s)
    BY <1>3, <2>1, <2>2
  <2>3. CASE n # Len(s)
    <3>1. n + 1 \in 1..Len(s)
      BY <1>1, <1>2, <2>3
    <3> QED BY <1>2, <1>3, <2>1, <2>3, <3>1
  <2> QED BY <2>2, <2>3
<1>7. LexLess(x, y)
  BY <1>2, <1>3, <1>4, <1>5, <1>6, LexAt
<1> QED BY <1>7 DEF x, y

LEMMA FirstNumber ==
  ASSUME NEW a \in Nat, NEW b \in Nat, NEW s \in Seq(Nat), NEW t \in Seq(Nat), a < b
  PROVE  LexLess(<<a>> \o s, <<b>> \o t)
<1> DEFINE x == <<a>> \o s
           y == <<b>> \o t
<1>1. /\ x \in Seq(Nat) /\ x[1] = a /\ y \in Seq(Nat) /\ y[1] = b /\ Len(y) >= 1 /\ Len(x) >= 1
      /\ Len(x) \in Nat /\ Len(y) \in Nat
  OBVIOUS
<1> HIDE DEF x, y
<1>2. 0 \in Nat /\ 0 <= Len(x) /\ 0 < Len(y) /\ 0 + 1 = 1 /\ \A k \in 1..0 : x[k] = y[k]
  BY <1>1
<1>3. LexLess(x, y)
  BY <1>1, <1>2, LexAt
<1> QED BY <1>3 DEF x, y

\* The first number decides, if it is another one.
LEMMA FirstDecides ==
  ASSUME NEW x \in Seq(Nat), NEW y \in Seq(Nat), Len(x) >= 1, Len(y) >= 1, LexLess(x, y)
  PROVE  x[1] <= y[1]
<1>1. PICK n \in Nat : /\ n <= Len(x) /\ n < Len(y) /\ \A k \in 1..n : x[k] = y[k]
                       /\ n = Len(x) \/ x[n + 1] < y[n + 1]
  BY LexAt
<1>2. x[1] \in Nat /\ y[1] \in Nat /\ Len(x) \in Nat
  OBVIOUS
<1>3. CASE n = 0
  BY <1>1, <1>2, <1>3
<1>4. CASE n # 0
  <2>1. 1 \in 1..n
    BY <1>4
  <2> QED BY <1>1, <1>2, <2>1
<1> QED BY <1>3, <1>4

LEMMA ClauseScores ==
  ASSUME NEW name, NEW clause
  PROVE  /\ ClauseScore(name, clause) \in Nat
         /\ ClauseScore(name, clause) = 0 <=> clause.kind \in {"contains", "phrase"} /\ name = clause.text
<1>1. CASE clause.kind \in {"contains", "phrase"} /\ name = clause.text
  <2>1. ClauseScore(name, clause) = 0
    BY <1>1 DEF ClauseScore
  <2> QED BY <1>1, <2>1
<1>2. CASE clause.kind \in {"contains", "phrase"} /\ name # clause.text
  <2>1. ClauseScore(name, clause) \in {10, 20, 80}
    BY <1>2 DEF ClauseScore
  <2> QED BY <1>2, <2>1
<1>3. CASE clause.kind = "wildcard" /\ WildcardMatches(clause.text, name)
  <2>1. ClauseScore(name, clause) \in {5, 15, 30}
    BY <1>3 DEF ClauseScore
  <2> QED BY <1>3, <2>1
<1>4. CASE ~(clause.kind \in {"contains", "phrase"}) /\ ~(clause.kind = "wildcard" /\ WildcardMatches(clause.text, name))
  <2>1. ClauseScore(name, clause) = 100
    BY <1>4 DEF ClauseScore
  <2> QED BY <1>4, <2>1
<1> QED BY <1>1, <1>2, <1>3, <1>4

LEMMA MatchScores ==
  ASSUME NEW name, NEW request
  PROVE  /\ MatchScore(name, request) \in Nat
         /\ MatchScore(name, request) = 0 <=> name \in NameTexts(request.include)
<1> DEFINE scores == {100} \cup {ClauseScore(name, clause) : clause \in request.include}
<1>1. scores \subseteq Nat /\ scores # {}
  BY ClauseScores
<1>2. MatchScore(name, request) = First(scores)
  BY DEF MatchScore
<1>3. 0 \in scores <=> \E clause \in request.include : ClauseScore(name, clause) = 0
  OBVIOUS
<1> HIDE DEF scores
<1>4. First(scores) \in scores /\ \A k \in scores : First(scores) <= k
  BY <1>1, FirstIs
<1>5. First(scores) = 0 <=> 0 \in scores
  <2>1. First(scores) \in Nat
    BY <1>1, <1>4
  <2>2. 0 \in scores => First(scores) <= 0
    BY <1>4
  <2> QED BY <1>4, <2>1, <2>2
<1>6. (\E clause \in request.include : ClauseScore(name, clause) = 0) <=> name \in NameTexts(request.include)
  BY ClauseScores DEF NameTexts
<1> QED BY <1>1, <1>2, <1>3, <1>4, <1>5, <1>6

LEMMA Recency == ASSUME NEW mtime \in Nat PROVE RecencyBucket(mtime) \in Nat
<1> DEFINE bounds == {1, 7, 30, 180}
           age == IF Now > mtime THEN Now - mtime ELSE 0
           older == {days \in bounds : age > days * DayLength}
<1>1. IsFiniteSet(bounds)
  <2>1. IsFiniteSet(0..180)
    <3>1. \A n \in Nat : IsFiniteSet(0..n)
      BY FS_Interval
    <3>2. 180 \in Nat
      OBVIOUS
    <3> QED BY <3>1, <3>2
  <2>2. bounds \subseteq 0..180
    OBVIOUS
  <2> HIDE DEF bounds
  <2> QED BY <2>1, <2>2, FS_Subset
<1>2. older \subseteq bounds
  OBVIOUS
<1>3. Cardinality(older) \in Nat
  <2> HIDE DEF older, bounds
  <2> QED BY <1>1, <1>2, FS_Subset, FS_CardinalityType
<1>4. RecencyBucket(mtime) = IF mtime = 0 THEN 5 ELSE Cardinality(older)
  BY DEF RecencyBucket
<1> QED BY <1>3, <1>4

LEMMA BytesTyped == ASSUME NEW C, NEW text \in Seq(C) PROVE Len(BytesOf(text)) \in Nat
<1>1. PICK f \in [0..Len(text) -> Seq(ByteOf(C))] : BytesOf(text) = f[Len(text)]
  BY BytesAre
<1>2. Len(text) \in 0..Len(text)
  OBVIOUS
<1>3. BytesOf(text) \in Seq(ByteOf(C))
  BY <1>1, <1>2
<1> QED BY <1>3

-----------------------------------------------------------------------------
(* Lists that are put together, reversed or cut                            *)

LEMMA Prepended ==
  ASSUME NEW S, NEW a \in S, NEW s \in Seq(S), NEW t \in Seq(S)
  PROVE  (<<a>> \o s) \o t = <<a>> \o (s \o t)
<1>1. <<a>> \in Seq(S)
  OBVIOUS
<1> QED BY <1>1, ConcatAssociative

Two(s, a, b) == s \o <<a, b>>

LEMMA TwoEnd ==
  ASSUME NEW s \in Seq(Nat), NEW a \in Nat, NEW b \in Nat
  PROVE  Two(s, a, b)[Len(Two(s, a, b)) - 1] = a /\ Two(s, a, b)[Len(Two(s, a, b))] = b
<1>1. Len(s) \in Nat
  OBVIOUS
<1>2. Len(Two(s, a, b)) = Len(s) + 2 /\ Two(s, a, b)[Len(s) + 1] = a /\ Two(s, a, b)[Len(s) + 2] = b
  BY <1>1 DEF Two
<1>3. Len(Two(s, a, b)) - 1 = Len(s) + 1
  BY <1>1, <1>2
<1> QED BY <1>2, <1>3

LEMMA Reversed ==
  ASSUME NEW S, NEW s \in Seq(S)
  PROVE  /\ Reverse(s) \in Seq(S) /\ Len(Reverse(s)) = Len(s)
         /\ \A n \in 1..Len(s) : Len(s) + 1 - n \in 1..Len(s) /\ Reverse(s)[n] = s[Len(s) + 1 - n]
<1>1. Len(s) \in Nat
  OBVIOUS
<1>2. ASSUME NEW n \in 1..Len(s)
      PROVE  Len(s) + 1 - n \in 1..Len(s) /\ (Len(s) - n) + 1 = Len(s) + 1 - n
  BY <1>1
<1>3. \A n \in 1..Len(s) : s[(Len(s) - n) + 1] \in S /\ s[(Len(s) - n) + 1] = s[Len(s) + 1 - n]
  BY <1>2
<1>4. Reverse(s) = [n \in 1..Len(s) |-> s[(Len(s) - n) + 1]]
  BY DEF Reverse
<1>5. Reverse(s) \in [1..Len(s) -> S]
  BY <1>3, <1>4
<1> QED BY <1>1, <1>2, <1>3, <1>4, <1>5, SeqFrom

LEMMA HeadKept ==
  ASSUME NEW s \in Seq(Nat), NEW t \in Seq(Nat), Len(s) >= 1
  PROVE  (s \o t)[1] = s[1] /\ s \o t \in Seq(Nat) /\ Len(s \o t) >= 1
OBVIOUS

\* Texts that are put together and taken apart
LEMMA TextsMade ==
  ASSUME NEW C, NEW q \in Seq(C)
  PROVE  /\ \A text \in Seq(C) : q \o text \in Seq(C)
         /\ q # <<>> => Front(q) \in Seq(C)
         /\ \A m \in Int : m <= Len(q) => SubSeq(q, 1, m) \in Seq(C)
<1>1. Len(q) \in Nat
  OBVIOUS
<1>2. ASSUME NEW m \in Int, m <= Len(q) PROVE SubSeq(q, 1, m) \in Seq(C)
  BY <1>1, <1>2
<1>3. q # <<>> => Front(q) \in Seq(C)
  <2>1. Len(q) - 1 \in Int /\ Len(q) - 1 <= Len(q)
    BY <1>1
  <2>2. SubSeq(q, 1, Len(q) - 1) \in Seq(C)
    BY <1>2, <2>1
  <2> QED BY <2>2 DEF Front
<1> QED BY <1>2, <1>3

=============================================================================
