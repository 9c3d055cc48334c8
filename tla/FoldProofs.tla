------------------------------ MODULE FoldProofs ------------------------------
(***************************************************************************)
(* What a fold over a sequence computes, for any step Op.  FoldLeft is a   *)
(* recursive function on the sets of positions of the sequence: that there *)
(* is such a function is an induction on the size of the sets, that only   *)
(* the positions before the last one matter to the rest is an induction on *)
(* the length.  Both are inductions for one set of numbers (NatSet), since *)
(* an operator cannot be a parameter of a theorem that is cited; for the   *)
(* same reason Op is a constant, and this module is instantiated for every *)
(* step that the model folds.                                              *)
(***************************************************************************)
EXTENDS Integers, FiniteSets, Sequences, SequencesExt, FiniteSetTheorems, SequenceTheorems,
        WellFoundedInduction, TLAPS

CONSTANT Op(_, _, _)   \* of a parameter, what there is so far, and the next element

Fold(par, base, s) == FoldLeft(LAMBDA out, e : Op(par, out, e), base, s)

-----------------------------------------------------------------------------
(* Induction                                                               *)

\* A set of numbers has a least one.
LEMMA Least ==
  ASSUME NEW T, T \subseteq Nat, T # {}
  PROVE  \E m \in T : \A k \in T : m <= k
<1>1. PICK m \in T : \A k \in T : ~(<<k, m>> \in OpToRel(<, Nat))
  BY NatLessThanWellFounded, WFMin
<1>2. ASSUME NEW k \in T, k < m PROVE FALSE
  BY <1>1, <1>2 DEF OpToRel
<1> QED BY <1>2

LEMMA NatSet ==
  ASSUME NEW T, 0 \in T, \A n \in Nat : n \in T => n + 1 \in T
  PROVE  Nat \subseteq T
<1> DEFINE rest == Nat \ T
<1> SUFFICES ASSUME rest # {} PROVE FALSE
  OBVIOUS
<1>1. PICK m \in rest : \A k \in rest : m <= k
  BY Least
<1>2. m - 1 \in Nat /\ m - 1 \in rest
  OBVIOUS
<1> QED BY <1>1, <1>2

-----------------------------------------------------------------------------
(* The function that FoldLeft chooses                                      *)

LEMMA MaxOf ==
  ASSUME NEW n \in Nat, NEW s \in SUBSET (1..n), s # {}
  PROVE  Max(s) \in s /\ \A k \in s : k <= Max(s)
<1> DEFINE bounds == {u \in Nat : \A k \in s : k <= u}
<1>1. n \in bounds
  OBVIOUS
<1>2. PICK m \in bounds : \A u \in bounds : m <= u
  BY <1>1, Least
<1>3. m \in s
  <2> SUFFICES ASSUME m \notin s PROVE FALSE
    OBVIOUS
  <2>1. \A k \in s : k \in Nat /\ k <= m /\ k # m
    BY <1>2
  <2>2. m \in Nat /\ m # 0 /\ m - 1 \in Nat
    <3>1. PICK k \in s : TRUE
      OBVIOUS
    <3>2. m \in Nat
      BY <1>2
    <3> QED BY <2>1, <3>1, <3>2
  <2>3. m - 1 \in bounds
    BY <2>1, <2>2
  <2> QED BY <1>2, <2>2, <2>3
<1>4. \E x \in s : \A y \in s : x >= y
  BY <1>3
<1> QED BY <1>4 DEF Max

\* What FoldLeft looks for: the results for all sets of positions up to n
Results(par, f, base, n, g) ==
  g = [s \in SUBSET (1..n) |-> IF s = {} THEN base ELSE Op(par, g[s \ {Max(s)}], f[Max(s)])]

LEMMA ResultsExist ==
  ASSUME NEW par, NEW f, NEW base, NEW n \in Nat
  PROVE  \E g : Results(par, f, base, n, g)
<1> DEFINE T == {k \in Nat : \E g : Results(par, f, base, k, g)}
<1>1. 0 \in T
  <2> DEFINE g == [s \in SUBSET (1..0) |-> base]
  <2>1. SUBSET (1..0) = {{}}
    OBVIOUS
  <2>2. Results(par, f, base, 0, g)
    BY <2>1 DEF Results
  <2> QED BY <2>2
<1>2. ASSUME NEW k \in Nat, k \in T PROVE k + 1 \in T
  <2>1. PICK g : Results(par, f, base, k, g)
    BY <1>2
  <2> DEFINE next == [s \in SUBSET (1..(k + 1)) |->
                        IF s = {} THEN base ELSE Op(par, g[s \ {Max(s)}], f[Max(s)])]
  <2>2. ASSUME NEW s \in SUBSET (1..k) PROVE next[s] = g[s]
    <3>1. s \in SUBSET (1..(k + 1))
      OBVIOUS
    <3>2. g[s] = IF s = {} THEN base ELSE Op(par, g[s \ {Max(s)}], f[Max(s)])
      BY <2>1 DEF Results
    <3> QED BY <3>1, <3>2
  <2>3. ASSUME NEW s \in SUBSET (1..(k + 1)), s # {} PROVE s \ {Max(s)} \in SUBSET (1..k)
    <3>1. k + 1 \in Nat
      OBVIOUS
    <3>2. Max(s) \in s /\ \A i \in s : i <= Max(s)
      BY <2>3, <3>1, MaxOf
    <3>3. ASSUME NEW i \in s, i # Max(s) PROVE i \in 1..k
      <4>1. i \in 1..(k + 1) /\ Max(s) \in 1..(k + 1)
        BY <3>2
      <4>2. i <= Max(s)
        BY <3>2
      <4> QED BY <3>3, <4>1, <4>2
    <3> QED BY <3>3
  <2> HIDE DEF next
  <2>4. ASSUME NEW s \in SUBSET (1..(k + 1))
        PROVE  next[s] = IF s = {} THEN base ELSE Op(par, next[s \ {Max(s)}], f[Max(s)])
    BY <2>2, <2>3 DEF next
  <2>5. Results(par, f, base, k + 1, next)
    BY <2>4 DEF Results, next
  <2> QED BY <2>5
<1> HIDE DEF T
<1>3. n \in T
  BY <1>1, <1>2, NatSet
<1> QED BY <1>3 DEF T

LEMMA ResultAt ==
  ASSUME NEW f, NEW par, NEW base, NEW g, NEW n \in Nat,
         Results(par, f, base, n, g), NEW k \in 0..n
  PROVE  g[1..k] = IF k = 0 THEN base ELSE Op(par, g[1..(k - 1)], f[k])
<1>1. \A s \in SUBSET (1..n) : g[s] = IF s = {} THEN base ELSE Op(par, g[s \ {Max(s)}], f[Max(s)])
  BY DEF Results
<1> DEFINE s == 1..k
<1>2. s \in SUBSET (1..n)
  OBVIOUS
<1>3. CASE k = 0
  <2>1. s = {}
    BY <1>3
  <2> HIDE DEF s
  <2>2. g[s] = base
    BY <1>1, <1>2, <2>1
  <2> QED BY <1>3, <2>2 DEF s
<1>4. CASE k # 0
  <2>1. k \in s /\ s # {} /\ s \ {k} = 1..(k - 1)
    BY <1>4
  <2>2. Max(s) \in s /\ \A i \in s : i <= Max(s)
    BY <1>2, <2>1, MaxOf
  <2>3. Max(s) = k
    BY <2>1, <2>2
  <2> HIDE DEF s
  <2>4. g[s] = Op(par, g[s \ {Max(s)}], f[Max(s)])
    BY <1>1, <1>2, <2>1
  <2>5. g[s] = Op(par, g[1..(k - 1)], f[k])
    BY <2>1, <2>3, <2>4
  <2> QED BY <1>4, <2>5 DEF s
<1> QED BY <1>3, <1>4

\* FoldLeft yields what is found for all positions.
LEMMA FoldResults ==
  ASSUME NEW S, NEW par, NEW base, NEW s \in Seq(S)
  PROVE  \E g : /\ \A k \in 0..Len(s) :
                     g[1..k] = IF k = 0 THEN base ELSE Op(par, g[1..(k - 1)], s[k])
                /\ Fold(par, base, s) = g[1..Len(s)]
<1>1. DOMAIN s = 1..Len(s) /\ Len(s) \in Nat
  OBVIOUS
<1> DEFINE g == CHOOSE g : Results(par, s, base, Len(s), g)
<1>2. Results(par, s, base, Len(s), g)
  BY <1>1, ResultsExist
<1>3. Fold(par, base, s) = g[1..Len(s)]
  BY <1>1 DEF Fold, FoldLeft, MapThenFoldSet, Results
<1> HIDE DEF g
<1>4. ASSUME NEW f, NEW n \in Nat, Results(par, f, base, n, g), NEW k \in 0..n
      PROVE  g[1..k] = IF k = 0 THEN base ELSE Op(par, g[1..(k - 1)], f[k])
  BY <1>4, ResultAt
<1> QED BY <1>1, <1>2, <1>3, <1>4

-----------------------------------------------------------------------------
(* What the code relies on: a fold goes through a sequence from left to    *)
(* right.                                                                  *)

\* Nothing is folded.
THEOREM FoldEmpty == ASSUME NEW par, NEW base PROVE Fold(par, base, <<>>) = base
<1>1. <<>> \in Seq({}) /\ Len(<<>>) = 0
  OBVIOUS
<1>2. ASSUME NEW S, NEW s \in Seq(S), Len(s) = 0 PROVE Fold(par, base, s) = base
  <2>1. PICK g : /\ \A k \in 0..Len(s) :
                      g[1..k] = IF k = 0 THEN base ELSE Op(par, g[1..(k - 1)], s[k])
                 /\ Fold(par, base, s) = g[1..Len(s)]
    BY FoldResults
  <2> QED BY <1>2, <2>1
<1> QED BY <1>1, <1>2

\* The last element is folded last.
THEOREM FoldAppend ==
  ASSUME NEW S, NEW par, NEW base, NEW s \in Seq(S), NEW e \in S
  PROVE  Fold(par, base, Append(s, e)) = Op(par, Fold(par, base, s), e)
<1> DEFINE n == Len(s)
           t == Append(s, e)
<1>1. t \in Seq(S) /\ n \in Nat /\ Len(t) = n + 1 /\ t[n + 1] = e /\ \A i \in 1..n : t[i] = s[i]
  BY AppendProperties
<1>2. PICK g : /\ \A k \in 0..n : g[1..k] = IF k = 0 THEN base ELSE Op(par, g[1..(k - 1)], s[k])
               /\ Fold(par, base, s) = g[1..n]
  BY FoldResults
<1> HIDE DEF t
<1>3. PICK h : /\ \A k \in 0..Len(t) :
                    h[1..k] = IF k = 0 THEN base ELSE Op(par, h[1..(k - 1)], t[k])
               /\ Fold(par, base, t) = h[1..Len(t)]
  BY <1>1, FoldResults
<1> HIDE DEF n
<1> DEFINE T == {k \in Nat : k <= n => h[1..k] = g[1..k]}
<1>4. 0 \in T
  BY <1>1, <1>2, <1>3
<1>5. ASSUME NEW k \in Nat, k \in T PROVE k + 1 \in T
  <2> SUFFICES ASSUME k + 1 <= n PROVE h[1..(k + 1)] = g[1..(k + 1)]
    OBVIOUS
  <2>1. k + 1 \in 0..n /\ k + 1 \in 0..Len(t) /\ k + 1 # 0 /\ (k + 1) - 1 = k
    BY <1>1
  <2>2. g[1..(k + 1)] = Op(par, g[1..k], s[k + 1])
    BY <1>2, <2>1
  <2>3. h[1..(k + 1)] = Op(par, h[1..k], t[k + 1])
    BY <1>3, <2>1
  <2>4. h[1..k] = g[1..k] /\ t[k + 1] = s[k + 1]
    BY <1>1, <1>5
  <2> QED BY <2>2, <2>3, <2>4
<1>6. n \in T
  <2> HIDE DEF T
  <2> QED BY <1>1, <1>4, <1>5, NatSet
<1>7. h[1..(n + 1)] = Op(par, h[1..n], t[n + 1])
  <2>1. n + 1 \in 0..Len(t) /\ n + 1 # 0 /\ (n + 1) - 1 = n
    BY <1>1
  <2> QED BY <1>3, <2>1
<1> QED BY <1>1, <1>2, <1>3, <1>6, <1>7 DEF t

\* One element is folded once.
COROLLARY FoldOne == ASSUME NEW par, NEW base, NEW e PROVE Fold(par, base, <<e>>) = Op(par, base, e)
<1>1. <<>> \in Seq({e}) /\ Append(<<>>, e) = <<e>>
  OBVIOUS
<1>2. ASSUME NEW s \in Seq({e}) PROVE Fold(par, base, Append(s, e)) = Op(par, Fold(par, base, s), e)
  BY FoldAppend
<1> QED BY <1>1, <1>2, FoldEmpty

\* What every step keeps, a fold keeps.
THEOREM FoldKeeps ==
  ASSUME NEW E, NEW S, NEW par, NEW base \in S, NEW s \in Seq(E),
         \A out \in S, e \in E : Op(par, out, e) \in S
  PROVE  Fold(par, base, s) \in S
<1>1. PICK g : /\ \A k \in 0..Len(s) :
                    g[1..k] = IF k = 0 THEN base ELSE Op(par, g[1..(k - 1)], s[k])
               /\ Fold(par, base, s) = g[1..Len(s)]
  BY FoldResults
<1>2. Len(s) \in Nat /\ \A k \in 1..Len(s) : s[k] \in E
  OBVIOUS
<1> DEFINE T == {k \in Nat : k <= Len(s) => g[1..k] \in S}
<1>3. 0 \in T
  BY <1>1, <1>2
<1>4. ASSUME NEW k \in Nat, k \in T PROVE k + 1 \in T
  <2> SUFFICES ASSUME k + 1 <= Len(s) PROVE g[1..(k + 1)] \in S
    OBVIOUS
  <2>1. k + 1 \in 0..Len(s) /\ k + 1 \in 1..Len(s) /\ k + 1 # 0 /\ (k + 1) - 1 = k /\ g[1..k] \in S
    BY <1>2, <1>4
  <2>2. g[1..(k + 1)] = Op(par, g[1..k], s[k + 1])
    BY <1>1, <2>1
  <2> QED BY <1>2, <2>1, <2>2
<1>5. Len(s) \in T
  <2> HIDE DEF T
  <2> QED BY <1>2, <1>3, <1>4, NatSet
<1> QED BY <1>1, <1>2, <1>5

\* The same step over and over, from a first value: there is such a function.
THEOREM Iteration ==
  ASSUME NEW par, NEW base
  PROVE  \E f : f = [k \in Nat |-> IF k = 0 THEN base ELSE Op(par, f[k - 1], k)]
<1> DEFINE upto(k) == [i \in 1..k |-> i]
           f == [k \in Nat |-> Fold(par, base, upto(k))]
<1>1. ASSUME NEW k \in Nat PROVE upto(k) \in Seq(Nat) /\ Len(upto(k)) = k /\ \A i \in 1..k : upto(k)[i] = i
  BY SeqDef
<1>2. upto(0) = <<>>
  BY <1>1
<1>3. ASSUME NEW k \in Nat PROVE upto(k + 1) = Append(upto(k), k + 1)
  <2>1. /\ upto(k) \in Seq(Nat) /\ Len(upto(k)) = k /\ \A i \in 1..k : upto(k)[i] = i
        /\ upto(k + 1) \in Seq(Nat) /\ Len(upto(k + 1)) = k + 1 /\ \A i \in 1..(k + 1) : upto(k + 1)[i] = i
    BY <1>1
  <2> HIDE DEF upto
  <2> DEFINE t == Append(upto(k), k + 1)
  <2>2. t \in Seq(Nat) /\ Len(t) = k + 1 /\ t[k + 1] = k + 1 /\ \A i \in 1..k : t[i] = upto(k)[i]
    BY <2>1, AppendProperties
  <2> HIDE DEF t
  <2>3. \A i \in 1..(k + 1) : t[i] = i
    <3>1. \A i \in 1..(k + 1) : i \in 1..k \/ i = k + 1
      OBVIOUS
    <3> QED BY <2>1, <2>2, <3>1
  <2>4. upto(k + 1) = t
    BY <2>1, <2>2, <2>3, SeqEqual
  <2> QED BY <2>4 DEF t
<1>4. ASSUME NEW k \in Nat, k # 0 PROVE f[k] = Op(par, f[k - 1], k)
  <2>1. k - 1 \in Nat /\ (k - 1) + 1 = k
    BY <1>4
  <2>2. upto(k) = Append(upto(k - 1), k) /\ upto(k - 1) \in Seq(Nat)
    BY <1>1, <1>3, <2>1
  <2> HIDE DEF upto
  <2>3. Fold(par, base, upto(k)) = Op(par, Fold(par, base, upto(k - 1)), k)
    BY <2>2, FoldAppend
  <2> QED BY <2>1, <2>3
<1>5. f[0] = base
  BY <1>2, FoldEmpty
<1>6. \A k \in Nat : f[k] = IF k = 0 THEN base ELSE Op(par, f[k - 1], k)
  BY <1>4, <1>5
<1>7. f = [k \in Nat |-> f[k]]
  OBVIOUS
<1> HIDE DEF f
<1>8. f = [k \in Nat |-> IF k = 0 THEN base ELSE Op(par, f[k - 1], k)]
  BY <1>6, <1>7
<1> QED BY <1>8

=============================================================================
