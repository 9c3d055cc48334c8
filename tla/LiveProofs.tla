------------------------------ MODULE LiveProofs ------------------------------
(***************************************************************************)
(* The live updates of an index, for any names, versions and scenarios:    *)
(* any files, rules, renames and number of changes.                        *)
(*                                                                         *)
(* 1. The index stays one that read_index accepts, as long as every event  *)
(* is a batch of its own (IsIndex: each record's parent is a record or     *)
(* none, and there is a path for each record; KeptNumbers and              *)
(* CompactedAreRecords for the new numbers when records are dropped).      *)
(*                                                                         *)
(* 2. If the scanner daemon looks at paths in time and nothing crosses the *)
(* border, the batch and what has been told beyond it, each report with    *)
(* the metadata of the files as they are, mean the files as they are       *)
(* (TellsInv).  A new change has to be shown not to disturb what the       *)
(* earlier events mean; looking at a report changes nothing (CallbackTells).*)
(*                                                                         *)
(* 3. Without renames, what coalescing leaves is one event for every path  *)
(* that has changed, and it says what is there now (TellsOnce, kept by     *)
(* CoalesceOne); such events, carried out in whatever order, give the      *)
(* files as they are (Reached, OnceIsEnough).                              *)
(*                                                                         *)
(* 4. Once all has been told and applied, the index shows the files, as a  *)
(* new scan would.  An index shows files if its paths fit its records      *)
(* (Shows, ArePaths; RebuiltPaths: rebuild_accelerators makes the paths    *)
(* that fit).  An event takes an index from showing some files to showing  *)
(* others (Link).  If the scanner daemon looks at paths in time, the events *)
(* that are left lead from what is shown to the files as they are          *)
(* (ChainInv).  If it does not, and only files change, the events that are *)
(* left are true of each path: what appears and leaves alternates, and the *)
(* last that tells of the path tells what is there (LateInv).              *)
(*                                                                         *)
(* Coalescing, what a batch means and the application of a batch are       *)
(* folds; FoldProofs says what they are of a batch with one more event.    *)
(***************************************************************************)
EXTENDS LiveUpdates, FiniteSetTheorems, SequenceTheorems, TLAPS

CollapseFold == INSTANCE FoldProofs WITH Op <- LAMBDA par, out, e : CollapseOne(out, e)
CoalesceFold == INSTANCE FoldProofs WITH Op <- LAMBDA par, out, e : CoalesceOne(out, e)
TellFold     == INSTANCE FoldProofs WITH Op <- LAMBDA rules, out, e : out \o LiveEvent(rules, e)
ApplyFold    == INSTANCE FoldProofs WITH Op <- LAMBDA par, ix, e : ApplyEvent(ix, e)
AncestorFold == INSTANCE FoldProofs WITH
  Op <- LAMBDA records, found, k : found \cup ({records[i].parent : i \in found} \cap DOMAIN records)
MeantFold    == INSTANCE FoldProofs WITH Op <- LAMBDA par, files, e : Meant(files, e)

\* The folds of the model are folds as FoldProofs knows them.
LEMMA Folds ==
  /\ \A out, s : FoldLeft(CollapseOne, out, s) = CollapseFold!Fold(0, out, s)
  /\ \A out, s : FoldLeft(CoalesceOne, out, s) = CoalesceFold!Fold(0, out, s)
  /\ \A rules, s : LiveEvents(rules, s) = TellFold!Fold(rules, <<>>, s)
  /\ \A ix, s : FoldLeft(ApplyEvent, ix, s) = ApplyFold!Fold(0, ix, s)
  /\ \A files, s : FoldLeft(Meant, files, s) = MeantFold!Fold(0, files, s)
<1> USE DEF FoldLeft, MapThenFoldSet, Max
<1>1. \A out, s : FoldLeft(CollapseOne, out, s) = CollapseFold!Fold(0, out, s)
  BY DEF CollapseFold!Fold, CollapseFold!FoldLeft, CollapseFold!MapThenFoldSet, CollapseFold!Max
<1>2. \A out, s : FoldLeft(CoalesceOne, out, s) = CoalesceFold!Fold(0, out, s)
  BY DEF CoalesceFold!Fold, CoalesceFold!FoldLeft, CoalesceFold!MapThenFoldSet, CoalesceFold!Max
<1>3. \A rules, s : LiveEvents(rules, s) = TellFold!Fold(rules, <<>>, s)
  BY DEF LiveEvents, TellFold!Fold, TellFold!FoldLeft, TellFold!MapThenFoldSet, TellFold!Max
<1>4. \A ix, s : FoldLeft(ApplyEvent, ix, s) = ApplyFold!Fold(0, ix, s)
  BY DEF ApplyFold!Fold, ApplyFold!FoldLeft, ApplyFold!MapThenFoldSet, ApplyFold!Max
<1>5. \A files, s : FoldLeft(Meant, files, s) = MeantFold!Fold(0, files, s)
  BY DEF MeantFold!Fold, MeantFold!FoldLeft, MeantFold!MapThenFoldSet, MeantFold!Max
<1> QED BY <1>1, <1>2, <1>3, <1>4, <1>5

\* The last element is folded last.
LEMMA FoldsAppend ==
  ASSUME NEW S, NEW s \in Seq(S), NEW e \in S
  PROVE  /\ \A out : FoldLeft(CollapseOne, out, Append(s, e)) = CollapseOne(FoldLeft(CollapseOne, out, s), e)
         /\ \A out : FoldLeft(CoalesceOne, out, Append(s, e)) = CoalesceOne(FoldLeft(CoalesceOne, out, s), e)
         /\ \A rules : LiveEvents(rules, Append(s, e)) = LiveEvents(rules, s) \o LiveEvent(rules, e)
         /\ \A files : FoldLeft(Meant, files, Append(s, e)) = Meant(FoldLeft(Meant, files, s), e)
<1>1. ASSUME NEW out
      PROVE  /\ CollapseFold!Fold(0, out, Append(s, e)) = CollapseOne(CollapseFold!Fold(0, out, s), e)
             /\ CoalesceFold!Fold(0, out, Append(s, e)) = CoalesceOne(CoalesceFold!Fold(0, out, s), e)
             /\ MeantFold!Fold(0, out, Append(s, e)) = Meant(MeantFold!Fold(0, out, s), e)
  BY CollapseFold!FoldAppend, CoalesceFold!FoldAppend, MeantFold!FoldAppend
<1>2. ASSUME NEW rules
      PROVE  TellFold!Fold(rules, <<>>, Append(s, e)) = TellFold!Fold(rules, <<>>, s) \o LiveEvent(rules, e)
  BY TellFold!FoldAppend
<1> QED BY <1>1, <1>2, Folds

-----------------------------------------------------------------------------
(* Paths                                                                   *)

Path == Seq(Names)

LEMMA FrontOf ==
  ASSUME NEW p \in Path, p # <<>>
  PROVE  /\ Front(p) \in Path /\ Len(p) \in Nat \ {0} /\ Len(Front(p)) = Len(p) - 1
         /\ Last(p) \in Names /\ \A i \in 1..(Len(p) - 1) : Front(p)[i] = p[i]
<1>1. Len(p) \in Nat \ {0} /\ \A i \in 1..Len(p) : p[i] \in Names
  BY DEF Path
<1>2. Last(p) \in Names
  BY <1>1 DEF Last
<1>3. \A i \in 1..(Len(p) - 1) : p[i] \in Names
  BY <1>1
<1>4. /\ Front(p) \in Seq(Names)
      /\ Len(Front(p)) = IF 1 <= Len(p) - 1 THEN Len(p) - 1 - 1 + 1 ELSE 0
      /\ \A i \in 1..(Len(p) - 1 - 1 + 1) : Front(p)[i] = p[1 + i - 1]
  BY <1>1, <1>3, SubSeqProperties DEF Front
<1>5. Len(Front(p)) = Len(p) - 1
  <2>1. Len(Front(p)) = IF 1 <= Len(p) - 1 THEN Len(p) - 1 - 1 + 1 ELSE 0
    BY <1>4
  <2>2. Len(p) \in Nat \ {0}
    BY <1>1
  <2>3. \A l \in Nat \ {0} : (IF 1 <= l - 1 THEN l - 1 - 1 + 1 ELSE 0) = l - 1
    OBVIOUS
  <2> QED BY <2>1, <2>2, <2>3
<1>6. ASSUME NEW i \in 1..(Len(p) - 1) PROVE Front(p)[i] = p[i]
  <2>1. i \in 1..(Len(p) - 1 - 1 + 1) /\ 1 + i - 1 = i
    BY <1>1
  <2> QED BY <1>4, <2>1
<1> QED BY <1>1, <1>2, <1>4, <1>5, <1>6 DEF Path

\* A prefix, position by position
LEMMA PrefixAt ==
  ASSUME NEW p \in Path, NEW q \in Path
  PROVE  IsPrefix(p, q) <=> Len(p) <= Len(q) /\ \A i \in 1..Len(p) : p[i] = q[i]
<1>1. SubSeq(p, 1, Len(p)) = p
  BY DEF Path
<1>2. ASSUME Len(p) <= Len(q)
      PROVE  /\ SubSeq(q, 1, Len(p)) \in Path /\ Len(SubSeq(q, 1, Len(p))) = Len(p)
             /\ \A i \in 1..Len(p) : SubSeq(q, 1, Len(p))[i] = q[i]
  BY <1>2, SubSeqProperties DEF Path
<1>3. ASSUME Len(p) <= Len(q), \A i \in 1..Len(p) : p[i] = q[i] PROVE SubSeq(q, 1, Len(p)) = p
  BY <1>2, <1>3, SeqEqual DEF Path
<1> QED BY <1>1, <1>2, <1>3 DEF IsPrefix

LEMMA PathEqual ==
  ASSUME NEW p \in Path, NEW q \in Path, Len(p) = Len(q), \A i \in 1..Len(p) : p[i] = q[i]
  PROVE  p = q
BY SeqEqual DEF Path

LEMMA PathTypes ==
  ASSUME NEW p \in Path
  PROVE  Len(p) \in Nat /\ (p = <<>> <=> Len(p) = 0) /\ \A i \in 1..Len(p) : p[i] \in Names
BY DEF Path

\* The prefixes of a path are the path and the prefixes of its front.
LEMMA PrefixFront ==
  ASSUME NEW p \in Path, NEW q \in Path
  PROVE  /\ IsPrefix(p, p)
         /\ q # <<>> /\ IsPrefix(p, Front(q)) => IsPrefix(p, q) /\ p # q
         /\ IsPrefix(p, q) /\ p # q => q # <<>> /\ IsPrefix(p, Front(q))
         /\ q # <<>> => IsPrefix(Front(q), q)
         /\ p # <<>> => ~IsPrefix(p, <<>>)
<1>1. Len(p) \in Nat /\ Len(q) \in Nat /\ <<>> \in Path /\ Len(<<>>) = 0
  BY DEF Path
<1>2. IsPrefix(p, p)
  BY <1>1, PrefixAt
<1>3. ASSUME q # <<>>
      PROVE  /\ IsPrefix(p, Front(q)) => IsPrefix(p, q) /\ p # q
             /\ IsPrefix(Front(q), q)
  <2>1. /\ Front(q) \in Path /\ Len(q) # 0 /\ Len(Front(q)) = Len(q) - 1
        /\ \A i \in 1..(Len(q) - 1) : Front(q)[i] = q[i]
    BY <1>3, FrontOf
  <2>2. IsPrefix(Front(q), q)
    BY <1>1, <2>1, PrefixAt
  <2>3. ASSUME IsPrefix(p, Front(q)) PROVE IsPrefix(p, q) /\ p # q
    <3>1. Len(p) <= Len(q) - 1 /\ \A i \in 1..Len(p) : p[i] = Front(q)[i]
      BY <2>1, <2>3, PrefixAt
    <3>2. \A i \in 1..Len(p) : i \in 1..(Len(q) - 1)
      BY <1>1, <3>1
    <3>3. Len(p) <= Len(q) /\ \A i \in 1..Len(p) : p[i] = q[i]
      BY <1>1, <2>1, <3>1, <3>2
    <3> QED BY <1>1, <3>1, <3>3, PrefixAt
  <2> QED BY <2>2, <2>3
<1>4. ASSUME IsPrefix(p, q), p # q PROVE q # <<>> /\ IsPrefix(p, Front(q))
  <2>1. Len(p) <= Len(q) /\ \A i \in 1..Len(p) : p[i] = q[i]
    BY <1>4, PrefixAt
  <2>2. Len(p) # Len(q)
    BY <1>4, <2>1, PathEqual
  <2>3. q # <<>>
    BY <1>1, <2>1, <2>2
  <2>4. /\ Front(q) \in Path /\ Len(Front(q)) = Len(q) - 1
        /\ \A i \in 1..(Len(q) - 1) : Front(q)[i] = q[i]
    BY <2>3, FrontOf
  <2>5. \A i \in 1..Len(p) : i \in 1..(Len(q) - 1)
    BY <1>1, <2>1, <2>2
  <2>6. Len(p) <= Len(Front(q)) /\ \A i \in 1..Len(p) : p[i] = Front(q)[i]
    BY <1>1, <2>1, <2>2, <2>4, <2>5
  <2> QED BY <2>3, <2>4, <2>6, PrefixAt
<1>5. p # <<>> => ~IsPrefix(p, <<>>)
  BY <1>1, PrefixAt, PathTypes
<1> QED BY <1>2, <1>3, <1>4, <1>5

\* r with its beginning p replaced by q, as a rename moves it
At(p, q, r) == q \o SubSeq(r, Len(p) + 1, Len(r))

LEMMA Replanted ==
  ASSUME NEW p \in Path, NEW q \in Path, NEW r \in Path, IsPrefix(p, r)
  PROVE  /\ At(p, q, r) \in Path
         /\ IsPrefix(q, At(p, q, r))
         /\ At(q, p, At(p, q, r)) = r
         /\ At(p, q, p) = q
         /\ r # p => /\ Front(At(p, q, r)) = At(p, q, Front(r))
                     /\ At(p, q, r) # <<>> /\ At(p, q, r) # q
<1> DEFINE rest == SubSeq(r, Len(p) + 1, Len(r))
           t == At(p, q, r)
           n == Len(r) - Len(p)
<1>1. /\ Len(p) \in Nat /\ Len(q) \in Nat /\ Len(r) \in Nat /\ Len(p) <= Len(r) /\ n \in Nat
      /\ \A i \in 1..Len(p) : p[i] = r[i]
  BY PrefixAt, PathTypes
<1>2. ASSUME NEW x \in Path, NEW y \in Path, NEW z \in Path, Len(x) <= Len(z)
      PROVE  /\ At(x, y, z) \in Path /\ Len(At(x, y, z)) = Len(y) + (Len(z) - Len(x))
             /\ \A i \in 1..Len(y) : At(x, y, z)[i] = y[i]
             /\ \A i \in 1..(Len(z) - Len(x)) : At(x, y, z)[Len(y) + i] = z[Len(x) + i]
  <2> DEFINE u == SubSeq(z, Len(x) + 1, Len(z))
  <2>1. Len(x) \in Nat /\ Len(y) \in Nat /\ Len(z) \in Nat
    BY PathTypes
  <2>2. \A i \in (Len(x) + 1)..Len(z) : z[i] \in Names
    BY <2>1, PathTypes
  <2>3. /\ u \in Seq(Names)
        /\ Len(u) = IF Len(x) + 1 <= Len(z) THEN Len(z) - (Len(x) + 1) + 1 ELSE 0
        /\ \A i \in 1..(Len(z) - (Len(x) + 1) + 1) : u[i] = z[Len(x) + 1 + i - 1]
    BY <2>1, <2>2, SubSeqProperties
  <2>4. Len(u) = Len(z) - Len(x)
    BY <1>2, <2>1, <2>3
  <2>5. \A i \in 1..(Len(z) - Len(x)) : u[i] = z[Len(x) + i]
    BY <2>1, <2>3
  <2> HIDE DEF u
  <2>6. y \in Seq(Names)
    BY DEF Path
  <2>7. /\ y \o u \in Seq(Names) /\ Len(y \o u) = Len(y) + Len(u)
        /\ \A i \in 1..(Len(y) + Len(u)) : (y \o u)[i] = IF i <= Len(y) THEN y[i] ELSE u[i - Len(y)]
    BY <2>3, <2>6, ConcatProperties
  <2>8. \A i \in 1..Len(y) : (y \o u)[i] = y[i]
    BY <1>2, <2>1, <2>4, <2>7
  <2>9. ASSUME NEW i \in 1..(Len(z) - Len(x)) PROVE (y \o u)[Len(y) + i] = z[Len(x) + i]
    <3>1. Len(y) + i \in 1..(Len(y) + Len(u)) /\ ~(Len(y) + i <= Len(y)) /\ (Len(y) + i) - Len(y) = i
      BY <2>1, <2>4
    <3>2. (y \o u)[Len(y) + i] = u[i]
      BY <2>7, <3>1
    <3> QED BY <2>5, <3>2
  <2> QED BY <2>4, <2>7, <2>8, <2>9 DEF At, Path, u
<1> HIDE DEF t
<1>3. /\ t \in Path /\ Len(t) = Len(q) + n /\ (\A i \in 1..Len(q) : t[i] = q[i])
      /\ \A i \in 1..n : t[Len(q) + i] = r[Len(p) + i]
  BY <1>1, <1>2 DEF t
<1>4. IsPrefix(q, t)
  BY <1>1, <1>3, PrefixAt
<1>5. At(q, p, t) = r
  <2>1. Len(q) <= Len(t) /\ Len(t) - Len(q) = n
    BY <1>1, <1>3
  <2>2. /\ At(q, p, t) \in Path /\ Len(At(q, p, t)) = Len(p) + n
        /\ (\A i \in 1..Len(p) : At(q, p, t)[i] = p[i])
        /\ \A i \in 1..n : At(q, p, t)[Len(p) + i] = t[Len(q) + i]
    <3>1. /\ At(q, p, t) \in Path /\ Len(At(q, p, t)) = Len(p) + (Len(t) - Len(q))
          /\ (\A i \in 1..Len(p) : At(q, p, t)[i] = p[i])
          /\ \A i \in 1..(Len(t) - Len(q)) : At(q, p, t)[Len(p) + i] = t[Len(q) + i]
      BY <1>2, <1>3, <2>1
    <3> QED BY <2>1, <3>1
  <2>3. Len(At(q, p, t)) = Len(r)
    BY <1>1, <2>2
  <2>4. ASSUME NEW i \in 1..Len(r) PROVE At(q, p, t)[i] = r[i]
    <3>1. CASE i <= Len(p)
      <4>1. i \in 1..Len(p)
        BY <1>1, <3>1
      <4> QED BY <1>1, <2>2, <4>1
    <3>2. CASE ~(i <= Len(p))
      <4>1. i - Len(p) \in 1..n /\ Len(p) + (i - Len(p)) = i
        BY <1>1, <3>2
      <4> QED BY <1>3, <2>2, <4>1
    <3> QED BY <3>1, <3>2
  <2> QED BY <2>2, <2>3, <2>4, PathEqual
<1>6. At(p, q, p) = q
  <2>1. /\ At(p, q, p) \in Path /\ Len(At(p, q, p)) = Len(q) + (Len(p) - Len(p))
        /\ \A i \in 1..Len(q) : At(p, q, p)[i] = q[i]
    <3>1. Len(p) <= Len(p)
      BY <1>1
    <3> QED BY <1>2, <3>1
  <2>2. Len(At(p, q, p)) = Len(q)
    BY <1>1, <2>1
  <2> QED BY <2>1, <2>2, PathEqual
<1>7. ASSUME r # p PROVE Front(t) = At(p, q, Front(r)) /\ t # <<>> /\ t # q
  <2>1. r # <<>> /\ IsPrefix(p, Front(r))
    BY <1>7, PrefixFront
  <2>2. /\ Front(r) \in Path /\ Len(Front(r)) = Len(r) - 1 /\ Len(p) <= Len(Front(r))
        /\ \A i \in 1..(Len(r) - 1) : Front(r)[i] = r[i]
    BY <2>1, FrontOf, PrefixAt
  <2>3. n >= 1 /\ Len(t) # 0 /\ Len(t) # Len(q)
    BY <1>1, <1>3, <2>2
  <2>4. t # <<>> /\ t # q
    BY <2>3
  <2>5. /\ Front(t) \in Path /\ Len(Front(t)) = Len(t) - 1
        /\ \A i \in 1..(Len(t) - 1) : Front(t)[i] = t[i]
    BY <1>3, <2>4, FrontOf
  <2> DEFINE v == At(p, q, Front(r))
  <2>6. /\ v \in Path /\ Len(v) = Len(q) + (Len(Front(r)) - Len(p))
        /\ (\A i \in 1..Len(q) : v[i] = q[i])
        /\ \A i \in 1..(Len(Front(r)) - Len(p)) : v[Len(q) + i] = Front(r)[Len(p) + i]
    BY <1>2, <2>2
  <2> HIDE DEF v
  <2>7. Len(v) = Len(Front(t)) /\ Len(v) = Len(q) + (n - 1)
    BY <1>1, <1>3, <2>2, <2>5, <2>6
  <2>8. ASSUME NEW i \in 1..Len(v) PROVE Front(t)[i] = v[i]
    <3>1. Front(t)[i] = t[i]
      BY <1>1, <1>3, <2>5, <2>7
    <3>2. CASE i <= Len(q)
      <4>1. i \in 1..Len(q)
        BY <1>1, <2>7, <3>2
      <4> QED BY <1>3, <2>6, <3>1, <4>1
    <3>3. CASE ~(i <= Len(q))
      <4> DEFINE k == i - Len(q)
      <4>1. /\ k \in 1..n /\ k \in 1..(Len(Front(r)) - Len(p)) /\ Len(q) + k = i
            /\ Len(p) + k \in 1..(Len(r) - 1)
        BY <1>1, <2>2, <2>7, <3>3
      <4>2. t[i] = r[Len(p) + k] /\ v[i] = Front(r)[Len(p) + k]
        BY <1>3, <2>6, <4>1
      <4> QED BY <2>2, <3>1, <4>1, <4>2
    <3> QED BY <3>2, <3>3
  <2>9. Front(t) = v
    BY <2>5, <2>6, <2>7, <2>8, PathEqual
  <2> QED BY <2>4, <2>9 DEF v
<1> QED BY <1>3, <1>4, <1>5, <1>6, <1>7 DEF t

-----------------------------------------------------------------------------
(* Files                                                                   *)

\* What lies on the way to a path that exists are directories that exist.
LEMMA TreeClosed ==
  ASSUME NEW files, IsTree(files), NEW r \in DOMAIN files, NEW q \in Path, IsPrefix(q, r), q # r
  PROVE  q \in DOMAIN files /\ files[q] = Dir
<1> DEFINE T == {n \in Nat : \A s \in DOMAIN files :
                    Len(s) = n /\ IsPrefix(q, s) /\ q # s => q \in DOMAIN files /\ files[q] = Dir}
<1>1. 0 \in T
  <2>1. ASSUME NEW s \in DOMAIN files, Len(s) = 0, IsPrefix(q, s), q # s PROVE FALSE
    <3>1. s \in Path
      BY DEF IsTree, Path
    <3> QED BY <2>1, <3>1, PathTypes, PrefixFront
  <2> QED BY <2>1
<1>2. ASSUME NEW n \in Nat, n \in T PROVE n + 1 \in T
  <2>1. ASSUME NEW s \in DOMAIN files, Len(s) = n + 1, IsPrefix(q, s), q # s
        PROVE  q \in DOMAIN files /\ files[q] = Dir
    <3>1. s \in Path
      BY DEF IsTree, Path
    <3>2. s # <<>> /\ IsPrefix(q, Front(s))
      BY <2>1, <3>1, PrefixFront
    <3>3. Front(s) \in DOMAIN files /\ files[Front(s)] = Dir
      BY <3>2 DEF IsTree
    <3>4. Len(Front(s)) = n
      BY <2>1, <3>1, <3>2, FrontOf
    <3>5. CASE q = Front(s)
      BY <3>3, <3>5
    <3>6. CASE q # Front(s)
      BY <1>2, <3>2, <3>3, <3>4, <3>6
    <3> QED BY <3>5, <3>6
  <2> QED BY <2>1
<1> HIDE DEF T
<1>3. Nat \subseteq T
  BY <1>1, <1>2, ApplyFold!NatSet
<1>4. r \in Path /\ Len(r) \in Nat
  BY PathTypes DEF IsTree, Path
<1>5. Len(r) \in T
  BY <1>3, <1>4
<1> QED BY <1>5 DEF T

\* A new name in a directory
LEMMA TreeGrows ==
  ASSUME NEW files, IsTree(files), NEW p \in Path, p \notin DOMAIN files, p # <<>>,
         Front(p) \in DOMAIN files, files[Front(p)] = Dir, NEW m \in Metas
  PROVE  IsTree([q \in DOMAIN files \cup {p} |-> IF q = p THEN m ELSE files[q]])
<1> DEFINE new == [q \in DOMAIN files \cup {p} |-> IF q = p THEN m ELSE files[q]]
<1>1. /\ DOMAIN new = DOMAIN files \cup {p}
      /\ \A q \in DOMAIN new : new[q] = IF q = p THEN m ELSE files[q]
  OBVIOUS
<1> HIDE DEF new
<1>2. DOMAIN new \subseteq Seq(Names) /\ IsFiniteSet(DOMAIN new)
  BY <1>1, FS_AddElement DEF IsTree, Path
<1>3. new \in [DOMAIN new -> Metas]
  BY <1>1 DEF IsTree, new
<1>4. <<>> \in DOMAIN new /\ new[<<>>] = Dir
  BY <1>1 DEF IsTree
<1>5. ASSUME NEW q \in DOMAIN new, q # <<>> PROVE Front(q) \in DOMAIN new /\ new[Front(q)] = Dir
  <2>1. Front(q) \in DOMAIN files /\ files[Front(q)] = Dir
    BY <1>1, <1>5 DEF IsTree
  <2> QED BY <1>1, <2>1
<1> QED BY <1>2, <1>3, <1>4, <1>5 DEF IsTree, new

\* A file becomes another one.
LEMMA TreeWritten ==
  ASSUME NEW files, IsTree(files), NEW p \in DOMAIN files, files[p] # Dir, NEW m \in Metas
  PROVE  IsTree([files EXCEPT ![p] = m])
<1> DEFINE new == [files EXCEPT ![p] = m]
<1>1. DOMAIN new = DOMAIN files /\ \A q \in DOMAIN files : new[q] = IF q = p THEN m ELSE files[q]
  BY DEF IsTree
<1>2. new \in [DOMAIN new -> Metas]
  BY DEF IsTree
<1> HIDE DEF new
<1>3. <<>> \in DOMAIN new /\ new[<<>>] = Dir
  BY <1>1 DEF IsTree
<1>4. ASSUME NEW q \in DOMAIN new, q # <<>> PROVE Front(q) \in DOMAIN new /\ new[Front(q)] = Dir
  <2>1. Front(q) \in DOMAIN files /\ files[Front(q)] = Dir
    BY <1>1, <1>4 DEF IsTree
  <2> QED BY <1>1, <2>1
<1>5. IsTree(new)
  BY <1>1, <1>2, <1>3, <1>4 DEF IsTree
<1> QED BY <1>5 DEF new

\* What has nothing below it goes.
LEMMA TreeShrinks ==
  ASSUME NEW files, IsTree(files), NEW p \in DOMAIN files, p # <<>>,
         \A q \in DOMAIN files : IsPrefix(p, q) => q = p
  PROVE  IsTree([q \in DOMAIN files \ {p} |-> files[q]])
<1> DEFINE new == [q \in DOMAIN files \ {p} |-> files[q]]
<1>1. DOMAIN new = DOMAIN files \ {p} /\ \A q \in DOMAIN new : new[q] = files[q]
  OBVIOUS
<1>2. new \in [DOMAIN new -> Metas]
  BY DEF IsTree
<1> HIDE DEF new
<1>3. DOMAIN new \subseteq Seq(Names) /\ IsFiniteSet(DOMAIN new)
  BY <1>1, FS_RemoveElement DEF IsTree
<1>4. <<>> \in DOMAIN new /\ new[<<>>] = Dir
  BY <1>1 DEF IsTree
<1>5. ASSUME NEW q \in DOMAIN new, q # <<>> PROVE Front(q) \in DOMAIN new /\ new[Front(q)] = Dir
  <2>1. q \in DOMAIN files /\ q # p /\ Front(q) \in DOMAIN files /\ files[Front(q)] = Dir
    BY <1>1, <1>5 DEF IsTree
  <2>2. q \in Path /\ p \in Path
    BY <2>1 DEF IsTree, Path
  <2>3. Front(q) # p
    BY <1>5, <2>1, <2>2, PrefixFront
  <2> QED BY <1>1, <2>1, <2>3
<1>6. IsTree(new)
  BY <1>2, <1>3, <1>4, <1>5 DEF IsTree
<1> QED BY <1>6 DEF new

\* What a rename may do: p is there, q is another name for it, in a directory, and
\* no directory is replaced.
CanMove(p, q) ==
  /\ p \in DOMAIN tree /\ p # <<>>
  /\ q \in Path /\ q # <<>> /\ ~IsPrefix(p, q)
  /\ Front(q) \in DOMAIN tree /\ tree[Front(q)] = Dir
  /\ q \in DOMAIN tree => tree[q] # Dir

Stays(p, q) == DOMAIN tree \ (Below(p) \cup {q})

\* After a rename everything below the old name is below the new one, and the
\* rest is where it was.
LEMMA MovedFiles ==
  ASSUME IsTree(tree), NEW p, NEW q, CanMove(p, q)
  PROVE  /\ p \in Path /\ \A r \in Below(p) : r \in Path
         /\ DOMAIN Moved(p, q) = Stays(p, q) \cup {At(p, q, r) : r \in Below(p)}
         /\ \A r \in Below(p) : Moved(p, q)[At(p, q, r)] = tree[r] /\ At(p, q, r) \notin Stays(p, q)
         /\ \A r \in Stays(p, q) : Moved(p, q)[r] = tree[r] /\ ~IsPrefix(q, r)
<1> DEFINE moved == {At(p, q, r) : r \in Below(p)}
           new   == Moved(p, q)
<1>1. p \in Path /\ (\A r \in Below(p) : r \in Path) /\ q \in Path /\ (\A r \in DOMAIN tree : r \in Path)
  BY DEF CanMove, IsTree, Path, Below
<1>2. /\ DOMAIN new = Stays(p, q) \cup moved
      /\ \A r \in moved : new[r] = tree[At(q, p, r)]
      /\ \A r \in Stays(p, q) : r \notin moved => new[r] = tree[r]
  BY DEF Moved, Stays, At
<1>3. ASSUME NEW r \in Stays(p, q) PROVE ~IsPrefix(q, r)
  <2> SUFFICES ASSUME IsPrefix(q, r) PROVE FALSE
    OBVIOUS
  <2>1. r \in DOMAIN tree /\ r # q
    BY DEF Stays
  <2> QED BY <1>1, <2>1, TreeClosed DEF CanMove
<1>4. ASSUME NEW r \in Below(p) PROVE new[At(p, q, r)] = tree[r] /\ At(p, q, r) \notin Stays(p, q)
  <2>1. r \in Path /\ IsPrefix(p, r)
    BY <1>1 DEF Below
  <2>2. IsPrefix(q, At(p, q, r)) /\ At(q, p, At(p, q, r)) = r
    BY <1>1, <2>1, Replanted
  <2> QED BY <1>2, <1>3, <2>2
<1>5. ASSUME NEW r \in Stays(p, q) PROVE new[r] = tree[r]
  BY <1>2, <1>4
<1> QED BY <1>1, <1>2, <1>3, <1>4, <1>5

LEMMA TreeMoves ==
  ASSUME IsTree(tree), NEW p, NEW q, CanMove(p, q)
  PROVE  IsTree(Moved(p, q))
<1> DEFINE new   == Moved(p, q)
           moved == {At(p, q, r) : r \in Below(p)}
<1>1. /\ p \in Path /\ (\A r \in Below(p) : r \in Path /\ IsPrefix(p, r) /\ r \in DOMAIN tree)
      /\ q \in Path /\ \A r \in DOMAIN tree : r \in Path
  BY DEF CanMove, IsTree, Path, Below
<1>2. /\ DOMAIN new = Stays(p, q) \cup moved
      /\ \A r \in Below(p) : new[At(p, q, r)] = tree[r] /\ At(p, q, r) \notin Stays(p, q)
      /\ \A r \in Stays(p, q) : new[r] = tree[r] /\ ~IsPrefix(q, r)
  BY MovedFiles
<1>3. new = [r \in DOMAIN new |-> new[r]]
  BY DEF Moved
<1> HIDE DEF new
<1>4. DOMAIN new \subseteq Seq(Names)
  <2>1. \A r \in Below(p) : At(p, q, r) \in Path
    BY <1>1, Replanted
  <2>2. \A r \in Stays(p, q) : r \in Path
    BY <1>1 DEF Stays
  <2> QED BY <1>2, <2>1, <2>2 DEF Path
<1>5. IsFiniteSet(DOMAIN new)
  <2>1. IsFiniteSet(Below(p)) /\ IsFiniteSet(Stays(p, q))
    BY FS_Subset DEF IsTree, Below, Stays
  <2>2. IsFiniteSet(moved)
    <3> DEFINE f == [r \in Below(p) |-> At(p, q, r)]
    <3>1. f \in Surjection(Below(p), moved)
      BY DEF Surjection
    <3> QED BY <2>1, <3>1, FS_Surjection
  <2> QED BY <1>2, <2>1, <2>2, FS_Union
<1>6. new \in [DOMAIN new -> Metas]
  <2>1. \A r \in DOMAIN tree : tree[r] \in Metas
    BY DEF IsTree
  <2>2. \A r \in DOMAIN new : new[r] \in Metas
    BY <1>1, <1>2, <2>1 DEF Stays
  <2> QED BY <1>3, <2>2
<1>7. <<>> \in DOMAIN new /\ new[<<>>] = Dir
  <2>1. <<>> \in Stays(p, q)
    BY <1>1, PrefixFront DEF IsTree, Stays, Below, CanMove
  <2> QED BY <1>2, <2>1 DEF IsTree
<1>8. ASSUME NEW r \in DOMAIN new, r # <<>> PROVE Front(r) \in DOMAIN new /\ new[Front(r)] = Dir
  <2>1. CASE r \in Stays(p, q)
    <3>1. r \in DOMAIN tree /\ ~IsPrefix(p, r) /\ ~IsPrefix(q, r) /\ r \in Path
      BY <1>1, <1>2, <2>1 DEF Stays, Below
    <3>2. Front(r) \in DOMAIN tree /\ tree[Front(r)] = Dir
      BY <1>8, <3>1 DEF IsTree
    <3>3. ~IsPrefix(p, Front(r)) /\ Front(r) # q
      BY <1>1, <1>8, <3>1, PrefixFront
    <3>4. Front(r) \in Stays(p, q)
      BY <3>2, <3>3 DEF Stays, Below
    <3> QED BY <1>2, <3>2, <3>4
  <2>2. CASE r \in moved
    <3>1. PICK s \in Below(p) : r = At(p, q, s)
      BY <2>2
    <3>2. CASE s = p
      <4>1. r = q
        BY <1>1, <3>1, <3>2, Replanted
      <4>2. Front(q) \in DOMAIN tree /\ tree[Front(q)] = Dir /\ q # <<>> /\ ~IsPrefix(p, q)
        BY DEF CanMove
      <4>3. ~IsPrefix(p, Front(q)) /\ Front(q) # q
        <5>1. Len(q) \in Nat \ {0} /\ Len(Front(q)) = Len(q) - 1
          BY <1>1, <4>2, FrontOf
        <5>2. ~IsPrefix(p, Front(q))
          BY <1>1, <4>2, PrefixFront
        <5> QED BY <5>1, <5>2
      <4>4. Front(q) \in Stays(p, q)
        BY <4>2, <4>3 DEF Stays, Below
      <4> QED BY <1>2, <4>1, <4>2, <4>4
    <3>3. CASE s # p
      <4>1. Front(r) = At(p, q, Front(s))
        BY <1>1, <3>1, <3>3, Replanted
      <4>2. s # <<>> /\ IsPrefix(p, Front(s))
        BY <1>1, <3>3, PrefixFront
      <4>3. Front(s) \in DOMAIN tree /\ tree[Front(s)] = Dir
        BY <1>1, <4>2 DEF IsTree
      <4>4. Front(s) \in Below(p)
        BY <4>2, <4>3 DEF Below
      <4> QED BY <1>2, <4>1, <4>3, <4>4
    <3> QED BY <3>2, <3>3
  <2> QED BY <1>2, <2>1, <2>2
<1>9. IsTree(new)
  BY <1>4, <1>5, <1>6, <1>7, <1>8 DEF IsTree
<1> QED BY <1>9 DEF new

-----------------------------------------------------------------------------
(* The files and the watcher                                               *)

Report == [kind : {"create", "remove", "modify", "both"}, path : Path, old : Path]
Event  == [kind : {"created", "removed", "metadata", "renamed"}, path : Path, old : Path,
           meta : Metas \cup {NoMeta}]

FilesInv ==
  /\ scenario \in Scenarios
  /\ IsTree(tree)
  /\ told \in Seq(Report) /\ pending \in Seq(Event)
  /\ ~May("batch") => Len(pending) <= 1

\* What the actions do to the files
FilesNext ==
  \/ \E p \in Paths :
       \/ \E m \in Metas : Create(p, m)
       \/ Modify(p) \/ Delete(p) \/ MoveOut(p)
       \/ \E q \in Paths : Rename(p, q)
       \/ \E v \in Versions : MoveIn(p, v)

LEMMA PathsAre == ASSUME scenario \in Scenarios PROVE Paths \subseteq Path
<1>1. scenario.names \subseteq Names
  BY LiveUpdatesAssumption
<1>2. ASSUME NEW n \in 0..2, NEW p \in [1..n -> scenario.names] PROVE p \in Path
  <2>1. n \in Nat /\ p \in [1..n -> Names]
    BY <1>1
  <2> QED BY <2>1, SeqDef DEF Path
<1> QED BY <1>2 DEF Paths

LEMMA RenameMoves ==
  ASSUME FilesInv, NEW p \in Paths, NEW q \in Paths, Rename(p, q)
  PROVE  CanMove(p, q)
<1>1. p \in Path /\ q \in Path
  BY PathsAre DEF FilesInv
<1>2. CASE Free(q)
  BY <1>1, <1>2 DEF Rename, CanMove, Free, IsDir
<1>3. CASE q \in DOMAIN tree /\ ~IsDir(p) /\ ~IsDir(q)
  <2>1. q # <<>> /\ tree[q] # Dir
    BY <1>3 DEF FilesInv, IsTree, IsDir
  <2>2. Front(q) \in DOMAIN tree /\ tree[Front(q)] = Dir
    BY <1>3, <2>1 DEF FilesInv, IsTree
  <2> QED BY <1>1, <2>1, <2>2 DEF Rename, CanMove
<1> QED BY <1>2, <1>3 DEF Rename

LEMMA FilesStayTree ==
  ASSUME FilesInv, FilesNext
  PROVE  IsTree(tree')
<1>1. IsTree(tree) /\ Paths \subseteq Path /\ \A v \in Versions : File(v) \in Metas /\ File(v) # Dir
  BY PathsAre DEF FilesInv, Metas, File, Dir
<1>2. ASSUME NEW p \in Paths, NEW m \in Metas, Create(p, m) PROVE IsTree(tree')
  <2>1. tree' = [q \in DOMAIN tree \cup {p} |-> IF q = p THEN m ELSE tree[q]]
    BY <1>2 DEF Create, Change
  <2>2. p \in Path /\ p \notin DOMAIN tree /\ p # <<>> /\ Front(p) \in DOMAIN tree /\ tree[Front(p)] = Dir
    BY <1>1, <1>2 DEF Create, Free, IsDir
  <2> QED BY <1>1, <2>1, <2>2, TreeGrows
<1>3. ASSUME NEW p \in Paths, Modify(p) PROVE IsTree(tree')
  <2>1. PICK v \in Versions : /\ p \in DOMAIN tree /\ tree[p] \in {File(w) : w \in Versions \ {v}}
                              /\ tree' = [tree EXCEPT ![p] = File(v)]
    BY <1>3 DEF Modify, Change
  <2> QED BY <1>1, <2>1, TreeWritten
<1>4. ASSUME NEW p \in Paths, Delete(p) \/ MoveOut(p) PROVE IsTree(tree')
  <2>1. /\ p # <<>> /\ p \in DOMAIN tree /\ Below(p) = {p}
        /\ tree' = [q \in DOMAIN tree \ {p} |-> tree[q]]
    BY <1>4 DEF Delete, MoveOut, Change
  <2>2. \A q \in DOMAIN tree : IsPrefix(p, q) => q = p
    BY <2>1 DEF Below
  <2> QED BY <1>1, <2>1, <2>2, TreeShrinks
<1>5. ASSUME NEW p \in Paths, NEW q \in Paths, Rename(p, q) PROVE IsTree(tree')
  <2>1. tree' = Moved(p, q)
    BY <1>5 DEF Rename, Change
  <2> QED BY <1>1, <1>5, <2>1, RenameMoves, TreeMoves
<1>6. ASSUME NEW p \in Paths, NEW v \in Versions, MoveIn(p, v) PROVE IsTree(tree')
  <2>1. tree' = [q \in DOMAIN tree \cup {p} |-> IF q = p THEN File(v) ELSE tree[q]]
    BY <1>6 DEF MoveIn, Change
  <2>2. p \in Path /\ p \notin DOMAIN tree /\ p # <<>> /\ Front(p) \in DOMAIN tree /\ tree[Front(p)] = Dir
    BY <1>1, <1>6 DEF MoveIn, Free, IsDir
  <2> QED BY <1>1, <2>1, <2>2, TreeGrows
<1> QED BY <1>2, <1>3, <1>4, <1>5, <1>6 DEF FilesNext

LEMMA ReportsTyped ==
  ASSUME FilesInv, FilesNext
  PROVE  told' \in Seq(Report) /\ UNCHANGED <<scenario, pending, index>>
<1>1. Paths \subseteq Path
  BY PathsAre DEF FilesInv
<1>2. \A p, q \in Paths : \A kind \in {"create", "remove", "modify", "both"} :
        Told(kind, p, q) \in Report
  BY <1>1 DEF Told, Report
<1>3. told \in Seq(Report)
  BY DEF FilesInv
<1>4. ASSUME NEW p \in Paths, NEW kind \in {"create", "remove", "modify"},
             told' = told \o <<Told(kind, p, p)>>
      PROVE  told' \in Seq(Report)
  BY <1>2, <1>3, <1>4
<1>5. ASSUME NEW p \in Paths, NEW q \in Paths, Rename(p, q)
      PROVE  told' \in Seq(Report)
  <2>1. Told("modify", p, p) \in Report /\ Told("modify", q, q) \in Report /\ Told("both", q, p) \in Report
    BY <1>2
  <2>2. <<Told("modify", p, p), Told("modify", q, q), Told("both", q, p)>> \in Seq(Report)
    BY <2>1
  <2> QED BY <1>3, <1>5, <2>2 DEF Rename, Change
<1>6. UNCHANGED <<scenario, pending, index>>
  BY DEF FilesNext, Create, Modify, Delete, MoveOut, Rename, MoveIn, Change
<1> QED BY <1>4, <1>5, <1>6 DEF FilesNext, Create, Modify, Delete, MoveOut, MoveIn, Change

LEMMA FilesInvKept ==
  ASSUME FilesInv, UNCHANGED <<scenario, tree, told, pending>>
  PROVE  FilesInv'
BY DEF FilesInv, May

\* An event says what is there when the path is looked at.
LEMMA EventTyped == ASSUME FilesInv, NEW t \in Report PROVE EventOf(t) \in Event
<1>1. MetaNow(t.path) \in Metas \cup {NoMeta}
  BY DEF MetaNow, FilesInv, IsTree
<1> QED BY <1>1 DEF EventOf, WatchEvent, Report, Event

LEMMA FilesInvStep ==
  ASSUME FilesInv, FilesNext \/ Callback \/ Apply
  PROVE  FilesInv'
<1>1. CASE FilesNext
  BY <1>1, FilesStayTree, ReportsTyped DEF FilesInv, May
<1>2. CASE Callback
  <2>1. EventOf(Head(told)) \in Event /\ Tail(told) \in Seq(Report)
    BY <1>2, EventTyped DEF Callback, FilesInv
  <2>2. pending' \in Seq(Event) /\ (pending = <<>> => Len(pending') = 1)
    BY <1>2, <2>1 DEF Callback, FilesInv
  <2> QED BY <1>2, <2>1, <2>2 DEF Callback, FilesInv, May
<1>3. CASE Apply
  BY <1>3 DEF Apply, FilesInv, May
<1> QED BY <1>1, <1>2, <1>3

-----------------------------------------------------------------------------
(* The index                                                               *)

Record == [parent : Nat, name : Names \cup {NoName}, meta : Metas]

\* Records whose parents are records or the root
AreRecords(records) ==
  /\ records \in Seq(Record)
  /\ \A i \in DOMAIN records : records[i].parent \in 0..Len(records)

IsIndex(ix) ==
  /\ AreRecords(ix.records)
  /\ DOMAIN ix.paths = DOMAIN ix.records /\ Len(ix.paths) = Len(ix.records)

\* An event as the index gets it
LiveType == {e \in Event : e.kind # "removed" => e.meta \in Metas}

LEMMA RebuiltIsIndex == ASSUME NEW records, AreRecords(records) PROVE IsIndex(Rebuilt(records))
<1> DEFINE paths == [i \in DOMAIN records |-> PathFor(records, i)]
           S     == {PathFor(records, i) : i \in DOMAIN records}
<1>1. DOMAIN records = 1..Len(records) /\ Len(records) \in Nat
  BY DEF AreRecords
<1>2. paths \in [1..Len(records) -> S]
  BY <1>1
<1>3. paths \in Seq(S) /\ DOMAIN paths = 1..Len(records)
  BY <1>1, <1>2, SeqDef
<1>4. Len(paths) = Len(records)
  <2> HIDE DEF paths, S
  <2>1. Len(paths) \in Nat /\ DOMAIN paths = 1..Len(paths)
    BY <1>3, LenProperties
  <2> QED BY <1>1, <1>3, <2>1
<1>5. Rebuilt(records).records = records /\ Rebuilt(records).paths = paths
  BY DEF Rebuilt
<1> QED BY <1>1, <1>3, <1>4, <1>5 DEF IsIndex

\* What is looked up is a record or nothing.
LEMMA LookupFinds ==
  ASSUME NEW ix, NEW n \in Nat, DOMAIN ix.paths = 1..n, NEW path
  PROVE  /\ Lookup(ix, path) \in 0..n
         /\ Lookup(ix, path) # 0 => ix.paths[Lookup(ix, path)] = path
<1> DEFINE found == {i \in DOMAIN ix.paths : ix.paths[i] = path}
<1>1. CASE found = {}
  BY <1>1 DEF Lookup
<1>2. CASE found # {}
  <2>1. found \subseteq Nat /\ found \subseteq 1..n
    OBVIOUS
  <2>2. \E m \in found : \A k \in found : m <= k
    <3> HIDE DEF found
    <3> QED BY <1>2, <2>1, ApplyFold!Least
  <2>3. (CHOOSE i \in found : \A j \in found : i <= j) \in found
    <3> HIDE DEF found
    <3> QED BY <2>2
  <2>4. Lookup(ix, path) = CHOOSE i \in found : \A j \in found : i <= j
    BY <1>2 DEF Lookup
  <2>5. Lookup(ix, path) \in found
    BY <2>3, <2>4
  <2> QED BY <2>5
<1> QED BY <1>1, <1>2

\* The numbers that are kept get the numbers from 1 on, every one once.
LEMMA KeptNumbers ==
  ASSUME NEW n \in Nat, NEW keep \in SUBSET (1..n)
  PROVE  /\ IsFiniteSet(keep) /\ Cardinality(keep) \in Nat /\ Cardinality(keep) <= n
         /\ \A p \in keep : Cardinality({k \in keep : k <= p}) \in 1..Cardinality(keep)
         /\ \A m \in 1..Cardinality(keep) :
              Kept(keep)[m] \in keep /\ Cardinality({k \in keep : k <= Kept(keep)[m]}) = m
         /\ \A p \in keep : Kept(keep)[Cardinality({k \in keep : k <= p})] = p
<1> DEFINE upto(p) == {k \in keep : k <= p}
           rank == [p \in keep |-> Cardinality(upto(p))]
<1>1. IsFiniteSet(keep) /\ Cardinality(keep) \in Nat /\ Cardinality(keep) <= n
  <2>1. IsFiniteSet(1..n) /\ Cardinality(1..n) = n
    BY FS_Interval
  <2> QED BY <2>1, FS_Subset, FS_CardinalityType
<1>2. ASSUME NEW p \in keep PROVE Cardinality(upto(p)) \in 1..Cardinality(keep)
  <2>1. upto(p) \in SUBSET keep /\ p \in upto(p)
    OBVIOUS
  <2> HIDE DEF upto
  <2>2. IsFiniteSet(upto(p)) /\ Cardinality(upto(p)) <= Cardinality(keep)
    BY <1>1, <2>1, FS_Subset
  <2>3. Cardinality(upto(p)) \in Nat /\ Cardinality(upto(p)) # 0
    BY <2>1, <2>2, FS_CardinalityType, FS_EmptySet
  <2> QED BY <1>1, <2>2, <2>3
<1>3. ASSUME NEW p \in keep, NEW q \in keep, p < q PROVE rank[p] # rank[q]
  <2>1. upto(p) \in SUBSET upto(q) /\ q \in upto(q) /\ q \notin upto(p) /\ upto(q) \in SUBSET keep
    <3>1. p \in Nat /\ q \in Nat /\ \A k \in keep : k \in Nat
      OBVIOUS
    <3>2. \A k \in keep : k <= p => k <= q
      BY <1>3, <3>1
    <3>3. q <= q /\ ~(q <= p)
      BY <1>3, <3>1
    <3> QED BY <3>2, <3>3
  <2> HIDE DEF upto
  <2>2. IsFiniteSet(upto(q))
    BY <1>1, <2>1, FS_Subset
  <2>3. Cardinality(upto(q)) # Cardinality(upto(p))
    BY <2>1, <2>2, FS_Subset
  <2> QED BY <2>3
<1>4. rank \in Injection(keep, 1..Cardinality(keep))
  <2>1. rank \in [keep -> 1..Cardinality(keep)]
    BY <1>2
  <2>2. \A p, q \in keep : rank[p] = rank[q] => p = q
    <3> HIDE DEF rank
    <3>1. \A p, q \in keep : p < q \/ q < p \/ p = q
      OBVIOUS
    <3> QED BY <1>3, <3>1
  <2> QED BY <2>1, <2>2 DEF Injection, IsInjective
<1>5. rank \in Surjection(keep, 1..Cardinality(keep))
  <2>1. IsFiniteSet(1..Cardinality(keep)) /\ Cardinality(1..Cardinality(keep)) = Cardinality(keep)
    BY <1>1, FS_Interval
  <2> HIDE DEF rank
  <2> QED BY <1>4, <2>1, FS_Injection
<1>6. ASSUME NEW m \in 1..Cardinality(keep)
      PROVE  Kept(keep)[m] \in keep /\ Cardinality({k \in keep : k <= Kept(keep)[m]}) = m
  <2>1. \E p \in keep : Cardinality({k \in keep : k <= p}) = m
    BY <1>5 DEF Surjection
  <2>2. Kept(keep)[m] = CHOOSE i \in keep : Cardinality({k \in keep : k <= i}) = m
    BY DEF Kept
  <2> QED BY <2>1, <2>2
<1>7. ASSUME NEW p \in keep PROVE Kept(keep)[Cardinality({k \in keep : k <= p})] = p
  <2> DEFINE q == Kept(keep)[Cardinality(upto(p))]
  <2>1. q \in keep /\ Cardinality({k \in keep : k <= q}) = Cardinality(upto(p))
    BY <1>2, <1>6
  <2>2. rank[q] = rank[p]
    BY <2>1
  <2> HIDE DEF q, rank
  <2>3. q = p
    BY <1>4, <2>1, <2>2 DEF Injection, IsInjective
  <2> QED BY <2>3 DEF q
<1> QED BY <1>1, <1>2, <1>6, <1>7

\* What is left is closed up: every parent is a record that is left, or the root.
LEMMA CompactedAreRecords ==
  ASSUME NEW records, AreRecords(records), NEW keep \in SUBSET (DOMAIN records)
  PROVE  AreRecords(Compacted(records, keep))
<1> DEFINE new == Compacted(records, keep)
           c   == Cardinality(keep)
           parent(p) == IF p \in keep THEN Cardinality({k \in keep : k <= p}) ELSE RootParent
           old == Kept(keep)
<1>1. DOMAIN records = 1..Len(records) /\ Len(records) \in Nat /\ \A i \in DOMAIN records : records[i] \in Record
  BY DEF AreRecords
<1>2. /\ c \in Nat
      /\ \A p \in keep : Cardinality({k \in keep : k <= p}) \in 1..c
      /\ \A m \in 1..c : old[m] \in keep
  BY <1>1, KeptNumbers
<1>3. \A p : parent(p) \in 0..c
  BY <1>2 DEF RootParent
<1> HIDE DEF parent
<1>4. DOMAIN old = 1..c
  BY DEF Kept
<1>5. new = [m \in 1..c |-> [records[old[m]] EXCEPT !.parent = parent(@)]]
  BY <1>4 DEF Compacted, parent
<1> HIDE DEF new, old, c
<1>6. ASSUME NEW m \in 1..c PROVE new[m] \in Record /\ new[m].parent \in 0..c
  <2>1. records[old[m]] \in Record
    BY <1>1, <1>2
  <2>2. new[m] = [records[old[m]] EXCEPT !.parent = parent(@)]
    BY <1>5
  <2>3. parent(records[old[m]].parent) \in 0..c
    BY <1>3
  <2> QED BY <1>2, <2>1, <2>2, <2>3 DEF Record
<1>7. new \in [1..c -> Record] /\ DOMAIN new = 1..c
  BY <1>5, <1>6
<1>8. new \in Seq(Record)
  BY <1>2, <1>7, SeqDef
<1>9. Len(new) = c
  BY <1>2, <1>7, <1>8, LenProperties
<1>10. AreRecords(new)
  BY <1>6, <1>7, <1>8, <1>9 DEF AreRecords
<1> QED BY <1>10 DEF new

LEMMA FilteredIsIndex ==
  ASSUME NEW ix, IsIndex(ix), NEW rules
  PROVE  IsIndex(FilterIndex(ix, rules))
<1> DEFINE selected == {i \in DOMAIN ix.records : Allows(rules, ix.paths[i])}
           kept     == {i \in DOMAIN ix.records :
                          i \in selected \/ \E j \in selected : i \in Ancestors(ix.records, j)}
<1>1. kept \in SUBSET (DOMAIN ix.records)
  OBVIOUS
<1>2. IsIndex(Rebuilt(Compacted(ix.records, kept)))
  <2> HIDE DEF kept
  <2> QED BY <1>1, CompactedAreRecords, RebuiltIsIndex DEF IsIndex
<1> QED BY <1>2 DEF FilterIndex

\* One event leaves records whose parents are records or the root.
LEMMA ApplyEventKeeps ==
  ASSUME NEW records, AreRecords(records), NEW paths, DOMAIN paths = DOMAIN records,
         NEW changed, NEW e \in LiveType
  PROVE  AreRecords(ApplyEvent([records |-> records, paths |-> paths, changed |-> changed], e).records)
<1> DEFINE ix == [records |-> records, paths |-> paths, changed |-> changed]
           n  == Len(records)
<1>1. n \in Nat /\ DOMAIN records = 1..n /\ ix.records = records /\ ix.paths = paths /\ DOMAIN ix.paths = 1..n
  BY DEF AreRecords
<1>2. \A path : Lookup(ix, path) \in 0..n
  BY <1>1, LookupFinds
<1>3. e.kind \in {"created", "removed", "metadata", "renamed"} /\ e.path \in Path
      /\ (e.kind # "removed" => e.meta \in Metas)
  BY DEF LiveType, Event
<1>4. e.path # <<>> => Last(e.path) \in Names
  BY <1>3, FrontOf
<1>5. ASSUME NEW i \in 0..n, e.kind # "removed" PROVE AreRecords(Refresh(ix, i, e.meta).records)
  <2>1. CASE i \notin DOMAIN records
    BY <1>1, <2>1 DEF Refresh
  <2>2. CASE i \in DOMAIN records
    <3>1. Refresh(ix, i, e.meta).records = [records EXCEPT ![i].meta = e.meta]
      BY <1>1, <2>2 DEF Refresh
    <3>2. [records[i] EXCEPT !.meta = e.meta] \in Record
          /\ [records[i] EXCEPT !.meta = e.meta].parent = records[i].parent
      <4>1. records[i] \in Record /\ e.meta \in Metas
        BY <1>3, <1>5, <2>2 DEF AreRecords
      <4> QED BY <4>1 DEF Record
    <3>3. AreRecords([records EXCEPT ![i] = [records[i] EXCEPT !.meta = e.meta]])
      BY <1>1, <2>2, <3>2, ExceptSeq DEF AreRecords
    <3> QED BY <3>1, <3>3
  <2> QED BY <2>1, <2>2
<1>6. ASSUME e.kind # "removed" PROVE AreRecords(AddRecord(ix, e.path, e.meta).records)
  <2>1. CASE Lookup(ix, e.path) # 0
    BY <1>2, <1>5, <1>6, <2>1 DEF AddRecord
  <2>2. CASE Lookup(ix, e.path) = 0 /\ e.path = <<>>
    BY <1>1, <2>2 DEF AddRecord
  <2>3. CASE Lookup(ix, e.path) = 0 /\ e.path # <<>>
    <3> DEFINE r == RecordOf(Lookup(ix, Front(e.path)), Last(e.path), e.meta)
    <3>1. r \in Record /\ r.parent \in 0..n
      BY <1>1, <1>2, <1>3, <1>4, <1>6, <2>3 DEF RecordOf, Record
    <3>2. AddRecord(ix, e.path, e.meta).records = Append(records, r)
      BY <1>1, <2>3 DEF AddRecord
    <3> HIDE DEF r
    <3>3. /\ Append(records, r) \in Seq(Record) /\ Len(Append(records, r)) = n + 1
          /\ \A i \in 1..n : Append(records, r)[i] = records[i]
          /\ Append(records, r)[n + 1] = r
      BY <3>1, AppendProperties DEF AreRecords
    <3> DEFINE new == Append(records, r)
    <3> HIDE DEF new
    <3>4. ASSUME NEW i \in 1..n + 1 PROVE new[i].parent \in 0..n + 1
      <4>1. CASE i \in 1..n
        BY <1>1, <3>3, <4>1 DEF AreRecords, new
      <4>2. CASE i = n + 1
        BY <1>1, <3>1, <3>3, <4>2 DEF new
      <4> QED BY <1>1, <4>1, <4>2
    <3>5. new \in Seq(Record) /\ Len(new) = n + 1 /\ DOMAIN new = 1..n + 1
      BY <3>3, LenProperties DEF new
    <3>6. AreRecords(new)
      BY <3>4, <3>5 DEF AreRecords
    <3> QED BY <3>2, <3>6 DEF new
  <2> QED BY <2>1, <2>2, <2>3
<1>7. ASSUME NEW i \in 0..n, e.kind # "removed" PROVE AreRecords(RenameRecord(ix, i, e.path, e.meta).records)
  <2>1. CASE e.path = <<>> \/ i \notin DOMAIN records
    BY <1>1, <2>1 DEF RenameRecord
  <2>2. CASE e.path # <<>> /\ i \in DOMAIN records
    <3> DEFINE r == RecordOf(Lookup(ix, Front(e.path)), Last(e.path), e.meta)
    <3>1. r \in Record /\ r.parent \in 0..n
      BY <1>1, <1>2, <1>3, <1>4, <1>7, <2>2 DEF RecordOf, Record
    <3>2. RenameRecord(ix, i, e.path, e.meta).records = [records EXCEPT ![i] = r]
      BY <1>1, <2>2 DEF RenameRecord
    <3> HIDE DEF r
    <3>3. AreRecords([records EXCEPT ![i] = r])
      BY <1>1, <2>2, <3>1, ExceptSeq DEF AreRecords
    <3> QED BY <3>2, <3>3
  <2> QED BY <2>1, <2>2
<1>8. AreRecords(RemoveSubtree(ix, Lookup(ix, e.path)).records)
  <2> DEFINE i == Lookup(ix, e.path)
             keep == DOMAIN records \ Subtree(records, i)
  <2>1. CASE i \in DOMAIN records
    <3>1. RemoveSubtree(ix, i).records = Compacted(records, keep)
      BY <1>1, <2>1 DEF RemoveSubtree
    <3>2. AreRecords(Compacted(records, keep))
      BY CompactedAreRecords
    <3> QED BY <3>1, <3>2
  <2>2. CASE i \notin DOMAIN records
    BY <1>1, <2>2 DEF RemoveSubtree
  <2> QED BY <2>1, <2>2
<1>9. CASE e.kind = "created"
  BY <1>6, <1>9 DEF ApplyEvent
<1>10. CASE e.kind = "removed"
  BY <1>8, <1>10 DEF ApplyEvent
<1>11. CASE e.kind = "renamed"
  BY <1>2, <1>6, <1>7, <1>11 DEF ApplyEvent
<1>12. CASE e.kind = "metadata"
  BY <1>2, <1>5, <1>12 DEF ApplyEvent
<1> QED BY <1>3, <1>9, <1>10, <1>11, <1>12

\* What reaches the index of an event: nothing, or one event that says what is there.
LEMMA LiveEventTyped ==
  ASSUME NEW e \in Event, NEW rules
  PROVE  LiveEvent(rules, e) = <<>> \/ \E f \in LiveType : LiveEvent(rules, e) = <<f>>
<1>1. e.kind \in {"created", "removed", "metadata", "renamed"} /\ e.meta \in Metas \cup {NoMeta} /\ e.old \in Path
  BY DEF Event
<1>2. WatchEvent("removed", e.old, e.old, NoMeta) \in LiveType
  BY <1>1 DEF WatchEvent, LiveType, Event
<1>3. e.kind = "removed" \/ e.meta # NoMeta => e \in LiveType
  BY <1>1 DEF LiveType
<1> QED BY <1>1, <1>2, <1>3 DEF LiveEvent

\* A batch of one event is what the event says.
LEMMA BatchOfOne ==
  ASSUME NEW e \in Event, NEW rules
  PROVE  LiveEvents(rules, Coalesced(<<e>>)) = LiveEvent(rules, e)
<1>1. CollapseOne(<<>>, e) = <<e>>
  BY DEF CollapseOne
<1>2. CoalesceOne(<<>>, e) = <<e>>
  BY DEF CoalesceOne
<1>3. FoldLeft(CollapseOne, <<>>, <<e>>) = <<e>>
  <2>1. FoldLeft(CollapseOne, <<>>, <<e>>) = CollapseFold!Fold(0, <<>>, <<e>>)
    BY Folds, Zenon
  <2>2. CollapseFold!Fold(0, <<>>, <<e>>) = CollapseOne(<<>>, e)
    BY CollapseFold!FoldOne
  <2> QED BY <1>1, <2>1, <2>2
<1>4. FoldLeft(CoalesceOne, <<>>, <<e>>) = <<e>>
  <2>1. FoldLeft(CoalesceOne, <<>>, <<e>>) = CoalesceFold!Fold(0, <<>>, <<e>>)
    BY Folds, Zenon
  <2>2. CoalesceFold!Fold(0, <<>>, <<e>>) = CoalesceOne(<<>>, e)
    BY CoalesceFold!FoldOne
  <2> QED BY <1>2, <2>1, <2>2
<1>5. Coalesced(<<e>>) = <<e>>
  BY <1>3, <1>4 DEF Coalesced
<1>6. LiveEvents(rules, <<e>>) = <<>> \o LiveEvent(rules, e)
  BY Folds, TellFold!FoldOne
<1>7. <<>> \o LiveEvent(rules, e) = LiveEvent(rules, e)
  <2>1. LiveEvent(rules, e) \in Seq(LiveType)
    <3>1. \A f \in LiveType : <<f>> \in Seq(LiveType)
      OBVIOUS
    <3>2. <<>> \in Seq(LiveType)
      OBVIOUS
    <3>3. LiveEvent(rules, e) = <<>> \/ \E f \in LiveType : LiveEvent(rules, e) = <<f>>
      BY LiveEventTyped
    <3> QED BY <3>1, <3>2, <3>3, Zenon
  <2> QED BY <2>1, ConcatEmptySeq
<1> QED BY <1>5, <1>6, <1>7

LEMMA SingleBatch ==
  ASSUME NEW events \in Seq(Event), Len(events) <= 1, NEW rules
  PROVE  LiveEvents(rules, Coalesced(events)) = <<>>
           \/ \E f \in LiveType : LiveEvents(rules, Coalesced(events)) = <<f>>
<1>1. CASE events = <<>>
  <2>1. Coalesced(<<>>) = <<>>
    BY Folds, CollapseFold!FoldEmpty, CoalesceFold!FoldEmpty DEF Coalesced
  <2>2. LiveEvents(rules, <<>>) = <<>>
    BY Folds, TellFold!FoldEmpty
  <2> QED BY <1>1, <2>1, <2>2
<1>2. CASE events # <<>>
  <2> DEFINE e == events[1]
  <2>1. e \in Event /\ events = <<e>>
    BY <1>2
  <2> HIDE DEF e
  <2> QED BY <2>1, BatchOfOne, LiveEventTyped
<1> QED BY <1>1, <1>2

LEMMA ApplySingleBatch ==
  ASSUME NEW ix, IsIndex(ix), NEW events \in Seq(Event), Len(events) <= 1, NEW rules
  PROVE  IsIndex(ApplyBatch(ix, rules, events))
<1> DEFINE live  == LiveEvents(rules, Coalesced(events))
           start == [records |-> ix.records, paths |-> ix.paths, changed |-> FALSE]
           after == FoldLeft(ApplyEvent, start, live)
<1>1. AreRecords(after.records)
  <2>1. CASE live = <<>>
    <3>1. after = start
      BY <2>1, Folds, ApplyFold!FoldEmpty
    <3> QED BY <3>1 DEF IsIndex
  <2>2. ASSUME NEW f \in LiveType, live = <<f>> PROVE AreRecords(after.records)
    <3>1. after = ApplyEvent(start, f)
      <4>1. after = ApplyFold!Fold(0, start, live)
        BY Folds, Zenon
      <4>2. ApplyFold!Fold(0, start, <<f>>) = ApplyEvent(start, f)
        BY ApplyFold!FoldOne
      <4> QED BY <2>2, <4>1, <4>2
    <3> QED BY <3>1, ApplyEventKeeps DEF IsIndex
  <2> QED BY <2>1, <2>2, SingleBatch
<1>2. ApplyBatch(ix, rules, events) = IF after.changed THEN Rebuilt(after.records) ELSE ix
  BY DEF ApplyBatch, ApplyEvents
<1> HIDE DEF after
<1> QED BY <1>1, <1>2, RebuiltIsIndex

\* Every element once
Enumerates(order, S) ==
  /\ order \in [1..Cardinality(S) -> S]
  /\ \A i, j \in 1..Cardinality(S) : order[i] = order[j] => i = j

LEMMA ScanOrdersEnumerate ==
  ASSUME NEW files, IsTree(files), NEW order \in ScanOrders(files)
  PROVE  Enumerates(order, DOMAIN files)
<1> DEFINE n == Cardinality(DOMAIN files)
<1>1. n \in Nat
  BY FS_CardinalityType DEF IsTree
<1>2. order \in [1..n -> DOMAIN files] /\ \A i, j \in 1..n : i < j => order[i] # order[j]
  BY DEF ScanOrders
<1> HIDE DEF n
<1>3. \A i, j \in 1..n : i < j \/ j < i \/ i = j
  BY <1>1
<1> QED BY <1>2, <1>3 DEF Enumerates, n

ScanRecords(files, order) ==
  LET number(p) == CHOOSE i \in DOMAIN order : order[i] = p
  IN  [i \in DOMAIN order |->
         IF order[i] = <<>> THEN RecordOf(RootParent, NoName, files[<<>>])
         ELSE RecordOf(number(Front(order[i])), Last(order[i]), files[order[i]])]

\* A scan yields a record of every file, with the record of its directory as parent.
LEMMA ScanRecordsAre ==
  ASSUME NEW files, IsTree(files), NEW order, Enumerates(order, DOMAIN files),
         NEW records, records = ScanRecords(files, order)
  PROVE  /\ AreRecords(records) /\ DOMAIN records = 1..Cardinality(DOMAIN files)
         /\ order \in [DOMAIN records -> DOMAIN files]
         /\ \A i, j \in DOMAIN records : order[i] = order[j] => i = j
         /\ \A p \in DOMAIN files : \E i \in DOMAIN records : order[i] = p
         /\ \A i \in DOMAIN records :
              /\ records[i].meta = files[order[i]]
              /\ order[i] = <<>> => records[i].parent = RootParent /\ records[i].name = NoName
              /\ order[i] # <<>> => /\ records[i].parent \in DOMAIN records
                                    /\ order[records[i].parent] = Front(order[i])
                                    /\ records[i].name = Last(order[i])
<1> DEFINE n == Cardinality(DOMAIN files)
           number(p) == CHOOSE i \in DOMAIN order : order[i] = p
<1>1. n \in Nat /\ IsFiniteSet(DOMAIN files)
  BY FS_CardinalityType DEF IsTree
<1>2. order \in [1..n -> DOMAIN files] /\ DOMAIN order = 1..n /\ \A i, j \in 1..n : order[i] = order[j] => i = j
  BY DEF Enumerates
<1> HIDE DEF n
<1>3. order \in Injection(1..n, DOMAIN files)
  BY <1>2 DEF Injection, IsInjective
<1>4. order \in Surjection(1..n, DOMAIN files)
  <2>1. Cardinality(1..n) = n
    BY <1>1, FS_Interval
  <2> QED BY <1>1, <1>3, <2>1, FS_Injection DEF n
<1>5. \A p \in DOMAIN files : number(p) \in 1..n /\ order[number(p)] = p
  <2>1. \A p \in DOMAIN files : \E i \in DOMAIN order : order[i] = p
    BY <1>2, <1>4 DEF Surjection
  <2> QED BY <1>2, <2>1
<1> HIDE DEF number
<1>6. /\ DOMAIN records = 1..n
      /\ \A i \in 1..n :
           records[i] = IF order[i] = <<>> THEN RecordOf(RootParent, NoName, files[<<>>])
                        ELSE RecordOf(number(Front(order[i])), Last(order[i]), files[order[i]])
  BY <1>2 DEF ScanRecords, number
<1>7. ASSUME NEW i \in 1..n
      PROVE  /\ records[i] \in Record /\ records[i].parent \in 0..n
             /\ records[i].meta = files[order[i]]
             /\ order[i] = <<>> => records[i].parent = RootParent /\ records[i].name = NoName
             /\ order[i] # <<>> => /\ records[i].parent \in 1..n
                                   /\ order[records[i].parent] = Front(order[i])
                                   /\ records[i].name = Last(order[i])
  <2>1. order[i] \in DOMAIN files /\ files[order[i]] \in Metas /\ order[i] \in Path
    BY <1>2 DEF IsTree, Path
  <2>2. CASE order[i] = <<>>
    BY <1>1, <1>6, <2>1, <2>2 DEF RecordOf, Record, RootParent
  <2>3. CASE order[i] # <<>>
    <3>1. Front(order[i]) \in DOMAIN files /\ Last(order[i]) \in Names
      BY <2>1, <2>3, FrontOf DEF IsTree
    <3>2. records[i] = RecordOf(number(Front(order[i])), Last(order[i]), files[order[i]])
      BY <1>6, <2>3
    <3>3. number(Front(order[i])) \in 1..n /\ order[number(Front(order[i]))] = Front(order[i])
      BY <1>5, <3>1
    <3> QED BY <1>1, <2>1, <2>3, <3>1, <3>2, <3>3 DEF RecordOf, Record
  <2> QED BY <2>2, <2>3
<1>8. records \in [1..n -> Record]
  <2>1. records = [i \in 1..n |-> records[i]]
    BY <1>2 DEF ScanRecords
  <2> QED BY <1>7, <2>1
<1>9. records \in Seq(Record) /\ DOMAIN records = 1..n
  BY <1>1, <1>8, SeqDef
<1>10. Len(records) = n
  BY <1>1, <1>9, LenProperties
<1>11. AreRecords(records)
  BY <1>7, <1>9, <1>10 DEF AreRecords
<1>12. \A p \in DOMAIN files : \E i \in 1..n : order[i] = p
  BY <1>5
<1>13. DOMAIN records = 1..Cardinality(DOMAIN files)
  BY <1>9 DEF n
<1> QED BY <1>2, <1>7, <1>9, <1>11, <1>12, <1>13

LEMMA ScannedIs ==
  ASSUME NEW files, NEW order
  PROVE  Scanned(files, order) = Rebuilt(ScanRecords(files, order))
BY DEF Scanned, ScanRecords

LEMMA ScannedIsIndex ==
  ASSUME NEW files, IsTree(files), NEW order \in ScanOrders(files)
  PROVE  IsIndex(Scanned(files, order))
<1>1. AreRecords(ScanRecords(files, order))
  BY ScanOrdersEnumerate, ScanRecordsAre
<1> QED BY <1>1, ScannedIs, RebuiltIsIndex

-----------------------------------------------------------------------------
(* The inductive invariant: without batches of several events, the index    *)
(* is one at every moment.                                                  *)

LiveInv == FilesInv /\ (~May("batch") => IsIndex(index))

LEMMA LiveInvInit == Init => LiveInv
<1> SUFFICES ASSUME Init PROVE LiveInv
  OBVIOUS
<1>1. IsTree(tree)
  BY LiveUpdatesAssumption DEF Init
<1>2. PICK order \in ScanOrders(tree) : index = FilterIndex(Scanned(tree, order), scenario.rules)
  BY DEF Init
<1>3. IsIndex(index)
  BY <1>1, <1>2, ScannedIsIndex, FilteredIsIndex
<1> QED BY <1>1, <1>3 DEF Init, LiveInv, FilesInv

LEMMA LiveInvStep == ASSUME LiveInv, FilesNext \/ Callback \/ Apply PROVE LiveInv'
<1>1. FilesInv'
  BY FilesInvStep DEF LiveInv
<1>2. CASE FilesNext
  BY <1>1, <1>2, ReportsTyped DEF LiveInv, May
<1>3. CASE Callback
  BY <1>1, <1>3 DEF LiveInv, May, Callback
<1>4. CASE Apply
  <2>1. scenario' = scenario /\ index' = ApplyBatch(index, scenario.rules, pending)
    BY <1>4 DEF Apply
  <2>2. ~May("batch") => IsIndex(ApplyBatch(index, scenario.rules, pending))
    BY ApplySingleBatch DEF LiveInv, FilesInv
  <2> QED BY <1>1, <2>1, <2>2 DEF LiveInv, May
<1> QED BY <1>2, <1>3, <1>4

LEMMA LiveInvKept == ASSUME LiveInv, UNCHANGED vars PROVE LiveInv'
BY DEF LiveInv, FilesInv, May, vars

\* The device is scanned again, whatever has been told and not applied.
LEMMA LiveInvScanned ==
  ASSUME LiveInv, UNCHANGED <<scenario, tree, told, pending>>,
         NEW order \in ScanOrders(tree), index' = FilterIndex(Scanned(tree, order), scenario.rules)
  PROVE  LiveInv'
BY ScannedIsIndex, FilteredIsIndex DEF LiveInv, FilesInv, May

LEMMA LiveLoadable == LiveInv => StaysLoadable
<1>1. IsIndex(index) => Loadable(index)
  BY DEF IsIndex, AreRecords, Loadable
<1> QED BY <1>1 DEF LiveInv, StaysLoadable, AlwaysLoadable

-----------------------------------------------------------------------------
(* What a batch means                                                      *)

MeaningFrom(files, events) == FoldLeft(Meant, files, LiveEvents(NoRules, events))

\* What one event does to files
MeantLive(files, e) ==
  IF LiveEvent(NoRules, e) = <<>> THEN files ELSE Meant(files, LiveEvent(NoRules, e)[1])

LEMMA LiveEventsTyped ==
  ASSUME NEW rules, NEW events \in Seq(Event)
  PROVE  LiveEvents(rules, events) \in Seq(LiveType)
<1> DEFINE T == {n \in Nat : \A s \in Seq(Event) : Len(s) = n => LiveEvents(rules, s) \in Seq(LiveType)}
<1>1. 0 \in T
  <2>1. ASSUME NEW s \in Seq(Event), Len(s) = 0 PROVE LiveEvents(rules, s) \in Seq(LiveType)
    <3>1. LiveEvents(rules, <<>>) = <<>>
      BY Folds, TellFold!FoldEmpty
    <3>2. s = <<>> /\ <<>> \in Seq(LiveType)
      BY <2>1
    <3> QED BY <3>1, <3>2
  <2> QED BY <2>1
<1>2. ASSUME NEW n \in Nat, n \in T PROVE n + 1 \in T
  <2>1. ASSUME NEW s \in Seq(Event), Len(s) = n + 1 PROVE LiveEvents(rules, s) \in Seq(LiveType)
    <3>1. PICK t \in Seq(Event), e \in Event : s = Append(t, e)
      <4>1. s # <<>>
        BY <2>1
      <4> QED BY <4>1, SequenceEmptyOrAppend
    <3>2. LiveEvents(rules, s) = LiveEvents(rules, t) \o LiveEvent(rules, e)
      BY <3>1, FoldsAppend
    <3>3. LiveEvents(rules, t) \in Seq(LiveType)
      BY <1>2, <2>1, <3>1
    <3>4. LiveEvent(rules, e) \in Seq(LiveType)
      <4>1. \A f \in LiveType : <<f>> \in Seq(LiveType)
        OBVIOUS
      <4>2. <<>> \in Seq(LiveType)
        OBVIOUS
      <4>3. LiveEvent(rules, e) = <<>> \/ \E f \in LiveType : LiveEvent(rules, e) = <<f>>
        BY LiveEventTyped
      <4> QED BY <4>1, <4>2, <4>3, Zenon
    <3> QED BY <3>2, <3>3, <3>4
  <2> QED BY <2>1
<1> HIDE DEF T
<1>3. Nat \subseteq T
  BY <1>1, <1>2, ApplyFold!NatSet
<1>4. Len(events) \in T
  BY <1>3
<1> QED BY <1>4 DEF T

\* A batch means what its events mean one after the other.
LEMMA MeaningAppend ==
  ASSUME NEW files, NEW events \in Seq(Event), NEW e \in Event
  PROVE  MeaningFrom(files, Append(events, e)) = MeantLive(MeaningFrom(files, events), e)
<1> DEFINE live == LiveEvents(NoRules, events)
           more == LiveEvent(NoRules, e)
<1>1. live \in Seq(LiveType)
  BY LiveEventsTyped
<1>2. LiveEvents(NoRules, Append(events, e)) = live \o more
  BY FoldsAppend
<1> HIDE DEF live
<1>3. CASE more = <<>>
  <2>1. live \o more = live
    BY <1>1, <1>3
  <2> QED BY <1>2, <1>3, <2>1 DEF MeaningFrom, MeantLive, live
<1>4. ASSUME NEW f \in LiveType, more = <<f>>
      PROVE  MeaningFrom(files, Append(events, e)) = MeantLive(MeaningFrom(files, events), e)
  <2>1. live \o more = Append(live, f)
    BY <1>1, <1>4
  <2>2. FoldLeft(Meant, files, Append(live, f)) = Meant(FoldLeft(Meant, files, live), f)
    BY <1>1, FoldsAppend
  <2>3. more # <<>> /\ more[1] = f
    BY <1>4
  <2> QED BY <1>2, <2>1, <2>2, <2>3 DEF MeaningFrom, MeantLive, live
<1> QED BY <1>3, <1>4, LiveEventTyped

LEMMA MeaningEmpty == ASSUME NEW files PROVE MeaningFrom(files, <<>>) = files
BY Folds, TellFold!FoldEmpty, MeantFold!FoldEmpty DEF MeaningFrom

\* What the scanner daemon finds
MetaIn(files, p) == IF p \in DOMAIN files THEN files[p] ELSE NoMeta

LEMMA AllAllowed == ASSUME NEW path PROVE Allows(NoRules, path)
BY DEF Allows, NoRules

LEMMA CreateMeant ==
  ASSUME NEW files, NEW p, NEW m
  PROVE  MeantLive(files, WatchEvent("created", p, p, m))
           = IF m # NoMeta
             THEN [q \in DOMAIN files \cup {p} |-> IF q = p THEN m ELSE files[q]] ELSE files
<1> DEFINE e == WatchEvent("created", p, p, m)
<1>1. e.kind = "created" /\ e.path = p /\ e.meta = m
  BY DEF WatchEvent
<1> HIDE DEF e
<1>2. LiveEvent(NoRules, e) = IF m # NoMeta THEN <<e>> ELSE <<>>
  BY <1>1, AllAllowed DEF LiveEvent
<1> QED BY <1>1, <1>2 DEF MeantLive, Meant, e

LEMMA ModifyMeant ==
  ASSUME NEW files, NEW p, NEW m
  PROVE  MeantLive(files, WatchEvent("metadata", p, p, m))
           = IF m # NoMeta /\ p \in DOMAIN files
             THEN [q \in DOMAIN files \cup {p} |-> IF q = p THEN m ELSE files[q]] ELSE files
<1> DEFINE e == WatchEvent("metadata", p, p, m)
<1>1. e.kind = "metadata" /\ e.path = p /\ e.meta = m
  BY DEF WatchEvent
<1> HIDE DEF e
<1>2. LiveEvent(NoRules, e) = IF m # NoMeta THEN <<e>> ELSE <<>>
  BY <1>1 DEF LiveEvent
<1> QED BY <1>1, <1>2 DEF MeantLive, Meant, e

LEMMA DeleteMeant ==
  ASSUME NEW files, NEW p
  PROVE  MeantLive(files, WatchEvent("removed", p, p, NoMeta))
           = [q \in DOMAIN files \ {q \in DOMAIN files : IsPrefix(p, q)} |-> files[q]]
<1> DEFINE e == WatchEvent("removed", p, p, NoMeta)
<1>1. e.kind = "removed" /\ e.path = p /\ e.old = p
  BY DEF WatchEvent
<1> HIDE DEF e
<1>2. LiveEvent(NoRules, e) = <<e>>
  BY <1>1 DEF LiveEvent
<1> QED BY <1>1, <1>2 DEF MeantLive, Meant, e

\* The rename of p to q, told last, moves what is below p, whatever the files at q
\* were taken for before.
LEMMA RenameMeant ==
  ASSUME IsTree(tree), NoMeta \notin Metas, NEW p, NEW q, CanMove(p, q),
         NEW files, DOMAIN files = DOMAIN tree, \A r \in DOMAIN tree \ {q} : files[r] = tree[r]
  PROVE  MeantLive(files, WatchEvent("renamed", q, p, tree[p])) = Moved(p, q)
<1> DEFINE e == WatchEvent("renamed", q, p, tree[p])
           moved == {At(p, q, r) : r \in Below(p)}
           new   == Moved(p, q)
           from(x) == CHOOSE r \in Below(p) : At(p, q, r) = x
           meant == [x \in Stays(p, q) \cup moved |->
                       IF x = q THEN tree[p] ELSE IF x \in Stays(p, q) THEN files[x] ELSE files[from(x)]]
<1>1. p \in DOMAIN tree /\ tree[p] \in Metas /\ p \in Path /\ q \in Path /\ ~IsPrefix(p, q)
      /\ \A r \in Below(p) : r \in Path /\ r \in DOMAIN tree /\ IsPrefix(p, r)
  BY DEF CanMove, IsTree, Path, Below
<1>2. /\ DOMAIN new = Stays(p, q) \cup moved
      /\ \A r \in Below(p) : new[At(p, q, r)] = tree[r] /\ At(p, q, r) \notin Stays(p, q)
      /\ \A r \in Stays(p, q) : new[r] = tree[r] /\ ~IsPrefix(q, r)
  BY MovedFiles
<1>3. MeantLive(files, e) = meant
  <2>1. e.kind = "renamed" /\ e.path = q /\ e.old = p /\ e.meta = tree[p]
    BY DEF WatchEvent
  <2> HIDE DEF e
  <2>2. LiveEvent(NoRules, e) = <<e>>
    BY <1>1, <2>1, AllAllowed DEF LiveEvent
  <2>3. {r \in DOMAIN files : IsPrefix(p, r)} = Below(p) /\ Below(p) # {}
    BY <1>1, PrefixFront DEF Below
  <2>4. {r \in DOMAIN files \ Below(p) : ~IsPrefix(q, r)} = Stays(p, q)
    BY <1>1, <1>2, PrefixFront DEF Stays
  <2>5. MeantLive(files, e) = Meant(files, e)
    BY <2>2 DEF MeantLive
  <2> HIDE DEF meant
  <2>6. Meant(files, e) = meant
    <3> DEFINE below == {r \in DOMAIN files : IsPrefix(p, r)}
               stays == {r \in DOMAIN files \ below : ~IsPrefix(q, r)}
    <3>1. below # {} => Meant(files, e) =
            [x \in stays \cup {At(p, q, r) : r \in below} |->
               IF x = q THEN tree[p] ELSE IF x \in stays THEN files[x]
               ELSE files[CHOOSE r \in below : At(p, q, r) = x]]
      <4> DEFINE under == {r \in DOMAIN files : IsPrefix(e.old, r)}
                 others == {r \in DOMAIN files \ under : ~IsPrefix(e.path, r)}
                 at(r) == e.path \o SubSeq(r, Len(e.old) + 1, Len(r))
      <4>1. under # {} => Meant(files, e) =
              [x \in others \cup {at(r) : r \in under} |->
                 IF x = e.path THEN e.meta ELSE IF x \in others THEN files[x]
                 ELSE files[CHOOSE r \in under : at(r) = x]]
        <5>1. e.kind # "created" /\ e.kind # "metadata" /\ e.kind # "removed" /\ e.kind = "renamed"
          BY <2>1
        <5> QED BY <5>1, Zenon DEF Meant
      <4>2. \A r : at(r) = At(p, q, r)
        BY <2>1 DEF At
      <4>3. under = below /\ others = stays
        BY <2>1
      <4> HIDE DEF under, others, at, below, stays
      <4> QED BY <2>1, <4>1, <4>2, <4>3
    <3>2. below = Below(p) /\ stays = Stays(p, q)
      BY <2>3, <2>4
    <3> HIDE DEF below, stays
    <3> QED BY <2>3, <3>1, <3>2 DEF meant
  <2> QED BY <2>5, <2>6
<1>4. new = [x \in DOMAIN new |-> new[x]]
  BY DEF Moved
<1>5. ASSUME NEW x \in Stays(p, q) \cup moved PROVE meant[x] = new[x]
  <2>1. CASE x = q
    <3>1. p \in Below(p) /\ At(p, q, p) = q
      BY <1>1, Replanted, PrefixFront DEF Below
    <3> QED BY <1>2, <1>5, <2>1, <3>1
  <2>2. CASE x # q /\ x \in Stays(p, q)
    BY <1>2, <2>2 DEF Stays
  <2>3. CASE x # q /\ x \notin Stays(p, q)
    <3>1. PICK r \in Below(p) : x = At(p, q, r)
      BY <1>5, <2>3
    <3>2. from(x) \in Below(p) /\ At(p, q, from(x)) = x
      BY <3>1
    <3> HIDE DEF from
    <3>3. from(x) = r
      BY <1>1, <3>1, <3>2, Replanted
    <3>4. r # q
      BY <1>1
    <3>5. files[r] = tree[r]
      BY <1>1, <3>4
    <3> QED BY <1>2, <1>5, <2>3, <3>1, <3>3, <3>5
  <2> QED BY <2>1, <2>2, <2>3
<1> HIDE DEF new, meant
<1>6. meant = [x \in Stays(p, q) \cup moved |-> meant[x]]
  BY DEF meant
<1>7. meant = new
  BY <1>2, <1>4, <1>5, <1>6
<1> QED BY <1>3, <1>7 DEF e, new

\* The old name is free after a rename.
LEMMA MovedAway ==
  ASSUME IsTree(tree), NEW p, NEW q, CanMove(p, q)
  PROVE  /\ p \notin DOMAIN Moved(p, q)
         /\ q \in DOMAIN Moved(p, q) /\ Moved(p, q)[q] = tree[p]
<1>1. p \in DOMAIN tree /\ p \in Path /\ q \in Path /\ ~IsPrefix(p, q) /\ \A r \in Below(p) : r \in Path /\ IsPrefix(p, r)
  BY DEF CanMove, IsTree, Path, Below
<1>2. /\ DOMAIN Moved(p, q) = Stays(p, q) \cup {At(p, q, r) : r \in Below(p)}
      /\ \A r \in Below(p) : Moved(p, q)[At(p, q, r)] = tree[r]
  BY MovedFiles
<1>3. p \in Below(p) /\ At(p, q, p) = q
  BY <1>1, Replanted, PrefixFront DEF Below
<1>4. p \notin Stays(p, q)
  BY <1>3 DEF Stays
<1>5. ASSUME NEW r \in Below(p), At(p, q, r) = p PROVE FALSE
  <2>1. IsPrefix(q, p)
    BY <1>1, <1>5, Replanted
  <2>2. q # p
    BY <1>1, PrefixFront
  <2> QED BY <1>1, <2>1, <2>2, TreeClosed DEF CanMove
<1> QED BY <1>2, <1>3, <1>4, <1>5

-----------------------------------------------------------------------------
(* The inductive invariant: the batch and what has been told mean the       *)
(* files as they are.                                                       *)

\* The event of a report if the files are these
EventIn(files, t) ==
  CASE t.kind = "create" -> WatchEvent("created", t.path, t.path, MetaIn(files, t.path))
    [] t.kind = "remove" -> WatchEvent("removed", t.path, t.path, NoMeta)
    [] t.kind = "both"   -> WatchEvent("renamed", t.path, t.old, MetaIn(files, t.path))
    [] t.kind = "modify" -> WatchEvent("metadata", t.path, t.path, MetaIn(files, t.path))

EventsIn(files, reports) == [i \in 1..Len(reports) |-> EventIn(files, reports[i])]

Alone     == scenario.may \cap {"lag", "border"} = {}
AllEvents == pending \o EventsIn(tree, told)

TellsInv == Alone /\ base # NoMeta => MeaningFrom(base, AllEvents) = tree

LEMMA EventInTyped == ASSUME NEW files, IsTree(files), NEW t \in Report PROVE EventIn(files, t) \in Event
<1>1. MetaIn(files, t.path) \in Metas \cup {NoMeta}
  BY DEF MetaIn, IsTree
<1> QED BY <1>1 DEF EventIn, WatchEvent, Report, Event

LEMMA EventsInTyped ==
  ASSUME NEW files, IsTree(files), NEW reports \in Seq(Report)
  PROVE  EventsIn(files, reports) \in Seq(Event) /\ Len(EventsIn(files, reports)) = Len(reports)
<1>1. EventsIn(files, reports) \in [1..Len(reports) -> Event]
  BY EventInTyped, ElementOfSeq DEF EventsIn
<1>2. EventsIn(files, reports) \in Seq(Event)
  BY <1>1, SeqDef, LenProperties
<1> QED BY <1>1, <1>2, LenProperties

LEMMA TellsInit == Init => TellsInv
<1> SUFFICES ASSUME Init PROVE AllEvents = <<>> /\ base = tree
  BY MeaningEmpty DEF TellsInv
<1> QED BY DEF Init, AllEvents, EventsIn

\* The daemon looks at a path: what was told becomes part of the batch.
LEMMA CallbackTells ==
  ASSUME FilesInv, Callback
  PROVE  AllEvents' = AllEvents
<1> DEFINE h == Head(told)
           rest == Tail(told)
<1>1. /\ told \in Seq(Report) /\ told # <<>> /\ pending \in Seq(Event) /\ IsTree(tree)
      /\ tree' = tree /\ told' = rest /\ pending' = Append(pending, EventIn(tree, h))
  BY DEF FilesInv, Callback, EventOf, EventIn, MetaNow, MetaIn
<1>2. /\ h \in Report /\ rest \in Seq(Report) /\ Len(rest) = Len(told) - 1 /\ Len(told) \in Nat \ {0}
      /\ h = told[1] /\ \A i \in 1..Len(rest) : rest[i] = told[i + 1]
  BY <1>1, HeadTailProperties
<1> HIDE DEF h, rest
<1>3. /\ EventsIn(tree, rest) \in Seq(Event) /\ Len(EventsIn(tree, rest)) = Len(rest)
      /\ EventsIn(tree, told) \in Seq(Event) /\ Len(EventsIn(tree, told)) = Len(told)
      /\ EventIn(tree, h) \in Event
  BY <1>1, <1>2, EventsInTyped, EventInTyped
<1>4. EventsIn(tree, told) = <<EventIn(tree, h)>> \o EventsIn(tree, rest)
  <2> DEFINE right == <<EventIn(tree, h)>> \o EventsIn(tree, rest)
  <2>1. /\ right \in Seq(Event) /\ Len(right) = Len(told)
        /\ \A i \in 1..Len(told) : right[i] = IF i <= 1 THEN EventIn(tree, h) ELSE EventsIn(tree, rest)[i - 1]
    BY <1>2, <1>3, ConcatProperties
  <2> HIDE DEF right
  <2>2. ASSUME NEW i \in 1..Len(told) PROVE EventsIn(tree, told)[i] = right[i]
    <3>1. CASE i = 1
      <4>1. 1 \in 1..Len(told)
        BY <1>2
      <4>2. EventsIn(tree, told)[1] = EventIn(tree, h)
        BY <1>2, <4>1 DEF EventsIn
      <4>3. right[1] = EventIn(tree, h)
        BY <2>1, <4>1
      <4> QED BY <3>1, <4>2, <4>3
    <3>2. CASE i # 1
      <4>1. i - 1 \in 1..Len(rest) /\ ~(i <= 1) /\ (i - 1) + 1 = i
        BY <1>2, <3>2
      <4>2. EventsIn(tree, rest)[i - 1] = EventIn(tree, told[i])
        BY <1>2, <4>1 DEF EventsIn
      <4> QED BY <2>1, <4>1, <4>2 DEF EventsIn
    <3> QED BY <3>1, <3>2
  <2>3. EventsIn(tree, told) = right
    BY <1>3, <2>1, <2>2, SeqEqual
  <2> QED BY <2>3 DEF right
<1>5. Append(pending, EventIn(tree, h)) \o EventsIn(tree, rest) = pending \o (<<EventIn(tree, h)>> \o EventsIn(tree, rest))
  BY <1>1, <1>3, AppendIsConcat, ConcatAssociative
<1> QED BY <1>1, <1>4, <1>5 DEF AllEvents

\* What is told of a change is appended to what has been told in time.
LEMMA ToldAppend ==
  ASSUME NEW files, IsTree(files), NEW t \in Report, NEW events \in Seq(Event)
  PROVE  /\ events \o EventsIn(files, <<t>>) = Append(events, EventIn(files, t))
         /\ EventIn(files, t) \in Event
<1>1. EventsIn(files, <<t>>) = <<EventIn(files, t)>>
  <2>1. Len(<<t>>) = 1 /\ <<t>>[1] = t
    OBVIOUS
  <2>2. EventsIn(files, <<t>>) = [i \in 1..1 |-> EventIn(files, <<t>>[i])]
    BY <2>1 DEF EventsIn
  <2>3. [i \in 1..1 |-> EventIn(files, <<t>>[i])] = <<EventIn(files, t)>>
    <3>1. 1..1 = {1} /\ \A i \in 1..1 : EventIn(files, <<t>>[i]) = EventIn(files, t)
      BY <2>1
    <3>2. <<EventIn(files, t)>> = [i \in 1..1 |-> EventIn(files, t)]
      OBVIOUS
    <3> QED BY <3>1, <3>2
  <2> QED BY <2>2, <2>3
<1>2. EventIn(files, t) \in Event
  BY EventInTyped
<1> QED BY <1>1, <1>2, AppendIsConcat

\* In time: nothing is told that has not been looked at.
InTime == told = <<>> /\ MeaningFrom(base, pending) = tree /\ NoMeta \notin Metas

LEMMA OneReportTells ==
  ASSUME FilesInv, FilesInv', UNCHANGED <<pending, base>>, NEW t \in Report, told' = <<t>>,
         MeaningFrom(base, pending) = tree, MeantLive(tree, EventIn(tree', t)) = tree'
  PROVE  MeaningFrom(base, AllEvents)' = tree' /\ AllEvents' = Append(pending, EventIn(tree', t))
<1>1. AllEvents' = pending \o EventsIn(tree', <<t>>)
  BY DEF AllEvents
<1>2. AllEvents' = Append(pending, EventIn(tree', t)) /\ EventIn(tree', t) \in Event
  BY <1>1, ToldAppend DEF FilesInv
<1>3. MeaningFrom(base, Append(pending, EventIn(tree', t))) = MeantLive(MeaningFrom(base, pending), EventIn(tree', t))
  BY <1>2, MeaningAppend DEF FilesInv
<1> QED BY <1>2, <1>3

LEMMA ThreeReports ==
  ASSUME NEW files, IsTree(files), NEW a \in Report, NEW b \in Report, NEW c \in Report,
         NEW events \in Seq(Event)
  PROVE  /\ EventIn(files, a) \in Event /\ EventIn(files, b) \in Event /\ EventIn(files, c) \in Event
         /\ events \o EventsIn(files, <<a, b, c>>)
              = Append(Append(Append(events, EventIn(files, a)), EventIn(files, b)), EventIn(files, c))
<1> DEFINE x == EventIn(files, a)
           y == EventIn(files, b)
           z == EventIn(files, c)
<1>1. x \in Event /\ y \in Event /\ z \in Event
  BY EventInTyped
<1>2. EventsIn(files, <<a, b, c>>) = <<x, y, z>>
  <2> DEFINE s == <<a, b, c>>
  <2>1. Len(s) = 3 /\ s[1] = a /\ s[2] = b /\ s[3] = c /\ s \in Seq(Report)
    OBVIOUS
  <2> HIDE DEF s
  <2>2. EventsIn(files, s) \in Seq(Event) /\ Len(EventsIn(files, s)) = 3
    BY <2>1, EventsInTyped
  <2>3. EventsIn(files, s)[1] = x /\ EventsIn(files, s)[2] = y /\ EventsIn(files, s)[3] = z
    BY <2>1 DEF EventsIn
  <2> HIDE DEF x, y, z
  <2>4. <<x, y, z>> \in Seq(Event) /\ Len(<<x, y, z>>) = 3
    BY <1>1
  <2>5. \A i \in 1..3 : EventsIn(files, s)[i] = <<x, y, z>>[i]
    BY <2>3
  <2>6. EventsIn(files, s) = <<x, y, z>>
    BY <2>2, <2>4, <2>5, SeqEqual
  <2> QED BY <2>6 DEF s
<1> HIDE DEF x, y, z
<1>3. events \o <<x, y, z>> = Append(Append(Append(events, x), y), z)
  BY <1>1
<1> QED BY <1>1, <1>2, <1>3 DEF x, y, z

LEMMA ThreeReportsTell ==
  ASSUME NEW files, IsTree(files), NEW a \in Report, NEW b \in Report, NEW c \in Report,
         NEW events \in Seq(Event), NEW from
  PROVE  MeaningFrom(from, events \o EventsIn(files, <<a, b, c>>))
           = MeantLive(MeantLive(MeantLive(MeaningFrom(from, events), EventIn(files, a)),
                                 EventIn(files, b)), EventIn(files, c))
<1> DEFINE x == EventIn(files, a)
           y == EventIn(files, b)
           z == EventIn(files, c)
<1>1. /\ x \in Event /\ y \in Event /\ z \in Event
      /\ events \o EventsIn(files, <<a, b, c>>) = Append(Append(Append(events, x), y), z)
  BY ThreeReports
<1> HIDE DEF x, y, z
<1>2. Append(events, x) \in Seq(Event) /\ Append(Append(events, x), y) \in Seq(Event)
  BY <1>1
<1>3. MeaningFrom(from, Append(events, x)) = MeantLive(MeaningFrom(from, events), x)
  BY <1>1, MeaningAppend
<1>4. MeaningFrom(from, Append(Append(events, x), y)) = MeantLive(MeaningFrom(from, Append(events, x)), y)
  BY <1>1, <1>2, MeaningAppend
<1>5. MeaningFrom(from, Append(Append(Append(events, x), y), z))
        = MeantLive(MeaningFrom(from, Append(Append(events, x), y)), z)
  BY <1>1, <1>2, MeaningAppend
<1> QED BY <1>1, <1>3, <1>4, <1>5 DEF x, y, z

LEMMA RenameTells ==
  ASSUME FilesInv, FilesInv', InTime, NEW p \in Paths, NEW q \in Paths, Rename(p, q)
  PROVE  MeaningFrom(base, AllEvents)' = tree'
<1> DEFINE a == Told("modify", p, p)
           b == Told("modify", q, q)
           c == Told("both", q, p)
<1>1. /\ CanMove(p, q) /\ IsTree(tree) /\ tree' = Moved(p, q) /\ base' = base
      /\ AllEvents' = pending \o EventsIn(tree', <<a, b, c>>) /\ IsTree(tree') /\ pending \in Seq(Event)
  <2>1. told' = <<>> \o <<a, b, c>> /\ pending' = pending /\ base' = base /\ tree' = Moved(p, q)
    BY DEF Rename, Change, InTime
  <2>2. <<>> \o <<a, b, c>> = <<a, b, c>>
    OBVIOUS
  <2>3. AllEvents' = pending \o EventsIn(tree', <<a, b, c>>)
    BY <2>1, <2>2 DEF AllEvents
  <2> HIDE DEF a, b, c
  <2> QED BY <2>1, <2>3, RenameMoves DEF FilesInv
<1>2. a \in Report /\ b \in Report /\ c \in Report
  BY PathsAre DEF FilesInv, Told, Report
<1>3. p \notin DOMAIN tree' /\ q \in DOMAIN tree' /\ tree'[q] = tree[p] /\ tree[p] \in Metas /\ tree[p] # NoMeta
  BY <1>1, MovedAway DEF CanMove, IsTree, InTime
<1>4. /\ EventIn(tree', a) = WatchEvent("metadata", p, p, NoMeta)
      /\ EventIn(tree', b) = WatchEvent("metadata", q, q, tree[p])
      /\ EventIn(tree', c) = WatchEvent("renamed", q, p, tree[p])
  BY <1>3 DEF EventIn, MetaIn, Told
<1> HIDE DEF a, b, c
<1>5. MeantLive(tree, EventIn(tree', a)) = tree
  <2>1. MeantLive(tree, WatchEvent("metadata", p, p, NoMeta))
          = IF NoMeta # NoMeta /\ p \in DOMAIN tree
            THEN [r \in DOMAIN tree \cup {p} |-> IF r = p THEN NoMeta ELSE tree[r]] ELSE tree
    BY ModifyMeant
  <2> QED BY <1>4, <2>1
<1> DEFINE files == MeantLive(tree, EventIn(tree', b))
<1>6. DOMAIN files = DOMAIN tree /\ \A r \in DOMAIN tree \ {q} : files[r] = tree[r]
  <2>1. files = IF tree[p] # NoMeta /\ q \in DOMAIN tree
                THEN [r \in DOMAIN tree \cup {q} |-> IF r = q THEN tree[p] ELSE tree[r]] ELSE tree
    <3>1. MeantLive(tree, WatchEvent("metadata", q, q, tree[p]))
            = IF tree[p] # NoMeta /\ q \in DOMAIN tree
              THEN [r \in DOMAIN tree \cup {q} |-> IF r = q THEN tree[p] ELSE tree[r]] ELSE tree
      BY ModifyMeant
    <3> QED BY <1>4, <3>1
  <2> HIDE DEF files
  <2> QED BY <1>3, <2>1
<1> HIDE DEF files
<1>7. MeantLive(files, EventIn(tree', c)) = tree'
  BY <1>1, <1>4, <1>6, RenameMeant DEF InTime
<1>8. MeaningFrom(base, pending \o EventsIn(tree', <<a, b, c>>))
        = MeantLive(MeantLive(MeantLive(MeaningFrom(base, pending), EventIn(tree', a)),
                              EventIn(tree', b)), EventIn(tree', c))
  BY <1>1, <1>2, ThreeReportsTell
<1>9. MeaningFrom(base, AllEvents)' = MeaningFrom(base, pending \o EventsIn(tree', <<a, b, c>>))
  BY <1>1
<1> QED BY <1>5, <1>7, <1>8, <1>9 DEF InTime, files

\* What one report of a change in time means
LEMMA SimpleChanges ==
  ASSUME FilesInv, InTime, FilesNext, Alone
  PROVE  \/ \E p \in Paths, q \in Paths : Rename(p, q)
         \/ \E p \in Path, kind \in {"create", "remove", "modify"} :
              /\ told' = <<Told(kind, p, p)>> /\ Told(kind, p, p) \in Report
              /\ kind = "create" =>
                   /\ p \notin DOMAIN tree
                   /\ \E m \in Metas : tree' = [q \in DOMAIN tree \cup {p} |-> IF q = p THEN m ELSE tree[q]]
              /\ kind = "modify" =>
                   /\ p \in DOMAIN tree
                   /\ \E m \in Metas : tree' = [q \in DOMAIN tree \cup {p} |-> IF q = p THEN m ELSE tree[q]]
              /\ kind = "remove" =>
                   /\ p \in DOMAIN tree /\ Below(p) = {p}
                   /\ tree' = [q \in DOMAIN tree \ {p} |-> tree[q]]
<1>1. Paths \subseteq Path /\ told = <<>> /\ ~May("border") /\ \A t : <<>> \o <<t>> = <<t>>
  BY PathsAre DEF FilesInv, InTime, Alone, May
<1>2. \A p \in Path : \A kind \in {"create", "remove", "modify"} : Told(kind, p, p) \in Report
  BY DEF Told, Report
<1>3. ASSUME NEW p \in Paths, NEW m \in Metas, Create(p, m)
      PROVE  /\ told' = <<Told("create", p, p)>> /\ p \notin DOMAIN tree
             /\ tree' = [q \in DOMAIN tree \cup {p} |-> IF q = p THEN m ELSE tree[q]]
  BY <1>1, <1>3 DEF Create, Change, Free
<1>4. ASSUME NEW p \in Paths, Modify(p)
      PROVE  /\ told' = <<Told("modify", p, p)>> /\ p \in DOMAIN tree
             /\ \E m \in Metas : tree' = [q \in DOMAIN tree \cup {p} |-> IF q = p THEN m ELSE tree[q]]
  <2>1. PICK v \in Versions : p \in DOMAIN tree /\ tree' = [tree EXCEPT ![p] = File(v)]
                              /\ told' = told \o <<Told("modify", p, p)>>
    BY <1>4 DEF Modify, Change
  <2>2. File(v) \in Metas
    BY DEF Metas
  <2>3. [tree EXCEPT ![p] = File(v)] = [q \in DOMAIN tree \cup {p} |-> IF q = p THEN File(v) ELSE tree[q]]
    <3>1. DOMAIN tree \cup {p} = DOMAIN tree /\ tree = [q \in DOMAIN tree |-> tree[q]]
      BY <2>1 DEF FilesInv, IsTree
    <3> QED BY <2>1, <3>1
  <2> QED BY <1>1, <2>1, <2>2, <2>3
<1>5. ASSUME NEW p \in Paths, Delete(p)
      PROVE  /\ told' = <<Told("remove", p, p)>> /\ p \in DOMAIN tree /\ Below(p) = {p}
             /\ tree' = [q \in DOMAIN tree \ {p} |-> tree[q]]
  BY <1>1, <1>5 DEF Delete, Change
<1> QED BY <1>1, <1>2, <1>3, <1>4, <1>5 DEF FilesNext, MoveIn, MoveOut

\* Alone, files only change in time.
LEMMA ChangesInTime ==
  ASSUME FilesInv, FilesNext, Alone
  PROVE  /\ told = <<>> /\ AllEvents = pending /\ UNCHANGED <<scenario, pending, base>>
         /\ TellsInv /\ base # NoMeta => InTime
<1>1. told = <<>> /\ UNCHANGED <<scenario, pending, base>>
  BY DEF FilesNext, Create, Modify, Delete, MoveOut, Rename, MoveIn, Change, Alone, May
<1>2. EventsIn(tree, <<>>) = <<>>
  BY DEF EventsIn
<1>3. AllEvents = pending
  BY <1>1, <1>2 DEF AllEvents, FilesInv
<1> QED BY <1>1, <1>3, LiveUpdatesAssumption DEF TellsInv, InTime

LEMMA SimpleTells ==
  ASSUME FilesInv, FilesInv', InTime, UNCHANGED <<pending, base>>,
         NEW p \in Path, NEW kind \in {"create", "remove", "modify"},
         told' = <<Told(kind, p, p)>>, Told(kind, p, p) \in Report,
         kind = "create" =>
           /\ p \notin DOMAIN tree
           /\ \E m \in Metas : tree' = [q \in DOMAIN tree \cup {p} |-> IF q = p THEN m ELSE tree[q]],
         kind = "modify" =>
           /\ p \in DOMAIN tree
           /\ \E m \in Metas : tree' = [q \in DOMAIN tree \cup {p} |-> IF q = p THEN m ELSE tree[q]],
         kind = "remove" =>
           /\ p \in DOMAIN tree /\ Below(p) = {p}
           /\ tree' = [q \in DOMAIN tree \ {p} |-> tree[q]]
  PROVE  MeaningFrom(base, AllEvents)' = tree'
<1> DEFINE t == Told(kind, p, p)
           e == EventIn(tree', t)
<1>1. t.kind = kind /\ t.path = p
  BY DEF Told
<1> HIDE DEF t
<1>2. MeantLive(tree, e) = tree'
  <2>1. ASSUME NEW m \in Metas, tree' = [q \in DOMAIN tree \cup {p} |-> IF q = p THEN m ELSE tree[q]]
        PROVE  MetaIn(tree', p) = m /\ m # NoMeta
    <3>1. p \in DOMAIN tree' /\ tree'[p] = m
      BY <2>1
    <3> QED BY <3>1 DEF MetaIn, InTime
  <2>2. CASE kind = "create"
    <3>1. PICK m \in Metas : tree' = [q \in DOMAIN tree \cup {p} |-> IF q = p THEN m ELSE tree[q]]
      BY <2>2
    <3>2. e = WatchEvent("created", p, p, m)
      BY <1>1, <2>1, <2>2, <3>1 DEF EventIn
    <3>3. MeantLive(tree, WatchEvent("created", p, p, m))
            = IF m # NoMeta
              THEN [q \in DOMAIN tree \cup {p} |-> IF q = p THEN m ELSE tree[q]] ELSE tree
      BY CreateMeant
    <3>4. m # NoMeta
      BY <2>1, <3>1
    <3> QED BY <3>1, <3>2, <3>3, <3>4
  <2>3. CASE kind = "modify"
    <3>1. PICK m \in Metas : tree' = [q \in DOMAIN tree \cup {p} |-> IF q = p THEN m ELSE tree[q]]
      BY <2>3
    <3>2. e = WatchEvent("metadata", p, p, m)
      BY <1>1, <2>1, <2>3, <3>1 DEF EventIn
    <3>3. MeantLive(tree, WatchEvent("metadata", p, p, m))
            = IF m # NoMeta /\ p \in DOMAIN tree
              THEN [q \in DOMAIN tree \cup {p} |-> IF q = p THEN m ELSE tree[q]] ELSE tree
      BY ModifyMeant
    <3>4. m # NoMeta /\ p \in DOMAIN tree
      BY <2>1, <2>3, <3>1
    <3> QED BY <3>1, <3>2, <3>3, <3>4
  <2>4. CASE kind = "remove"
    <3>1. e = WatchEvent("removed", p, p, NoMeta)
      BY <1>1, <2>4 DEF EventIn
    <3>2. MeantLive(tree, WatchEvent("removed", p, p, NoMeta))
            = [q \in DOMAIN tree \ {q \in DOMAIN tree : IsPrefix(p, q)} |-> tree[q]]
      BY DeleteMeant
    <3>3. {q \in DOMAIN tree : IsPrefix(p, q)} = {p}
      BY <2>4 DEF Below
    <3> QED BY <2>4, <3>1, <3>2, <3>3
  <2> QED BY <2>2, <2>3, <2>4
<1> QED BY <1>2, OneReportTells DEF InTime, t

LEMMA TellsStep ==
  ASSUME FilesInv, TellsInv, FilesNext \/ Callback \/ Apply
  PROVE  TellsInv'
<1>0. FilesInv'
  BY FilesInvStep
<1>1. CASE FilesNext
  <2> SUFFICES ASSUME Alone, base # NoMeta, UNCHANGED <<scenario, pending, base>>
               PROVE  MeaningFrom(base, AllEvents)' = tree'
    <3>1. UNCHANGED <<scenario, base>>
      BY <1>1 DEF FilesNext, Create, Modify, Delete, MoveOut, Rename, MoveIn, Change
    <3>2. Alone' => Alone
      BY <3>1 DEF Alone
    <3> QED BY <1>1, <3>1, <3>2, ChangesInTime DEF TellsInv
  <2>1. InTime
    BY <1>1, ChangesInTime
  <2>2. CASE \E p \in Paths, q \in Paths : Rename(p, q)
    BY <1>0, <2>1, <2>2, RenameTells
  <2>3. CASE ~\E p \in Paths, q \in Paths : Rename(p, q)
    <3>1. PICK p \in Path, kind \in {"create", "remove", "modify"} :
              /\ told' = <<Told(kind, p, p)>> /\ Told(kind, p, p) \in Report
              /\ kind = "create" =>
                   /\ p \notin DOMAIN tree
                   /\ \E m \in Metas : tree' = [q \in DOMAIN tree \cup {p} |-> IF q = p THEN m ELSE tree[q]]
              /\ kind = "modify" =>
                   /\ p \in DOMAIN tree
                   /\ \E m \in Metas : tree' = [q \in DOMAIN tree \cup {p} |-> IF q = p THEN m ELSE tree[q]]
              /\ kind = "remove" =>
                   /\ p \in DOMAIN tree /\ Below(p) = {p}
                   /\ tree' = [q \in DOMAIN tree \ {p} |-> tree[q]]
      BY <1>1, <2>1, <2>3, SimpleChanges
    <3> QED BY <1>0, <2>1, <3>1, SimpleTells
  <2> QED BY <2>2, <2>3
<1>2. CASE Callback
  <2>1. AllEvents' = AllEvents /\ UNCHANGED <<scenario, tree, base>>
    BY <1>2, CallbackTells DEF Callback
  <2> QED BY <2>1 DEF TellsInv, Alone
<1>3. CASE Apply
  <2>1. CASE told = <<>>
    <3>1. /\ base' = tree /\ tree' = tree /\ told' = <<>> /\ pending' = <<>>
      BY <1>3, <2>1 DEF Apply
    <3>2. AllEvents' = <<>>
      BY <3>1 DEF AllEvents, EventsIn
    <3> QED BY <3>1, <3>2, MeaningEmpty DEF TellsInv
  <2>2. CASE told # <<>>
    BY <1>3, <2>2 DEF Apply, TellsInv
  <2> QED BY <2>1, <2>2
<1> QED BY <1>1, <1>2, <1>3

LEMMA TellsAll == FilesInv /\ TellsInv => BatchTellsAll
<1> SUFFICES ASSUME FilesInv, TellsInv, Alone, base # NoMeta, told = <<>>
             PROVE  MeaningOf(pending) = tree
  BY DEF BatchTellsAll, Alone
<1>1. AllEvents = pending
  <2>1. EventsIn(tree, <<>>) = <<>>
    BY DEF EventsIn
  <2> QED BY <2>1 DEF AllEvents, FilesInv
<1> QED BY <1>1 DEF TellsInv, MeaningFrom, MeaningOf

-----------------------------------------------------------------------------
(* Coalescing                                                              *)

\* What is left of a batch in which nothing is renamed: one event for every path
\* that has changed since the files were "from", and it says what is there now.
TellsOnce(out, from, files) ==
  /\ out \in Seq(Event)
  /\ \A k \in DOMAIN out : out[k].kind # "renamed" /\ out[k].old = out[k].path
  /\ \A j, k \in DOMAIN out : out[j].path = out[k].path => j = k
  /\ \A k \in DOMAIN out :
       /\ out[k].kind = "removed" <=> out[k].path \notin DOMAIN files
       /\ out[k].kind # "removed" => out[k].meta = files[out[k].path]
       /\ out[k].kind = "metadata" => out[k].path \in DOMAIN from
  /\ \A p \in Path : (\A k \in DOMAIN out : out[k].path # p) =>
       /\ p \in DOMAIN files <=> p \in DOMAIN from
       /\ p \in DOMAIN files => files[p] = from[p]

\* The files after the first n of these events
Reached(out, from, files, n, g) ==
  /\ g = [p \in DOMAIN g |-> g[p]]
  /\ \A p \in DOMAIN files :
       /\ \A j \in 1..n : out[j].path = p => p \in DOMAIN g /\ g[p] = files[p]
       /\ (\A j \in DOMAIN out : out[j].path # p) => p \in DOMAIN g /\ g[p] = files[p]
       /\ p \in DOMAIN from => p \in DOMAIN g
  /\ \A p \in DOMAIN g \ DOMAIN files : \E j \in DOMAIN out : j > n /\ out[j].path = p

LEMMA ReachedNext ==
  ASSUME NEW from, NEW files, NEW out, IsTree(files), NoMeta \notin Metas, TellsOnce(out, from, files),
         NEW g, NEW n \in Nat, n + 1 \in DOMAIN out, Reached(out, from, files, n, g)
  PROVE  Reached(out, from, files, n + 1, MeantLive(g, out[n + 1]))
<1> DEFINE e == out[n + 1]
           h == MeantLive(g, e)
           path == e.path
<1>1. /\ e \in Event /\ e.kind # "renamed" /\ e.old = path /\ path \in Path
      /\ e.kind \in {"created", "removed", "metadata"}
      /\ e.kind = "removed" <=> path \notin DOMAIN files
      /\ e.kind # "removed" => e.meta = files[path]
      /\ e.kind = "metadata" => path \in DOMAIN from
  <2>1. e \in Event
    BY DEF TellsOnce
  <2>2. e.kind \in {"created", "removed", "metadata", "renamed"} /\ path \in Path
    BY <2>1 DEF Event
  <2> QED BY <2>1, <2>2 DEF TellsOnce
<1>2. \A j \in DOMAIN out : j # n + 1 => out[j].path # path
  BY DEF TellsOnce
<1>3. DOMAIN out = 1..Len(out) /\ Len(out) \in Nat /\ \A j \in 1..n + 1 : j \in 1..n \/ j = n + 1
  BY DEF TellsOnce
<1>4. \A p \in DOMAIN files : p \in Path /\ files[p] \in Metas
  BY DEF IsTree, Path
<1>5. CASE e.kind \in {"created", "metadata"}
  <2>1. path \in DOMAIN files /\ e.meta = files[path] /\ e.meta # NoMeta
        /\ (e.kind = "metadata" => path \in DOMAIN g)
    BY <1>1, <1>4, <1>5 DEF Reached
  <2>2. h = [p \in DOMAIN g \cup {path} |-> IF p = path THEN e.meta ELSE g[p]]
    <3>1. LiveEvent(NoRules, e) = <<e>>
      BY <1>5, <2>1, AllAllowed DEF LiveEvent
    <3>2. CASE e.kind = "created"
      BY <3>1, <3>2 DEF MeantLive, Meant
    <3>3. CASE e.kind = "metadata"
      BY <2>1, <3>1, <3>3 DEF MeantLive, Meant
    <3> QED BY <1>5, <3>2, <3>3
  <2> HIDE DEF h, e, path
  <2>3. DOMAIN h = DOMAIN g \cup {path} /\ \A p \in DOMAIN h : h[p] = IF p = path THEN e.meta ELSE g[p]
    BY <2>2
  <2>4. h = [p \in DOMAIN h |-> h[p]]
    BY <2>2
  <2>5. ASSUME NEW p \in DOMAIN files
        PROVE  /\ \A j \in 1..n + 1 : out[j].path = p => p \in DOMAIN h /\ h[p] = files[p]
               /\ (\A j \in DOMAIN out : out[j].path # p) => p \in DOMAIN h /\ h[p] = files[p]
               /\ p \in DOMAIN from => p \in DOMAIN h
    <3>1. CASE p = path
      BY <2>1, <2>3, <3>1
    <3>2. CASE p # path
      <4>1. \A j \in 1..n + 1 : out[j].path = p => j \in 1..n
        BY <1>3, <3>2 DEF e, path
      <4> QED BY <2>3, <3>2, <4>1 DEF Reached
    <3> QED BY <3>1, <3>2
  <2>6. ASSUME NEW p \in DOMAIN h \ DOMAIN files PROVE \E j \in DOMAIN out : j > n + 1 /\ out[j].path = p
    <3>1. p # path /\ p \in DOMAIN g \ DOMAIN files
      BY <2>1, <2>3, <2>6
    <3>2. PICK j \in DOMAIN out : j > n /\ out[j].path = p
      BY <3>1 DEF Reached
    <3>3. j # n + 1
      BY <3>1, <3>2 DEF e, path
    <3> QED BY <1>3, <3>2, <3>3
  <2> QED BY <2>4, <2>5, <2>6 DEF Reached, h, e
<1>6. CASE e.kind = "removed"
  <2> DEFINE below == {p \in DOMAIN g : IsPrefix(path, p)}
  <2>1. h = [p \in DOMAIN g \ below |-> g[p]]
    <3>1. LiveEvent(NoRules, e) = <<e>>
      BY <1>6 DEF LiveEvent
    <3> QED BY <1>1, <1>6, <3>1 DEF MeantLive, Meant
  <2> HIDE DEF h, e, path
  <2>2. DOMAIN h = DOMAIN g \ below /\ \A p \in DOMAIN h : h[p] = g[p]
    BY <2>1
  <2>3. h = [p \in DOMAIN h |-> h[p]]
    BY <2>1
  <2>4. \A p \in DOMAIN files : ~IsPrefix(path, p) /\ p # path
    BY <1>1, <1>6, TreeClosed
  <2>5. ASSUME NEW p \in DOMAIN files
        PROVE  /\ \A j \in 1..n + 1 : out[j].path = p => p \in DOMAIN h /\ h[p] = files[p]
               /\ (\A j \in DOMAIN out : out[j].path # p) => p \in DOMAIN h /\ h[p] = files[p]
               /\ p \in DOMAIN from => p \in DOMAIN h
    <3>1. \A j \in 1..n + 1 : out[j].path = p => j \in 1..n
      BY <1>3, <2>4 DEF e, path
    <3>2. p \in DOMAIN g => p \in DOMAIN h /\ h[p] = g[p]
      BY <2>2, <2>4
    <3> QED BY <3>1, <3>2 DEF Reached
  <2>6. ASSUME NEW p \in DOMAIN h \ DOMAIN files PROVE \E j \in DOMAIN out : j > n + 1 /\ out[j].path = p
    <3>1. p \in DOMAIN g \ DOMAIN files /\ ~IsPrefix(path, p)
      BY <2>2
    <3>2. p # path
      BY <1>1, <3>1, PrefixFront
    <3>3. PICK j \in DOMAIN out : j > n /\ out[j].path = p
      BY <3>1 DEF Reached
    <3>4. j # n + 1
      BY <3>2, <3>3 DEF e, path
    <3> QED BY <1>3, <3>3, <3>4
  <2> QED BY <2>3, <2>5, <2>6 DEF Reached, h, e
<1> QED BY <1>1, <1>5, <1>6

\* One event for every path that has changed means the files as they are.
LEMMA OnceIsEnough ==
  ASSUME NEW from, NEW files, NEW out, IsTree(from), IsTree(files), NoMeta \notin Metas,
         TellsOnce(out, from, files)
  PROVE  MeaningFrom(from, out) = files
<1> DEFINE g(n) == MeaningFrom(from, SubSeq(out, 1, n))
           T == {n \in Nat : n <= Len(out) => Reached(out, from, files, n, g(n))}
<1>1. out \in Seq(Event) /\ DOMAIN out = 1..Len(out) /\ Len(out) \in Nat
  BY DEF TellsOnce
<1>2. 0 \in T
  <2>1. SubSeq(out, 1, 0) = <<>>
    BY <1>1
  <2>2. g(0) = from
    BY <2>1, MeaningEmpty
  <2>3. Reached(out, from, files, 0, from)
    <3>1. from = [p \in DOMAIN from |-> from[p]]
      BY DEF IsTree
    <3>2. \A p \in DOMAIN files : p \in Path
      BY DEF IsTree, Path
    <3>3. \A p \in DOMAIN from : p \in Path
      BY DEF IsTree, Path
    <3>4. ASSUME NEW p \in DOMAIN from \ DOMAIN files PROVE \E j \in DOMAIN out : j > 0 /\ out[j].path = p
      <4>1. \E j \in DOMAIN out : out[j].path = p
        BY <3>3 DEF TellsOnce
      <4> QED BY <1>1, <4>1
    <3>5. ASSUME NEW p \in DOMAIN files, \A j \in DOMAIN out : out[j].path # p
          PROVE  p \in DOMAIN from /\ from[p] = files[p]
      BY <3>2, <3>5 DEF TellsOnce
    <3> QED BY <3>1, <3>4, <3>5 DEF Reached
  <2> QED BY <2>2, <2>3
<1>3. ASSUME NEW n \in Nat, n \in T PROVE n + 1 \in T
  <2> SUFFICES ASSUME n + 1 <= Len(out) PROVE Reached(out, from, files, n + 1, g(n + 1))
    OBVIOUS
  <2>1. n + 1 \in DOMAIN out /\ n <= Len(out)
    BY <1>1
  <2>2. Reached(out, from, files, n, g(n))
    BY <1>1, <1>3, <2>1
  <2>3. SubSeq(out, 1, n) \in Seq(Event) /\ out[n + 1] \in Event
        /\ SubSeq(out, 1, n + 1) = Append(SubSeq(out, 1, n), out[n + 1])
    BY <1>1, <2>1
  <2>4. g(n + 1) = MeantLive(g(n), out[n + 1])
    BY <2>3, MeaningAppend
  <2> HIDE DEF g
  <2> QED BY <2>1, <2>2, <2>4, ReachedNext
<1> HIDE DEF T
<1>4. Len(out) \in T
  BY <1>1, <1>2, <1>3, ApplyFold!NatSet
<1>5. Reached(out, from, files, Len(out), MeaningFrom(from, out))
  <2>1. SubSeq(out, 1, Len(out)) = out
    BY <1>1
  <2>2. Reached(out, from, files, Len(out), g(Len(out)))
    BY <1>1, <1>4 DEF T
  <2> QED BY <2>1, <2>2
<1> DEFINE m == MeaningFrom(from, out)
<1> HIDE DEF m
<1>6. Reached(out, from, files, Len(out), m)
  BY <1>5 DEF m
<1>7. \A p \in DOMAIN files : p \in DOMAIN m /\ m[p] = files[p]
  BY <1>1, <1>6 DEF Reached
<1>8. DOMAIN m \subseteq DOMAIN files
  <2>1. \A j \in DOMAIN out : ~(j > Len(out))
    BY <1>1
  <2> QED BY <1>6, <2>1 DEF Reached
<1>9. m = [p \in DOMAIN m |-> m[p]] /\ files = [p \in DOMAIN files |-> files[p]]
  BY <1>6 DEF Reached, IsTree
<1> QED BY <1>7, <1>8, <1>9 DEF m

\* One more change, and its event coalesced with those before it
LEMMA CoalesceOnce ==
  ASSUME NEW from, NEW files, NEW out, TellsOnce(out, from, files), NEW after, NEW e \in Event,
         e.kind \in {"created", "removed", "metadata"}, e.old = e.path,
         e.kind # "created" <=> e.path \in DOMAIN files,
         e.kind # "removed" <=> e.path \in DOMAIN after,
         e.kind # "removed" => e.meta = after[e.path],
         \A p : p # e.path => /\ p \in DOMAIN after <=> p \in DOMAIN files
                              /\ p \in DOMAIN files => after[p] = files[p]
  PROVE  TellsOnce(CoalesceOne(out, e), from, after)
<1> DEFINE path == e.path
           new == CoalesceOne(out, e)
           before == {k \in DOMAIN out : out[k].path = path /\ out[k].kind \in Supersedes(e.kind)}
\* new is out with something about the path at k
           Puts(k, f) ==
             /\ f \in Event /\ f.path = path /\ f.old = path /\ f.meta = e.meta
             /\ f.kind \in {"created", "removed", "metadata"}
             /\ f.kind = "removed" <=> e.kind = "removed"
             /\ f.kind = "metadata" => path \in DOMAIN from
             /\ \A j \in DOMAIN out : j = k <=> out[j].path = path
             /\ k \in DOMAIN new /\ DOMAIN new \subseteq DOMAIN out \cup {k}
             /\ DOMAIN out \subseteq DOMAIN new
             /\ new \in Seq(Event) /\ new[k] = f
             /\ \A j \in DOMAIN out : j # k => new[j] = out[j]
<1>1. out \in Seq(Event) /\ DOMAIN out = 1..Len(out) /\ Len(out) \in Nat /\ path \in Path
  BY DEF TellsOnce, Event
<1>2. before = {k \in DOMAIN out : out[k].path = path}
  <2>1. ASSUME NEW k \in DOMAIN out, out[k].path = path PROVE out[k].kind \in Supersedes(e.kind)
    <3>1. out[k].kind \in {"created", "removed", "metadata", "renamed"}
      <4>1. out[k] \in Event
        BY <1>1
      <4> QED BY <4>1 DEF Event
    <3>2. out[k].kind # "renamed" /\ (out[k].kind = "removed" <=> path \notin DOMAIN files)
      BY <2>1 DEF TellsOnce
    <3>3. CASE e.kind = "created"
      BY <3>1, <3>2, <3>3 DEF Supersedes
    <3>4. CASE e.kind \in {"removed", "metadata"}
      BY <3>1, <3>2, <3>4 DEF Supersedes
    <3> QED BY <3>3, <3>4
  <2> QED BY <2>1
<1>3. \E k, f : Puts(k, f)
  <2>1. CASE before = {}
    <3> DEFINE k == Len(out) + 1
    <3>1. new = Append(out, e)
      BY <2>1 DEF CoalesceOne
    <3>2. /\ new \in Seq(Event) /\ Len(new) = k /\ new[k] = e /\ \A j \in 1..Len(out) : new[j] = out[j]
      BY <1>1, <3>1, AppendProperties
    <3> HIDE DEF new
    <3>3. DOMAIN new = 1..k
      BY <3>2, LenProperties
    <3>4. \A j \in DOMAIN out : out[j].path # path /\ j # k
      BY <1>1, <1>2, <2>1
    <3>5. e.kind = "metadata" => path \in DOMAIN from
      BY <1>1, <3>4 DEF TellsOnce
    <3>6. Puts(k, e)
      BY <1>1, <3>2, <3>3, <3>4, <3>5
    <3> QED BY <3>6
  <2>2. CASE before # {}
    <3>1. PICK k \in DOMAIN out : out[k].path = path
      BY <1>2, <2>2
    <3>2. \A j \in DOMAIN out : j # k => out[j].path # path
      BY <3>1 DEF TellsOnce
    <3>3. before = {k}
      BY <1>2, <3>1, <3>2
    <3>4. LastOf(before) = k
      <4>1. k <= k
        BY <1>1, <3>1
      <4> QED BY <3>3, <4>1 DEF LastOf
    <3>5. out[k] \in Event /\ out[k].old = path /\ out[k].kind # "renamed"
          /\ (out[k].kind = "removed" <=> path \notin DOMAIN files)
          /\ (out[k].kind = "metadata" => path \in DOMAIN from)
      BY <1>1, <3>1 DEF TellsOnce
    <3> DEFINE f == IF e.kind = "metadata" THEN [out[k] EXCEPT !.meta = e.meta] ELSE e
    <3>6. new = [out EXCEPT ![k] = f]
      BY <2>2, <3>3, <3>4 DEF CoalesceOne
    <3>7. f \in Event /\ f.path = path /\ f.old = path /\ f.meta = e.meta
          /\ f.kind \in {"created", "removed", "metadata"}
          /\ (f.kind = "removed" <=> e.kind = "removed")
          /\ (f.kind = "metadata" => path \in DOMAIN from)
      <4>1. CASE e.kind # "metadata"
        BY <4>1
      <4>2. CASE e.kind = "metadata"
        <5>1. e.meta \in Metas \cup {NoMeta} /\ out[k].kind \in {"created", "metadata"}
          BY <3>5, <4>2 DEF Event
        <5>2. [out[k] EXCEPT !.meta = e.meta] \in Event
          BY <3>5, <5>1 DEF Event
        <5>3. /\ [out[k] EXCEPT !.meta = e.meta].kind = out[k].kind
              /\ [out[k] EXCEPT !.meta = e.meta].path = path
              /\ [out[k] EXCEPT !.meta = e.meta].old = path
              /\ [out[k] EXCEPT !.meta = e.meta].meta = e.meta
          BY <3>1, <3>5 DEF Event
        <5> QED BY <3>5, <4>2, <5>1, <5>2, <5>3
      <4> QED BY <4>1, <4>2
    <3> HIDE DEF f
    <3>8. new \in Seq(Event) /\ DOMAIN new = DOMAIN out /\ new[k] = f /\ \A j \in DOMAIN out : j # k => new[j] = out[j]
      BY <1>1, <3>1, <3>6, <3>7, ExceptSeq
    <3> HIDE DEF new
    <3>9. Puts(k, f)
      BY <3>1, <3>2, <3>7, <3>8
    <3> QED BY <3>9
  <2> QED BY <2>1, <2>2
<1> HIDE DEF new, before
<1>4. PICK k, f : Puts(k, f)
  BY <1>3
<1>5. \A j \in DOMAIN new : j = k \/ (j \in DOMAIN out /\ new[j] = out[j] /\ out[j].path # path)
  BY <1>4
<1>6. \A j \in DOMAIN new : new[j].kind # "renamed" /\ new[j].old = new[j].path
  BY <1>4, <1>5 DEF TellsOnce
<1>7. \A i, j \in DOMAIN new : new[i].path = new[j].path => i = j
  BY <1>4, <1>5 DEF TellsOnce
<1>8. ASSUME NEW j \in DOMAIN new
      PROVE  /\ new[j].kind = "removed" <=> new[j].path \notin DOMAIN after
             /\ new[j].kind # "removed" => new[j].meta = after[new[j].path]
             /\ new[j].kind = "metadata" => new[j].path \in DOMAIN from
  <2>1. CASE j = k
    BY <1>4, <2>1
  <2>2. CASE j # k
    <3>1. j \in DOMAIN out /\ new[j] = out[j] /\ out[j].path # path
      BY <1>5, <2>2
    <3>2. /\ out[j].kind = "removed" <=> out[j].path \notin DOMAIN files
          /\ out[j].kind # "removed" => out[j].meta = files[out[j].path]
          /\ out[j].kind = "metadata" => out[j].path \in DOMAIN from
      BY <3>1 DEF TellsOnce
    <3> QED BY <3>1, <3>2
  <2> QED BY <2>1, <2>2
<1>9. ASSUME NEW p \in Path, \A j \in DOMAIN new : new[j].path # p
      PROVE  /\ p \in DOMAIN after <=> p \in DOMAIN from
             /\ p \in DOMAIN after => after[p] = from[p]
  <2>1. p # path
    BY <1>4, <1>9
  <2>2. \A j \in DOMAIN out : out[j].path # p
    BY <1>4, <1>9, <2>1
  <2> QED BY <2>1, <2>2 DEF TellsOnce
<1>10. new \in Seq(Event)
  BY <1>4
<1>11. TellsOnce(new, from, after)
  BY <1>6, <1>7, <1>8, <1>9, <1>10 DEF TellsOnce
<1> QED BY <1>11 DEF new

NoRenames(events) == \A i \in DOMAIN events : events[i].kind # "renamed"

\* As long as nothing has been renamed, coalescing leaves one event for every path
\* that has changed.
OnceInv ==
  /\ base # NoMeta => IsTree(base)
  /\ Alone /\ base # NoMeta /\ NoRenames(AllEvents) =>
       /\ FoldLeft(CollapseOne, <<>>, AllEvents) = AllEvents
       /\ TellsOnce(Coalesced(AllEvents), base, tree)

LEMMA CoalescedEmpty == FoldLeft(CollapseOne, <<>>, <<>>) = <<>> /\ Coalesced(<<>>) = <<>>
BY Folds, CollapseFold!FoldEmpty, CoalesceFold!FoldEmpty DEF Coalesced

LEMMA NothingToTell == ASSUME NEW files PROVE TellsOnce(<<>>, files, files)
BY DEF TellsOnce

LEMMA OnceInit == Init => OnceInv
<1> SUFFICES ASSUME Init PROVE OnceInv
  OBVIOUS
<1>1. AllEvents = <<>> /\ base = tree
  BY DEF Init, AllEvents, EventsIn
<1>2. IsTree(tree)
  BY LiveUpdatesAssumption DEF Init
<1> QED BY <1>1, <1>2, CoalescedEmpty, NothingToTell DEF OnceInv

LEMMA RenameIsTold ==
  ASSUME FilesInv, FilesInv', told = <<>>, NEW p, NEW q, Rename(p, q)
  PROVE  ~NoRenames(AllEvents')
<1> DEFINE s == EventsIn(tree', told')
           n == Len(pending)
<1>1. told' = <<Told("modify", p, p), Told("modify", q, q), Told("both", q, p)>> /\ pending' = pending
  BY DEF Rename, Change
<1>2. s \in Seq(Event) /\ Len(s) = 3 /\ pending \in Seq(Event) /\ n \in Nat
  <2>1. told' \in Seq(Report) /\ IsTree(tree') /\ pending \in Seq(Event)
    BY DEF FilesInv
  <2>2. Len(told') = 3
    BY <1>1
  <2>3. s \in Seq(Event) /\ Len(s) = Len(told')
    BY <2>1, EventsInTyped
  <2> QED BY <2>1, <2>2, <2>3
<1>3. s[3].kind = "renamed"
  <2>1. told'[3] = Told("both", q, p) /\ 3 \in 1..Len(told')
    BY <1>1
  <2>2. s[3] = EventIn(tree', Told("both", q, p))
    BY <2>1 DEF EventsIn
  <2> QED BY <2>2 DEF EventIn, Told, WatchEvent
<1> HIDE DEF s
<1>4. (pending \o s)[n + 3] = s[3] /\ n + 3 \in DOMAIN (pending \o s)
  <2>1. /\ pending \o s \in Seq(Event) /\ Len(pending \o s) = n + 3
        /\ \A i \in 1..n + 3 : (pending \o s)[i] = IF i <= n THEN pending[i] ELSE s[i - n]
    <3>1. /\ pending \o s \in Seq(Event) /\ Len(pending \o s) = Len(pending) + Len(s)
          /\ \A i \in 1..Len(pending) + Len(s) :
               (pending \o s)[i] = IF i <= Len(pending) THEN pending[i] ELSE s[i - Len(pending)]
      BY <1>2, ConcatProperties
    <3> QED BY <1>2, <3>1
  <2>2. n + 3 \in 1..n + 3 /\ ~(n + 3 <= n) /\ (n + 3) - n = 3
    BY <1>2
  <2>3. DOMAIN (pending \o s) = 1..n + 3
    BY <2>1, LenProperties
  <2> QED BY <2>1, <2>2, <2>3
<1>5. AllEvents' = pending \o s
  BY <1>1 DEF AllEvents, s
<1> QED BY <1>3, <1>4, <1>5 DEF NoRenames

LEMMA OneReportOnce ==
  ASSUME FilesInv, FilesInv', OnceInv, Alone, base # NoMeta, AllEvents = pending,
         UNCHANGED <<pending, base>>,
         NEW p \in Path, NEW kind \in {"create", "remove", "modify"},
         told' = <<Told(kind, p, p)>>, Told(kind, p, p) \in Report,
         kind = "create" =>
           /\ p \notin DOMAIN tree
           /\ \E m \in Metas : tree' = [q \in DOMAIN tree \cup {p} |-> IF q = p THEN m ELSE tree[q]],
         kind = "modify" =>
           /\ p \in DOMAIN tree
           /\ \E m \in Metas : tree' = [q \in DOMAIN tree \cup {p} |-> IF q = p THEN m ELSE tree[q]],
         kind = "remove" =>
           /\ p \in DOMAIN tree /\ Below(p) = {p}
           /\ tree' = [q \in DOMAIN tree \ {p} |-> tree[q]],
         NoRenames(AllEvents')
  PROVE  /\ FoldLeft(CollapseOne, <<>>, AllEvents') = AllEvents'
         /\ TellsOnce(Coalesced(AllEvents'), base, tree')
<1> DEFINE t == Told(kind, p, p)
           e == EventIn(tree', t)
<1>1. t.kind = kind /\ t.path = p /\ t \in Report
  BY DEF Told
<1>2. AllEvents' = Append(pending, e) /\ e \in Event /\ pending \in Seq(Event)
  <2>1. AllEvents' = pending \o EventsIn(tree', <<t>>)
    BY DEF AllEvents
  <2> HIDE DEF t
  <2> QED BY <1>1, <2>1, ToldAppend DEF FilesInv
<1> HIDE DEF t
<1>3. NoRenames(pending)
  <2>1. \A i \in DOMAIN pending : i \in DOMAIN AllEvents' /\ AllEvents'[i] = pending[i]
    BY <1>2, AppendProperties
  <2> QED BY <2>1 DEF NoRenames
<1>4. FoldLeft(CollapseOne, <<>>, pending) = pending /\ TellsOnce(Coalesced(pending), base, tree)
  BY <1>3 DEF OnceInv
<1>5. /\ e.kind \in {"created", "removed", "metadata"} /\ e.path = p /\ e.old = p
      /\ e.kind = "created" <=> kind = "create"
      /\ e.kind = "removed" <=> kind = "remove"
      /\ e.kind # "removed" => e.meta = MetaIn(tree', p)
  BY <1>1 DEF EventIn, WatchEvent
<1> HIDE DEF e
<1>6. /\ kind # "create" <=> p \in DOMAIN tree
      /\ kind # "remove" <=> p \in DOMAIN tree'
      /\ \A q : q # p => /\ q \in DOMAIN tree' <=> q \in DOMAIN tree
                         /\ q \in DOMAIN tree => tree'[q] = tree[q]
  <2>1. CASE kind = "remove"
    BY <2>1
  <2>2. CASE kind # "remove"
    <3>1. PICK m : tree' = [q \in DOMAIN tree \cup {p} |-> IF q = p THEN m ELSE tree[q]]
      BY <2>2
    <3> QED BY <2>2, <3>1
  <2> QED BY <2>1, <2>2
<1>7. CollapseOne(pending, e) = Append(pending, e)
  BY <1>5 DEF CollapseOne
<1>8. FoldLeft(CollapseOne, <<>>, Append(pending, e)) = Append(pending, e)
  <2>1. \A out : FoldLeft(CollapseOne, out, Append(pending, e)) = CollapseOne(FoldLeft(CollapseOne, out, pending), e)
    BY <1>2, FoldsAppend
  <2> QED BY <1>4, <1>7, <2>1
<1>9. Coalesced(Append(pending, e)) = CoalesceOne(Coalesced(pending), e)
  <2>1. \A out : FoldLeft(CoalesceOne, out, Append(pending, e)) = CoalesceOne(FoldLeft(CoalesceOne, out, pending), e)
    BY <1>2, FoldsAppend
  <2> QED BY <1>4, <1>8, <2>1 DEF Coalesced
<1>10. e.kind # "removed" => e.meta = tree'[p]
  BY <1>5, <1>6 DEF MetaIn
<1>11. TellsOnce(CoalesceOne(Coalesced(pending), e), base, tree')
  BY <1>2, <1>4, <1>5, <1>6, <1>10, CoalesceOnce
<1> QED BY <1>2, <1>8, <1>9, <1>11

LEMMA OnceStep ==
  ASSUME FilesInv, TellsInv, OnceInv, FilesNext \/ Callback \/ Apply
  PROVE  OnceInv'
<1>0. FilesInv'
  BY FilesInvStep
<1>1. CASE FilesNext
  <2>1. UNCHANGED <<scenario, base>>
    BY <1>1 DEF FilesNext, Create, Modify, Delete, MoveOut, Rename, MoveIn, Change
  <2>2. base' # NoMeta => IsTree(base')
    BY <2>1 DEF OnceInv
  <2>3. ASSUME Alone, base # NoMeta, NoRenames(AllEvents')
        PROVE  /\ FoldLeft(CollapseOne, <<>>, AllEvents') = AllEvents'
               /\ TellsOnce(Coalesced(AllEvents'), base, tree')
    <3>1. InTime /\ AllEvents = pending /\ UNCHANGED <<pending, base>>
      BY <1>1, <2>3, ChangesInTime
    <3>2. \A p, q \in Paths : ~Rename(p, q)
      BY <1>0, <2>3, <3>1, RenameIsTold DEF InTime
    <3>3. PICK p \in Path, kind \in {"create", "remove", "modify"} :
              /\ told' = <<Told(kind, p, p)>> /\ Told(kind, p, p) \in Report
              /\ kind = "create" =>
                   /\ p \notin DOMAIN tree
                   /\ \E m \in Metas : tree' = [q \in DOMAIN tree \cup {p} |-> IF q = p THEN m ELSE tree[q]]
              /\ kind = "modify" =>
                   /\ p \in DOMAIN tree
                   /\ \E m \in Metas : tree' = [q \in DOMAIN tree \cup {p} |-> IF q = p THEN m ELSE tree[q]]
              /\ kind = "remove" =>
                   /\ p \in DOMAIN tree /\ Below(p) = {p}
                   /\ tree' = [q \in DOMAIN tree \ {p} |-> tree[q]]
      BY <1>1, <2>3, <3>1, <3>2, SimpleChanges
    <3> QED BY <1>0, <2>3, <3>1, <3>3, OneReportOnce
  <2> QED BY <2>1, <2>2, <2>3 DEF OnceInv, Alone
<1>2. CASE Callback
  <2>1. AllEvents' = AllEvents /\ UNCHANGED <<scenario, tree, base>>
    BY <1>2, CallbackTells DEF Callback
  <2> QED BY <2>1 DEF OnceInv, Alone
<1>3. CASE Apply
  <2>1. CASE told = <<>>
    <3>1. /\ base' = tree /\ tree' = tree /\ told' = <<>> /\ pending' = <<>>
      BY <1>3, <2>1 DEF Apply
    <3>2. AllEvents' = <<>>
      BY <3>1 DEF AllEvents, EventsIn
    <3> QED BY <3>1, <3>2, CoalescedEmpty, NothingToTell DEF OnceInv, FilesInv
  <2>2. CASE told # <<>>
    BY <1>3, <2>2 DEF Apply, OnceInv
  <2> QED BY <2>1, <2>2
<1> QED BY <1>1, <1>2, <1>3

LEMMA CoalescedOnce == FilesInv /\ OnceInv => CoalescingIsSafeUnrenamed
<1> SUFFICES ASSUME FilesInv, OnceInv, Alone, NoRenames(pending), base # NoMeta, told = <<>>
             PROVE  MeaningOf(Coalesced(pending)) = tree
  BY DEF CoalescingIsSafeUnrenamed, CoalescingIsSafe, Alone, NoRenames
<1>1. AllEvents = pending
  <2>1. EventsIn(tree, <<>>) = <<>>
    BY DEF EventsIn
  <2> QED BY <2>1 DEF AllEvents, FilesInv
<1>2. TellsOnce(Coalesced(pending), base, tree) /\ IsTree(base) /\ IsTree(tree)
  BY <1>1 DEF OnceInv, FilesInv
<1>3. MeaningFrom(base, Coalesced(pending)) = tree
  BY <1>2, OnceIsEnough, LiveUpdatesAssumption
<1> QED BY <1>3 DEF MeaningFrom, MeaningOf

-----------------------------------------------------------------------------
(* The three together                                                      *)

UpdatesInv == LiveInv /\ TellsInv /\ OnceInv

LEMMA UpdatesInvInit == Init => UpdatesInv
BY LiveInvInit, TellsInit, OnceInit DEF UpdatesInv

LEMMA UpdatesInvStep == ASSUME UpdatesInv, FilesNext \/ Callback \/ Apply PROVE UpdatesInv'
BY LiveInvStep, TellsStep, OnceStep DEF UpdatesInv, LiveInv

LEMMA UpdatesInvKept == ASSUME UpdatesInv, UNCHANGED vars PROVE UpdatesInv'
BY LiveInvKept DEF UpdatesInv, TellsInv, OnceInv, Alone, AllEvents, vars

\* The device is scanned again, whatever has been told and not applied.
LEMMA UpdatesInvScanned ==
  ASSUME UpdatesInv, UNCHANGED <<scenario, tree, told, pending, base>>,
         NEW order \in ScanOrders(tree), index' = FilterIndex(Scanned(tree, order), scenario.rules)
  PROVE  UpdatesInv'
BY LiveInvScanned DEF UpdatesInv, TellsInv, OnceInv, Alone, AllEvents

LEMMA UpdatesInvImplies ==
  UpdatesInv => StaysLoadable /\ BatchTellsAll /\ CoalescingIsSafeUnrenamed
BY LiveLoadable, TellsAll, CoalescedOnce DEF UpdatesInv, LiveInv

\* Whatever happens to the files, oxidexd's index is one that read_index accepts, a
\* batch tells what has happened, and coalesce_watch_events loses nothing of a batch
\* without renames: each in the scenarios that it speaks of.
THEOREM UpdatesHold == Spec => [](StaysLoadable /\ BatchTellsAll /\ CoalescingIsSafeUnrenamed)
<1>1. UpdatesInv /\ [Next]_vars => UpdatesInv'
  <2>1. Next => FilesNext \/ Callback \/ Apply
    BY DEF Next, FilesNext
  <2> QED BY <2>1, UpdatesInvStep, UpdatesInvKept
<1> QED BY <1>1, UpdatesInvInit, UpdatesInvImplies, PTL DEF Spec

-----------------------------------------------------------------------------
(* The paths of records                                                    *)

\* P gives every record its path: a record has the last name of its path, and its
\* parent is the record of the directory; only names in "/" have no parent.
ArePaths(records, P) ==
  /\ AreRecords(records)
  /\ P \in [DOMAIN records -> Path]
  /\ \A i \in DOMAIN records :
       /\ Len(P[i]) <= MaxDepth
       /\ records[i].name = NoName <=> P[i] = <<>>
       /\ P[i] = <<>> => records[i].parent = RootParent
       /\ P[i] # <<>> =>
            /\ records[i].name = Last(P[i])
            /\ IF records[i].parent = RootParent THEN Front(P[i]) = <<>>
               ELSE P[records[i].parent] = Front(P[i])

\* The walk from a record to the root that PathFor takes
NextOnWalk(records, path, i, depth) ==
  IF i \notin DOMAIN records \/ depth > MaxDepth \/ records[i].name = NoName THEN <<>>
  ELSE IF records[i].parent \in {RootParent, i} THEN <<records[i].name>>
  ELSE Append(path[<<records[i].parent, depth + 1>>], records[i].name)

Walk(records, path) == [at \in Nat \X Nat |-> NextOnWalk(records, path, at[1], at[2])]

LEMMA WalkAt ==
  ASSUME NEW records, NEW path, NEW i \in Nat, NEW d \in Nat
  PROVE  Walk(records, path)[<<i, d>>] = NextOnWalk(records, path, i, d)
BY DEF Walk

\* There is such a function: the steps are bounded.
LEMMA WalkEnds ==
  ASSUME NEW records, \A i \in DOMAIN records : records[i].parent \in Nat
  PROVE  \E path : path = Walk(records, path)
<1> DEFINE Good(f, m) == \A i, d \in Nat : d + m > MaxDepth => f[<<i, d>>] = NextOnWalk(records, f, i, d)
           T == {m \in Nat : \E f : Good(f, m)}
<1>0. MaxDepth \in Nat
  BY IndexAssumption
<1>1. 0 \in T
  <2> DEFINE f == [at \in Nat \X Nat |-> <<>>]
  <2>1. \A i, d \in Nat : f[<<i, d>>] = <<>>
    OBVIOUS
  <2> HIDE DEF f
  <2>2. ASSUME NEW i \in Nat, NEW d \in Nat, d + 0 > MaxDepth PROVE f[<<i, d>>] = NextOnWalk(records, f, i, d)
    <3>1. d > MaxDepth
      BY <2>2, <1>0
    <3> QED BY <2>1, <3>1 DEF NextOnWalk
  <2> QED BY <2>2
<1>2. ASSUME NEW m \in Nat, m \in T PROVE m + 1 \in T
  <2>1. PICK f : Good(f, m)
    BY <1>2
  <2> DEFINE g == Walk(records, f)
  <2>2. ASSUME NEW i \in Nat, NEW d \in Nat, d + (m + 1) > MaxDepth
        PROVE  g[<<i, d>>] = NextOnWalk(records, g, i, d)
    <3>1. g[<<i, d>>] = NextOnWalk(records, f, i, d)
      BY WalkAt
    <3>2. ASSUME i \in DOMAIN records
          PROVE  g[<<records[i].parent, d + 1>>] = f[<<records[i].parent, d + 1>>]
      <4>1. records[i].parent \in Nat /\ d + 1 \in Nat /\ (d + 1) + m > MaxDepth
        BY <1>0, <2>2, <3>2
      <4>2. g[<<records[i].parent, d + 1>>] = NextOnWalk(records, f, records[i].parent, d + 1)
        BY <4>1, WalkAt
      <4> QED BY <2>1, <4>1, <4>2
    <3> HIDE DEF g
    <3> QED BY <3>1, <3>2 DEF NextOnWalk
  <2> HIDE DEF g
  <2> QED BY <2>2
<1> HIDE DEF T
<1>3. MaxDepth + 1 \in T
  <2>1. Nat \subseteq T
    BY <1>1, <1>2, ApplyFold!NatSet
  <2> QED BY <1>0, <2>1
<1>4. PICK f : Good(f, MaxDepth + 1)
  BY <1>3 DEF T
<1> DEFINE g == Walk(records, f)
<1>5. ASSUME NEW i \in Nat, NEW d \in Nat PROVE f[<<i, d>>] = g[<<i, d>>]
  <2>1. f[<<i, d>>] = NextOnWalk(records, f, i, d)
    BY <1>0, <1>4
  <2> QED BY <2>1, WalkAt
<1> HIDE DEF g
<1>6. ASSUME NEW i \in Nat, NEW d \in Nat PROVE NextOnWalk(records, f, i, d) = NextOnWalk(records, g, i, d)
  <2>1. i \in DOMAIN records => f[<<records[i].parent, d + 1>>] = g[<<records[i].parent, d + 1>>]
    BY <1>0, <1>5
  <2> QED BY <2>1 DEF NextOnWalk
<1>7. Walk(records, f) = Walk(records, g)
  BY <1>6 DEF Walk
<1> QED BY <1>7 DEF g

\* build_path_for makes the path that fits.
LEMMA PathForIs ==
  ASSUME NEW records, NEW P, ArePaths(records, P), NEW i \in DOMAIN records
  PROVE  PathFor(records, i) = P[i]
<1> DEFINE path == CHOOSE f : f = Walk(records, f)
<1>1. PathFor(records, i) = path[<<i, 0>>]
  BY DEF PathFor, Walk, NextOnWalk
<1>2. path = Walk(records, path)
  <2>1. \A k \in DOMAIN records : records[k].parent \in Nat
    BY DEF ArePaths, AreRecords, Record
  <2> QED BY <2>1, WalkEnds
<1> HIDE DEF path
<1>3. MaxDepth \in Nat /\ DOMAIN records \subseteq Nat \ {0} /\ NoName \notin Names
      /\ \A k \in DOMAIN records : records[k].parent \in Nat /\ records[k].parent \in 0..Len(records)
      /\ DOMAIN records = 1..Len(records) /\ Len(records) \in Nat
  BY IndexAssumption DEF ArePaths, AreRecords, Record
<1> DEFINE T == {n \in Nat : \A k \in DOMAIN records : \A d \in Nat :
                   Len(P[k]) = n /\ d + n <= MaxDepth => path[<<k, d>>] = P[k]}
<1>4. ASSUME NEW k \in DOMAIN records, NEW d \in Nat, d <= MaxDepth
      PROVE  path[<<k, d>>] = IF records[k].name = NoName THEN <<>>
                          ELSE IF records[k].parent \in {RootParent, k} THEN <<records[k].name>>
                          ELSE Append(path[<<records[k].parent, d + 1>>], records[k].name)
  <2>1. k \in Nat /\ ~(d > MaxDepth)
    BY <1>3, <1>4
  <2>2. path[<<k, d>>] = NextOnWalk(records, path, k, d)
    BY <1>2, <2>1, WalkAt
  <2> QED BY <2>1, <2>2 DEF NextOnWalk
<1>5. ASSUME NEW k \in DOMAIN records, P[k] # <<>>
      PROVE  /\ records[k].name = Last(P[k]) /\ records[k].name # NoName
             /\ Append(Front(P[k]), Last(P[k])) = P[k]
             /\ Front(P[k]) = <<>> => P[k] = <<Last(P[k])>>
             /\ records[k].parent = RootParent => Front(P[k]) = <<>>
             /\ records[k].parent # RootParent =>
                  records[k].parent \in DOMAIN records /\ P[records[k].parent] = Front(P[k])
                  /\ records[k].parent # k
             /\ Len(Front(P[k])) = Len(P[k]) - 1
  <2>1. P[k] \in Path
    BY DEF ArePaths
  <2>2. /\ Front(P[k]) \in Path /\ Len(P[k]) \in Nat \ {0} /\ Len(Front(P[k])) = Len(P[k]) - 1
        /\ Last(P[k]) \in Names /\ \A j \in 1..(Len(P[k]) - 1) : Front(P[k])[j] = P[k][j]
    BY <1>5, <2>1, FrontOf
  <2>3. Append(Front(P[k]), Last(P[k])) = P[k]
    <3> DEFINE a == Append(Front(P[k]), Last(P[k]))
    <3>1. /\ a \in Seq(Names) /\ Len(a) = Len(Front(P[k])) + 1
          /\ \A j \in 1..Len(Front(P[k])) : a[j] = Front(P[k])[j]
          /\ a[Len(Front(P[k])) + 1] = Last(P[k])
      BY <2>2, AppendProperties DEF Path
    <3>2. \A j \in 1..Len(P[k]) : j \in 1..(Len(P[k]) - 1) \/ j = Len(P[k])
      BY <2>2
    <3> HIDE DEF a
    <3>3. Last(P[k]) = P[k][Len(P[k])]
      BY DEF Last
    <3> HIDE DEF Last, Front
    <3>4. Len(a) = Len(P[k]) /\ a[Len(P[k])] = P[k][Len(P[k])]
      BY <2>2, <3>1, <3>3
    <3>5. \A j \in 1..Len(a) : a[j] = P[k][j]
      BY <2>2, <3>1, <3>2, <3>4
    <3> QED BY <2>1, <3>1, <3>4, <3>5, PathEqual DEF Path, a
  <2>4. Front(P[k]) = <<>> => P[k] = <<Last(P[k])>>
    BY <2>3
  <2>5. records[k].name = Last(P[k]) /\ records[k].name # NoName
    BY <1>5 DEF ArePaths
  <2>6. records[k].parent = RootParent => Front(P[k]) = <<>>
    BY <1>5 DEF ArePaths
  <2>7. ASSUME records[k].parent # RootParent
        PROVE  records[k].parent \in DOMAIN records /\ P[records[k].parent] = Front(P[k])
               /\ records[k].parent # k
    <3>1. records[k].parent \in DOMAIN records
      BY <1>3, <2>7 DEF RootParent
    <3>2. P[records[k].parent] = Front(P[k])
      BY <1>5, <2>7 DEF ArePaths
    <3> QED BY <2>2, <3>1, <3>2
  <2> QED BY <2>2, <2>3, <2>4, <2>5, <2>6, <2>7
<1>6. 0 \in T
  <2>1. ASSUME NEW k \in DOMAIN records, NEW d \in Nat, Len(P[k]) = 0, d <= MaxDepth PROVE path[<<k, d>>] = P[k]
    <3>1. P[k] = <<>> /\ records[k].name = NoName
      BY <2>1, PathTypes DEF ArePaths
    <3> QED BY <1>4, <2>1, <3>1
  <2> QED BY <2>1, <1>3
<1>7. ASSUME NEW n \in Nat, n \in T PROVE n + 1 \in T
  <2>1. ASSUME NEW k \in DOMAIN records, NEW d \in Nat, Len(P[k]) = n + 1, d + (n + 1) <= MaxDepth
        PROVE path[<<k, d>>] = P[k]
    <3>1. d <= MaxDepth /\ P[k] # <<>>
      BY <1>3, <2>1
    <3>2. CASE records[k].parent = RootParent
      <4>1. P[k] = <<records[k].name>> /\ records[k].name # NoName
        BY <1>5, <3>1, <3>2
      <4>2. path[<<k, d>>] = <<records[k].name>>
        BY <1>4, <3>1, <3>2, <4>1
      <4> QED BY <4>1, <4>2
    <3>3. CASE records[k].parent # RootParent
      <4> DEFINE j == records[k].parent
      <4>1. j \in DOMAIN records /\ P[j] = Front(P[k]) /\ Len(P[j]) = n /\ j # k
        BY <1>5, <2>1, <3>1, <3>3
      <4>2. d + 1 \in Nat /\ (d + 1) + n <= MaxDepth
        BY <1>3, <2>1
      <4>3. path[<<j, d + 1>>] = P[j]
        BY <1>7, <4>1, <4>2
      <4>4. path[<<k, d>>] = Append(path[<<j, d + 1>>], records[k].name)
        BY <1>4, <1>5, <3>1, <3>3, <4>1
      <4> QED BY <1>5, <3>1, <4>1, <4>3, <4>4
    <3> QED BY <3>2, <3>3
  <2> QED BY <2>1
<1> HIDE DEF T
<1>8. Nat \subseteq T
  BY <1>6, <1>7, ApplyFold!NatSet
<1>9. Len(P[i]) \in T /\ Len(P[i]) <= MaxDepth /\ Len(P[i]) \in Nat
  BY <1>8, PathTypes DEF ArePaths
<1> QED BY <1>1, <1>3, <1>9 DEF T

\* The paths that rebuild_accelerators makes are the only ones that fit the records.
LEMMA RebuiltPaths ==
  ASSUME NEW records, NEW P, ArePaths(records, P)
  PROVE  Rebuilt(records).records = records /\ Rebuilt(records).paths = P
<1>1. P = [i \in DOMAIN records |-> P[i]]
  BY DEF ArePaths
<1>2. [i \in DOMAIN records |-> PathFor(records, i)] = [i \in DOMAIN records |-> P[i]]
  BY PathForIs
<1> QED BY <1>1, <1>2 DEF Rebuilt

-----------------------------------------------------------------------------
(* What an index shows                                                     *)

\* Every file once, with its metadata
Shows(ix, files) ==
  /\ ArePaths(ix.records, ix.paths)
  /\ \A i, j \in DOMAIN ix.records : ix.paths[i] = ix.paths[j] => i = j
  /\ DOMAIN files = {ix.paths[i] : i \in DOMAIN ix.records}
  /\ \A i \in DOMAIN ix.records : ix.records[i].meta = files[ix.paths[i]]

With(files, p, m) == [q \in DOMAIN files \cup {p} |-> IF q = p THEN m ELSE files[q]]
Without(files, p) == [q \in DOMAIN files \ {p} |-> files[q]]

\* An index shows its records, at the paths that fit them.
LEMMA RebuiltShows ==
  ASSUME NEW records, NEW P, ArePaths(records, P), NEW files,
         \A i, j \in DOMAIN records : P[i] = P[j] => i = j,
         DOMAIN files = {P[i] : i \in DOMAIN records},
         \A i \in DOMAIN records : records[i].meta = files[P[i]]
  PROVE  Shows(Rebuilt(records), files)
BY RebuiltPaths DEF Shows

LEMMA ShownTyped ==
  ASSUME NEW ix, NEW files, Shows(ix, files)
  PROVE  /\ AreRecords(ix.records) /\ Len(ix.records) \in Nat
         /\ DOMAIN ix.records = 1..Len(ix.records) /\ DOMAIN ix.paths = 1..Len(ix.records)
         /\ ix.paths \in [DOMAIN ix.records -> Path]
         /\ \A i \in DOMAIN ix.records : ix.records[i] \in Record /\ ix.records[i].parent \in 0..Len(ix.records)
         /\ DOMAIN files \subseteq Path
BY DEF Shows, ArePaths, AreRecords

\* A file that is shown is found at its path.
LEMMA ShownFound ==
  ASSUME NEW ix, NEW files, Shows(ix, files), NEW p
  PROVE  /\ p \in DOMAIN files => /\ Lookup(ix, p) \in DOMAIN ix.records /\ Lookup(ix, p) # 0
                                  /\ ix.paths[Lookup(ix, p)] = p
                                  /\ \A i \in DOMAIN ix.records : ix.paths[i] = p => i = Lookup(ix, p)
         /\ p \notin DOMAIN files => Lookup(ix, p) = 0
<1> DEFINE found == {i \in DOMAIN ix.paths : ix.paths[i] = p}
<1>1. DOMAIN ix.paths = DOMAIN ix.records /\ DOMAIN ix.records = 1..Len(ix.records) /\ Len(ix.records) \in Nat
  BY ShownTyped
<1>2. p \in DOMAIN files <=> \E i \in DOMAIN ix.records : ix.paths[i] = p
  BY DEF Shows
<1>3. CASE p \in DOMAIN files
  <2>1. PICK i \in DOMAIN ix.records : ix.paths[i] = p
    BY <1>2, <1>3
  <2>2. found = {i}
    BY <1>1, <2>1 DEF Shows
  <2>3. Lookup(ix, p) = CHOOSE k \in {i} : \A j \in {i} : k <= j
    BY <2>2 DEF Lookup
  <2>4. i <= i
    BY <1>1, <2>1
  <2>5. Lookup(ix, p) = i
    BY <2>3, <2>4
  <2> QED BY <1>1, <1>3, <2>1, <2>5 DEF Shows
<1>4. CASE p \notin DOMAIN files
  <2>1. found = {}
    BY <1>1, <1>2, <1>4
  <2> QED BY <1>4, <2>1 DEF Lookup
<1> QED BY <1>3, <1>4

\* An index in the middle of a batch
Begun(ix) == [records |-> ix.records, paths |-> ix.paths, changed |-> FALSE]

LEMMA BegunIs ==
  ASSUME NEW ix
  PROVE  /\ Begun(ix).records = ix.records /\ Begun(ix).paths = ix.paths /\ ~Begun(ix).changed
         /\ \A p : Lookup(Begun(ix), p) = Lookup(ix, p)
BY DEF Begun, Lookup

LEMMA AppliedOne ==
  ASSUME NEW ix, NEW e
  PROVE  ApplyEvents(ix, <<e>>) = IF ApplyEvent(Begun(ix), e).changed
                                  THEN Rebuilt(ApplyEvent(Begun(ix), e).records) ELSE ix
<1>1. FoldLeft(ApplyEvent, Begun(ix), <<e>>) = ApplyEvent(Begun(ix), e)
  BY Folds, ApplyFold!FoldOne
<1> QED BY <1>1 DEF ApplyEvents, Begun

LEMMA AppliedRecords ==
  ASSUME NEW ix, NEW files, Shows(ix, files), NEW e \in LiveType
  PROVE  AreRecords(ApplyEvent(Begun(ix), e).records)
<1>1. AreRecords(ix.records) /\ DOMAIN ix.paths = DOMAIN ix.records
  BY ShownTyped
<1> QED BY <1>1, ApplyEventKeeps DEF Begun

\* A record's metadata are made anew.
LEMMA RefreshShows ==
  ASSUME NEW ix, NEW files, Shows(ix, files), NEW p \in DOMAIN files, NEW m,
         NEW new, new = Refresh(Begun(ix), Lookup(ix, p), m), AreRecords(new.records)
  PROVE  new.changed /\ Shows(Rebuilt(new.records), With(files, p, m))
<1> DEFINE i == Lookup(ix, p)
           records == ix.records
           P == ix.paths
<1>1. /\ i \in DOMAIN records /\ P[i] = p /\ \A j \in DOMAIN records : P[j] = p => j = i
      /\ \A j \in DOMAIN records : records[j] \in Record
  BY ShownFound, ShownTyped
<1>2. new.changed /\ new.records = [records EXCEPT ![i].meta = m]
  BY <1>1, BegunIs DEF Refresh, Begun
<1> HIDE DEF i
<1>3. /\ DOMAIN new.records = DOMAIN records
      /\ \A j \in DOMAIN records :
           /\ new.records[j].name = records[j].name /\ new.records[j].parent = records[j].parent
           /\ new.records[j].meta = IF j = i THEN m ELSE records[j].meta
  BY <1>1, <1>2 DEF Record
<1> HIDE DEF records, P
<1>4. ArePaths(new.records, P)
  BY <1>3 DEF ArePaths, Shows, records, P
<1>5. DOMAIN With(files, p, m) = {P[j] : j \in DOMAIN new.records}
  BY <1>3 DEF With, Shows, records, P
<1>6. \A j \in DOMAIN new.records : new.records[j].meta = With(files, p, m)[P[j]]
  <2>1. \A j \in DOMAIN records : P[j] \in DOMAIN files /\ records[j].meta = files[P[j]]
    BY DEF Shows, records, P
  <2> QED BY <1>1, <1>3, <2>1 DEF With
<1>7. \A j, k \in DOMAIN new.records : P[j] = P[k] => j = k
  BY <1>3 DEF Shows, records, P
<1>8. Shows(Rebuilt(new.records), With(files, p, m))
  BY <1>4, <1>5, <1>6, <1>7, RebuiltShows
<1> QED BY <1>2, <1>8

\* A record is added below one that is there.
LEMMA AddShows ==
  ASSUME NEW ix, NEW files, Shows(ix, files), NEW p \in Path, p \notin DOMAIN files,
         p # <<>>, Front(p) \in DOMAIN files, Len(p) <= MaxDepth, NEW m,
         NEW new, new = AddRecord(Begun(ix), p, m), AreRecords(new.records)
  PROVE  new.changed /\ Shows(Rebuilt(new.records), With(files, p, m))
<1> DEFINE d == Lookup(ix, Front(p))
           records == ix.records
           P == ix.paths
           n == Len(records)
           Q == [j \in 1..(n + 1) |-> IF j = n + 1 THEN p ELSE P[j]]
           r == RecordOf(d, Last(p), m)
<1>1. Lookup(ix, p) = 0 /\ d \in DOMAIN records /\ d # 0 /\ P[d] = Front(p)
  BY ShownFound
<1>2. n \in Nat /\ DOMAIN records = 1..n /\ P \in [1..n -> Path]
  BY ShownTyped
<1>3. new.changed /\ new.records = Append(records, r)
  BY <1>1, BegunIs DEF AddRecord, Begun
<1>4. r.parent = d /\ r.name = Last(p) /\ r.meta = m
  BY DEF RecordOf
<1> HIDE DEF r
<1>5. /\ Len(new.records) = n + 1 /\ DOMAIN new.records = 1..(n + 1)
      /\ \A j \in 1..n : new.records[j] = records[j]
      /\ new.records[n + 1] = r
  <2>1. records \in Seq(Record)
    BY ShownTyped DEF AreRecords
  <2>2. Append(records, r) \in Seq(Record \cup {r})
    BY <2>1
  <2> QED BY <1>2, <1>3, <2>1, <2>2
<1>6. Q \in [1..(n + 1) -> Path] /\ Q[n + 1] = p /\ \A j \in 1..n : Q[j] = P[j]
  BY <1>2
<1> HIDE DEF Q
<1>7. \A j \in 1..(n + 1) : j \in 1..n \/ j = n + 1
  BY <1>2
<1>8. Last(p) \in Names /\ NoName \notin Names
  BY FrontOf, IndexAssumption
<1> HIDE DEF d, records, P, n
<1>9. ArePaths(new.records, Q)
  <2>1. ASSUME NEW j \in 1..(n + 1)
        PROVE  /\ Len(Q[j]) <= MaxDepth
               /\ new.records[j].name = NoName <=> Q[j] = <<>>
               /\ Q[j] = <<>> => new.records[j].parent = RootParent
               /\ Q[j] # <<>> =>
                    /\ new.records[j].name = Last(Q[j])
                    /\ IF new.records[j].parent = RootParent THEN Front(Q[j]) = <<>>
                       ELSE Q[new.records[j].parent] = Front(Q[j])
    <3>1. CASE j \in 1..n
      <4>1. /\ Len(P[j]) <= MaxDepth
            /\ records[j].name = NoName <=> P[j] = <<>>
            /\ P[j] = <<>> => records[j].parent = RootParent
            /\ P[j] # <<>> =>
                 /\ records[j].name = Last(P[j])
                 /\ IF records[j].parent = RootParent THEN Front(P[j]) = <<>>
                    ELSE P[records[j].parent] = Front(P[j])
        BY <1>2, <3>1 DEF Shows, ArePaths, records, P
      <4>2. records[j].parent # RootParent => records[j].parent \in 1..n
        <5>1. records[j].parent \in 0..n
          BY <1>2, <3>1, ShownTyped DEF records, n
        <5> QED BY <1>2, <5>1 DEF RootParent
      <4> QED BY <1>5, <1>6, <3>1, <4>1, <4>2
    <3>2. CASE j = n + 1
      <4>1. d # RootParent /\ Q[d] = Front(p)
        BY <1>1, <1>2, <1>6 DEF RootParent
      <4> QED BY <1>4, <1>5, <1>6, <1>8, <3>2, <4>1
    <3> QED BY <1>7, <3>1, <3>2
  <2> QED BY <1>5, <1>6, <2>1 DEF ArePaths
<1>10. \A j \in 1..n : P[j] \in DOMAIN files /\ P[j] # p /\ records[j].meta = files[P[j]]
  BY <1>2 DEF Shows, records, P
<1>11. DOMAIN With(files, p, m) = {Q[j] : j \in 1..(n + 1)}
  <2>1. DOMAIN files = {P[j] : j \in 1..n}
    BY <1>2 DEF Shows, records, P
  <2>2. \A j \in 1..n : j \in 1..(n + 1)
    BY <1>2
  <2>3. n + 1 \in 1..(n + 1)
    BY <1>2
  <2> QED BY <1>6, <1>7, <2>1, <2>2, <2>3 DEF With
<1>12. \A j \in 1..(n + 1) : new.records[j].meta = With(files, p, m)[Q[j]]
  BY <1>4, <1>5, <1>6, <1>7, <1>10 DEF With
<1>13. \A j, k \in 1..(n + 1) : Q[j] = Q[k] => j = k
  <2>1. \A j, k \in 1..n : P[j] = P[k] => j = k
    BY <1>2 DEF Shows, records, P
  <2> QED BY <1>6, <1>7, <1>10, <2>1
<1>14. DOMAIN new.records = 1..(n + 1)
  BY <1>5
<1>15. Shows(Rebuilt(new.records), With(files, p, m))
  <2> DEFINE D == DOMAIN new.records
  <2>1. /\ DOMAIN With(files, p, m) = {Q[j] : j \in D}
        /\ \A j \in D : new.records[j].meta = With(files, p, m)[Q[j]]
        /\ \A j, k \in D : Q[j] = Q[k] => j = k
    <3> HIDE DEF D
    <3>1. D = 1..(n + 1)
      BY <1>14 DEF D
    <3> QED BY <1>11, <1>12, <1>13, <3>1
  <2> QED BY <1>9, <2>1, RebuiltShows
<1> QED BY <1>3, <1>15

\* The last name of a path is the same at another place.
LEMMA ReplantedLast ==
  ASSUME NEW p \in Path, NEW q \in Path, NEW r \in Path, IsPrefix(p, r), r # p
  PROVE  Last(At(p, q, r)) = Last(r)
<1> DEFINE u == SubSeq(r, Len(p) + 1, Len(r))
           n == Len(r) - Len(p)
<1>1. /\ Len(p) \in Nat /\ Len(q) \in Nat /\ Len(r) \in Nat /\ Len(p) <= Len(r)
      /\ \A i \in 1..Len(p) : p[i] = r[i]
  BY PrefixAt, PathTypes
<1>2. Len(p) # Len(r)
  BY <1>1, PathEqual
<1>3. n \in Nat \ {0} /\ Len(p) + n = Len(r)
  BY <1>1, <1>2
<1>4. \A i \in (Len(p) + 1)..Len(r) : r[i] \in Names
  BY <1>1, PathTypes
<1>5. /\ u \in Seq(Names)
      /\ Len(u) = IF Len(p) + 1 <= Len(r) THEN Len(r) - (Len(p) + 1) + 1 ELSE 0
      /\ \A i \in 1..(Len(r) - (Len(p) + 1) + 1) : u[i] = r[Len(p) + 1 + i - 1]
  BY <1>1, <1>4, SubSeqProperties
<1>6. Len(u) = n
  BY <1>1, <1>3, <1>5
<1>7. u[n] = r[Len(r)]
  <2>1. n \in 1..(Len(r) - (Len(p) + 1) + 1) /\ Len(p) + 1 + n - 1 = Len(r)
    BY <1>1, <1>3
  <2> QED BY <1>5, <2>1
<1> HIDE DEF u
<1>8. q \in Seq(Names)
  BY DEF Path
<1>9. /\ Len(q \o u) = Len(q) + Len(u)
      /\ \A i \in 1..(Len(q) + Len(u)) : (q \o u)[i] = IF i <= Len(q) THEN q[i] ELSE u[i - Len(q)]
  BY <1>5, <1>8, ConcatProperties
<1>10. (q \o u)[Len(q) + n] = u[n]
  <2>1. Len(q) + n \in 1..(Len(q) + Len(u)) /\ ~(Len(q) + n <= Len(q)) /\ (Len(q) + n) - Len(q) = n
    BY <1>1, <1>3, <1>6
  <2> QED BY <1>9, <2>1
<1> QED BY <1>6, <1>7, <1>9, <1>10 DEF At, Last, u

\* files after p has become q
Relocated(files, p, q, m) ==
  LET below == {r \in DOMAIN files : IsPrefix(p, r)}
  IN  [x \in (DOMAIN files \ below) \cup {At(p, q, r) : r \in below} |->
         IF x = q THEN m ELSE IF IsPrefix(q, x) THEN files[At(q, p, x)] ELSE files[x]]

\* A record gets another name and another parent, and with it what is below it.
LEMMA RelocateShows ==
  ASSUME NEW ix, NEW files, Shows(ix, files), NEW p \in DOMAIN files, p # <<>>,
         NEW q \in Path, q # <<>>, Front(q) \in DOMAIN files, ~IsPrefix(p, q),
         \A r \in DOMAIN files : ~IsPrefix(q, r),
         \A r \in DOMAIN files : IsPrefix(p, r) => Len(At(p, q, r)) <= MaxDepth,
         NEW m, NEW new, new = RenameRecord(Begun(ix), Lookup(ix, p), q, m), AreRecords(new.records)
  PROVE  new.changed /\ Shows(Rebuilt(new.records), Relocated(files, p, q, m))
<1> DEFINE i == Lookup(ix, p)
           d == Lookup(ix, Front(q))
           records == ix.records
           P == ix.paths
           D == DOMAIN records
           Q == [j \in D |-> IF IsPrefix(p, P[j]) THEN At(p, q, P[j]) ELSE P[j]]
           r0 == RecordOf(d, Last(q), m)
           to == Relocated(files, p, q, m)
<1>1. /\ i \in D /\ P[i] = p /\ \A j \in D : P[j] = p => j = i
      /\ d \in D /\ d # 0 /\ P[d] = Front(q)
  BY ShownFound
<1>2. P \in [D -> Path] /\ p \in Path /\ D = 1..Len(records) /\ Len(records) \in Nat
      /\ \A j \in D : P[j] \in DOMAIN files
  BY <1>1, ShownTyped DEF Shows
<1>3. new.changed /\ new.records = [records EXCEPT ![i] = r0]
  BY <1>1, BegunIs DEF RenameRecord, Begun
<1>4. r0.parent = d /\ r0.name = Last(q) /\ r0.meta = m
  BY DEF RecordOf
<1> HIDE DEF r0
<1>5. DOMAIN new.records = D /\ new.records[i] = r0 /\ \A j \in D : j # i => new.records[j] = records[j]
  BY <1>1, <1>3
<1>6. \A j \in D : P[j] \in Path /\ (IsPrefix(p, P[j]) => At(p, q, P[j]) \in Path /\ IsPrefix(q, At(p, q, P[j]))
                                       /\ At(q, p, At(p, q, P[j])) = P[j])
  BY <1>2, Replanted
<1>7. Q \in [D -> Path] /\ \A j \in D : Q[j] = IF IsPrefix(p, P[j]) THEN At(p, q, P[j]) ELSE P[j]
  BY <1>6
<1> HIDE DEF Q
<1>8. Q[i] = q
  <2>1. IsPrefix(p, p)
    BY <1>2, PrefixFront
  <2>2. At(p, q, p) = q
    BY <1>2, <2>1, Replanted
  <2> HIDE DEF i, P, D
  <2> QED BY <1>1, <1>7, <2>1, <2>2
<1>9. NoName \notin Names /\ Last(q) \in Names
  BY IndexAssumption, FrontOf
<1>10. \A j \in D : /\ Len(P[j]) <= MaxDepth
                    /\ records[j].name = NoName <=> P[j] = <<>>
                    /\ P[j] = <<>> => records[j].parent = RootParent
                    /\ P[j] # <<>> =>
                         /\ records[j].name = Last(P[j])
                         /\ IF records[j].parent = RootParent THEN Front(P[j]) = <<>>
                            ELSE P[records[j].parent] = Front(P[j])
                    /\ records[j].parent # RootParent => records[j].parent \in D
  <2>1. \A j \in D : records[j].parent \in 0..Len(records)
    BY ShownTyped
  <2>2. \A j \in D : records[j].parent # RootParent => records[j].parent \in D
    BY <1>2, <2>1 DEF RootParent
  <2> HIDE DEF P, D, records
  <2> QED BY <2>2 DEF Shows, ArePaths, P, D, records
<1> HIDE DEF i, d, records, P, D
<1>11. ASSUME NEW j \in D
       PROVE  /\ Len(Q[j]) <= MaxDepth
              /\ new.records[j].name = NoName <=> Q[j] = <<>>
              /\ Q[j] = <<>> => new.records[j].parent = RootParent
              /\ Q[j] # <<>> =>
                    /\ new.records[j].name = Last(Q[j])
                    /\ IF new.records[j].parent = RootParent THEN Front(Q[j]) = <<>>
                       ELSE Q[new.records[j].parent] = Front(Q[j])
  <2>1. CASE j = i
    <3>1. ~IsPrefix(p, Front(q))
      BY <1>2, PrefixFront
    <3>2. Q[d] = Front(q) /\ d # RootParent
      BY <1>1, <1>7, <3>1 DEF RootParent
    <3>3. Len(Q[i]) <= MaxDepth
      <4>1. IsPrefix(p, P[i]) /\ P[i] \in DOMAIN files
        BY <1>1, <1>2, PrefixFront
      <4>2. Len(At(p, q, P[i])) <= MaxDepth
        BY <4>1
      <4> QED BY <1>1, <1>7, <4>1, <4>2
    <3> QED BY <1>4, <1>5, <1>8, <1>9, <2>1, <3>2, <3>3
  <2>2. CASE j # i /\ IsPrefix(p, P[j])
    <3> DEFINE k == records[j].parent
    <3>1. P[j] \in Path /\ P[j] # p /\ P[j] # <<>> /\ Q[j] = At(p, q, P[j])
      BY <1>1, <1>2, <1>7, <2>2, PrefixFront
    <3>2. /\ Front(Q[j]) = At(p, q, Front(P[j])) /\ Q[j] # <<>> /\ Last(Q[j]) = Last(P[j])
          /\ IsPrefix(p, Front(P[j])) /\ Front(P[j]) # <<>>
      BY <1>2, <2>2, <3>1, Replanted, ReplantedLast, PrefixFront
    <3>3. k # RootParent /\ k \in D /\ P[k] = Front(P[j])
      BY <1>10, <3>1, <3>2
    <3>4. Q[k] = Front(Q[j])
      BY <1>7, <3>2, <3>3
    <3>5. Len(Q[j]) <= MaxDepth
      BY <1>2, <2>2, <3>1
    <3>6. new.records[j] = records[j] /\ records[j].name = Last(P[j]) /\ records[j].name # NoName
      BY <1>5, <1>10, <2>2, <3>1
    <3> QED BY <3>2, <3>3, <3>4, <3>5, <3>6
  <2>3. CASE j # i /\ ~IsPrefix(p, P[j])
    <3> DEFINE k == records[j].parent
    <3>1. Q[j] = P[j] /\ new.records[j] = records[j] /\ P[j] \in Path
      BY <1>2, <1>5, <1>7, <2>3
    <3>2. ASSUME P[j] # <<>>, k # RootParent PROVE Q[k] = Front(P[j])
      <4>1. k \in D /\ P[k] = Front(P[j])
        BY <1>10, <3>2
      <4>2. ~IsPrefix(p, P[k])
        BY <1>2, <2>3, <3>1, <3>2, <4>1, PrefixFront
      <4> QED BY <1>7, <4>1, <4>2
    <3> HIDE DEF k
    <3>3. /\ Len(P[j]) <= MaxDepth
          /\ records[j].name = NoName <=> P[j] = <<>>
          /\ P[j] = <<>> => k = RootParent
          /\ P[j] # <<>> => records[j].name = Last(P[j]) /\ (k = RootParent => Front(P[j]) = <<>>)
      BY <1>10 DEF k
    <3> QED BY <3>1, <3>2, <3>3 DEF k
  <2> QED BY <2>1, <2>2, <2>3
<1>12. ArePaths(new.records, Q)
  BY <1>5, <1>7, <1>11 DEF ArePaths
<1>13. /\ DOMAIN files = {P[j] : j \in D}
       /\ \A j, k \in D : P[j] = P[k] => j = k
       /\ \A j \in D : records[j].meta = files[P[j]]
  BY DEF Shows, records, P, D
<1>14. \A j, k \in D : Q[j] = Q[k] => j = k
  BY <1>2, <1>6, <1>7, <1>13
<1>15. DOMAIN to = {Q[j] : j \in D}
  <2>1. DOMAIN to = {r \in DOMAIN files : ~IsPrefix(p, r)} \cup {At(p, q, r) : r \in {s \in DOMAIN files : IsPrefix(p, s)}}
    BY DEF Relocated
  <2>2. \A r \in DOMAIN files : \E j \in D : P[j] = r
    BY <1>13
  <2> HIDE DEF to
  <2>3. ASSUME NEW x \in DOMAIN to PROVE x \in {Q[j] : j \in D}
    BY <1>7, <2>1, <2>2
  <2>4. ASSUME NEW j \in D PROVE Q[j] \in DOMAIN to
    BY <1>2, <1>7, <2>1
  <2> QED BY <2>3, <2>4
<1>16. \A j \in D : new.records[j].meta = to[Q[j]]
  <2>1. ASSUME NEW j \in D PROVE new.records[j].meta = to[Q[j]]
    <3>1. to[Q[j]] = IF Q[j] = q THEN m ELSE IF IsPrefix(q, Q[j]) THEN files[At(q, p, Q[j])] ELSE files[Q[j]]
      <4>1. Q[j] \in DOMAIN to
        BY <1>15
      <4> QED BY <4>1 DEF Relocated
    <3> HIDE DEF to
    <3>2. CASE j = i
      BY <1>4, <1>5, <1>8, <3>1, <3>2
    <3>3. CASE j # i
      <4>1. Q[j] # q
        BY <1>1, <1>8, <1>14, <3>3
      <4>2. IF IsPrefix(p, P[j]) THEN IsPrefix(q, Q[j]) /\ At(q, p, Q[j]) = P[j]
            ELSE ~IsPrefix(q, Q[j]) /\ Q[j] = P[j]
        BY <1>2, <1>6, <1>7
      <4> QED BY <1>5, <1>13, <3>1, <3>3, <4>1, <4>2
    <3> QED BY <3>2, <3>3
  <2> QED BY <2>1
<1>17. Shows(Rebuilt(new.records), to)
  <2> HIDE DEF to
  <2>1. /\ DOMAIN to = {Q[j] : j \in DOMAIN new.records}
        /\ \A j \in DOMAIN new.records : new.records[j].meta = to[Q[j]]
        /\ \A j, k \in DOMAIN new.records : Q[j] = Q[k] => j = k
    BY <1>5, <1>14, <1>15, <1>16
  <2> QED BY <1>12, <2>1, RebuiltShows
<1> QED BY <1>3, <1>17

\* What is left of an index when records are dropped: every record that is kept has
\* its path, as long as its directory is kept too, unless that is the root.
LEMMA CompactedShows ==
  ASSUME NEW ix, NEW files, Shows(ix, files), NEW keep \in SUBSET (DOMAIN ix.records),
         \A k \in keep : Len(ix.paths[k]) <= 1 \/ ix.records[k].parent \in keep
  PROVE  Shows(Rebuilt(Compacted(ix.records, keep)), [p \in {ix.paths[k] : k \in keep} |-> files[p]])
<1> DEFINE records == ix.records
           P == ix.paths
           D == DOMAIN records
           c == Cardinality(keep)
           rank(p) == Cardinality({k \in keep : k <= p})
           parent(p) == IF p \in keep THEN rank(p) ELSE RootParent
           old == Kept(keep)
           new == Compacted(records, keep)
           Q == [n \in 1..c |-> P[old[n]]]
           to == [p \in {P[k] : k \in keep} |-> files[p]]
<1>1. D = 1..Len(records) /\ Len(records) \in Nat /\ P \in [D -> Path] /\ \A j \in D : records[j] \in Record
  BY ShownTyped
<1>2. AreRecords(new)
  BY CompactedAreRecords, ShownTyped
<1>3. /\ c \in Nat
      /\ \A p \in keep : rank(p) \in 1..c /\ old[rank(p)] = p
      /\ \A n \in 1..c : old[n] \in keep /\ rank(old[n]) = n
  BY <1>1, KeptNumbers
<1>4. DOMAIN old = 1..c
  BY DEF Kept
<1> HIDE DEF rank, old, c
<1>5. new = [n \in 1..c |-> [records[old[n]] EXCEPT !.parent = parent(@)]]
  BY <1>4 DEF Compacted, old, rank
<1> HIDE DEF new
<1>6. DOMAIN new = 1..c
  BY <1>5
<1>7. ASSUME NEW n \in 1..c
      PROVE  /\ new[n].name = records[old[n]].name /\ new[n].meta = records[old[n]].meta
             /\ new[n].parent = parent(records[old[n]].parent)
  <2>1. old[n] \in keep /\ old[n] \in D
    BY <1>3
  <2>2. records[old[n]] \in Record
    BY <1>1, <2>1
  <2>3. new[n] = [records[old[n]] EXCEPT !.parent = parent(@)]
    BY <1>5
  <2> HIDE DEF parent, records
  <2> QED BY <2>2, <2>3 DEF Record
<1>8. /\ \A j \in D : /\ Len(P[j]) <= MaxDepth
                      /\ records[j].name = NoName <=> P[j] = <<>>
                      /\ P[j] = <<>> => records[j].parent = RootParent
                      /\ P[j] # <<>> =>
                           /\ records[j].name = Last(P[j])
                           /\ IF records[j].parent = RootParent THEN Front(P[j]) = <<>>
                              ELSE P[records[j].parent] = Front(P[j])
      /\ DOMAIN files = {P[j] : j \in D}
      /\ \A j, k \in D : P[j] = P[k] => j = k
      /\ \A j \in D : records[j].meta = files[P[j]]
  BY DEF Shows, ArePaths
<1>9. \A k \in keep : Len(P[k]) <= 1 \/ records[k].parent \in keep
  OBVIOUS
<1>10. \A n \in 1..c : old[n] \in D
  BY <1>3
<1> HIDE DEF records, P, D
<1>11. Q \in [1..c -> Path] /\ \A n \in 1..c : Q[n] = P[old[n]]
  BY <1>1, <1>10
<1> HIDE DEF Q
<1>12. 0 \notin keep
  BY <1>1 DEF D, records
<1>13. ASSUME NEW n \in 1..c
       PROVE  /\ Len(Q[n]) <= MaxDepth
              /\ new[n].name = NoName <=> Q[n] = <<>>
              /\ Q[n] = <<>> => new[n].parent = RootParent
              /\ Q[n] # <<>> =>
                   /\ new[n].name = Last(Q[n])
                   /\ IF new[n].parent = RootParent THEN Front(Q[n]) = <<>>
                      ELSE Q[new[n].parent] = Front(Q[n])
  <2> DEFINE k == old[n]
  <2>1. k \in D /\ k \in keep /\ Q[n] = P[k] /\ P[k] \in Path
    BY <1>1, <1>3, <1>10, <1>11
  <2>2. new[n].name = records[k].name /\ new[n].parent = parent(records[k].parent)
    BY <1>7
  <2>3. Q[n] = <<>> => new[n].parent = RootParent
    BY <1>8, <1>12, <2>1, <2>2 DEF RootParent
  <2>4. ASSUME Q[n] # <<>> PROVE IF new[n].parent = RootParent THEN Front(Q[n]) = <<>>
                                 ELSE Q[new[n].parent] = Front(Q[n])
    <3>1. CASE records[k].parent \in keep
      <4> DEFINE j == records[k].parent
      <4>1. new[n].parent = rank(j) /\ rank(j) \in 1..c /\ old[rank(j)] = j /\ j # RootParent
        BY <1>3, <1>12, <2>2, <3>1 DEF RootParent
      <4>2. rank(j) # RootParent
        BY <1>3, <4>1 DEF RootParent
      <4>3. Q[rank(j)] = P[j]
        BY <1>11, <4>1
      <4>4. P[j] = Front(P[k])
        BY <1>8, <2>1, <2>4, <4>1
      <4> QED BY <2>1, <4>1, <4>2, <4>3, <4>4
    <3>2. CASE records[k].parent \notin keep
      <4>1. new[n].parent = RootParent
        BY <2>2, <3>2
      <4>2. Len(P[k]) <= 1
        BY <1>9, <2>1, <3>2
      <4>3. Front(P[k]) = <<>>
        <5>1. Front(P[k]) \in Path /\ Len(P[k]) \in Nat \ {0} /\ Len(Front(P[k])) = Len(P[k]) - 1
          BY <2>1, <2>4, FrontOf
        <5>2. Len(Front(P[k])) = 0
          <6> DEFINE n1 == Len(P[k])
                     n2 == Len(Front(P[k]))
          <6>1. n1 \in Nat \ {0} /\ n2 = n1 - 1 /\ n1 <= 1
            BY <4>2, <5>1
          <6> HIDE DEF n1, n2
          <6>2. n2 = 0
            BY <6>1
          <6> QED BY <6>2 DEF n2
        <5> QED BY <5>1, <5>2, PathTypes
      <4> QED BY <2>1, <4>1, <4>3
    <3> QED BY <3>1, <3>2
  <2> HIDE DEF k, parent
  <2> QED BY <1>8, <2>1, <2>2, <2>3, <2>4
<1>14. ArePaths(new, Q)
  BY <1>2, <1>6, <1>11, <1>13 DEF ArePaths
<1>15. DOMAIN to = {Q[n] : n \in DOMAIN new}
  <2>1. \A k \in keep : rank(k) \in DOMAIN new /\ Q[rank(k)] = P[k]
    BY <1>3, <1>6, <1>11
  <2>2. \A n \in DOMAIN new : old[n] \in keep /\ Q[n] = P[old[n]]
    BY <1>3, <1>6, <1>11
  <2> QED BY <2>1, <2>2
<1>16. \A n \in DOMAIN new : new[n].meta = to[Q[n]]
  <2>1. ASSUME NEW n \in DOMAIN new PROVE new[n].meta = to[Q[n]]
    <3>1. Q[n] = P[old[n]] /\ old[n] \in keep /\ old[n] \in D /\ new[n].meta = records[old[n]].meta
      BY <1>3, <1>6, <1>7, <1>10, <1>11
    <3>2. to[Q[n]] = files[Q[n]]
      BY <3>1
    <3> QED BY <1>8, <3>1, <3>2
  <2> QED BY <2>1
<1>17. \A m, n \in DOMAIN new : Q[m] = Q[n] => m = n
  <2>1. ASSUME NEW m \in 1..c, NEW n \in 1..c, Q[m] = Q[n] PROVE m = n
    <3>1. old[m] = old[n]
      BY <1>8, <1>10, <1>11, <2>1
    <3> QED BY <1>3, <3>1
  <2> QED BY <1>6, <2>1
<1>18. Shows(Rebuilt(new), to)
  <2> HIDE DEF to
  <2> QED BY <1>14, <1>15, <1>16, <1>17, RebuiltShows
<1> QED BY <1>18 DEF new, to, records, P

\* Nothing is below a record that is nobody's parent.
LEMMA SubtreeOfOne ==
  ASSUME NEW records, Len(records) \in Nat, NEW i, \A j \in DOMAIN records : records[j].parent = i => j = i
  PROVE  Subtree(records, i) = {i}
<1> DEFINE Step(f) == [k \in Nat |->
                         IF k = 0 THEN {i}
                         ELSE f[k - 1] \cup {j \in DOMAIN records : records[j].parent \in f[k - 1]}]
           g == CHOOSE f : f = Step(f)
           T == {k \in Nat : g[k] = {i}}
<1>1. {i} \cup {j \in DOMAIN records : records[j].parent \in {i}} = {i}
  OBVIOUS
<1>2. g = Step(g)
  <2> DEFINE f == [k \in Nat |-> {i}]
  <2>1. \A k \in Nat : k = 0 \/ f[k - 1] = {i}
    OBVIOUS
  <2> HIDE DEF f
  <2>2. Step(f) = [k \in Nat |-> {i}]
    BY <1>1, <2>1
  <2>3. f = Step(f)
    BY <2>2 DEF f
  <2> HIDE DEF Step
  <2> QED BY <2>3
<1>3. Subtree(records, i) = g[Len(records)]
  BY DEF Subtree
<1> HIDE DEF g
<1>4. \A k \in Nat : g[k] = IF k = 0 THEN {i}
                            ELSE g[k - 1] \cup {j \in DOMAIN records : records[j].parent \in g[k - 1]}
  BY <1>2
<1>5. 0 \in T
  BY <1>4
<1>6. ASSUME NEW k \in Nat, k \in T PROVE k + 1 \in T
  <2>1. k + 1 \in Nat /\ k + 1 # 0 /\ (k + 1) - 1 = k /\ g[k] = {i}
    BY <1>6
  <2>2. g[k + 1] = g[k] \cup {j \in DOMAIN records : records[j].parent \in g[k]}
    BY <1>4, <2>1
  <2> QED BY <1>1, <2>1, <2>2
<1> HIDE DEF T
<1>7. Len(records) \in T
  BY <1>5, <1>6, ApplyFold!NatSet
<1> QED BY <1>3, <1>7 DEF T

\* A record with nothing below it is removed.
LEMMA RemoveShows ==
  ASSUME NEW ix, NEW files, Shows(ix, files), NEW p \in DOMAIN files, p # <<>>,
         \A r \in DOMAIN files : IsPrefix(p, r) => r = p,
         NEW new, new = RemoveSubtree(Begun(ix), Lookup(ix, p))
  PROVE  new.changed /\ Shows(Rebuilt(new.records), Without(files, p))
<1> DEFINE i == Lookup(ix, p)
           records == ix.records
           P == ix.paths
           D == DOMAIN records
           keep == D \ {i}
<1>1. /\ i \in D /\ P[i] = p /\ \A j \in D : P[j] = p => j = i
      /\ P \in [D -> Path] /\ p \in Path /\ D = 1..Len(records) /\ Len(records) \in Nat
      /\ \A j \in D : P[j] \in DOMAIN files
  <2>1. i \in D /\ P[i] = p /\ \A j \in D : P[j] = p => j = i
    BY ShownFound
  <2>2. P \in [D -> Path] /\ D = 1..Len(records) /\ Len(records) \in Nat /\ DOMAIN files \subseteq Path
    BY ShownTyped
  <2>3. \A j \in D : P[j] \in DOMAIN files
    BY DEF Shows
  <2> QED BY <2>1, <2>2, <2>3
<1>2. \A j \in D : /\ P[j] = <<>> => records[j].parent = RootParent
                   /\ P[j] # <<>> => IF records[j].parent = RootParent THEN Front(P[j]) = <<>>
                                     ELSE P[records[j].parent] = Front(P[j])
                   /\ records[j].parent # RootParent => records[j].parent \in D
  <2>1. \A j \in D : records[j].parent \in 0..Len(records)
    BY ShownTyped
  <2>2. \A j \in D : records[j].parent # RootParent => records[j].parent \in D
    BY <1>1, <2>1 DEF RootParent
  <2> HIDE DEF P, D, records
  <2> QED BY <2>2 DEF Shows, ArePaths, P, D, records
<1>3. i # RootParent
  BY <1>1 DEF RootParent
<1>4. new.changed /\ new.records = Compacted(records, D \ Subtree(records, i))
  BY <1>1, BegunIs DEF RemoveSubtree, Begun
<1> HIDE DEF i, P, D, records
<1>5. ASSUME NEW j \in D, records[j].parent = i PROVE FALSE
  <2>1. P[j] # <<>> /\ P[j] \in Path /\ p = Front(P[j])
    BY <1>1, <1>2, <1>3, <1>5
  <2>2. IsPrefix(p, P[j]) /\ P[j] # p
    <3>1. Len(P[j]) \in Nat \ {0} /\ Len(Front(P[j])) = Len(P[j]) - 1
      BY <2>1, FrontOf
    <3>2. IsPrefix(Front(P[j]), P[j])
      BY <2>1, PrefixFront
    <3> QED BY <2>1, <3>1, <3>2
  <2> QED BY <1>1, <2>2
<1>6. Subtree(records, i) = {i}
  BY <1>1, <1>5, SubtreeOfOne
<1>7. ASSUME NEW k \in keep PROVE Len(P[k]) <= 1 \/ records[k].parent \in keep
  <2>1. k \in D /\ P[k] \in Path
    BY <1>1
  <2>2. CASE P[k] = <<>>
    BY <2>2
  <2>3. CASE P[k] # <<>> /\ records[k].parent = RootParent
    <3>1. Front(P[k]) = <<>> /\ Len(P[k]) \in Nat \ {0} /\ Len(Front(P[k])) = Len(P[k]) - 1
      BY <1>2, <2>1, <2>3, FrontOf
    <3> DEFINE n == Len(P[k])
    <3>2. n \in Nat \ {0} /\ 0 = n - 1
      BY <3>1
    <3> HIDE DEF n
    <3>3. n <= 1
      BY <3>2
    <3> QED BY <3>3 DEF n
  <2>4. CASE records[k].parent # RootParent
    BY <1>2, <1>5, <2>1, <2>4
  <2> QED BY <2>2, <2>3, <2>4
<1>8. Shows(Rebuilt(Compacted(records, keep)), [r \in {P[k] : k \in keep} |-> files[r]])
  <2>1. keep \in SUBSET D
    OBVIOUS
  <2> HIDE DEF keep
  <2> QED BY <1>7, <2>1, CompactedShows DEF records, P, D
<1>9. {P[k] : k \in keep} = DOMAIN files \ {p}
  <2>1. DOMAIN files = {P[j] : j \in D}
    BY DEF Shows, P, D, records
  <2> QED BY <1>1, <2>1
<1> QED BY <1>4, <1>6, <1>8, <1>9 DEF Without

-----------------------------------------------------------------------------
(* From what an index shows to what it shows after an event                *)

Link(rules, from, e, to) ==
  \A ix : Shows(ix, from) => Shows(ApplyBatch(ix, rules, <<e>>), to)

\* A batch of one event is what apply_live_events makes of it, or nothing.
LEMMA AppliedBatch ==
  ASSUME NEW ix, NEW e \in Event, NEW rules
  PROVE  /\ LiveEvent(rules, e) = <<>> => ApplyBatch(ix, rules, <<e>>) = ix
         /\ \A f : LiveEvent(rules, e) = <<f>> => ApplyBatch(ix, rules, <<e>>) = ApplyEvents(ix, <<f>>)
<1>1. ApplyBatch(ix, rules, <<e>>) = ApplyEvents(ix, LiveEvent(rules, e))
  BY BatchOfOne DEF ApplyBatch
<1>2. ApplyEvents(ix, <<>>) = ix
  <2>1. FoldLeft(ApplyEvent, Begun(ix), <<>>) = Begun(ix)
    BY Folds, ApplyFold!FoldEmpty
  <2>2. ~Begun(ix).changed
    BY BegunIs
  <2> QED BY <2>1, <2>2 DEF ApplyEvents, Begun
<1> QED BY <1>1, <1>2

LEMMA LinkNothing ==
  ASSUME NEW e \in Event, NEW rules, LiveEvent(rules, e) = <<>>, NEW files
  PROVE  Link(rules, files, e, files)
BY AppliedBatch DEF Link

\* What happens to the index, with one event
LEMMA LinkOne ==
  ASSUME NEW e \in Event, NEW rules, NEW f \in LiveType, LiveEvent(rules, e) = <<f>>,
         NEW from, NEW to,
         \A ix : Shows(ix, from) =>
           IF ApplyEvent(Begun(ix), f).changed THEN Shows(Rebuilt(ApplyEvent(Begun(ix), f).records), to)
           ELSE Shows(ix, to)
  PROVE  Link(rules, from, e, to)
<1> SUFFICES ASSUME NEW ix, Shows(ix, from) PROVE Shows(ApplyBatch(ix, rules, <<e>>), to)
  BY DEF Link
<1>1. ApplyBatch(ix, rules, <<e>>) = ApplyEvents(ix, <<f>>)
  BY AppliedBatch
<1> QED BY <1>1, AppliedOne

\* New metadata are shown for what is shown, and change nothing otherwise.
LEMMA LinkMetadata ==
  ASSUME NEW e \in Event, e.kind = "metadata", NEW rules, NEW files
  PROVE  /\ e.meta = NoMeta \/ e.path \notin DOMAIN files => Link(rules, files, e, files)
         /\ e.meta # NoMeta /\ e.path \in DOMAIN files => Link(rules, files, e, With(files, e.path, e.meta))
<1>1. CASE e.meta = NoMeta
  BY <1>1, LinkNothing DEF LiveEvent
<1>2. CASE e.meta # NoMeta
  <2>1. e \in LiveType /\ LiveEvent(rules, e) = <<e>>
    BY <1>2 DEF LiveEvent, LiveType, Event
  <2>2. ASSUME NEW ix, Shows(ix, files)
        PROVE  ApplyEvent(Begun(ix), e) = Refresh(Begun(ix), Lookup(ix, e.path), e.meta)
    BY BegunIs DEF ApplyEvent
  <2>3. CASE e.path \in DOMAIN files
    <3>1. ASSUME NEW ix, Shows(ix, files)
          PROVE  /\ ApplyEvent(Begun(ix), e).changed
                 /\ Shows(Rebuilt(ApplyEvent(Begun(ix), e).records), With(files, e.path, e.meta))
      BY <2>1, <2>2, <2>3, <3>1, AppliedRecords, RefreshShows
    <3>2. Link(rules, files, e, With(files, e.path, e.meta))
      BY <2>1, <3>1, LinkOne
    <3> QED BY <1>2, <2>3, <3>2
  <2>4. CASE e.path \notin DOMAIN files
    <3>1. ASSUME NEW ix, Shows(ix, files) PROVE ~ApplyEvent(Begun(ix), e).changed
      <4>1. Lookup(ix, e.path) = 0 /\ 0 \notin DOMAIN ix.records
        BY <2>4, <3>1, ShownFound, ShownTyped
      <4> QED BY <2>2, <3>1, <4>1, BegunIs DEF Refresh
    <3>2. Link(rules, files, e, files)
      BY <2>1, <3>1, LinkOne
    <3> QED BY <2>4, <3>2
  <2> QED BY <2>3, <2>4
<1> QED BY <1>1, <1>2

\* It can be put where it belongs.
CanAdd(files, p) == p \in Path /\ p # <<>> /\ Front(p) \in DOMAIN files /\ Len(p) <= MaxDepth

LEMMA AddedShows ==
  ASSUME NEW ix, NEW files, Shows(ix, files), NEW p, p \in DOMAIN files \/ CanAdd(files, p), NEW m,
         NEW new, new = AddRecord(Begun(ix), p, m), AreRecords(new.records)
  PROVE  new.changed /\ Shows(Rebuilt(new.records), With(files, p, m))
<1>1. CASE p \in DOMAIN files
  <2>1. new = Refresh(Begun(ix), Lookup(ix, p), m)
    BY <1>1, ShownFound, BegunIs DEF AddRecord
  <2> QED BY <1>1, <2>1, RefreshShows
<1>2. CASE p \notin DOMAIN files
  BY <1>2, AddShows DEF CanAdd
<1> QED BY <1>1, <1>2

\* What is created is added, or gets new metadata if it is there, unless the rules exclude it.
LEMMA LinkCreated ==
  ASSUME NEW e \in Event, e.kind = "created", NEW rules, NEW files
  PROVE  /\ e.meta = NoMeta \/ ~Allows(rules, e.path) => Link(rules, files, e, files)
         /\ e.meta # NoMeta /\ Allows(rules, e.path) /\ (e.path \in DOMAIN files \/ CanAdd(files, e.path)) =>
              Link(rules, files, e, With(files, e.path, e.meta))
<1>1. CASE e.meta = NoMeta \/ ~Allows(rules, e.path)
  BY <1>1, LinkNothing DEF LiveEvent
<1>2. CASE e.meta # NoMeta /\ Allows(rules, e.path) /\ (e.path \in DOMAIN files \/ CanAdd(files, e.path))
  <2>1. e \in LiveType /\ LiveEvent(rules, e) = <<e>>
    BY <1>2 DEF LiveEvent, LiveType, Event
  <2>2. ASSUME NEW ix, Shows(ix, files)
        PROVE  /\ ApplyEvent(Begun(ix), e).changed
               /\ Shows(Rebuilt(ApplyEvent(Begun(ix), e).records), With(files, e.path, e.meta))
    <3>1. ApplyEvent(Begun(ix), e) = AddRecord(Begun(ix), e.path, e.meta)
      BY DEF ApplyEvent
    <3> QED BY <1>2, <2>1, <2>2, <3>1, AppliedRecords, AddedShows
  <2>3. Link(rules, files, e, With(files, e.path, e.meta))
    BY <2>1, <2>2, LinkOne
  <2> QED BY <1>2, <2>3
<1> QED BY <1>1, <1>2

\* There is nothing below it.
IsLeaf(files, p) == p # <<>> /\ \A r \in DOMAIN files : IsPrefix(p, r) => r = p

LEMMA RemovedShows ==
  ASSUME NEW e \in Event, NEW rules, NEW f \in LiveType, LiveEvent(rules, e) = <<f>>, f.kind = "removed",
         NEW files
  PROVE  /\ f.path \notin DOMAIN files => Link(rules, files, e, files)
         /\ f.path \in DOMAIN files /\ IsLeaf(files, f.path) => Link(rules, files, e, Without(files, f.path))
<1>1. ASSUME NEW ix, Shows(ix, files)
      PROVE  ApplyEvent(Begun(ix), f) = RemoveSubtree(Begun(ix), Lookup(ix, f.path))
  BY BegunIs DEF ApplyEvent
<1>2. CASE f.path \in DOMAIN files /\ IsLeaf(files, f.path)
  <2>1. ASSUME NEW ix, Shows(ix, files)
        PROVE  /\ ApplyEvent(Begun(ix), f).changed
               /\ Shows(Rebuilt(ApplyEvent(Begun(ix), f).records), Without(files, f.path))
    BY <1>1, <1>2, <2>1, RemoveShows DEF IsLeaf
  <2> QED BY <1>2, <2>1, LinkOne
<1>3. CASE f.path \notin DOMAIN files
  <2>1. ASSUME NEW ix, Shows(ix, files) PROVE ~ApplyEvent(Begun(ix), f).changed
    <3>1. Lookup(ix, f.path) = 0 /\ 0 \notin DOMAIN ix.records
      BY <1>3, <2>1, ShownFound, ShownTyped
    <3> QED BY <1>1, <2>1, <3>1, BegunIs DEF RemoveSubtree
  <2>2. Link(rules, files, e, files)
    BY <2>1, LinkOne
  <2> QED BY <1>3, <2>2
<1> QED BY <1>2, <1>3

\* What is removed is not shown any more.
LEMMA LinkRemoved ==
  ASSUME NEW e \in Event, e.kind = "removed", NEW rules, NEW files
  PROVE  /\ e.path \notin DOMAIN files => Link(rules, files, e, files)
         /\ e.path \in DOMAIN files /\ IsLeaf(files, e.path) => Link(rules, files, e, Without(files, e.path))
<1>1. e \in LiveType /\ LiveEvent(rules, e) = <<e>>
  BY DEF LiveEvent, LiveType
<1> QED BY <1>1, RemovedShows

\* Only its old name is looked at if it is gone, or not allowed, at the new one.
LEMMA LinkRenamedAway ==
  ASSUME NEW e \in Event, e.kind = "renamed", NEW rules, NEW files, e.meta = NoMeta \/ ~Allows(rules, e.path)
  PROVE  /\ e.old \notin DOMAIN files => Link(rules, files, e, files)
         /\ e.old \in DOMAIN files /\ IsLeaf(files, e.old) => Link(rules, files, e, Without(files, e.old))
<1> DEFINE f == WatchEvent("removed", e.old, e.old, NoMeta)
<1>1. f.kind = "removed" /\ f.path = e.old /\ f \in LiveType
  BY DEF WatchEvent, LiveType, Event
<1>2. LiveEvent(rules, e) = <<f>>
  BY DEF LiveEvent
<1> HIDE DEF f
<1> QED BY <1>1, <1>2, RemovedShows

\* It can be moved with what is below it.
CanRelocate(files, p, q) ==
  /\ p # <<>> /\ CanAdd(files, q) /\ ~IsPrefix(p, q)
  /\ \A r \in DOMAIN files : ~IsPrefix(q, r)
  /\ \A r \in DOMAIN files : IsPrefix(p, r) => Len(At(p, q, r)) <= MaxDepth

\* What is renamed is moved with all below it, or added if its old name is not shown.
LEMMA LinkRenamed ==
  ASSUME NEW e \in Event, e.kind = "renamed", NEW rules, NEW files, e.meta # NoMeta, Allows(rules, e.path)
  PROVE  /\ e.old \notin DOMAIN files /\ (e.path \in DOMAIN files \/ CanAdd(files, e.path)) =>
              Link(rules, files, e, With(files, e.path, e.meta))
         /\ e.old \in DOMAIN files /\ CanRelocate(files, e.old, e.path) =>
              Link(rules, files, e, Relocated(files, e.old, e.path, e.meta))
<1>1. e \in LiveType /\ LiveEvent(rules, e) = <<e>>
  BY DEF LiveEvent, LiveType, Event
<1>2. ASSUME NEW ix, Shows(ix, files)
      PROVE  ApplyEvent(Begun(ix), e) = IF e.old \in DOMAIN files
                                        THEN RenameRecord(Begun(ix), Lookup(ix, e.old), e.path, e.meta)
                                        ELSE AddRecord(Begun(ix), e.path, e.meta)
  BY <1>2, BegunIs, ShownFound DEF ApplyEvent
<1>3. CASE e.old \notin DOMAIN files /\ (e.path \in DOMAIN files \/ CanAdd(files, e.path))
  <2>1. ASSUME NEW ix, Shows(ix, files)
        PROVE  /\ ApplyEvent(Begun(ix), e).changed
               /\ Shows(Rebuilt(ApplyEvent(Begun(ix), e).records), With(files, e.path, e.meta))
    BY <1>1, <1>2, <1>3, <2>1, AppliedRecords, AddedShows
  <2>2. Link(rules, files, e, With(files, e.path, e.meta))
    BY <1>1, <2>1, LinkOne
  <2> QED BY <1>3, <2>2
<1>4. CASE e.old \in DOMAIN files /\ CanRelocate(files, e.old, e.path)
  <2>1. ASSUME NEW ix, Shows(ix, files)
        PROVE  /\ ApplyEvent(Begun(ix), e).changed
               /\ Shows(Rebuilt(ApplyEvent(Begun(ix), e).records), Relocated(files, e.old, e.path, e.meta))
    BY <1>1, <1>2, <1>4, <2>1, AppliedRecords, RelocateShows DEF CanRelocate, CanAdd
  <2>2. Link(rules, files, e, Relocated(files, e.old, e.path, e.meta))
    BY <1>1, <2>1, LinkOne
  <2> QED BY <1>4, <2>2
<1> QED BY <1>3, <1>4

-----------------------------------------------------------------------------
(* What a scan shows                                                       *)

\* A scan shows the files.
LEMMA ScannedShows ==
  ASSUME NEW files, IsTree(files), \A p \in DOMAIN files : Len(p) <= MaxDepth,
         NEW order, Enumerates(order, DOMAIN files)
  PROVE  Shows(Scanned(files, order), files)
<1> DEFINE records == ScanRecords(files, order)
           D == DOMAIN records
<1>1. /\ AreRecords(records)
      /\ order \in [D -> DOMAIN files]
      /\ \A i, j \in D : order[i] = order[j] => i = j
      /\ \A p \in DOMAIN files : \E i \in D : order[i] = p
      /\ \A i \in D :
           /\ records[i].meta = files[order[i]]
           /\ order[i] = <<>> => records[i].parent = RootParent /\ records[i].name = NoName
           /\ order[i] # <<>> => /\ records[i].parent \in D
                                 /\ order[records[i].parent] = Front(order[i])
                                 /\ records[i].name = Last(order[i])
  <2> HIDE DEF records
  <2>1. records = ScanRecords(files, order)
    BY DEF records
  <2> QED BY <2>1, ScanRecordsAre
<1>2. Scanned(files, order) = Rebuilt(records)
  BY ScannedIs
<1> HIDE DEF records
<1>3. \A p \in DOMAIN files : p \in Path /\ (p # <<>> => Last(p) \in Names)
  BY FrontOf DEF IsTree, Path
<1>4. 0 \notin D /\ NoName \notin Names
  BY <1>1, IndexAssumption DEF AreRecords
<1>5. ArePaths(records, order)
  <2>1. order \in [D -> Path]
    BY <1>1, <1>3
  <2>2. ASSUME NEW i \in D
        PROVE  /\ Len(order[i]) <= MaxDepth
               /\ records[i].name = NoName <=> order[i] = <<>>
               /\ order[i] = <<>> => records[i].parent = RootParent
               /\ order[i] # <<>> =>
                    /\ records[i].name = Last(order[i])
                    /\ IF records[i].parent = RootParent THEN Front(order[i]) = <<>>
                       ELSE order[records[i].parent] = Front(order[i])
    <3>1. order[i] \in DOMAIN files
      BY <1>1
    <3> HIDE DEF D
    <3> QED BY <1>1, <1>3, <1>4, <3>1 DEF RootParent
  <2> QED BY <1>1, <2>1, <2>2 DEF ArePaths
<1>6. DOMAIN files = {order[i] : i \in D}
  <2>1. /\ \A i \in D : order[i] \in DOMAIN files
        /\ \A p \in DOMAIN files : \E i \in D : order[i] = p
    BY <1>1
  <2> HIDE DEF D
  <2> QED BY <2>1
<1>7. Shows(Rebuilt(records), files)
  BY <1>1, <1>5, <1>6, RebuiltShows
<1> QED BY <1>2, <1>7

LEMMA PrefixOfPrefix ==
  ASSUME NEW p \in Path, NEW q \in Path, NEW r \in Path, IsPrefix(p, q), IsPrefix(q, r)
  PROVE  IsPrefix(p, r)
<1>1. Len(p) \in Nat /\ Len(q) \in Nat /\ Len(r) \in Nat
  BY PathTypes
<1>2. Len(p) <= Len(q) /\ Len(q) <= Len(r) /\ (\A i \in 1..Len(p) : p[i] = q[i]) /\ \A i \in 1..Len(q) : q[i] = r[i]
  BY PrefixAt
<1>3. \A i \in 1..Len(p) : i \in 1..Len(q)
  BY <1>1, <1>2
<1>4. Len(p) <= Len(r) /\ \A i \in 1..Len(p) : p[i] = r[i]
  BY <1>1, <1>2, <1>3
<1> QED BY <1>4, PrefixAt

\* The directories above a file that is shown
LEMMA AncestorsAbove ==
  ASSUME NEW ix, NEW files, Shows(ix, files), NEW j \in DOMAIN ix.records,
         NEW i \in Ancestors(ix.records, j)
  PROVE  i \in DOMAIN ix.records /\ IsPrefix(ix.paths[i], ix.paths[j])
<1> DEFINE records == ix.records
           P == ix.paths
           D == DOMAIN records
           above == {k \in D : IsPrefix(P[k], P[j])}
           first == {records[j].parent} \cap D
           up == CHOOSE f : f = [k \in Nat |-> IF k = 0 THEN first
                                               ELSE f[k - 1] \cup ({records[x].parent : x \in f[k - 1]} \cap D)]
           T == {k \in Nat : up[k] \subseteq above}
<1>1. Ancestors(records, j) = up[Len(records)]
  BY DEF Ancestors
<1>2. up = [k \in Nat |-> IF k = 0 THEN first
                          ELSE up[k - 1] \cup ({records[x].parent : x \in up[k - 1]} \cap D)]
  <2>1. \E f : f = [k \in Nat |-> IF k = 0 THEN first
                                  ELSE f[k - 1] \cup ({records[x].parent : x \in f[k - 1]} \cap D)]
    <3>1. \A from : \E f : f = [k \in Nat |-> IF k = 0 THEN from
                                   ELSE f[k - 1] \cup ({ix.records[x].parent : x \in f[k - 1]} \cap DOMAIN ix.records)]
      BY AncestorFold!Iteration
    <3> HIDE DEF first
    <3> QED BY <3>1 DEF records, D
  <2> HIDE DEF first
  <2> QED BY <2>1
<1> HIDE DEF up
<1>3. /\ P \in [D -> Path] /\ Len(records) \in Nat /\ 0 \notin D
      /\ \A k \in D : /\ P[k] = <<>> => records[k].parent = RootParent
                      /\ P[k] # <<>> => IF records[k].parent = RootParent THEN Front(P[k]) = <<>>
                                        ELSE P[records[k].parent] = Front(P[k])
  BY ShownTyped DEF Shows, ArePaths
<1>4. ASSUME NEW k \in above, records[k].parent \in D PROVE records[k].parent \in above
  <2>1. records[k].parent # RootParent /\ P[k] # <<>> /\ P[records[k].parent] = Front(P[k])
    BY <1>3, <1>4 DEF RootParent
  <2>2. P[k] \in Path /\ P[j] \in Path /\ IsPrefix(P[k], P[j]) /\ Front(P[k]) \in Path
    BY <1>3, <2>1, FrontOf
  <2>3. IsPrefix(Front(P[k]), P[k])
    BY <2>1, <2>2, PrefixFront
  <2>4. IsPrefix(Front(P[k]), P[j])
    BY <2>2, <2>3, PrefixOfPrefix
  <2> QED BY <1>4, <2>1, <2>4
<1>5. j \in above
  <2>1. P[j] \in Path
    BY <1>3
  <2> QED BY <2>1, PrefixFront
<1> HIDE DEF above, D
<1>6. 0 \in T
  <2>1. up[0] = first
    BY <1>2
  <2> QED BY <1>4, <1>5, <2>1
<1>7. ASSUME NEW k \in Nat, k \in T PROVE k + 1 \in T
  <2>1. k + 1 # 0 /\ (k + 1) - 1 = k /\ k + 1 \in Nat
    OBVIOUS
  <2>2. up[k + 1] = up[k] \cup ({records[x].parent : x \in up[k]} \cap D)
    BY <1>2, <2>1
  <2> QED BY <1>4, <1>7, <2>1, <2>2
<1> HIDE DEF T
<1>8. Len(records) \in T
  BY <1>3, <1>6, <1>7, ApplyFold!NatSet
<1> QED BY <1>1, <1>8 DEF T, above, D

-----------------------------------------------------------------------------
(* What is shown of the files of a device                                  *)

Visible(files, rules) == [p \in {q \in DOMAIN files : Allows(rules, q)} |-> files[p]]

\* Of a file that is allowed, the directories that it is in are allowed.
ClosedRules(rules, S) == \A p, q \in S : IsPrefix(p, q) /\ Allows(rules, q) => Allows(rules, p)

\* It is the paths and the metadata that matter.
LEMMA ShowsSame ==
  ASSUME NEW ix, NEW files, Shows(ix, files), NEW same, DOMAIN same = DOMAIN files,
         \A p \in DOMAIN files : same[p] = files[p]
  PROVE  Shows(ix, same)
<1>1. \A i \in DOMAIN ix.records : ix.paths[i] \in DOMAIN files
  BY DEF Shows
<1> QED BY <1>1 DEF Shows

\* filter_index drops what is not allowed, and nothing else.
LEMMA FilterShows ==
  ASSUME NEW ix, NEW files, Shows(ix, files), NEW rules, ClosedRules(rules, DOMAIN files)
  PROVE  Shows(FilterIndex(ix, rules), Visible(files, rules))
<1> DEFINE D == DOMAIN ix.records
           P == ix.paths
           selected == {i \in D : Allows(rules, P[i])}
           kept == {i \in D : i \in selected \/ \E j \in selected : i \in Ancestors(ix.records, j)}
<1>1. CASE rules = NoRules
  <2>1. DOMAIN Visible(files, rules) = DOMAIN files /\ \A p \in DOMAIN files : Visible(files, rules)[p] = files[p]
    BY <1>1, AllAllowed DEF Visible
  <2>2. FilterIndex(ix, rules) = ix
    BY <1>1 DEF FilterIndex
  <2> QED BY <2>1, <2>2, ShowsSame
<1>2. CASE rules # NoRules
  <2>1. FilterIndex(ix, rules) = Rebuilt(Compacted(ix.records, kept))
    BY <1>2 DEF FilterIndex
  <2>2. /\ P \in [D -> Path] /\ \A i \in D : P[i] \in DOMAIN files
        /\ DOMAIN files = {P[i] : i \in D}
    BY ShownTyped DEF Shows
  <2>3. ASSUME NEW j \in selected, NEW i \in Ancestors(ix.records, j) PROVE i \in selected
    <3>1. i \in D /\ IsPrefix(P[i], P[j])
      BY <2>3, AncestorsAbove
    <3> QED BY <2>2, <3>1 DEF ClosedRules
  <2>4. kept = selected
    BY <2>3
  <2>5. ASSUME NEW k \in selected PROVE Len(P[k]) <= 1 \/ ix.records[k].parent \in selected
    <3>1. P[k] \in Path /\ (P[k] # <<>> => IF ix.records[k].parent = RootParent THEN Front(P[k]) = <<>>
                                           ELSE P[ix.records[k].parent] = Front(P[k]))
          /\ ix.records[k].parent \in 0..Len(ix.records) /\ D = 1..Len(ix.records) /\ Len(ix.records) \in Nat
      BY <2>2, ShownTyped DEF Shows, ArePaths
    <3>2. CASE P[k] = <<>>
      BY <3>2
    <3>3. CASE P[k] # <<>> /\ ix.records[k].parent = RootParent
      <4> DEFINE n == Len(P[k])
      <4>1. n \in Nat \ {0} /\ 0 = n - 1
        BY <3>1, <3>3, FrontOf
      <4> HIDE DEF n
      <4>2. n <= 1
        BY <4>1
      <4> QED BY <4>2 DEF n
    <3>4. CASE P[k] # <<>> /\ ix.records[k].parent # RootParent
      <4>1. ix.records[k].parent \in D
        BY <3>1, <3>4 DEF RootParent
      <4>2. IsPrefix(P[ix.records[k].parent], P[k])
        BY <3>1, <3>4, PrefixFront, FrontOf
      <4> QED BY <2>2, <4>1, <4>2 DEF ClosedRules
    <3> QED BY <3>2, <3>3, <3>4
  <2>6. Shows(Rebuilt(Compacted(ix.records, selected)), [p \in {P[k] : k \in selected} |-> files[p]])
    <3>1. selected \in SUBSET D
      OBVIOUS
    <3> HIDE DEF selected
    <3> QED BY <2>5, <3>1, CompactedShows
  <2>7. {P[k] : k \in selected} = {q \in DOMAIN files : Allows(rules, q)}
    BY <2>2
  <2> QED BY <2>1, <2>4, <2>6, <2>7 DEF Visible
<1> QED BY <1>1, <1>2

\* Two indexes that show the same say the same.
LEMMA ShownAlike ==
  ASSUME NEW ix, NEW other, NEW files, Shows(ix, files), Shows(other, files)
  PROVE  Listing(ix) = Listing(other) /\ Len(ix.records) = Len(other.records)
<1>1. ASSUME NEW x, Shows(x, files)
      PROVE  /\ Listing(x) = {<<p, files[p]>> : p \in DOMAIN files}
             /\ Len(x.records) \in Nat /\ ExistsBijection(1..Len(x.records), DOMAIN files)
  <2>1. /\ DOMAIN x.records = 1..Len(x.records) /\ Len(x.records) \in Nat /\ x.paths \in [1..Len(x.records) -> Path]
    BY <1>1, ShownTyped
  <2>2. /\ \A i, j \in 1..Len(x.records) : x.paths[i] = x.paths[j] => i = j
        /\ DOMAIN files = {x.paths[i] : i \in 1..Len(x.records)}
        /\ \A i \in 1..Len(x.records) : x.records[i].meta = files[x.paths[i]]
    BY <1>1, <2>1 DEF Shows
  <2>3. Listing(x) = {<<p, files[p]>> : p \in DOMAIN files}
    BY <2>1, <2>2 DEF Listing
  <2>4. x.paths \in Bijection(1..Len(x.records), DOMAIN files)
    BY <2>1, <2>2 DEF Bijection, Injection, Surjection, IsInjective
  <2> QED BY <2>1, <2>3, <2>4 DEF ExistsBijection
<1>2. Listing(ix) = Listing(other)
  BY <1>1
<1>3. Cardinality(DOMAIN files) = Len(ix.records) /\ Cardinality(DOMAIN files) = Len(other.records)
  BY <1>1, FS_CountingElements
<1> QED BY <1>2, <1>3

LEMMA SetListed == ASSUME NEW S, IsFiniteSet(S) PROVE Enumerates(SetToSeq(S), S)
<1> DEFINE n == Cardinality(S)
           o == SetToSeq(S)
<1>1. \E f : f \in [1..n -> S] /\ IsInjective(f)
  <2>1. ExistsBijection(1..n, S)
    BY FS_CardinalityType
  <2> QED BY <2>1 DEF ExistsBijection, Bijection, Injection
<1>2. o \in [1..n -> S] /\ IsInjective(o)
  BY <1>1 DEF SetToSeq
<1> HIDE DEF o
<1>3. Enumerates(o, S)
  BY <1>2 DEF Enumerates, IsInjective
<1> QED BY <1>3 DEF o

\* What a scan of the files as they are would show
LEMMA RescannedShows ==
  ASSUME IsTree(tree), \A p \in DOMAIN tree : Len(p) <= MaxDepth, ClosedRules(scenario.rules, DOMAIN tree)
  PROVE  Shows(Rescanned, Visible(tree, scenario.rules))
<1>1. Enumerates(SetToSeq(DOMAIN tree), DOMAIN tree)
  BY SetListed DEF IsTree
<1>2. Shows(Scanned(tree, SetToSeq(DOMAIN tree)), tree)
  BY <1>1, ScannedShows
<1> QED BY <1>2, FilterShows DEF Rescanned

-----------------------------------------------------------------------------
(* The changes that are shown                                              *)

\* What changes of the files come to, and what is told of them, if nothing is
\* replaced and nothing crosses the border
Says(reports) == told' = told \o reports

Created(p, m) ==
  /\ p \in Paths /\ m \in Metas /\ Free(p) /\ (m = Dir => May("mkdir"))
  /\ tree' = With(tree, p, m) /\ Says(<<Told("create", p, p)>>)

Written(p, m) ==
  /\ p \in Paths /\ m \in Metas /\ m # Dir /\ p \in DOMAIN tree /\ tree[p] # Dir
  /\ tree' = With(tree, p, m) /\ Says(<<Told("modify", p, p)>>)

Removed(p) ==
  /\ p \in Paths /\ p # <<>> /\ p \in DOMAIN tree /\ Below(p) = {p} /\ (IsDir(p) => May("mkdir"))
  /\ tree' = Without(tree, p) /\ Says(<<Told("remove", p, p)>>)

MovedTo(p, q) ==
  /\ p \in Paths /\ q \in Paths /\ p # <<>> /\ p \in DOMAIN tree /\ Free(q) /\ ~IsPrefix(p, q)
  /\ Says(<<Told("modify", p, p), Told("modify", q, q), Told("both", q, p)>>)

FileMoved(p, q) == MovedTo(p, q) /\ ~IsDir(p) /\ tree' = With(Without(tree, p), q, tree[p])

DirMoved(p, q) ==
  /\ MovedTo(p, q) /\ IsDir(p) /\ May("dirs") /\ tree' = Moved(p, q)
  /\ \A r \in Below(p) : Len(q) + Len(r) - Len(p) <= 2

\* There is nothing below a file.
LEMMA FileBelow ==
  ASSUME IsTree(tree), NEW p \in DOMAIN tree, ~IsDir(p)
  PROVE  Below(p) = {p}
<1>1. p \in Path /\ \A r \in DOMAIN tree : r \in Path
  BY DEF IsTree, Path
<1>2. ASSUME NEW r \in Below(p), r # p PROVE FALSE
  BY <1>1, <1>2, TreeClosed DEF Below, IsDir
<1>3. p \in Below(p)
  BY <1>1, PrefixFront DEF Below
<1> QED BY <1>2, <1>3

LEMMA FileMoves ==
  ASSUME IsTree(tree), NEW p, NEW q, CanMove(p, q), ~IsDir(p), q \notin DOMAIN tree
  PROVE  Moved(p, q) = With(Without(tree, p), q, tree[p])
<1>1. Below(p) = {p} /\ p \in Path /\ q \in Path
  BY FileBelow DEF CanMove, IsTree, Path
<1>2. At(p, q, p) = q /\ p # q /\ p \in DOMAIN tree
  BY <1>1, Replanted, PrefixFront DEF CanMove
<1>3. /\ DOMAIN Moved(p, q) = (DOMAIN tree \ {p}) \cup {q}
      /\ Moved(p, q)[q] = tree[p]
      /\ \A r \in DOMAIN tree \ {p} : Moved(p, q)[r] = tree[r]
  <2>1. /\ DOMAIN Moved(p, q) = Stays(p, q) \cup {At(p, q, r) : r \in Below(p)}
        /\ \A r \in Below(p) : Moved(p, q)[At(p, q, r)] = tree[r]
        /\ \A r \in Stays(p, q) : Moved(p, q)[r] = tree[r]
    BY MovedFiles
  <2>2. Stays(p, q) = DOMAIN tree \ {p}
    BY <1>1 DEF Stays
  <2> QED BY <1>1, <1>2, <2>1, <2>2
<1>4. Moved(p, q) = [r \in DOMAIN Moved(p, q) |-> Moved(p, q)[r]]
  BY DEF Moved
<1> DEFINE new == With(Without(tree, p), q, tree[p])
<1>5. /\ DOMAIN new = (DOMAIN tree \ {p}) \cup {q} /\ new[q] = tree[p]
      /\ \A r \in DOMAIN tree \ {p} : new[r] = tree[r]
      /\ new = [r \in DOMAIN new |-> new[r]]
  BY DEF With, Without
<1> HIDE DEF new
<1> QED BY <1>3, <1>4, <1>5 DEF new

\* The scenarios in question; lag, rules and directories come later.
Inside == scenario.may \cap {"over", "border"} = {}

\* If nothing is replaced or crosses the border, these are the changes there are.
LEMMA InsideChanges ==
  ASSUME FilesInv, FilesNext, Inside
  PROVE  \/ \E p, m : Created(p, m)
         \/ \E p, m : Written(p, m)
         \/ \E p : Removed(p)
         \/ \E p, q : FileMoved(p, q)
         \/ \E p, q : DirMoved(p, q)
<1>1. IsTree(tree) /\ ~May("over") /\ ~May("border")
  BY DEF FilesInv, Inside, May
<1>2. ASSUME NEW p \in Paths, NEW m \in Metas, Create(p, m) PROVE Created(p, m)
  BY <1>2 DEF Create, Created, Change, Says, With
<1>3. ASSUME NEW p \in Paths, Modify(p) PROVE \E m : Written(p, m)
  <2>1. PICK v \in Versions : /\ p \in DOMAIN tree /\ tree[p] \in {File(w) : w \in Versions \ {v}}
                              /\ tree' = [tree EXCEPT ![p] = File(v)] /\ Says(<<Told("modify", p, p)>>)
    BY <1>3 DEF Modify, Change, Says
  <2>2. tree[p] # Dir /\ File(v) # Dir /\ File(v) \in Metas
    BY <2>1 DEF File, Dir, Metas
  <2>3. [tree EXCEPT ![p] = File(v)] = With(tree, p, File(v))
    <3>1. DOMAIN tree \cup {p} = DOMAIN tree /\ tree = [q \in DOMAIN tree |-> tree[q]]
      BY <1>1, <2>1 DEF IsTree
    <3> QED BY <2>1, <3>1 DEF With
  <2> QED BY <2>1, <2>2, <2>3 DEF Written
<1>4. ASSUME NEW p \in Paths, Delete(p) PROVE Removed(p)
  BY <1>4 DEF Delete, Removed, Change, Says, Without
<1>5. ASSUME NEW p \in Paths, NEW q \in Paths, Rename(p, q) PROVE FileMoved(p, q) \/ DirMoved(p, q)
  <2>1. MovedTo(p, q) /\ tree' = Moved(p, q) /\ CanMove(p, q)
    BY <1>1, <1>5, RenameMoves DEF Rename, MovedTo, Change, Says
  <2>2. CASE IsDir(p)
    BY <1>5, <2>1, <2>2 DEF Rename, DirMoved
  <2>3. CASE ~IsDir(p)
    BY <1>1, <2>1, <2>3, FileMoves DEF FileMoved, MovedTo, Free
  <2> QED BY <2>2, <2>3
<1> QED BY <1>1, <1>2, <1>3, <1>4, <1>5 DEF FilesNext, MoveIn, MoveOut

-----------------------------------------------------------------------------
(* Depth and rules                                                         *)

\* No path is deeper than build_path_for goes, and only renamed directories bring
\* paths that the scenario does not name.
WithinDepth ==
  /\ \A p \in DOMAIN tree : Len(p) <= MaxDepth
  /\ ~May("dirs") => DOMAIN tree \subseteq DOMAIN scenario.files \cup Paths

LEMMA PathsShort ==
  ASSUME scenario \in Scenarios, NEW p \in Paths
  PROVE  Len(p) <= MaxDepth /\ Len(p) <= 2
<1>1. PICK n \in 0..2 : p \in [1..n -> scenario.names]
  BY DEF Paths
<1>2. p \in Seq(scenario.names) /\ DOMAIN p = 1..n
  BY <1>1, SeqDef
<1>3. Len(p) = n
  BY <1>2, LenProperties
<1> QED BY <1>1, <1>3, LiveUpdatesAssumption, IndexAssumption

LEMMA ReplantedLen ==
  ASSUME NEW p \in Path, NEW q \in Path, NEW r \in Path, IsPrefix(p, r)
  PROVE  Len(At(p, q, r)) = Len(q) + (Len(r) - Len(p))
<1> DEFINE u == SubSeq(r, Len(p) + 1, Len(r))
<1>1. Len(p) \in Nat /\ Len(q) \in Nat /\ Len(r) \in Nat /\ Len(p) <= Len(r)
  BY PrefixAt, PathTypes
<1>2. \A i \in (Len(p) + 1)..Len(r) : r[i] \in Names
  BY <1>1, PathTypes
<1>3. u \in Seq(Names) /\ Len(u) = IF Len(p) + 1 <= Len(r) THEN Len(r) - (Len(p) + 1) + 1 ELSE 0
  BY <1>1, <1>2, SubSeqProperties
<1>4. Len(u) = Len(r) - Len(p)
  BY <1>1, <1>3
<1> HIDE DEF u
<1>5. Len(q \o u) = Len(q) + Len(u)
  BY <1>3, ConcatProperties DEF Path
<1> QED BY <1>4, <1>5 DEF At, u

LEMMA DepthInit == Init => WithinDepth
BY LiveUpdatesAssumption DEF Init, WithinDepth

LEMMA DepthStep ==
  ASSUME FilesInv, WithinDepth, Inside, FilesNext
  PROVE  WithinDepth'
<1>1. scenario' = scenario /\ Paths' = Paths
  BY ReportsTyped DEF Paths
<1>2. ASSUME NEW S, DOMAIN tree' \subseteq DOMAIN tree \cup S, S \subseteq Paths PROVE WithinDepth'
  <2>1. \A p \in S : Len(p) <= MaxDepth
    BY <1>2, PathsShort DEF FilesInv
  <2> QED BY <1>1, <1>2, <2>1 DEF WithinDepth, May
<1>3. ASSUME NEW p, NEW m, Created(p, m) \/ Written(p, m) PROVE WithinDepth'
  BY <1>2, <1>3 DEF Created, Written, With
<1>4. ASSUME NEW p, Removed(p) PROVE WithinDepth'
  BY <1>2, <1>4 DEF Removed, Without
<1>5. ASSUME NEW p, NEW q, FileMoved(p, q) PROVE WithinDepth'
  BY <1>2, <1>5 DEF FileMoved, MovedTo, With, Without
<1>6. ASSUME NEW p, NEW q, DirMoved(p, q) PROVE WithinDepth'
  <2>1. /\ p \in DOMAIN tree /\ p # <<>> /\ q \in Paths /\ ~IsPrefix(p, q) /\ Free(q) /\ IsTree(tree)
        /\ tree' = Moved(p, q) /\ \A r \in Below(p) : Len(q) + Len(r) - Len(p) <= 2
    BY <1>6 DEF DirMoved, MovedTo, FilesInv
  <2>2. CanMove(p, q)
    BY <2>1, PathsAre DEF CanMove, Free, IsDir, FilesInv
  <2>3. /\ DOMAIN tree' = Stays(p, q) \cup {At(p, q, r) : r \in Below(p)}
        /\ p \in Path /\ q \in Path /\ \A r \in Below(p) : r \in Path /\ IsPrefix(p, r)
    <3>1. Paths \subseteq Path
      BY PathsAre DEF FilesInv
    <3>2. \A r \in Below(p) : IsPrefix(p, r)
      BY DEF Below
    <3> QED BY <2>1, <2>2, <3>1, <3>2, MovedFiles
  <2>4. ASSUME NEW r \in Below(p) PROVE Len(At(p, q, r)) <= MaxDepth
    <3>1. Len(p) \in Nat /\ Len(q) \in Nat /\ Len(r) \in Nat
      BY <2>3, PathTypes
    <3>2. Len(At(p, q, r)) = Len(q) + (Len(r) - Len(p)) /\ Len(q) + Len(r) - Len(p) <= 2
      BY <2>1, <2>3, ReplantedLen
    <3> QED BY <3>1, <3>2, LiveUpdatesAssumption, IndexAssumption
  <2>5. \A r \in DOMAIN tree' : Len(r) <= MaxDepth
    BY <2>3, <2>4 DEF WithinDepth, Stays
  <2>6. May("dirs")'
    BY <1>1, <1>6 DEF DirMoved, May
  <2> QED BY <2>5, <2>6 DEF WithinDepth
<1> QED BY <1>3, <1>4, <1>5, <1>6, InsideChanges

\* In the scenarios in question no directory of an allowed file is excluded.
LEMMA TameCloses ==
  ASSUME Tame, WithinDepth
  PROVE  ClosedRules(scenario.rules, DOMAIN tree \cup Paths)
<1>1. CASE scenario.rules = NoRules
  BY <1>1, AllAllowed DEF ClosedRules
<1>2. CASE scenario.rules # NoRules
  BY <1>2 DEF Tame, WithinDepth, ExcludesBelow, ClosedRules
<1> QED BY <1>1, <1>2

-----------------------------------------------------------------------------
(* Events that lead from what is shown to what is to be shown              *)

Leads(rules, events, from, to) ==
  \E c : /\ c[1] = from /\ c[Len(events) + 1] = to
         /\ \A i \in 1..Len(events) : Link(rules, c[i], events[i], c[i + 1])

LEMMA LeadsNowhere == ASSUME NEW rules, NEW files PROVE Leads(rules, <<>>, files, files)
<1> DEFINE c == [i \in {1} |-> files]
<1>1. c[1] = files /\ Len(<<>>) = 0
  OBVIOUS
<1> HIDE DEF c
<1> QED BY <1>1 DEF Leads

\* One more event
LEMMA LeadsOn ==
  ASSUME NEW rules, NEW events \in Seq(Event), NEW e \in Event, NEW from, NEW mid, NEW to,
         Leads(rules, events, from, mid), Link(rules, mid, e, to)
  PROVE  Leads(rules, Append(events, e), from, to)
<1> DEFINE n == Len(events)
<1>1. PICK c : /\ c[1] = from /\ c[n + 1] = mid
               /\ \A i \in 1..n : Link(rules, c[i], events[i], c[i + 1])
  BY DEF Leads
<1> DEFINE d == [i \in 1..(n + 2) |-> IF i = n + 2 THEN to ELSE c[i]]
<1>2. n \in Nat /\ \A i \in 1..(n + 2) : d[i] = IF i = n + 2 THEN to ELSE c[i]
  OBVIOUS
<1>3. /\ Len(Append(events, e)) = n + 1 /\ Append(events, e)[n + 1] = e
      /\ \A i \in 1..n : Append(events, e)[i] = events[i]
  BY AppendProperties
<1> HIDE DEF d, n
<1>4. d[1] = from /\ d[(n + 1) + 1] = to
  BY <1>1, <1>2
<1>5. ASSUME NEW i \in 1..(n + 1) PROVE Link(rules, d[i], Append(events, e)[i], d[i + 1])
  <2>1. CASE i = n + 1
    <3>1. d[i] = mid /\ d[i + 1] = to
      BY <1>1, <1>2, <2>1
    <3> QED BY <1>3, <2>1, <3>1
  <2>2. CASE i # n + 1
    <3>1. i \in 1..n /\ d[i] = c[i] /\ d[i + 1] = c[i + 1]
      BY <1>2, <2>2
    <3> QED BY <1>1, <1>3, <3>1
  <2> QED BY <2>1, <2>2
<1> QED BY <1>3, <1>4, <1>5 DEF Leads

\* The first event has been applied.
LEMMA LeadsRest ==
  ASSUME NEW rules, NEW events \in Seq(Event), events # <<>>, NEW from, NEW to, Leads(rules, events, from, to)
  PROVE  \E mid : Link(rules, from, Head(events), mid) /\ Leads(rules, Tail(events), mid, to)
<1> DEFINE n == Len(events)
<1>1. PICK c : /\ c[1] = from /\ c[n + 1] = to
               /\ \A i \in 1..n : Link(rules, c[i], events[i], c[i + 1])
  BY DEF Leads
<1> DEFINE d == [i \in 1..n |-> c[i + 1]]
<1>2. n \in Nat \ {0} /\ \A i \in 1..n : d[i] = c[i + 1]
  OBVIOUS
<1>3. /\ Len(Tail(events)) = n - 1 /\ Head(events) = events[1]
      /\ \A i \in 1..(n - 1) : Tail(events)[i] = events[i + 1]
  BY HeadTailProperties
<1> HIDE DEF d, n
<1>4. Link(rules, from, Head(events), d[1])
  <2>1. 1 \in 1..n /\ d[1] = c[1 + 1]
    BY <1>2
  <2> QED BY <1>1, <1>3, <2>1
<1>5. d[(n - 1) + 1] = to
  BY <1>1, <1>2
<1>6. ASSUME NEW i \in 1..(n - 1) PROVE Link(rules, d[i], Tail(events)[i], d[i + 1])
  <2>1. i + 1 \in 1..n /\ i \in 1..n /\ d[i] = c[i + 1] /\ d[i + 1] = c[(i + 1) + 1]
    BY <1>2
  <2> QED BY <1>1, <1>3, <2>1
<1>7. Leads(rules, Tail(events), d[1], to)
  BY <1>3, <1>5, <1>6 DEF Leads
<1> QED BY <1>4, <1>7

-----------------------------------------------------------------------------
(* What a change in time leads to                                          *)

LEMMA LinkSame ==
  ASSUME NEW rules, NEW from, NEW e, NEW to, Link(rules, from, e, to),
         NEW same, DOMAIN same = DOMAIN to, \A p \in DOMAIN to : same[p] = to[p]
  PROVE  Link(rules, from, e, same)
BY ShowsSame DEF Link

\* A name is free or not, shown or not.
LEMMA VisibleIs ==
  ASSUME NEW files, NEW rules
  PROVE  /\ DOMAIN Visible(files, rules) = {q \in DOMAIN files : Allows(rules, q)}
         /\ \A q \in DOMAIN Visible(files, rules) : Visible(files, rules)[q] = files[q]
BY DEF Visible

LEMMA VisibleWith ==
  ASSUME NEW files, NEW rules, NEW p, NEW m
  PROVE  /\ ~Allows(rules, p) => /\ DOMAIN Visible(With(files, p, m), rules) = DOMAIN Visible(files, rules)
                                 /\ \A q \in DOMAIN Visible(files, rules) :
                                      Visible(With(files, p, m), rules)[q] = Visible(files, rules)[q]
         /\ Allows(rules, p) =>
              /\ DOMAIN Visible(With(files, p, m), rules) = DOMAIN With(Visible(files, rules), p, m)
              /\ \A q \in DOMAIN With(Visible(files, rules), p, m) :
                   Visible(With(files, p, m), rules)[q] = With(Visible(files, rules), p, m)[q]
BY DEF Visible, With

LEMMA VisibleWithout ==
  ASSUME NEW files, NEW rules, NEW p
  PROVE  /\ p \notin DOMAIN Visible(files, rules) =>
              /\ DOMAIN Visible(Without(files, p), rules) = DOMAIN Visible(files, rules)
              /\ \A q \in DOMAIN Visible(files, rules) :
                   Visible(Without(files, p), rules)[q] = Visible(files, rules)[q]
         /\ /\ DOMAIN Visible(Without(files, p), rules) = DOMAIN Without(Visible(files, rules), p)
            /\ \A q \in DOMAIN Without(Visible(files, rules), p) :
                 Visible(Without(files, p), rules)[q] = Without(Visible(files, rules), p)[q]
BY DEF Visible, Without

\* A new name leads to its being shown if it is allowed.
LEMMA CreatedLeads ==
  ASSUME NEW files, IsTree(files), NEW rules, NEW p \in Path, Len(p) <= MaxDepth, p # <<>>,
         Front(p) \in DOMAIN files, ClosedRules(rules, DOMAIN files \cup {p}), NEW m \in Metas,
         NEW e \in Event, e.kind = "created", e.path = p, e.meta = m
  PROVE  Link(rules, Visible(files, rules), e, Visible(With(files, p, m), rules))
<1>1. m # NoMeta
  BY LiveUpdatesAssumption
<1>2. CASE ~Allows(rules, p)
  <2>1. Link(rules, Visible(files, rules), e, Visible(files, rules))
    BY <1>2, LinkCreated
  <2> QED BY <1>2, <2>1, LinkSame, VisibleWith
<1>3. CASE Allows(rules, p)
  <2>1. IsPrefix(Front(p), p)
    BY PrefixFront
  <2>2. Front(p) \in DOMAIN Visible(files, rules)
    BY <1>3, <2>1, VisibleIs DEF ClosedRules
  <2>3. CanAdd(Visible(files, rules), p)
    BY <2>2 DEF CanAdd
  <2>4. Link(rules, Visible(files, rules), e, With(Visible(files, rules), p, m))
    BY <1>1, <1>3, <2>3, LinkCreated
  <2> QED BY <1>3, <2>4, LinkSame, VisibleWith
<1> QED BY <1>2, <1>3

LEMMA WrittenLeads ==
  ASSUME NEW files, IsTree(files), NEW rules, NEW p \in DOMAIN files, NEW m \in Metas,
         NEW e \in Event, e.kind = "metadata", e.path = p, e.meta = m
  PROVE  Link(rules, Visible(files, rules), e, Visible(With(files, p, m), rules))
<1>1. m # NoMeta
  BY LiveUpdatesAssumption
<1>2. CASE ~Allows(rules, p)
  <2>1. p \notin DOMAIN Visible(files, rules)
    BY <1>2, VisibleIs
  <2>2. Link(rules, Visible(files, rules), e, Visible(files, rules))
    BY <2>1, LinkMetadata
  <2> QED BY <1>2, <2>2, LinkSame, VisibleWith
<1>3. CASE Allows(rules, p)
  <2>1. p \in DOMAIN Visible(files, rules)
    BY <1>3, VisibleIs
  <2>2. Link(rules, Visible(files, rules), e, With(Visible(files, rules), p, m))
    BY <1>1, <2>1, LinkMetadata
  <2> QED BY <1>3, <2>2, LinkSame, VisibleWith
<1> QED BY <1>2, <1>3

LEMMA RemovedLeads ==
  ASSUME NEW files, IsTree(files), NEW rules, NEW p \in DOMAIN files, p # <<>>,
         \A r \in DOMAIN files : IsPrefix(p, r) => r = p,
         NEW e \in Event, e.kind = "removed", e.path = p
  PROVE  Link(rules, Visible(files, rules), e, Visible(Without(files, p), rules))
<1>1. CASE p \notin DOMAIN Visible(files, rules)
  <2>1. Link(rules, Visible(files, rules), e, Visible(files, rules))
    BY <1>1, LinkRemoved
  <2> QED BY <1>1, <2>1, LinkSame, VisibleWithout
<1>2. CASE p \in DOMAIN Visible(files, rules)
  <2>1. IsLeaf(Visible(files, rules), p)
    BY VisibleIs DEF IsLeaf
  <2>2. Link(rules, Visible(files, rules), e, Without(Visible(files, rules), p))
    BY <1>2, <2>1, LinkRemoved
  <2> QED BY <2>2, LinkSame, VisibleWithout
<1> QED BY <1>1, <1>2

-----------------------------------------------------------------------------
(* A file or a directory that is renamed                                   *)

\* A file that gets another name
LEMMA LinkMoved ==
  ASSUME NEW e \in Event, e.kind = "renamed", NEW rules, e.meta # NoMeta, Allows(rules, e.path),
         NEW files, DOMAIN files \subseteq Path, e.old \in DOMAIN files, IsLeaf(files, e.old),
         CanAdd(files, e.path), ~IsPrefix(e.old, e.path), \A r \in DOMAIN files : ~IsPrefix(e.path, r)
  PROVE  Link(rules, files, e, With(Without(files, e.old), e.path, e.meta))
<1> DEFINE p == e.old
           q == e.path
           below == {r \in DOMAIN files : IsPrefix(p, r)}
           to == Relocated(files, p, q, e.meta)
<1>1. p \in Path /\ q \in Path /\ At(p, q, p) = q /\ below = {p}
  <2>1. p \in Path /\ q \in Path /\ IsPrefix(p, p)
    BY PrefixFront DEF CanAdd
  <2> QED BY <2>1, Replanted DEF IsLeaf
<1>2. CanRelocate(files, p, q)
  BY <1>1 DEF CanRelocate, IsLeaf, CanAdd
<1>3. Link(rules, files, e, to)
  BY <1>2, LinkRenamed
<1>4. IsPrefix(q, q)
  BY <1>1, PrefixFront
<1>5. /\ DOMAIN to = (DOMAIN files \ {p}) \cup {q}
      /\ \A x \in DOMAIN to : to[x] = IF x = q THEN e.meta ELSE files[x]
  <2>1. to = [x \in (DOMAIN files \ below) \cup {At(p, q, r) : r \in below} |->
               IF x = q THEN e.meta ELSE IF IsPrefix(q, x) THEN files[At(q, p, x)] ELSE files[x]]
    BY DEF Relocated
  <2>2. {At(p, q, r) : r \in below} = {q}
    BY <1>1
  <2> HIDE DEF to
  <2>3. DOMAIN to = (DOMAIN files \ {p}) \cup {q}
    BY <1>1, <2>1, <2>2
  <2>4. ASSUME NEW x \in DOMAIN to PROVE to[x] = IF x = q THEN e.meta ELSE files[x]
    <3>1. to[x] = IF x = q THEN e.meta ELSE IF IsPrefix(q, x) THEN files[At(q, p, x)] ELSE files[x]
      BY <1>1, <2>1, <2>2, <2>3
    <3>2. x # q => ~IsPrefix(q, x)
      BY <2>3
    <3> QED BY <3>1, <3>2
  <2> QED BY <2>3, <2>4
<1> HIDE DEF to
<1>6. /\ DOMAIN With(Without(files, p), q, e.meta) = DOMAIN to
      /\ \A x \in DOMAIN to : With(Without(files, p), q, e.meta)[x] = to[x]
  BY <1>5 DEF With, Without
<1> QED BY <1>3, <1>6, LinkSame

\* A file that gets another name
LEMMA FileMovedLeads ==
  ASSUME NEW files, IsTree(files), NEW rules,
         NEW p \in DOMAIN files, p # <<>>, \A r \in DOMAIN files : IsPrefix(p, r) => r = p,
         NEW q \in Path, q # <<>>, q \notin DOMAIN files, Len(q) <= MaxDepth, ~IsPrefix(p, q),
         Front(q) \in DOMAIN files, files[Front(q)] = Dir, ClosedRules(rules, DOMAIN files \cup {q}),
         NEW e \in Event, e.kind = "renamed", e.path = q, e.old = p, e.meta = files[p]
  PROVE  Link(rules, Visible(files, rules), e, Visible(With(Without(files, p), q, files[p]), rules))
<1> DEFINE V == Visible(files, rules)
           m == files[p]
           after == Visible(With(Without(files, p), q, m), rules)
<1>1. m # NoMeta /\ \A r \in DOMAIN files : r \in Path
  BY LiveUpdatesAssumption DEF IsTree, Path
<1>2. /\ DOMAIN V = {r \in DOMAIN files : Allows(rules, r)}
      /\ \A r \in DOMAIN V : V[r] = files[r]
      /\ DOMAIN after = {r \in (DOMAIN files \ {p}) \cup {q} : Allows(rules, r)}
      /\ \A r \in DOMAIN after : after[r] = IF r = q THEN m ELSE files[r]
  BY DEF Visible, With, Without
<1>3. p \in DOMAIN V => IsLeaf(V, p)
  BY <1>2 DEF IsLeaf
<1>4. ASSUME NEW r \in DOMAIN V, IsPrefix(q, r) PROVE FALSE
  <2>1. r \in DOMAIN files /\ q # r
    BY <1>2
  <2> QED BY <1>4, <2>1, TreeClosed
<1>5. Allows(rules, q) => CanAdd(V, q)
  <2>1. IsPrefix(Front(q), q)
    BY PrefixFront
  <2>2. Allows(rules, q) => Front(q) \in DOMAIN V
    BY <1>2, <2>1 DEF ClosedRules
  <2> QED BY <2>2 DEF CanAdd
<1>6. p # q
  OBVIOUS
<1> HIDE DEF V, after, m
<1>7. CASE ~Allows(rules, q)
  <2>1. CASE p \in DOMAIN V
    <3>1. Link(rules, V, e, Without(V, p))
      BY <1>3, <1>7, <2>1, LinkRenamedAway
    <3>2. DOMAIN after = DOMAIN Without(V, p) /\ \A r \in DOMAIN Without(V, p) : after[r] = Without(V, p)[r]
      BY <1>2, <1>7 DEF Without
    <3> QED BY <3>1, <3>2, LinkSame DEF V, after, m
  <2>2. CASE p \notin DOMAIN V
    <3>1. Link(rules, V, e, V)
      BY <1>7, <2>2, LinkRenamedAway
    <3>2. DOMAIN after = DOMAIN V /\ \A r \in DOMAIN V : after[r] = V[r]
      BY <1>2, <1>7, <2>2
    <3> QED BY <3>1, <3>2, LinkSame DEF V, after, m
  <2> QED BY <2>1, <2>2
<1>8. CASE Allows(rules, q)
  <2>1. CASE p \in DOMAIN V
    <3>1. DOMAIN V \subseteq Path /\ e.meta # NoMeta /\ e.meta = m
      BY <1>1, <1>2 DEF m
    <3>2. Link(rules, V, e, With(Without(V, p), q, m))
      BY <1>3, <1>4, <1>5, <1>8, <2>1, <3>1, LinkMoved
    <3>3. /\ DOMAIN after = DOMAIN With(Without(V, p), q, m)
          /\ \A r \in DOMAIN With(Without(V, p), q, m) : after[r] = With(Without(V, p), q, m)[r]
      BY <1>2, <1>8 DEF With, Without
    <3> QED BY <3>2, <3>3, LinkSame DEF V, after, m
  <2>2. CASE p \notin DOMAIN V
    <3>1. e.meta # NoMeta /\ e.meta = m
      BY <1>1 DEF m
    <3>2. Link(rules, V, e, With(V, q, m))
      BY <1>5, <1>8, <2>2, <3>1, LinkRenamed
    <3>3. /\ DOMAIN after = DOMAIN With(V, q, m)
          /\ \A r \in DOMAIN With(V, q, m) : after[r] = With(V, q, m)[r]
      BY <1>2, <1>8, <2>2 DEF With
    <3> QED BY <3>2, <3>3, LinkSame DEF V, after, m
  <2> QED BY <2>1, <2>2
<1> QED BY <1>7, <1>8

\* A directory that gets another name, and with it what is below it
LEMMA DirMovedShows ==
  ASSUME IsTree(tree), NEW rules, \A x : Allows(rules, x),
         NEW p, NEW q, CanMove(p, q), q \notin DOMAIN tree, Len(q) <= MaxDepth,
         \A r \in Below(p) : Len(q) + Len(r) - Len(p) <= MaxDepth
  PROVE  /\ p \in DOMAIN Visible(tree, rules) /\ CanRelocate(Visible(tree, rules), p, q)
         /\ DOMAIN Visible(Moved(p, q), rules) = DOMAIN Relocated(Visible(tree, rules), p, q, tree[p])
         /\ \A x \in DOMAIN Relocated(Visible(tree, rules), p, q, tree[p]) :
              Visible(Moved(p, q), rules)[x] = Relocated(Visible(tree, rules), p, q, tree[p])[x]
<1> DEFINE V == Visible(tree, rules)
           m == tree[p]
           after == Visible(Moved(p, q), rules)
           to == Relocated(V, p, q, m)
<1>1. /\ p \in DOMAIN tree /\ p # <<>> /\ p \in Path /\ q \in Path /\ q # <<>> /\ ~IsPrefix(p, q)
      /\ Front(q) \in DOMAIN tree /\ m \in Metas /\ m # NoMeta
      /\ \A r \in DOMAIN tree : r \in Path
  BY LiveUpdatesAssumption DEF CanMove, IsTree, Path
<1>2. DOMAIN V = DOMAIN tree /\ \A r \in DOMAIN tree : V[r] = tree[r]
  BY DEF Visible
<1>3. DOMAIN after = DOMAIN Moved(p, q) /\ \A r \in DOMAIN Moved(p, q) : after[r] = Moved(p, q)[r]
  BY DEF Visible
<1>4. /\ \A r \in Below(p) : r \in Path
      /\ DOMAIN Moved(p, q) = Stays(p, q) \cup {At(p, q, r) : r \in Below(p)}
      /\ \A r \in Below(p) : Moved(p, q)[At(p, q, r)] = tree[r] /\ At(p, q, r) \notin Stays(p, q)
      /\ \A r \in Stays(p, q) : Moved(p, q)[r] = tree[r] /\ ~IsPrefix(q, r)
  BY MovedFiles
<1>5. \A r \in DOMAIN tree : ~IsPrefix(q, r)
  BY <1>1, TreeClosed DEF CanMove
<1>6. Stays(p, q) = DOMAIN V \ Below(p) /\ Below(p) = {r \in DOMAIN V : IsPrefix(p, r)}
  BY <1>2 DEF Stays, Below
<1> HIDE DEF V, after
<1>7. CanRelocate(V, p, q)
  <2>1. CanAdd(V, q)
    BY <1>1, <1>2 DEF CanAdd
  <2>2. ASSUME NEW r \in DOMAIN V, IsPrefix(p, r) PROVE Len(At(p, q, r)) <= MaxDepth
    <3>1. r \in Below(p) /\ r \in Path
      BY <1>4, <1>6, <2>2
    <3>2. Len(p) \in Nat /\ Len(q) \in Nat /\ Len(r) \in Nat
      BY <1>1, <3>1, PathTypes
    <3>3. Len(At(p, q, r)) = Len(q) + (Len(r) - Len(p))
      BY <1>1, <2>2, <3>1, ReplantedLen
    <3> QED BY <3>1, <3>2, <3>3, IndexAssumption
  <2> QED BY <1>1, <1>2, <1>5, <2>1, <2>2 DEF CanRelocate
<1>9. /\ DOMAIN to = DOMAIN Moved(p, q)
      /\ \A x \in DOMAIN to : to[x] = IF x = q THEN m ELSE IF IsPrefix(q, x) THEN V[At(q, p, x)] ELSE V[x]
  BY <1>4, <1>6 DEF Relocated
<1> HIDE DEF to
<1>10. ASSUME NEW x \in DOMAIN to PROVE after[x] = to[x]
  <2>1. CASE x \in Stays(p, q)
    <3>1. ~IsPrefix(q, x) /\ x # q /\ x \in DOMAIN tree
      BY <1>1, <1>4, <2>1, PrefixFront DEF Stays
    <3> QED BY <1>2, <1>3, <1>4, <1>9, <2>1, <3>1
  <2>2. ASSUME NEW r \in Below(p), x = At(p, q, r) PROVE after[x] = to[x]
    <3>1. r \in Path /\ IsPrefix(p, r) /\ r \in DOMAIN tree
      BY <1>4 DEF Below
    <3>2. IsPrefix(q, x) /\ At(q, p, x) = r /\ (x = q => r = p)
      BY <1>1, <2>2, <3>1, Replanted
    <3>3. after[x] = tree[r]
      BY <1>3, <1>4, <1>9, <2>2
    <3> QED BY <1>2, <1>9, <3>1, <3>2, <3>3
  <2> QED BY <1>4, <1>9, <2>1, <2>2
<1>11. p \in DOMAIN V /\ DOMAIN after = DOMAIN to
  BY <1>1, <1>2, <1>3, <1>9
<1> QED BY <1>7, <1>10, <1>11 DEF V, after, to

LEMMA DirMovedLeads ==
  ASSUME IsTree(tree), NEW rules, \A x : Allows(rules, x),
         NEW p, NEW q, CanMove(p, q), q \notin DOMAIN tree, Len(q) <= MaxDepth,
         \A r \in Below(p) : Len(q) + Len(r) - Len(p) <= MaxDepth,
         NEW e \in Event, e.kind = "renamed", e.path = q, e.old = p, e.meta = tree[p]
  PROVE  Link(rules, Visible(tree, rules), e, Visible(Moved(p, q), rules))
<1> DEFINE V == Visible(tree, rules)
<1>1. /\ p \in DOMAIN V /\ CanRelocate(V, p, q)
      /\ DOMAIN Visible(Moved(p, q), rules) = DOMAIN Relocated(V, p, q, tree[p])
      /\ \A x \in DOMAIN Relocated(V, p, q, tree[p]) :
           Visible(Moved(p, q), rules)[x] = Relocated(V, p, q, tree[p])[x]
  BY DirMovedShows
<1>2. e.meta # NoMeta /\ Allows(rules, e.path)
  BY LiveUpdatesAssumption DEF CanMove, IsTree
<1> HIDE DEF V
<1>3. Link(rules, V, e, Relocated(V, p, q, tree[p]))
  BY <1>1, <1>2, LinkRenamed
<1> QED BY <1>1, <1>3, LinkSame DEF V

-----------------------------------------------------------------------------
(* The inductive invariant when files are looked at in time: the events     *)
(* that are left lead from what is shown to what is to be shown.            *)

ChainInv ==
  Tame /\ ~May("lag") =>
    \E files : /\ Shows(index, files)
               /\ Leads(scenario.rules, AllEvents, files, Visible(tree, scenario.rules))

LEMMA TameInside == Tame => Inside
BY DEF Tame, Inside

\* A scan shows what the rules allow.
LEMMA ScanShowsVisible ==
  ASSUME IsTree(tree), WithinDepth, Tame, NEW order \in ScanOrders(tree)
  PROVE  Shows(FilterIndex(Scanned(tree, order), scenario.rules), Visible(tree, scenario.rules))
<1>1. Shows(Scanned(tree, order), tree)
  BY ScanOrdersEnumerate, ScannedShows DEF WithinDepth
<1>2. ClosedRules(scenario.rules, DOMAIN tree)
  BY TameCloses DEF ClosedRules
<1> QED BY <1>1, <1>2, FilterShows

LEMMA ChainInit == Init => ChainInv
<1> SUFFICES ASSUME Init, Tame
             PROVE  \E files : /\ Shows(index, files)
                               /\ Leads(scenario.rules, AllEvents, files, Visible(tree, scenario.rules))
  BY DEF ChainInv
<1>1. IsTree(tree) /\ AllEvents = <<>>
  BY LiveUpdatesAssumption DEF Init, AllEvents, EventsIn
<1>2. PICK order \in ScanOrders(tree) : index = FilterIndex(Scanned(tree, order), scenario.rules)
  BY DEF Init
<1>3. Shows(index, Visible(tree, scenario.rules))
  BY <1>1, <1>2, DepthInit, ScanShowsVisible
<1> QED BY <1>1, <1>3, LeadsNowhere

\* One report
LEMMA OneReportLeads ==
  ASSUME FilesInv, FilesInv', UNCHANGED <<scenario, pending>>, told = <<>>, NEW t \in Report, told' = <<t>>,
         NEW files, Leads(scenario.rules, pending, files, Visible(tree, scenario.rules)),
         Link(scenario.rules, Visible(tree, scenario.rules), EventIn(tree', t), Visible(tree', scenario.rules))
  PROVE  Leads(scenario.rules, AllEvents', files, Visible(tree', scenario.rules))
<1>1. AllEvents' = pending \o EventsIn(tree', <<t>>)
  BY DEF AllEvents
<1>2. AllEvents' = Append(pending, EventIn(tree', t)) /\ EventIn(tree', t) \in Event
  BY <1>1, ToldAppend DEF FilesInv
<1>3. pending \in Seq(Event)
  BY DEF FilesInv
<1> QED BY <1>2, <1>3, LeadsOn

\* A rename, told three times
LEMMA RenameLeads ==
  ASSUME FilesInv, FilesInv', UNCHANGED <<scenario, pending>>, told = <<>>,
         NEW p \in Paths, NEW q \in Paths, p \in DOMAIN tree, p \notin DOMAIN tree',
         q \notin DOMAIN tree, q \in DOMAIN tree', tree'[q] = tree[p],
         Says(<<Told("modify", p, p), Told("modify", q, q), Told("both", q, p)>>),
         \A e \in Event : e.kind = "renamed" /\ e.path = q /\ e.old = p /\ e.meta = tree[p] =>
           Link(scenario.rules, Visible(tree, scenario.rules), e, Visible(tree', scenario.rules)),
         NEW files, Leads(scenario.rules, pending, files, Visible(tree, scenario.rules))
  PROVE  Leads(scenario.rules, AllEvents', files, Visible(tree', scenario.rules))
<1> DEFINE a == Told("modify", p, p)
           b == Told("modify", q, q)
           c == Told("both", q, p)
           V == Visible(tree, scenario.rules)
<1>1. a \in Report /\ b \in Report /\ c \in Report
  BY PathsAre DEF FilesInv, Told, Report
<1>2. /\ EventIn(tree', a) = WatchEvent("metadata", p, p, NoMeta)
      /\ EventIn(tree', b) = WatchEvent("metadata", q, q, tree[p])
      /\ EventIn(tree', c) = WatchEvent("renamed", q, p, tree[p])
  BY DEF EventIn, MetaIn, Told
<1>3. told' = <<a, b, c>>
  <2> HIDE DEF a, b, c
  <2>1. told' = <<>> \o <<a, b, c>>
    BY DEF Says, a, b, c
  <2> QED BY <2>1
<1> DEFINE x == EventIn(tree', a)
           y == EventIn(tree', b)
           z == EventIn(tree', c)
<1> HIDE DEF a, b, c
<1>4. AllEvents' = pending \o EventsIn(tree', <<a, b, c>>)
  BY <1>3 DEF AllEvents
<1>5. /\ x \in Event /\ y \in Event /\ z \in Event /\ pending \in Seq(Event)
      /\ AllEvents' = Append(Append(Append(pending, x), y), z)
  <2>1. IsTree(tree') /\ pending \in Seq(Event)
    BY DEF FilesInv
  <2>2. /\ EventIn(tree', a) \in Event /\ EventIn(tree', b) \in Event /\ EventIn(tree', c) \in Event
        /\ pending \o EventsIn(tree', <<a, b, c>>)
             = Append(Append(Append(pending, EventIn(tree', a)), EventIn(tree', b)), EventIn(tree', c))
    BY <1>1, <2>1, ThreeReports
  <2> QED BY <1>4, <2>1, <2>2
<1>6. /\ x.kind = "metadata" /\ x.meta = NoMeta
      /\ y.kind = "metadata" /\ y.path = q
      /\ z.kind = "renamed" /\ z.path = q /\ z.old = p /\ z.meta = tree[p]
  BY <1>2 DEF WatchEvent
<1> HIDE DEF x, y, z
<1>7. Link(scenario.rules, V, x, V)
  BY <1>5, <1>6, LinkMetadata
<1>8. Link(scenario.rules, V, y, V)
  <2>1. q \notin DOMAIN V
    BY DEF Visible
  <2> HIDE DEF V
  <2> QED BY <1>5, <1>6, <2>1, LinkMetadata
<1>9. Link(scenario.rules, V, z, Visible(tree', scenario.rules))
  BY <1>5, <1>6
<1> HIDE DEF V
<1>10. Append(pending, x) \in Seq(Event) /\ Append(Append(pending, x), y) \in Seq(Event)
  BY <1>5
<1>11. Leads(scenario.rules, Append(pending, x), files, V)
  BY <1>5, <1>7, LeadsOn DEF V
<1>12. Leads(scenario.rules, Append(Append(pending, x), y), files, V)
  BY <1>5, <1>8, <1>10, <1>11, LeadsOn
<1>13. Leads(scenario.rules, Append(Append(Append(pending, x), y), z), files, Visible(tree', scenario.rules))
  BY <1>5, <1>9, <1>10, <1>12, LeadsOn
<1> QED BY <1>5, <1>13

\* A change of the files leads on: what it adds to what is told makes up for it.
LEMMA ChangeLeads ==
  ASSUME FilesInv, FilesInv', WithinDepth, Tame, ~May("lag"), FilesNext,
         NEW files, Leads(scenario.rules, AllEvents, files, Visible(tree, scenario.rules))
  PROVE  Leads(scenario.rules, AllEvents', files, Visible(tree', scenario.rules))
<1> DEFINE rules == scenario.rules
<1>1. Alone /\ Inside
  BY TameInside DEF Alone, Tame, May
<1>2. told = <<>> /\ AllEvents = pending /\ UNCHANGED <<scenario, pending>>
  BY <1>1, ChangesInTime
<1>3. /\ ClosedRules(rules, DOMAIN tree \cup Paths) /\ IsTree(tree) /\ IsTree(tree')
      /\ \A p \in Paths : p \in Path /\ Len(p) <= MaxDepth /\ Len(p) <= 2
  BY TameCloses, PathsAre, PathsShort DEF FilesInv
<1>4. \A p \in Paths : ClosedRules(rules, DOMAIN tree \cup {p})
  BY <1>3 DEF ClosedRules
<1>5. \A p \in Path : \A kind \in {"create", "remove", "modify"} :
        /\ Told(kind, p, p) \in Report
        /\ Told(kind, p, p).kind = kind /\ Told(kind, p, p).path = p
  BY DEF Told, Report
<1>6. \A t : Says(<<t>>) => told' = <<t>>
  BY <1>2 DEF Says
<1>7. ASSUME NEW p, NEW m, Created(p, m)
      PROVE  Leads(rules, AllEvents', files, Visible(tree', rules))
  <2> DEFINE t == Told("create", p, p)
             e == EventIn(tree', t)
  <2>1. p \in Path /\ p \in Paths /\ m \in Metas /\ t \in Report /\ told' = <<t>> /\ tree' = With(tree, p, m)
    BY <1>3, <1>5, <1>6, <1>7 DEF Created
  <2>2. e \in Event /\ e.kind = "created" /\ e.path = p /\ e.meta = m
    <3>1. p \in DOMAIN tree' /\ tree'[p] = m
      BY <2>1 DEF With
    <3>2. e = WatchEvent("created", p, p, m)
      BY <1>5, <2>1, <3>1 DEF EventIn, MetaIn
    <3> HIDE DEF e
    <3> QED BY <1>3, <2>1, <3>2, EventInTyped DEF WatchEvent, e
  <2>3. p # <<>> /\ Front(p) \in DOMAIN tree
    BY <1>7 DEF Created, Free, IsDir
  <2>4. Link(rules, Visible(tree, rules), e, Visible(tree', rules))
    <3> HIDE DEF e, rules
    <3> QED BY <1>3, <1>4, <2>1, <2>2, <2>3, CreatedLeads
  <2> HIDE DEF t
  <2> QED BY <1>2, <2>1, <2>4, OneReportLeads
<1>8. ASSUME NEW p, NEW m, Written(p, m)
      PROVE  Leads(rules, AllEvents', files, Visible(tree', rules))
  <2> DEFINE t == Told("modify", p, p)
             e == EventIn(tree', t)
  <2>1. p \in Path /\ p \in DOMAIN tree /\ m \in Metas /\ t \in Report /\ told' = <<t>> /\ tree' = With(tree, p, m)
    BY <1>3, <1>5, <1>6, <1>8 DEF Written
  <2>2. e \in Event /\ e.kind = "metadata" /\ e.path = p /\ e.meta = m
    <3>1. p \in DOMAIN tree' /\ tree'[p] = m
      BY <2>1 DEF With
    <3>2. e = WatchEvent("metadata", p, p, m)
      BY <1>5, <2>1, <3>1 DEF EventIn, MetaIn
    <3> HIDE DEF e
    <3> QED BY <1>3, <2>1, <3>2, EventInTyped DEF WatchEvent, e
  <2>3. Link(rules, Visible(tree, rules), e, Visible(tree', rules))
    <3> HIDE DEF e, rules
    <3> QED BY <1>3, <2>1, <2>2, WrittenLeads
  <2> HIDE DEF t
  <2> QED BY <1>2, <2>1, <2>3, OneReportLeads
<1>9. ASSUME NEW p, Removed(p)
      PROVE  Leads(rules, AllEvents', files, Visible(tree', rules))
  <2> DEFINE t == Told("remove", p, p)
             e == EventIn(tree', t)
  <2>1. /\ p \in Path /\ p \in DOMAIN tree /\ p # <<>> /\ Below(p) = {p} /\ t \in Report /\ told' = <<t>>
        /\ tree' = Without(tree, p)
    BY <1>3, <1>5, <1>6, <1>9 DEF Removed
  <2>2. e \in Event /\ e.kind = "removed" /\ e.path = p
    <3>1. e = WatchEvent("removed", p, p, NoMeta)
      BY <1>5, <2>1 DEF EventIn
    <3> HIDE DEF e
    <3> QED BY <1>3, <2>1, <3>1, EventInTyped DEF WatchEvent, e
  <2>3. \A r \in DOMAIN tree : IsPrefix(p, r) => r = p
    BY <2>1 DEF Below
  <2>4. Link(rules, Visible(tree, rules), e, Visible(tree', rules))
    <3> HIDE DEF e, rules
    <3> QED BY <1>3, <2>1, <2>2, <2>3, RemovedLeads
  <2> HIDE DEF t
  <2> QED BY <1>2, <2>1, <2>4, OneReportLeads
<1>10. ASSUME NEW p, NEW q, FileMoved(p, q)
       PROVE  Leads(rules, AllEvents', files, Visible(tree', rules))
  <2>1. /\ p \in Paths /\ q \in Paths /\ p # <<>> /\ p \in DOMAIN tree /\ ~IsPrefix(p, q) /\ ~IsDir(p)
        /\ q # <<>> /\ q \notin DOMAIN tree /\ Front(q) \in DOMAIN tree /\ tree[Front(q)] = Dir
        /\ tree' = With(Without(tree, p), q, tree[p])
        /\ Says(<<Told("modify", p, p), Told("modify", q, q), Told("both", q, p)>>)
    BY <1>10 DEF FileMoved, MovedTo, Free, IsDir
  <2>2. p \notin DOMAIN tree' /\ q \in DOMAIN tree' /\ tree'[q] = tree[p]
    BY <2>1 DEF With, Without
  <2>3. \A r \in DOMAIN tree : IsPrefix(p, r) => r = p
    BY <1>3, <2>1, FileBelow DEF Below
  <2>4. ASSUME NEW e \in Event, e.kind = "renamed" /\ e.path = q /\ e.old = p /\ e.meta = tree[p]
        PROVE  Link(rules, Visible(tree, rules), e, Visible(tree', rules))
    <3> HIDE DEF rules
    <3> QED BY <1>3, <1>4, <2>1, <2>3, <2>4, FileMovedLeads
  <2> QED BY <1>2, <2>1, <2>2, <2>4, RenameLeads
<1>11. ASSUME NEW p, NEW q, DirMoved(p, q)
       PROVE  Leads(rules, AllEvents', files, Visible(tree', rules))
  <2>1. /\ p \in Paths /\ q \in Paths /\ p # <<>> /\ p \in DOMAIN tree /\ ~IsPrefix(p, q)
        /\ q # <<>> /\ q \notin DOMAIN tree /\ Front(q) \in DOMAIN tree /\ tree[Front(q)] = Dir
        /\ tree' = Moved(p, q) /\ May("dirs") /\ \A r \in Below(p) : Len(q) + Len(r) - Len(p) <= 2
        /\ Says(<<Told("modify", p, p), Told("modify", q, q), Told("both", q, p)>>)
    BY <1>11 DEF DirMoved, MovedTo, Free, IsDir
  <2>2. CanMove(p, q)
    BY <1>3, <2>1 DEF CanMove
  <2>3. p \notin DOMAIN tree' /\ q \in DOMAIN tree' /\ tree'[q] = tree[p]
    BY <1>3, <2>1, <2>2, MovedAway
  <2>4. \A x : Allows(rules, x)
    BY <2>1, AllAllowed DEF Tame
  <2>5. \A r \in Below(p) : Len(q) + Len(r) - Len(p) <= MaxDepth
    <3>1. ASSUME NEW r \in Below(p) PROVE Len(q) + Len(r) - Len(p) <= MaxDepth
      <4>1. r \in Path /\ p \in Path /\ q \in Path
        BY <1>3, <2>1 DEF Below, IsTree, Path
      <4>2. Len(q) \in Nat /\ Len(r) \in Nat /\ Len(p) \in Nat
        BY <4>1, PathTypes
      <4> QED BY <2>1, <4>2, LiveUpdatesAssumption, IndexAssumption
    <3> QED BY <3>1
  <2>6. ASSUME NEW e \in Event, e.kind = "renamed" /\ e.path = q /\ e.old = p /\ e.meta = tree[p]
        PROVE  Link(rules, Visible(tree, rules), e, Visible(tree', rules))
    <3>1. Link(rules, Visible(tree, rules), e, Visible(Moved(p, q), rules))
      <4> HIDE DEF rules
      <4> QED BY <1>3, <2>1, <2>2, <2>4, <2>5, <2>6, DirMovedLeads
    <3> QED BY <2>1, <3>1
  <2> QED BY <1>2, <2>1, <2>3, <2>6, RenameLeads
<1> QED BY <1>1, <1>7, <1>8, <1>9, <1>10, <1>11, InsideChanges

\* The first event is applied.
LEMMA ApplyFirst ==
  ASSUME FilesInv, Apply, ~May("batch")
  PROVE  /\ AllEvents \in Seq(Event) /\ AllEvents # <<>> /\ AllEvents' = Tail(AllEvents)
         /\ pending = <<Head(AllEvents)>>
         /\ index' = ApplyBatch(index, scenario.rules, <<Head(AllEvents)>>)
         /\ UNCHANGED <<scenario, tree>>
<1>1. /\ pending \in Seq(Event) /\ Len(pending) <= 1 /\ pending # <<>> /\ IsTree(tree) /\ told \in Seq(Report)
      /\ pending' = <<>> /\ index' = ApplyBatch(index, scenario.rules, pending)
      /\ UNCHANGED <<scenario, tree, told>>
  BY DEF FilesInv, Apply
<1>2. PICK e \in Event : pending = <<e>>
  <2>1. Len(pending) \in Nat /\ (Len(pending) = 0 => pending = <<>>)
    BY <1>1, EmptySeq
  <2> DEFINE n == Len(pending)
  <2>2. n = 1
    <3>1. n \in Nat /\ n # 0 /\ n <= 1
      BY <1>1, <2>1
    <3> HIDE DEF n
    <3> QED BY <3>1
  <2>3. pending[1] \in Event /\ pending = <<pending[1]>>
    BY <1>1, <2>2
  <2> QED BY <2>3
<1> DEFINE rest == EventsIn(tree, told)
<1>3. rest \in Seq(Event)
  BY <1>1, EventsInTyped
<1>4. AllEvents = <<e>> \o rest
  BY <1>2 DEF AllEvents
<1>5. AllEvents' = <<>> \o rest
  BY <1>1 DEF AllEvents
<1> HIDE DEF rest
<1>6. <<>> \o rest = rest
  BY <1>3
<1>7. <<e>> \o rest \in Seq(Event) /\ <<e>> \o rest # <<>> /\ Head(<<e>> \o rest) = e /\ Tail(<<e>> \o rest) = rest
  BY <1>2, <1>3
<1> QED BY <1>1, <1>2, <1>4, <1>5, <1>6, <1>7

\* The chain of events is kept, at its end by what happens and at its start by apply.
LEMMA ChainStep ==
  ASSUME FilesInv, Inside => WithinDepth, ChainInv, FilesNext \/ Callback \/ Apply
  PROVE  ChainInv'
<1>0. FilesInv'
  BY FilesInvStep
<1> SUFFICES ASSUME Tame', ~May("lag")'
             PROVE  \E files : /\ Shows(index', files)
                               /\ Leads(scenario'.rules, AllEvents', files, Visible(tree', scenario'.rules))
  BY DEF ChainInv
<1>1. scenario' = scenario
  BY ReportsTyped DEF Callback, Apply
<1>2. Tame /\ ~May("lag") /\ ~May("batch") /\ WithinDepth
  <2>1. scenario = scenario' => Paths' = Paths
    BY DEF Paths
  <2>2. Tame
    BY <1>1, <2>1 DEF Tame, May, ExcludesBelow
  <2> QED BY <1>1, <2>2, TameInside DEF May, Tame
<1>3. PICK files : /\ Shows(index, files)
                   /\ Leads(scenario.rules, AllEvents, files, Visible(tree, scenario.rules))
  BY <1>2 DEF ChainInv
<1>4. CASE FilesNext
  <2>1. index' = index
    BY <1>4, ReportsTyped
  <2>2. Leads(scenario.rules, AllEvents', files, Visible(tree', scenario.rules))
    BY <1>0, <1>2, <1>3, <1>4, ChangeLeads
  <2> QED BY <1>1, <1>3, <2>1, <2>2
<1>5. CASE Callback
  <2>1. AllEvents' = AllEvents /\ UNCHANGED <<tree, index>>
    BY <1>5, CallbackTells DEF Callback
  <2> QED BY <1>1, <1>3, <2>1
<1>6. CASE Apply
  <2>1. /\ AllEvents \in Seq(Event) /\ AllEvents # <<>> /\ AllEvents' = Tail(AllEvents)
        /\ index' = ApplyBatch(index, scenario.rules, <<Head(AllEvents)>>)
        /\ UNCHANGED <<scenario, tree>>
    BY <1>2, <1>6, ApplyFirst
  <2>2. PICK mid : /\ Link(scenario.rules, files, Head(AllEvents), mid)
                   /\ Leads(scenario.rules, Tail(AllEvents), mid, Visible(tree, scenario.rules))
    BY <1>3, <2>1, LeadsRest
  <2>3. Shows(index', mid)
    BY <1>3, <2>1, <2>2 DEF Link
  <2> QED BY <1>1, <2>1, <2>2, <2>3
<1> QED BY <1>4, <1>5, <1>6

-----------------------------------------------------------------------------
(* Files that change again before they have been looked at: what the events *)
(* that are left say of one path                                           *)

Enters(e, p)  == e.kind \in {"created", "renamed"} /\ e.path = p
Leaves(e, p)  == (e.kind = "removed" /\ e.path = p) \/ (e.kind = "renamed" /\ e.old = p)
Tells(e, p)   == e.kind # "removed" /\ e.path = p
Touches(e, p) == Enters(e, p) \/ Leaves(e, p)

\* The events E[1], ..., E[n] are true of the path p: they begin with p shown or not in
\* files, and end with what is at p now, x.
TrueOf(E, n, p, files, rules, x) ==
  /\ \A i \in 1..n : ~(Enters(E[i], p) /\ Leaves(E[i], p))
  \* the last that enters or leaves
  /\ \A i \in 1..n :
       Touches(E[i], p) /\ (\A j \in 1..n : i < j => ~Touches(E[j], p)) =>
         /\ Enters(E[i], p) <=> x # NoMeta
         /\ Enters(E[i], p) => E[i].meta # NoMeta
  \* nothing enters or leaves
  /\ (\A i \in 1..n : ~Touches(E[i], p)) => (p \in DOMAIN files <=> x # NoMeta /\ Allows(rules, p))
  \* what enters has not been there, first ...
  /\ \A i \in 1..n : Enters(E[i], p) /\ (\A j \in 1..n : j < i => ~Touches(E[j], p)) => p \notin DOMAIN files
  \* ... and again
  /\ \A i, j \in 1..n : i < j /\ Enters(E[i], p) /\ Enters(E[j], p) =>
       \E k \in 1..n : i < k /\ k < j /\ Leaves(E[k], p)
  /\ x = NoMeta => \A i \in 1..n : Enters(E[i], p) => \E k \in 1..n : i < k /\ Leaves(E[k], p)
  \* the last that tells of it, and none
  /\ x # NoMeta =>
       /\ \A i \in 1..n : Tells(E[i], p) /\ (\A j \in 1..n : i < j => ~Tells(E[j], p)) => E[i].meta = x
       /\ (\A i \in 1..n : ~Tells(E[i], p)) /\ p \in DOMAIN files => files[p] = x

\* Without events the index is true of a path if it shows what is there.
LEMMA TrueOfNone ==
  ASSUME NEW E, NEW p, NEW files, NEW rules, NEW x, p \in DOMAIN files <=> x # NoMeta /\ Allows(rules, p),
         p \in DOMAIN files => files[p] = x
  PROVE  TrueOf(E, 0, p, files, rules, x)
BY DEF TrueOf

\* One more event, which is not about the path,
LEMMA TrueOfNeutral ==
  ASSUME NEW n \in Nat, NEW E, NEW F, \A i \in 1..n : F[i] = E[i], NEW p, NEW files, NEW rules, NEW x,
         TrueOf(E, n, p, files, rules, x), ~Touches(F[n + 1], p), ~Tells(F[n + 1], p)
  PROVE  TrueOf(F, n + 1, p, files, rules, x)
<1>1. \A i \in 1..(n + 1) : i = n + 1 \/ (i \in 1..n /\ F[i] = E[i] /\ i < n + 1)
  OBVIOUS
<1>2. n + 1 \in 1..(n + 1) /\ \A i \in 1..n : i \in 1..(n + 1) /\ F[i] = E[i] /\ i < n + 1 /\ ~(n + 1 < i)
  OBVIOUS
<1>3. ~Touches(F[n + 1], p) /\ ~Enters(F[n + 1], p) /\ ~Leaves(F[n + 1], p) /\ ~Tells(F[n + 1], p)
  BY DEF Touches
<1>4. \A i \in 1..(n + 1) : ~(Enters(F[i], p) /\ Leaves(F[i], p))
  BY <1>1, <1>3 DEF TrueOf, Touches
<1>5. ASSUME NEW i \in 1..(n + 1), Touches(F[i], p), \A j \in 1..(n + 1) : i < j => ~Touches(F[j], p)
      PROVE  /\ Enters(F[i], p) <=> x # NoMeta
             /\ Enters(F[i], p) => F[i].meta # NoMeta
  BY <1>1, <1>2, <1>3, <1>5 DEF TrueOf, Touches
<1>6. (\A i \in 1..(n + 1) : ~Touches(F[i], p)) => (p \in DOMAIN files <=> x # NoMeta /\ Allows(rules, p))
  BY <1>2, <1>3 DEF TrueOf, Touches
<1>7. ASSUME NEW i \in 1..(n + 1), Enters(F[i], p), \A j \in 1..(n + 1) : j < i => ~Touches(F[j], p)
      PROVE  p \notin DOMAIN files
  BY <1>1, <1>2, <1>3, <1>7 DEF TrueOf, Touches
<1>8. ASSUME NEW i \in 1..(n + 1), NEW j \in 1..(n + 1), i < j, Enters(F[i], p), Enters(F[j], p)
      PROVE  \E k \in 1..(n + 1) : i < k /\ k < j /\ Leaves(F[k], p)
  <2>1. i \in 1..n /\ j \in 1..n /\ Enters(E[i], p) /\ Enters(E[j], p)
    BY <1>1, <1>3, <1>8
  <2>2. PICK k \in 1..n : i < k /\ k < j /\ Leaves(E[k], p)
    BY <1>8, <2>1 DEF TrueOf
  <2> QED BY <1>2, <2>2
<1>9. ASSUME x = NoMeta, NEW i \in 1..(n + 1), Enters(F[i], p)
      PROVE  \E k \in 1..(n + 1) : i < k /\ Leaves(F[k], p)
  BY <1>1, <1>2, <1>3, <1>9 DEF TrueOf, Touches
<1>10. ASSUME x # NoMeta
       PROVE  /\ \A i \in 1..(n + 1) :
                   Tells(F[i], p) /\ (\A j \in 1..(n + 1) : i < j => ~Tells(F[j], p)) => F[i].meta = x
              /\ (\A i \in 1..(n + 1) : ~Tells(F[i], p)) /\ p \in DOMAIN files => files[p] = x
  BY <1>1, <1>2, <1>3, <1>10 DEF TrueOf, Touches
<1> QED BY <1>4, <1>5, <1>6, <1>7, <1>8, <1>9, <1>10 DEF TrueOf

\* ... which tells what is there now,
LEMMA TrueOfTells ==
  ASSUME NEW n \in Nat, NEW E, NEW F, \A i \in 1..n : F[i] = E[i], NEW p, NEW files, NEW rules, NEW x, NEW y,
         TrueOf(E, n, p, files, rules, x), ~Touches(F[n + 1], p), Tells(F[n + 1], p),
         x = NoMeta <=> y = NoMeta, y # NoMeta => F[n + 1].meta = y
  PROVE  TrueOf(F, n + 1, p, files, rules, y)
<1>1. \A i \in 1..(n + 1) : i = n + 1 \/ i \in 1..n
  OBVIOUS
<1> QED BY <1>1 DEF TrueOf, Touches

\* ... with which a file appears at the path,
LEMMA TrueOfEnters ==
  ASSUME NEW n \in Nat, NEW E, NEW F, \A i \in 1..n : F[i] = E[i], NEW p, NEW files, NEW rules,
         TrueOf(E, n, p, files, rules, NoMeta), Enters(F[n + 1], p), ~Leaves(F[n + 1], p),
         F[n + 1].meta # NoMeta
  PROVE  TrueOf(F, n + 1, p, files, rules, F[n + 1].meta)
<1>1. \A i \in 1..(n + 1) : i = n + 1 \/ i \in 1..n
  OBVIOUS
<1>2. Tells(F[n + 1], p)
  BY DEF Enters, Tells
<1> QED BY <1>1, <1>2 DEF TrueOf, Touches

\* ... with which it leaves.
LEMMA TrueOfLeaves ==
  ASSUME NEW n \in Nat, NEW E, NEW F, \A i \in 1..n : F[i] = E[i], NEW p, NEW files, NEW rules, NEW x,
         TrueOf(E, n, p, files, rules, x), Leaves(F[n + 1], p), ~Enters(F[n + 1], p)
  PROVE  TrueOf(F, n + 1, p, files, rules, NoMeta)
<1>1. \A i \in 1..(n + 1) : i = n + 1 \/ (i \in 1..n /\ F[i] = E[i] /\ i < n + 1)
  OBVIOUS
<1>2. n + 1 \in 1..(n + 1) /\ \A i \in 1..n : i \in 1..(n + 1) /\ F[i] = E[i] /\ i < n + 1 /\ ~(n + 1 < i)
  OBVIOUS
<1>3. Touches(F[n + 1], p) /\ ~Enters(F[n + 1], p) /\ Leaves(F[n + 1], p)
  BY DEF Touches
<1>4. \A i \in 1..(n + 1) : ~(Enters(F[i], p) /\ Leaves(F[i], p))
  BY <1>1, <1>3 DEF TrueOf, Touches
<1>5. ASSUME NEW i \in 1..(n + 1), Touches(F[i], p), \A j \in 1..(n + 1) : i < j => ~Touches(F[j], p)
      PROVE  /\ Enters(F[i], p) <=> NoMeta # NoMeta
             /\ Enters(F[i], p) => F[i].meta # NoMeta
  BY <1>1, <1>2, <1>3, <1>5 DEF TrueOf, Touches
<1>6. (\A i \in 1..(n + 1) : ~Touches(F[i], p)) => (p \in DOMAIN files <=> NoMeta # NoMeta /\ Allows(rules, p))
  BY <1>2, <1>3 DEF TrueOf, Touches
<1>7. ASSUME NEW i \in 1..(n + 1), Enters(F[i], p), \A j \in 1..(n + 1) : j < i => ~Touches(F[j], p)
      PROVE  p \notin DOMAIN files
  BY <1>1, <1>2, <1>3, <1>7 DEF TrueOf, Touches
<1>8. ASSUME NEW i \in 1..(n + 1), NEW j \in 1..(n + 1), i < j, Enters(F[i], p), Enters(F[j], p)
      PROVE  \E k \in 1..(n + 1) : i < k /\ k < j /\ Leaves(F[k], p)
  BY <1>1, <1>2, <1>3, <1>8 DEF TrueOf, Touches
<1>9. ASSUME NoMeta = NoMeta, NEW i \in 1..(n + 1), Enters(F[i], p)
      PROVE  \E k \in 1..(n + 1) : i < k /\ Leaves(F[k], p)
  BY <1>1, <1>2, <1>3, <1>9 DEF TrueOf, Touches
<1>10. ASSUME NoMeta # NoMeta
       PROVE  /\ \A i \in 1..(n + 1) :
                   Tells(F[i], p) /\ (\A j \in 1..(n + 1) : i < j => ~Tells(F[j], p)) => F[i].meta = NoMeta
              /\ (\A i \in 1..(n + 1) : ~Tells(F[i], p)) /\ p \in DOMAIN files => files[p] = NoMeta
  BY <1>1, <1>2, <1>3, <1>10 DEF TrueOf, Touches
<1> QED BY <1>4, <1>5, <1>6, <1>7, <1>8, <1>9, <1>10 DEF TrueOf

\* What has not been looked at will be told as it is then.
LEMMA TrueOfRetold ==
  ASSUME NEW n \in Nat, NEW E, NEW F, NEW p, NEW files, NEW rules, NEW x,
         TrueOf(E, n, p, files, rules, x),
         \A i \in 1..n : /\ Enters(F[i], p) <=> Enters(E[i], p)
                         /\ Leaves(F[i], p) <=> Leaves(E[i], p)
                         /\ Tells(F[i], p) <=> Tells(E[i], p)
                         /\ Tells(E[i], p) /\ x # NoMeta => F[i].meta \in {E[i].meta, x}
  PROVE  TrueOf(F, n, p, files, rules, x)
<1>1. \A i \in 1..n : Enters(E[i], p) => Tells(E[i], p)
  BY DEF Enters, Tells
<1> QED BY <1>1 DEF TrueOf, Touches

\* The first event has been applied.
LEMMA TrueOfRest ==
  ASSUME NEW n \in Nat, n # 0, NEW E, NEW F, \A i \in 1..(n - 1) : F[i] = E[i + 1],
         NEW p, NEW files, NEW rules, NEW x, TrueOf(E, n, p, files, rules, x),
         NEW after,
         p \in DOMAIN after <=> \/ p \in DOMAIN files /\ ~Leaves(E[1], p)
                                \/ Enters(E[1], p) /\ E[1].meta # NoMeta /\ Allows(rules, p),
         p \in DOMAIN after => after[p] = IF Tells(E[1], p) /\ E[1].meta # NoMeta THEN E[1].meta ELSE files[p]
  PROVE  TrueOf(F, n - 1, p, after, rules, x)
<1>1. \A i \in 1..n : i = 1 \/ (i - 1 \in 1..(n - 1) /\ F[i - 1] = E[i])
  OBVIOUS
<1>2. \A i \in 1..(n - 1) : i + 1 \in 1..n /\ 1 < i + 1 /\ F[i] = E[i + 1]
  OBVIOUS
<1>3. Enters(E[1], p) => Tells(E[1], p)
  BY DEF Enters, Tells
<1> QED BY <1>1, <1>2, <1>3 DEF TrueOf, Touches

-----------------------------------------------------------------------------
(* One event that comes late                                               *)

DirIn(files, p) == p \in DOMAIN files /\ files[p] = Dir

\* What comes late is of files; their directories stay.
OfFiles(e, files, rules) ==
  /\ e.kind # "metadata" => e.path # <<>> /\ ~DirIn(files, e.path)
  /\ e.kind \in {"created", "renamed"} => /\ DirIn(files, Front(e.path)) /\ Len(e.path) <= MaxDepth
                                          /\ Allows(rules, e.path) => Allows(rules, Front(e.path))
  /\ e.kind = "renamed" => e.old # <<>> /\ e.old # e.path /\ ~DirIn(files, e.old)

\* What is shown is in directories that exist, and those that are allowed are shown.
Rooted(shown, files, rules) ==
  /\ \A r \in DOMAIN shown : r \in Path /\ (r # <<>> => DirIn(files, Front(r)))
  /\ \A d : DirIn(files, d) /\ Allows(rules, d) => d \in DOMAIN shown

\* Below what is no directory nothing is shown.
LEMMA NothingBelow ==
  ASSUME NEW files, IsTree(files), NEW shown, NEW rules, Rooted(shown, files, rules),
         NEW p \in Path, ~DirIn(files, p), NEW r \in DOMAIN shown, IsPrefix(p, r)
  PROVE  r = p
<1> SUFFICES ASSUME r # p PROVE FALSE
  OBVIOUS
<1>1. r \in Path /\ r # <<>> /\ IsPrefix(p, Front(r))
  BY PrefixFront DEF Rooted
<1>2. Front(r) \in DOMAIN files /\ files[Front(r)] = Dir
  BY <1>1 DEF Rooted, DirIn
<1> QED BY <1>1, <1>2, TreeClosed DEF DirIn

\* What an event does to what is shown
Does(e, rules, from, to) ==
  \A p : /\ p \in DOMAIN to <=> \/ p \in DOMAIN from /\ ~Leaves(e, p)
                                \/ Enters(e, p) /\ e.meta # NoMeta /\ Allows(rules, p)
         /\ p \in DOMAIN to => to[p] = IF Tells(e, p) /\ e.meta # NoMeta THEN e.meta ELSE from[p]

LEMMA DoesRooted ==
  ASSUME NEW files, NEW rules, NEW e \in Event, OfFiles(e, files, rules), NEW from, NEW to,
         Rooted(from, files, rules), Does(e, rules, from, to)
  PROVE  Rooted(to, files, rules)
<1>1. ASSUME NEW r \in DOMAIN to PROVE r \in Path /\ (r # <<>> => DirIn(files, Front(r)))
  <2>1. CASE Enters(e, r)
    BY <2>1 DEF Enters, OfFiles, Event
  <2>2. CASE r \in DOMAIN from
    BY <2>2 DEF Rooted
  <2> QED BY <2>1, <2>2 DEF Does
<1>2. ASSUME NEW d, DirIn(files, d), Allows(rules, d) PROVE d \in DOMAIN to
  <2>1. ~Leaves(e, d)
    BY <1>2 DEF Leaves, OfFiles
  <2> QED BY <1>2, <2>1 DEF Does, Rooted
<1> QED BY <1>1, <1>2 DEF Rooted

\* An event that comes late does what it says, file by file.
LEMMA LateEvent ==
  ASSUME NEW files, IsTree(files), NEW rules, NEW e \in Event, OfFiles(e, files, rules),
         NEW from, Rooted(from, files, rules),
         e.kind \in {"created", "renamed"} => e.path \notin DOMAIN from
  PROVE  \E to : Link(rules, from, e, to) /\ Does(e, rules, from, to)
<1>1. e.path \in Path /\ e.old \in Path /\ e.kind \in {"created", "removed", "metadata", "renamed"}
  BY DEF Event
<1>2. e.kind \in {"created", "renamed"} /\ Allows(rules, e.path) => CanAdd(from, e.path)
  BY <1>1 DEF CanAdd, OfFiles, Rooted
<1>3. e.kind # "metadata" => IsLeaf(from, e.path)
  BY <1>1, NothingBelow DEF IsLeaf, OfFiles
<1>4. e.kind = "renamed" => IsLeaf(from, e.old) /\ e.old # e.path
  BY <1>1, NothingBelow DEF IsLeaf, OfFiles
<1>5. CASE e.kind = "created"
  <2>1. CASE e.meta = NoMeta \/ ~Allows(rules, e.path)
    <3>1. Does(e, rules, from, from)
      BY <1>5, <2>1 DEF Does, Leaves, Enters, Tells
    <3> QED BY <1>5, <2>1, <3>1, LinkCreated
  <2>2. CASE e.meta # NoMeta /\ Allows(rules, e.path)
    <3>1. Does(e, rules, from, With(from, e.path, e.meta))
      BY <1>5, <2>2 DEF Does, Leaves, Enters, Tells, With
    <3> QED BY <1>2, <1>5, <2>2, <3>1, LinkCreated
  <2> QED BY <2>1, <2>2
<1>6. CASE e.kind = "metadata"
  <2>1. CASE e.meta = NoMeta \/ e.path \notin DOMAIN from
    <3>1. Does(e, rules, from, from)
      BY <1>6, <2>1 DEF Does, Leaves, Enters, Tells
    <3> QED BY <1>6, <2>1, <3>1, LinkMetadata
  <2>2. CASE e.meta # NoMeta /\ e.path \in DOMAIN from
    <3>1. Does(e, rules, from, With(from, e.path, e.meta))
      BY <1>6, <2>2 DEF Does, Leaves, Enters, Tells, With
    <3> QED BY <1>6, <2>2, <3>1, LinkMetadata
  <2> QED BY <2>1, <2>2
<1>7. CASE e.kind = "removed"
  <2>1. CASE e.path \notin DOMAIN from
    <3>1. Does(e, rules, from, from)
      BY <1>7, <2>1 DEF Does, Leaves, Enters, Tells
    <3> QED BY <1>7, <2>1, <3>1, LinkRemoved
  <2>2. CASE e.path \in DOMAIN from
    <3>1. Does(e, rules, from, Without(from, e.path))
      BY <1>7, <2>2 DEF Does, Leaves, Enters, Tells, Without
    <3> QED BY <1>3, <1>7, <2>2, <3>1, LinkRemoved
  <2> QED BY <2>1, <2>2
<1>8. CASE e.kind = "renamed" /\ (e.meta = NoMeta \/ ~Allows(rules, e.path))
  <2>1. CASE e.old \notin DOMAIN from
    <3>1. Does(e, rules, from, from)
      BY <1>8, <2>1 DEF Does, Leaves, Enters, Tells
    <3> QED BY <1>8, <2>1, <3>1, LinkRenamedAway
  <2>2. CASE e.old \in DOMAIN from
    <3>1. Does(e, rules, from, Without(from, e.old))
      BY <1>8, <2>2 DEF Does, Leaves, Enters, Tells, Without
    <3> QED BY <1>4, <1>8, <2>2, <3>1, LinkRenamedAway
  <2> QED BY <2>1, <2>2
<1>9. CASE e.kind = "renamed" /\ e.meta # NoMeta /\ Allows(rules, e.path)
  <2>1. CASE e.old \notin DOMAIN from
    <3>1. Does(e, rules, from, With(from, e.path, e.meta))
      BY <1>4, <1>9, <2>1 DEF Does, Leaves, Enters, Tells, With
    <3> QED BY <1>2, <1>9, <2>1, <3>1, LinkRenamed
  <2>2. CASE e.old \in DOMAIN from
    <3>1. Does(e, rules, from, With(Without(from, e.old), e.path, e.meta))
      BY <1>4, <1>9, <2>2 DEF Does, Leaves, Enters, Tells, With, Without
    <3>2. ~IsPrefix(e.old, e.path)
      <4>1. IsPrefix(e.old, e.path) => IsPrefix(e.old, Front(e.path))
        BY <1>1, <1>4, <1>9, PrefixFront
      <4>2. Front(e.path) \in DOMAIN files /\ files[Front(e.path)] = Dir /\ ~DirIn(files, e.old)
        BY <1>9 DEF OfFiles, DirIn
      <4> QED BY <1>1, <4>1, <4>2, TreeClosed DEF DirIn
    <3>3. \A r \in DOMAIN from : ~IsPrefix(e.path, r)
      BY <1>3, <1>9 DEF IsLeaf
    <3>4. DOMAIN from \subseteq Path
      BY DEF Rooted
    <3>5. Link(rules, from, e, With(Without(from, e.old), e.path, e.meta))
      BY <1>2, <1>4, <1>9, <2>2, <3>2, <3>3, <3>4, LinkMoved
    <3> QED BY <3>1, <3>5
  <2> QED BY <2>1, <2>2
<1> QED BY <1>1, <1>5, <1>6, <1>7, <1>8, <1>9

-----------------------------------------------------------------------------
(* Files that change while events are on their way                         *)

\* The events that are left are true of every path.
Late(events, shown, files, rules) ==
  /\ Rooted(shown, files, rules)
  /\ \A i \in 1..Len(events) : OfFiles(events[i], files, rules)
  /\ \A p \in Path : TrueOf(events, Len(events), p, shown, rules, MetaIn(files, p))

LateInv ==
  Tame /\ May("lag") =>
    \E shown : Shows(index, shown) /\ Late(AllEvents, shown, tree, scenario.rules)

\* The same, but for what was found at the path
Alike(e, f) == e.kind = f.kind /\ e.path = f.path /\ e.old = f.old

LEMMA AlikeSame ==
  ASSUME NEW e, NEW f, Alike(e, f)
  PROVE  /\ \A p : /\ Enters(e, p) <=> Enters(f, p)
                   /\ Leaves(e, p) <=> Leaves(f, p)
                   /\ Tells(e, p) <=> Tells(f, p)
         /\ \A files, rules : OfFiles(e, files, rules) <=> OfFiles(f, files, rules)
BY DEF Alike, Enters, Leaves, Tells, OfFiles

\* What an event says of a path, where x was and y is now
News(e, p, x, y) ==
  \/ ~Touches(e, p) /\ ~Tells(e, p) /\ y = x
  \/ ~Touches(e, p) /\ Tells(e, p) /\ (x = NoMeta <=> y = NoMeta) /\ (y # NoMeta => e.meta = y)
  \/ Enters(e, p) /\ ~Leaves(e, p) /\ x = NoMeta /\ e.meta # NoMeta /\ y = e.meta
  \/ Leaves(e, p) /\ ~Enters(e, p) /\ y = NoMeta

\* One more event that is news of the path
LEMMA TrueOfNews ==
  ASSUME NEW n \in Nat, NEW E, NEW F, \A i \in 1..n : F[i] = E[i], NEW p, NEW files, NEW rules, NEW x, NEW y,
         TrueOf(E, n, p, files, rules, x), News(F[n + 1], p, x, y)
  PROVE  TrueOf(F, n + 1, p, files, rules, y)
<1>1. CASE ~Touches(F[n + 1], p) /\ ~Tells(F[n + 1], p) /\ y = x
  BY <1>1, TrueOfNeutral
<1>2. CASE ~Touches(F[n + 1], p) /\ Tells(F[n + 1], p) /\ (x = NoMeta <=> y = NoMeta) /\ (y # NoMeta => F[n + 1].meta = y)
  BY <1>2, TrueOfTells
<1>3. CASE Enters(F[n + 1], p) /\ ~Leaves(F[n + 1], p) /\ x = NoMeta /\ F[n + 1].meta # NoMeta /\ y = F[n + 1].meta
  BY <1>3, TrueOfEnters
<1>4. CASE Leaves(F[n + 1], p) /\ ~Enters(F[n + 1], p) /\ y = NoMeta
  BY <1>4, TrueOfLeaves
<1> QED BY <1>1, <1>2, <1>3, <1>4 DEF News

LEMMA EventsAre ==
  ASSUME NEW files, IsTree(files), NEW first \in Seq(Event), NEW reports \in Seq(Report)
  PROVE  /\ first \o EventsIn(files, reports) \in Seq(Event)
         /\ Len(first \o EventsIn(files, reports)) = Len(first) + Len(reports)
         /\ \A i \in 1..(Len(first) + Len(reports)) :
              (first \o EventsIn(files, reports))[i]
                = IF i <= Len(first) THEN first[i] ELSE EventIn(files, reports[i - Len(first)])
<1> DEFINE rest == EventsIn(files, reports)
<1>1. rest \in Seq(Event) /\ Len(rest) = Len(reports) /\ Len(reports) \in Nat /\ Len(first) \in Nat
  BY EventsInTyped
<1>2. \A j \in 1..Len(reports) : rest[j] = EventIn(files, reports[j])
  BY DEF EventsIn
<1> HIDE DEF rest
<1>3. first \o rest \in Seq(Event)
  BY <1>1
<1>4. Len(first \o rest) = Len(first) + Len(rest)
  BY <1>1
<1>5. ASSUME NEW i \in 1..(Len(first) + Len(reports))
      PROVE  (first \o rest)[i] = IF i <= Len(first) THEN first[i] ELSE EventIn(files, reports[i - Len(first)])
  <2>1. (first \o rest)[i] = IF i <= Len(first) THEN first[i] ELSE rest[i - Len(first)]
    BY <1>1, <1>5, ConcatProperties
  <2>2. ~(i <= Len(first)) => i - Len(first) \in 1..Len(reports)
    BY <1>1, <1>5
  <2> QED BY <1>2, <2>1, <2>2
<1> QED BY <1>1, <1>3, <1>4, <1>5 DEF rest

\* What is told later is told as it is then.
LEMMA ToldLater ==
  ASSUME FilesInv, FilesInv', UNCHANGED pending, NEW reports \in Seq(Report), told' = told \o reports
  PROVE  /\ AllEvents \in Seq(Event) /\ AllEvents' \in Seq(Event)
         /\ Len(AllEvents') = Len(AllEvents) + Len(reports)
         /\ \A i \in 1..Len(AllEvents) :
              /\ Alike(AllEvents'[i], AllEvents[i])
              /\ AllEvents'[i].meta \in {AllEvents[i].meta, MetaIn(tree', AllEvents[i].path)}
         /\ \A j \in 1..Len(reports) : AllEvents'[Len(AllEvents) + j] = EventIn(tree', reports[j])
<1> DEFINE n == Len(pending)
           m == Len(told)
           k == Len(reports)
           E == AllEvents
           F == AllEvents'
<1>1. pending \in Seq(Event) /\ told \in Seq(Report) /\ n \in Nat /\ m \in Nat /\ k \in Nat
  BY DEF FilesInv
<1>2. /\ E \in Seq(Event) /\ Len(E) = n + m
      /\ \A i \in 1..Len(E) : E[i] = IF i <= n THEN pending[i] ELSE EventIn(tree, told[i - n])
  <2>1. IsTree(tree)
    BY DEF FilesInv
  <2> DEFINE all == pending \o EventsIn(tree, told)
  <2>2. /\ all \in Seq(Event) /\ Len(all) = Len(pending) + Len(told)
        /\ \A i \in 1..(Len(pending) + Len(told)) :
             all[i] = IF i <= Len(pending) THEN pending[i] ELSE EventIn(tree, told[i - Len(pending)])
    BY <1>1, <2>1, EventsAre
  <2>3. E = all
    BY DEF AllEvents
  <2> HIDE DEF all, E
  <2> QED BY <2>2, <2>3
<1>3. /\ Len(told') = m + k
      /\ \A i \in 1..(m + k) : told'[i] = IF i <= m THEN told[i] ELSE reports[i - m]
  BY <1>1, ConcatProperties
<1>4. /\ F \in Seq(Event) /\ Len(F) = n + Len(told')
      /\ \A i \in 1..Len(F) : F[i] = IF i <= n THEN pending[i] ELSE EventIn(tree', told'[i - n])
  <2>1. IsTree(tree') /\ told' \in Seq(Report) /\ pending' \in Seq(Event) /\ pending' = pending
    BY DEF FilesInv
  <2>2. AllEvents' = pending \o EventsIn(tree', told')
    BY <2>1 DEF AllEvents
  <2> DEFINE all == pending \o EventsIn(tree', told')
  <2>3. /\ all \in Seq(Event) /\ Len(all) = Len(pending) + Len(told')
        /\ \A i \in 1..(Len(pending) + Len(told')) :
             all[i] = IF i <= Len(pending) THEN pending[i] ELSE EventIn(tree', told'[i - Len(pending)])
    BY <1>1, <2>1, EventsAre
  <2> HIDE DEF all
  <2> QED BY <2>2, <2>3 DEF all
<1> HIDE DEF n, m, k, E, F
<1>5. \A t \in Report : /\ Alike(EventIn(tree', t), EventIn(tree, t))
                        /\ EventIn(tree', t).meta \in {EventIn(tree, t).meta, MetaIn(tree', EventIn(tree, t).path)}
  BY DEF Alike, EventIn, WatchEvent, Report
<1>6. ASSUME NEW i \in 1..Len(E)
      PROVE  /\ Alike(F[i], E[i])
             /\ F[i].meta \in {E[i].meta, MetaIn(tree', E[i].path)}
  <2>1. i \in 1..Len(F)
    BY <1>1, <1>2, <1>3, <1>4
  <2>2. CASE i <= n
    <3>1. F[i] = E[i]
      BY <1>2, <1>4, <2>1, <2>2
    <3> QED BY <3>1 DEF Alike
  <2>3. CASE ~(i <= n)
    <3>1. i - n \in 1..m /\ i - n \in 1..(m + k) /\ i - n <= m
      BY <1>1, <1>2, <2>3
    <3>2. told[i - n] \in Report /\ told'[i - n] = told[i - n]
      BY <1>1, <1>3, <3>1, ElementOfSeq DEF m
    <3>3. E[i] = EventIn(tree, told[i - n]) /\ F[i] = EventIn(tree', told[i - n])
      BY <1>2, <1>4, <2>1, <2>3, <3>2
    <3> QED BY <1>5, <3>2, <3>3
  <2> QED BY <2>2, <2>3
<1>7. ASSUME NEW j \in 1..k PROVE F[Len(E) + j] = EventIn(tree', reports[j])
  <2> DEFINE i == Len(E) + j
  <2>1. i \in 1..Len(F) /\ ~(i <= n) /\ i - n \in 1..(m + k) /\ ~(i - n <= m) /\ (i - n) - m = j
    BY <1>1, <1>2, <1>3, <1>4
  <2> HIDE DEF i
  <2>2. F[i] = EventIn(tree', told'[i - n])
    BY <1>4, <2>1
  <2>3. told'[i - n] = reports[(i - n) - m]
    BY <1>3, <2>1
  <2> QED BY <2>1, <2>2, <2>3 DEF i
<1> QED BY <1>1, <1>2, <1>3, <1>4, <1>6, <1>7 DEF n, m, k, E, F

-----------------------------------------------------------------------------
(* What is told late of one change                                         *)

\* The reports of a change are true of every path, if they are as the files are in W.
LEMMA LateTold ==
  ASSUME FilesInv, FilesInv', UNCHANGED pending, NEW reports \in Seq(Report), told' = told \o reports,
         \A d : DirIn(tree', d) <=> DirIn(tree, d),
         NEW rules, NEW shown, Late(AllEvents, shown, tree, rules),
         \A j \in 1..Len(reports) : OfFiles(EventIn(tree', reports[j]), tree', rules),
         NEW W, \A i \in 1..Len(AllEvents) : W[i] = AllEvents[i],
         \A j \in 1..Len(reports) :
           /\ Alike(EventIn(tree', reports[j]), W[Len(AllEvents) + j])
           /\ EventIn(tree', reports[j]).meta
                \in {W[Len(AllEvents) + j].meta, MetaIn(tree', W[Len(AllEvents) + j].path)},
         \A p \in Path : TrueOf(W, Len(AllEvents) + Len(reports), p, shown, rules, MetaIn(tree', p))
  PROVE  Late(AllEvents', shown, tree', rules)
<1> DEFINE n == Len(AllEvents)
           k == Len(reports)
           E == AllEvents
           F == AllEvents'
<1>1. /\ n \in Nat /\ k \in Nat /\ Len(F) = n + k
      /\ \A i \in 1..n : Alike(F[i], E[i]) /\ F[i].meta \in {E[i].meta, MetaIn(tree', E[i].path)}
      /\ \A j \in 1..k : F[n + j] = EventIn(tree', reports[j])
  <2>1. /\ AllEvents \in Seq(Event) /\ Len(AllEvents') = Len(AllEvents) + Len(reports)
        /\ \A i \in 1..Len(AllEvents) :
             /\ Alike(AllEvents'[i], AllEvents[i])
             /\ AllEvents'[i].meta \in {AllEvents[i].meta, MetaIn(tree', AllEvents[i].path)}
        /\ \A j \in 1..Len(reports) : AllEvents'[Len(AllEvents) + j] = EventIn(tree', reports[j])
    BY ToldLater
  <2>2. Len(AllEvents) \in Nat /\ Len(reports) \in Nat
    BY <2>1
  <2> QED BY <2>1, <2>2
<1>2. /\ \A i \in 1..n : W[i] = E[i]
      /\ \A j \in 1..k : /\ Alike(EventIn(tree', reports[j]), W[n + j])
                         /\ EventIn(tree', reports[j]).meta \in {W[n + j].meta, MetaIn(tree', W[n + j].path)}
      /\ \A p \in Path : TrueOf(W, n + k, p, shown, rules, MetaIn(tree', p))
      /\ \A j \in 1..k : OfFiles(EventIn(tree', reports[j]), tree', rules)
      /\ Rooted(shown, tree, rules) /\ \A i \in 1..n : OfFiles(E[i], tree, rules)
  BY DEF Late
<1> HIDE DEF n, k, E, F
<1>3. \A i \in 1..(n + k) : i \in 1..n \/ (i - n \in 1..k /\ n + (i - n) = i)
  BY <1>1
<1>4. ASSUME NEW i \in 1..(n + k)
      PROVE  /\ Alike(F[i], W[i]) /\ F[i].meta \in {W[i].meta, MetaIn(tree', W[i].path)}
             /\ OfFiles(F[i], tree', rules)
  <2>1. CASE i \in 1..n
    <3>1. OfFiles(F[i], tree, rules)
      BY <1>1, <1>2, <2>1, AlikeSame
    <3>2. OfFiles(F[i], tree', rules)
      BY <3>1 DEF OfFiles
    <3> QED BY <1>1, <1>2, <2>1, <3>2
  <2>2. CASE i \notin 1..n
    <3>1. i - n \in 1..k /\ n + (i - n) = i
      BY <1>3, <2>2
    <3>2. F[n + (i - n)] = EventIn(tree', reports[i - n])
      BY <1>1, <3>1
    <3> QED BY <1>2, <3>1, <3>2
  <2> QED BY <2>1, <2>2
<1>5. ASSUME NEW p \in Path PROVE TrueOf(F, n + k, p, shown, rules, MetaIn(tree', p))
  <2>1. \A i \in 1..(n + k) : Tells(W[i], p) => W[i].path = p
    BY DEF Tells
  <2>2. \A i \in 1..(n + k) : /\ Enters(F[i], p) <=> Enters(W[i], p)
                              /\ Leaves(F[i], p) <=> Leaves(W[i], p)
                              /\ Tells(F[i], p) <=> Tells(W[i], p)
                              /\ Tells(W[i], p) /\ MetaIn(tree', p) # NoMeta =>
                                   F[i].meta \in {W[i].meta, MetaIn(tree', p)}
    BY <1>4, <2>1, AlikeSame
  <2>3. TrueOf(W, n + k, p, shown, rules, MetaIn(tree', p)) /\ n + k \in Nat
    BY <1>1, <1>2
  <2> QED BY <2>2, <2>3, TrueOfRetold
<1>6. Rooted(shown, tree', rules)
  BY <1>2 DEF Rooted
<1> QED BY <1>1, <1>4, <1>5, <1>6 DEF Late, F

\* One report that is news of every path
LEMMA OneReportLate ==
  ASSUME FilesInv, FilesInv', UNCHANGED pending, NEW t \in Report, Says(<<t>>),
         \A d : DirIn(tree', d) <=> DirIn(tree, d),
         NEW rules, NEW shown, Late(AllEvents, shown, tree, rules),
         OfFiles(EventIn(tree', t), tree', rules),
         \A p \in Path : News(EventIn(tree', t), p, MetaIn(tree, p), MetaIn(tree', p))
  PROVE  Late(AllEvents', shown, tree', rules)
<1> DEFINE n == Len(AllEvents)
           e == EventIn(tree', t)
           W == [i \in 1..(n + 1) |-> IF i = n + 1 THEN e ELSE AllEvents[i]]
           s == <<t>>
<1>1. n \in Nat
  <2>1. AllEvents \in Seq(Event)
    BY EventsAre DEF FilesInv, AllEvents
  <2> QED BY <2>1
<1>2. (\A i \in 1..n : W[i] = AllEvents[i]) /\ W[n + 1] = e
  BY <1>1
<1>3. s \in Seq(Report) /\ Len(s) = 1 /\ \A j \in 1..Len(s) : j = 1 /\ s[j] = t
  OBVIOUS
<1>4. told' = told \o s
  BY DEF Says
<1> HIDE DEF n, W, s, e
<1>5. ASSUME NEW p \in Path PROVE TrueOf(W, n + 1, p, shown, rules, MetaIn(tree', p))
  <2>1. TrueOf(AllEvents, n, p, shown, rules, MetaIn(tree, p))
    BY DEF Late, n
  <2>2. News(W[n + 1], p, MetaIn(tree, p), MetaIn(tree', p))
    BY <1>2 DEF e
  <2> QED BY <1>1, <1>2, <2>1, <2>2, TrueOfNews
<1>6. \A i \in 1..Len(AllEvents) : W[i] = AllEvents[i]
  BY <1>2 DEF n
<1>7. \A j \in 1..Len(s) : /\ OfFiles(EventIn(tree', s[j]), tree', rules)
                           /\ Alike(EventIn(tree', s[j]), W[Len(AllEvents) + j])
                           /\ EventIn(tree', s[j]).meta
                                \in {W[Len(AllEvents) + j].meta, MetaIn(tree', W[Len(AllEvents) + j].path)}
  BY <1>2, <1>3 DEF n, e, Alike
<1>8. \A p \in Path : TrueOf(W, Len(AllEvents) + Len(s), p, shown, rules, MetaIn(tree', p))
  BY <1>3, <1>5 DEF n
<1> QED BY <1>3, <1>4, <1>6, <1>7, <1>8, LateTold

\* A rename, told three times
LEMMA RenameLate ==
  ASSUME FilesInv, FilesInv', UNCHANGED pending,
         NEW p \in Paths, NEW q \in Paths, p # q, p \in DOMAIN tree, p \notin DOMAIN tree',
         q \notin DOMAIN tree, q \in DOMAIN tree', tree'[q] = tree[p],
         \A r : r # p /\ r # q => MetaIn(tree', r) = MetaIn(tree, r),
         Says(<<Told("modify", p, p), Told("modify", q, q), Told("both", q, p)>>),
         \A d : DirIn(tree', d) <=> DirIn(tree, d),
         NEW rules, NEW shown, Late(AllEvents, shown, tree, rules),
         \A e \in Event : e.kind = "renamed" /\ e.path = q /\ e.old = p => OfFiles(e, tree', rules)
  PROVE  Late(AllEvents', shown, tree', rules)
<1> DEFINE a == Told("modify", p, p)
           b == Told("modify", q, q)
           c == Told("both", q, p)
           x == WatchEvent("metadata", p, p, tree[p])
           y == EventIn(tree', b)
           z == EventIn(tree', c)
           n == Len(AllEvents)
           W == [i \in 1..(n + 3) |-> IF i = n + 1 THEN x ELSE IF i = n + 2 THEN y
                                      ELSE IF i = n + 3 THEN z ELSE AllEvents[i]]
           s == <<a, b, c>>
<1>1. a \in Report /\ b \in Report /\ c \in Report /\ IsTree(tree) /\ IsTree(tree')
  BY PathsAre DEF FilesInv, Told, Report
<1>2. tree[p] # NoMeta
  BY <1>1, LiveUpdatesAssumption DEF IsTree
<1>3. /\ x.kind = "metadata" /\ x.path = p /\ x.old = p /\ x.meta = tree[p]
      /\ y.kind = "metadata" /\ y.path = q /\ y.meta = tree[p]
      /\ z.kind = "renamed" /\ z.path = q /\ z.old = p /\ z.meta = tree[p]
      /\ EventIn(tree', a).meta = NoMeta /\ Alike(EventIn(tree', a), x)
  BY DEF EventIn, MetaIn, Told, WatchEvent, Alike
<1>4. n \in Nat
  <2>1. AllEvents \in Seq(Event)
    BY EventsAre DEF FilesInv, AllEvents
  <2> QED BY <2>1
<1>5. /\ \A i \in 1..n : W[i] = AllEvents[i]
      /\ W[n + 1] = x /\ W[(n + 1) + 1] = y /\ W[((n + 1) + 1) + 1] = z
  BY <1>4
<1>6. /\ n + 1 \in Nat /\ (n + 1) + 1 \in Nat /\ ((n + 1) + 1) + 1 = n + 3
      /\ n + 2 = (n + 1) + 1
  BY <1>4
<1> HIDE DEF a, b, c
<1>7. s \in Seq(Report) /\ Len(s) = 3 /\ s[1] = a /\ s[2] = b /\ s[3] = c
  BY <1>1
<1>8. told' = told \o s
  BY DEF Says, a, b, c
<1> HIDE DEF n, W, s, x, y, z
<1>9. ASSUME NEW r \in Path PROVE TrueOf(W, n + 3, r, shown, rules, MetaIn(tree', r))
  <2> DEFINE m == MetaIn(tree, r)
  <2>1. TrueOf(AllEvents, n, r, shown, rules, m)
    BY DEF Late, n
  <2>2. /\ r = p => m = tree[p] /\ MetaIn(tree', r) = NoMeta
        /\ r = q => m = NoMeta /\ MetaIn(tree', r) = tree[p]
        /\ r # p /\ r # q => MetaIn(tree', r) = m
    BY DEF MetaIn
  <2> HIDE DEF m
  <2>3. News(x, r, m, m) /\ News(y, r, m, m) /\ News(z, r, m, MetaIn(tree', r))
    <3>1. News(x, r, m, m)
      BY <1>3, <2>2 DEF News, Touches, Enters, Leaves, Tells
    <3>2. News(y, r, m, m)
      BY <1>3, <2>2 DEF News, Touches, Enters, Leaves, Tells
    <3>3. News(z, r, m, MetaIn(tree', r))
      BY <1>2, <1>3, <2>2 DEF News, Touches, Enters, Leaves, Tells
    <3> QED BY <3>1, <3>2, <3>3
  <2>4. TrueOf(W, n + 1, r, shown, rules, m)
    BY <1>4, <1>5, <2>1, <2>3, TrueOfNews
  <2>5. TrueOf(W, (n + 1) + 1, r, shown, rules, m)
    BY <1>5, <1>6, <2>3, <2>4, TrueOfNews
  <2>6. TrueOf(W, ((n + 1) + 1) + 1, r, shown, rules, MetaIn(tree', r))
    BY <1>5, <1>6, <2>3, <2>5, TrueOfNews
  <2> QED BY <1>6, <2>6
<1>10. \A j \in 1..Len(s) : /\ OfFiles(EventIn(tree', s[j]), tree', rules)
                            /\ Alike(EventIn(tree', s[j]), W[n + j])
                            /\ EventIn(tree', s[j]).meta \in {W[n + j].meta, MetaIn(tree', W[n + j].path)}
  <2>1. ASSUME NEW j \in 1..Len(s) PROVE j = 1 \/ j = 2 \/ j = 3
    BY <1>7
  <2>2. /\ OfFiles(EventIn(tree', s[1]), tree', rules)
        /\ Alike(EventIn(tree', s[1]), W[n + 1])
        /\ EventIn(tree', s[1]).meta \in {W[n + 1].meta, MetaIn(tree', W[n + 1].path)}
    <3>1. OfFiles(EventIn(tree', a), tree', rules)
      BY <1>3 DEF OfFiles, Alike
    <3>2. MetaIn(tree', x.path) = NoMeta
      BY <1>3 DEF MetaIn
    <3> QED BY <1>3, <1>5, <1>7, <3>1, <3>2
  <2>3. /\ OfFiles(EventIn(tree', s[2]), tree', rules)
        /\ Alike(EventIn(tree', s[2]), W[n + 2])
        /\ EventIn(tree', s[2]).meta \in {W[n + 2].meta, MetaIn(tree', W[n + 2].path)}
    BY <1>3, <1>5, <1>6, <1>7 DEF y, OfFiles, Alike
  <2>4. /\ OfFiles(EventIn(tree', s[3]), tree', rules)
        /\ Alike(EventIn(tree', s[3]), W[n + 3])
        /\ EventIn(tree', s[3]).meta \in {W[n + 3].meta, MetaIn(tree', W[n + 3].path)}
    <3>1. z \in Event /\ EventIn(tree', s[3]) = z /\ W[n + 3] = z
      BY <1>1, <1>5, <1>6, <1>7, EventInTyped DEF z
    <3>2. OfFiles(z, tree', rules)
      BY <1>3, <3>1
    <3> QED BY <3>1, <3>2 DEF Alike
  <2> QED BY <2>1, <2>2, <2>3, <2>4
<1>11. \A i \in 1..Len(AllEvents) : W[i] = AllEvents[i]
  BY <1>5 DEF n
<1>12. \A r \in Path : TrueOf(W, Len(AllEvents) + Len(s), r, shown, rules, MetaIn(tree', r))
  BY <1>7, <1>9 DEF n
<1>13. \A j \in 1..Len(s) : /\ OfFiles(EventIn(tree', s[j]), tree', rules)
                            /\ Alike(EventIn(tree', s[j]), W[Len(AllEvents) + j])
                            /\ EventIn(tree', s[j]).meta
                                 \in {W[Len(AllEvents) + j].meta, MetaIn(tree', W[Len(AllEvents) + j].path)}
  BY <1>10 DEF n
<1> QED BY <1>7, <1>8, <1>11, <1>12, <1>13, LateTold

-----------------------------------------------------------------------------
(* The inductive invariant when files are looked at late                   *)

LEMMA LateInit == Init => LateInv
<1> SUFFICES ASSUME Init, Tame
             PROVE  \E shown : Shows(index, shown) /\ Late(AllEvents, shown, tree, scenario.rules)
  BY DEF LateInv
<1> DEFINE rules == scenario.rules
           V == Visible(tree, rules)
<1>1. IsTree(tree) /\ AllEvents = <<>>
  BY LiveUpdatesAssumption DEF Init, AllEvents, EventsIn
<1>2. PICK order \in ScanOrders(tree) : index = FilterIndex(Scanned(tree, order), scenario.rules)
  BY DEF Init
<1>3. Shows(index, V)
  BY <1>1, <1>2, DepthInit, ScanShowsVisible
<1>4. DOMAIN V = {q \in DOMAIN tree : Allows(rules, q)} /\ \A q \in DOMAIN V : V[q] = tree[q]
  BY VisibleIs
<1>5. (\A q \in DOMAIN tree : tree[q] # NoMeta /\ q \in Path)
  BY <1>1, LiveUpdatesAssumption DEF IsTree, Path
<1> HIDE DEF V, rules
<1>6. Rooted(V, tree, rules)
  BY <1>1, <1>4, <1>5 DEF Rooted, DirIn, IsTree
<1>7. Len(<<>>) = 0
  OBVIOUS
<1>8. ASSUME NEW p \in Path PROVE TrueOf(<<>>, 0, p, V, rules, MetaIn(tree, p))
  <2>1. /\ p \in DOMAIN V <=> MetaIn(tree, p) # NoMeta /\ Allows(rules, p)
        /\ p \in DOMAIN V => V[p] = MetaIn(tree, p)
    BY <1>4, <1>5 DEF MetaIn
  <2> QED BY <2>1, TrueOfNone
<1>9. Late(<<>>, V, tree, rules)
  BY <1>6, <1>7, <1>8 DEF Late
<1> QED BY <1>1, <1>3, <1>9 DEF rules

\* The files change.
LEMMA ChangeLate ==
  ASSUME FilesInv, FilesInv', WithinDepth, Tame, May("lag"), FilesNext,
         NEW shown, Late(AllEvents, shown, tree, scenario.rules)
  PROVE  Late(AllEvents', shown, tree', scenario.rules)
<1> DEFINE rules == scenario.rules
<1>1. Inside /\ ~May("mkdir") /\ ~May("dirs")
  BY TameInside DEF Tame, May
<1>2. UNCHANGED <<scenario, pending>>
  BY ReportsTyped
<1>3. /\ ClosedRules(rules, DOMAIN tree \cup Paths) /\ IsTree(tree) /\ IsTree(tree')
      /\ \A p \in Paths : p \in Path /\ Len(p) <= MaxDepth
      /\ \A m \in Metas : m # NoMeta
  BY TameCloses, PathsAre, PathsShort, LiveUpdatesAssumption DEF FilesInv
<1>4. \A p \in Path : \A kind \in {"create", "remove", "modify"} :
        /\ Told(kind, p, p) \in Report
        /\ Told(kind, p, p).kind = kind /\ Told(kind, p, p).path = p
  BY DEF Told, Report
<1>5. ASSUME NEW p \in Paths, p # <<>>, Front(p) \in DOMAIN tree, Allows(rules, p)
      PROVE  Allows(rules, Front(p))
  <2>1. IsPrefix(Front(p), p)
    BY <1>3, <1>5, PrefixFront
  <2> QED BY <1>3, <1>5, <2>1 DEF ClosedRules
<1>6. ASSUME NEW p, NEW m, Created(p, m) PROVE Late(AllEvents', shown, tree', rules)
  <2> DEFINE t == Told("create", p, p)
             e == EventIn(tree', t)
  <2>1. /\ p \in Path /\ p \in Paths /\ p # <<>> /\ p \notin DOMAIN tree /\ m \in Metas /\ m # Dir
        /\ t \in Report /\ Says(<<t>>) /\ tree' = With(tree, p, m)
        /\ Front(p) \in DOMAIN tree /\ tree[Front(p)] = Dir
    BY <1>1, <1>3, <1>4, <1>6 DEF Created, Free, IsDir
  <2>2. p \in DOMAIN tree' /\ tree'[p] = m /\ DOMAIN tree' = DOMAIN tree \cup {p}
        /\ \A r \in DOMAIN tree : tree'[r] = tree[r]
    BY <2>1 DEF With
  <2>3. e.kind = "created" /\ e.path = p /\ e.meta = m
    <3>1. e = WatchEvent("created", p, p, m)
      BY <1>4, <2>1, <2>2 DEF EventIn, MetaIn
    <3> HIDE DEF e
    <3> QED BY <3>1 DEF WatchEvent
  <2>4. \A d : DirIn(tree', d) <=> DirIn(tree, d)
    BY <2>1, <2>2 DEF DirIn
  <2> HIDE DEF e, t
  <2>5. OfFiles(e, tree', rules)
    BY <1>3, <1>5, <2>1, <2>2, <2>3 DEF OfFiles, DirIn
  <2>6. \A r \in Path : News(e, r, MetaIn(tree, r), MetaIn(tree', r))
    BY <1>3, <2>1, <2>2, <2>3 DEF News, MetaIn, Touches, Enters, Leaves, Tells
  <2> QED BY <1>2, <2>1, <2>4, <2>5, <2>6, OneReportLate DEF e
<1>7. ASSUME NEW p, NEW m, Written(p, m) PROVE Late(AllEvents', shown, tree', rules)
  <2> DEFINE t == Told("modify", p, p)
             e == EventIn(tree', t)
  <2>1. /\ p \in Path /\ p \in DOMAIN tree /\ tree[p] # Dir /\ m \in Metas /\ m # Dir
        /\ t \in Report /\ Says(<<t>>) /\ tree' = With(tree, p, m)
    BY <1>3, <1>4, <1>7 DEF Written
  <2>2. /\ p \in DOMAIN tree' /\ tree'[p] = m /\ DOMAIN tree' = DOMAIN tree
        /\ (\A r \in DOMAIN tree : r # p => tree'[r] = tree[r])
        /\ tree[p] # NoMeta
    BY <1>3, <2>1 DEF With, IsTree
  <2>3. e.kind = "metadata" /\ e.path = p /\ e.meta = m
    <3>1. e = WatchEvent("metadata", p, p, m)
      BY <1>4, <2>1, <2>2 DEF EventIn, MetaIn
    <3> HIDE DEF e
    <3> QED BY <3>1 DEF WatchEvent
  <2>4. \A d : DirIn(tree', d) <=> DirIn(tree, d)
    BY <2>1, <2>2 DEF DirIn
  <2> HIDE DEF e, t
  <2>5. OfFiles(e, tree', rules)
    BY <2>3 DEF OfFiles
  <2>6. \A r \in Path : News(e, r, MetaIn(tree, r), MetaIn(tree', r))
    BY <1>3, <2>1, <2>2, <2>3 DEF News, MetaIn, Touches, Enters, Leaves, Tells
  <2> QED BY <1>2, <2>1, <2>4, <2>5, <2>6, OneReportLate DEF e
<1>8. ASSUME NEW p, Removed(p) PROVE Late(AllEvents', shown, tree', rules)
  <2> DEFINE t == Told("remove", p, p)
             e == EventIn(tree', t)
  <2>1. /\ p \in Path /\ p \in DOMAIN tree /\ p # <<>> /\ tree[p] # Dir
        /\ t \in Report /\ Says(<<t>>) /\ tree' = Without(tree, p)
    BY <1>1, <1>3, <1>4, <1>8 DEF Removed, IsDir
  <2>2. /\ p \notin DOMAIN tree' /\ DOMAIN tree' = DOMAIN tree \ {p}
        /\ \A r \in DOMAIN tree' : tree'[r] = tree[r]
    BY <2>1 DEF Without
  <2>3. e.kind = "removed" /\ e.path = p
    <3>1. e = WatchEvent("removed", p, p, NoMeta)
      BY <1>4, <2>1 DEF EventIn
    <3> HIDE DEF e
    <3> QED BY <3>1 DEF WatchEvent
  <2>4. \A d : DirIn(tree', d) <=> DirIn(tree, d)
    BY <2>1, <2>2 DEF DirIn
  <2> HIDE DEF e, t
  <2>5. OfFiles(e, tree', rules)
    BY <2>1, <2>2, <2>3 DEF OfFiles, DirIn
  <2>6. \A r \in Path : News(e, r, MetaIn(tree, r), MetaIn(tree', r))
    BY <2>1, <2>2, <2>3 DEF News, MetaIn, Touches, Enters, Leaves, Tells
  <2> QED BY <1>2, <2>1, <2>4, <2>5, <2>6, OneReportLate DEF e
<1>9. ASSUME NEW p, NEW q, FileMoved(p, q) PROVE Late(AllEvents', shown, tree', rules)
  <2>1. /\ p \in Paths /\ q \in Paths /\ p # <<>> /\ p \in DOMAIN tree /\ tree[p] # Dir
        /\ q # <<>> /\ q \notin DOMAIN tree /\ Front(q) \in DOMAIN tree /\ tree[Front(q)] = Dir
        /\ p # q /\ tree' = With(Without(tree, p), q, tree[p])
        /\ Says(<<Told("modify", p, p), Told("modify", q, q), Told("both", q, p)>>)
    BY <1>9 DEF FileMoved, MovedTo, Free, IsDir
  <2>2. /\ p \notin DOMAIN tree' /\ q \in DOMAIN tree' /\ tree'[q] = tree[p]
        /\ DOMAIN tree' = (DOMAIN tree \ {p}) \cup {q}
        /\ \A r \in DOMAIN tree' : r # q => tree'[r] = tree[r]
    BY <2>1 DEF With, Without
  <2>3. \A d : DirIn(tree', d) <=> DirIn(tree, d)
    BY <2>1, <2>2 DEF DirIn
  <2>4. \A r : r # p /\ r # q => MetaIn(tree', r) = MetaIn(tree, r)
    BY <2>2 DEF MetaIn
  <2>5. DirIn(tree, Front(q)) /\ ~DirIn(tree, p) /\ ~DirIn(tree, q)
    BY <2>1 DEF DirIn
  <2>6. ASSUME NEW e \in Event, e.kind = "renamed" /\ e.path = q /\ e.old = p PROVE OfFiles(e, tree', rules)
    BY <1>3, <1>5, <2>1, <2>3, <2>5, <2>6 DEF OfFiles
  <2> QED BY <1>2, <2>1, <2>2, <2>3, <2>4, <2>6, RenameLate
<1>10. ~\E p, q : DirMoved(p, q)
  BY <1>1 DEF DirMoved
<1> QED BY <1>1, <1>6, <1>7, <1>8, <1>9, <1>10, InsideChanges

\* The first event that is left is applied.
LEMMA ApplyLate ==
  ASSUME NEW files, IsTree(files), NEW rules, NEW events \in Seq(Event), events # <<>>,
         NEW from, Late(events, from, files, rules)
  PROVE  \E to : Link(rules, from, Head(events), to) /\ Late(Tail(events), to, files, rules)
<1> DEFINE n == Len(events)
           e == Head(events)
           rest == Tail(events)
<1>1. /\ n \in Nat /\ n # 0 /\ e = events[1] /\ rest \in Seq(Event) /\ Len(rest) = n - 1
      /\ \A i \in 1..(n - 1) : rest[i] = events[i + 1]
  BY HeadTailProperties
<1>2. e \in Event
  OBVIOUS
<1>3. /\ Rooted(from, files, rules)
      /\ \A i \in 1..n : OfFiles(events[i], files, rules)
      /\ \A p \in Path : TrueOf(events, n, p, from, rules, MetaIn(files, p))
  BY DEF Late
<1> HIDE DEF n, e, rest
<1>4. OfFiles(e, files, rules)
  BY <1>1, <1>3
<1>5. e.kind \in {"created", "renamed"} => e.path \notin DOMAIN from
  <2>1. e.path \in Path
    BY <1>2 DEF Event
  <2>2. e.kind \in {"created", "renamed"} => Enters(events[1], e.path)
    BY <1>1 DEF Enters
  <2>3. 1 \in 1..n /\ ~\E j \in 1..n : j < 1
    BY <1>1
  <2> QED BY <1>3, <2>1, <2>2, <2>3 DEF TrueOf
<1>6. PICK to : Link(rules, from, e, to) /\ Does(e, rules, from, to)
  BY <1>2, <1>3, <1>4, <1>5, LateEvent
<1>7. Rooted(to, files, rules)
  BY <1>2, <1>3, <1>4, <1>6, DoesRooted
<1>8. \A i \in 1..(n - 1) : OfFiles(rest[i], files, rules)
  <2>1. \A i \in 1..(n - 1) : i + 1 \in 1..n
    BY <1>1
  <2> QED BY <1>1, <1>3, <2>1
<1>9. ASSUME NEW p \in Path PROVE TrueOf(rest, n - 1, p, to, rules, MetaIn(files, p))
  <2>1. TrueOf(events, n, p, from, rules, MetaIn(files, p))
    BY <1>3
  <2>2. /\ p \in DOMAIN to <=> \/ p \in DOMAIN from /\ ~Leaves(events[1], p)
                               \/ Enters(events[1], p) /\ events[1].meta # NoMeta /\ Allows(rules, p)
        /\ p \in DOMAIN to => to[p] = IF Tells(events[1], p) /\ events[1].meta # NoMeta
                                      THEN events[1].meta ELSE from[p]
    BY <1>1, <1>6 DEF Does
  <2> QED BY <1>1, <2>1, <2>2, TrueOfRest
<1> QED BY <1>1, <1>6, <1>7, <1>8, <1>9 DEF Late, e, rest

LEMMA LateStep ==
  ASSUME FilesInv, Inside => WithinDepth, LateInv, FilesNext \/ Callback \/ Apply
  PROVE  LateInv'
<1>0. FilesInv'
  BY FilesInvStep
<1> SUFFICES ASSUME Tame', May("lag")'
             PROVE  \E shown : Shows(index', shown) /\ Late(AllEvents', shown, tree', scenario'.rules)
  BY DEF LateInv
<1>1. scenario' = scenario
  BY ReportsTyped DEF Callback, Apply
<1>2. Tame /\ May("lag") /\ ~May("batch") /\ WithinDepth
  <2>1. scenario = scenario' => Paths' = Paths
    BY DEF Paths
  <2>2. Tame
    BY <1>1, <2>1 DEF Tame, May, ExcludesBelow
  <2> QED BY <1>1, <2>2, TameInside DEF May, Tame
<1>3. PICK shown : Shows(index, shown) /\ Late(AllEvents, shown, tree, scenario.rules)
  BY <1>2 DEF LateInv
<1>4. CASE FilesNext
  <2>1. index' = index
    BY <1>4, ReportsTyped
  <2>2. Late(AllEvents', shown, tree', scenario.rules)
    BY <1>0, <1>2, <1>3, <1>4, ChangeLate
  <2> QED BY <1>1, <1>3, <2>1, <2>2
<1>5. CASE Callback
  <2>1. AllEvents' = AllEvents /\ UNCHANGED <<tree, index>>
    BY <1>5, CallbackTells DEF Callback
  <2> QED BY <1>1, <1>3, <2>1
<1>6. CASE Apply
  <2>1. /\ AllEvents \in Seq(Event) /\ AllEvents # <<>> /\ AllEvents' = Tail(AllEvents)
        /\ index' = ApplyBatch(index, scenario.rules, <<Head(AllEvents)>>)
        /\ UNCHANGED <<scenario, tree>>
    BY <1>2, <1>6, ApplyFirst
  <2>2. PICK to : Link(scenario.rules, shown, Head(AllEvents), to) /\ Late(Tail(AllEvents), to, tree, scenario.rules)
    BY <1>3, <2>1, ApplyLate DEF FilesInv
  <2>3. Shows(index', to)
    BY <1>3, <2>1, <2>2 DEF Link
  <2> QED BY <1>1, <2>1, <2>2, <2>3
<1> QED BY <1>4, <1>5, <1>6

-----------------------------------------------------------------------------
(* What is shown, always                                                   *)

ShowInv == (Inside => WithinDepth) /\ ChainInv /\ LateInv

LEMMA ShowInit == Init => ShowInv
BY DepthInit, ChainInit, LateInit DEF ShowInv

LEMMA ShowStep ==
  ASSUME FilesInv, ShowInv, FilesNext \/ Callback \/ Apply
  PROVE  ShowInv'
<1>1. Inside' => WithinDepth'
  <2> SUFFICES ASSUME Inside' PROVE WithinDepth'
    OBVIOUS
  <2>1. scenario' = scenario
    BY ReportsTyped DEF Callback, Apply
  <2>2. Inside /\ WithinDepth
    BY <2>1 DEF Inside, ShowInv
  <2>3. CASE FilesNext
    BY <2>2, <2>3, DepthStep
  <2>4. CASE Callback \/ Apply
    <3>1. UNCHANGED <<scenario, tree>>
      BY <2>4 DEF Callback, Apply
    <3> QED BY <2>2, <3>1 DEF WithinDepth, Paths, May
  <2> QED BY <2>3, <2>4
<1>2. ChainInv'
  BY ChainStep DEF ShowInv
<1>3. LateInv'
  BY LateStep DEF ShowInv
<1> QED BY <1>1, <1>2, <1>3 DEF ShowInv

\* When all has been told and applied, nothing is left to lead anywhere.
LEMMA ShowIs ==
  ASSUME FilesInv, ShowInv
  PROVE  ShowsTheFiles
<1> SUFFICES ASSUME Tame, Settled
             PROVE  /\ Listing(index) = Listing(Rescanned)
                    /\ Len(index.records) = Len(Rescanned.records)
  BY DEF ShowsTheFiles, AlwaysShowsTheFiles
<1> DEFINE V == Visible(tree, scenario.rules)
<1>1. AllEvents = <<>> /\ Len(<<>>) = 0
  BY DEF AllEvents, Settled, EventsIn
<1>2. IsTree(tree) /\ WithinDepth
  BY TameInside DEF FilesInv, ShowInv
<1>3. Shows(index, V)
  <2>1. CASE ~May("lag")
    <3>1. PICK files : Shows(index, files) /\ Leads(scenario.rules, AllEvents, files, V)
      BY <2>1 DEF ShowInv, ChainInv
    <3>2. files = V
      BY <1>1, <3>1 DEF Leads
    <3> QED BY <3>1, <3>2
  <2>2. CASE May("lag")
    <3>1. PICK shown : Shows(index, shown) /\ Late(AllEvents, shown, tree, scenario.rules)
      BY <2>2 DEF ShowInv, LateInv
    <3>2. \A p \in Path : TrueOf(<<>>, 0, p, shown, scenario.rules, MetaIn(tree, p))
      BY <1>1, <3>1 DEF Late
    <3>3. \A p \in Path : /\ p \in DOMAIN shown <=> MetaIn(tree, p) # NoMeta /\ Allows(scenario.rules, p)
                          /\ MetaIn(tree, p) # NoMeta /\ p \in DOMAIN shown => shown[p] = MetaIn(tree, p)
      BY <3>2 DEF TrueOf
    <3>4. \A p \in DOMAIN tree : p \in Path /\ tree[p] # NoMeta
      BY <1>2, LiveUpdatesAssumption DEF IsTree, Path
    <3>5. DOMAIN shown \subseteq Path
      BY <3>1, ShownTyped
    <3>6. DOMAIN V = {q \in DOMAIN tree : Allows(scenario.rules, q)} /\ \A q \in DOMAIN V : V[q] = tree[q]
      BY VisibleIs
    <3> HIDE DEF V
    <3>7. DOMAIN V = DOMAIN shown /\ \A p \in DOMAIN shown : V[p] = shown[p]
      BY <3>3, <3>4, <3>5, <3>6 DEF MetaIn
    <3> QED BY <3>1, <3>7, ShowsSame
  <2> QED BY <2>1, <2>2
<1>4. ClosedRules(scenario.rules, DOMAIN tree) /\ \A p \in DOMAIN tree : Len(p) <= MaxDepth
  BY <1>2, TameCloses DEF ClosedRules, WithinDepth
<1>5. Shows(Rescanned, V)
  BY <1>2, <1>4, RescannedShows
<1> HIDE DEF V
<1> QED BY <1>3, <1>5, ShownAlike

LEMMA ShowKept == ASSUME ShowInv, UNCHANGED vars PROVE ShowInv'
<1>1. UNCHANGED <<scenario, tree, told, pending, index>>
  BY DEF vars
<1>2. Paths' = Paths /\ AllEvents' = AllEvents /\ \A what : May(what)' <=> May(what)
  BY <1>1 DEF Paths, AllEvents, May
<1>3. (Inside' <=> Inside) /\ (WithinDepth' <=> WithinDepth)
  BY <1>1, <1>2 DEF Inside, WithinDepth, May
<1>4. Tame' <=> Tame
  BY <1>1, <1>2 DEF Tame, May, ExcludesBelow
<1>5. ChainInv'
  <2>1. ChainInv
    BY DEF ShowInv
  <2> QED BY <1>1, <1>2, <1>4, <2>1 DEF ChainInv, May
<1>6. LateInv'
  <2>1. LateInv
    BY DEF ShowInv
  <2> QED BY <1>1, <1>2, <1>4, <2>1 DEF LateInv, May
<1> QED BY <1>3, <1>5, <1>6 DEF ShowInv

\* Once all has been told and applied, oxidexd's index shows what a new scan of the
\* device would (apply_live_events against scan and filter_index): every file and
\* directory once, at its path, with its metadata, and nothing else.  ShowsTheFiles
\* names the scenarios in which this is not so.
THEOREM ShowsHold == Spec => []ShowsTheFiles
<1> DEFINE Inv == LiveInv /\ ShowInv
<1>1. Init => Inv
  BY ShowInit, LiveInvInit
<1>2. Inv /\ [Next]_vars => Inv'
  <2>1. Next => FilesNext \/ Callback \/ Apply
    BY DEF Next, FilesNext
  <2> QED BY <2>1, LiveInvStep, LiveInvKept, ShowStep, ShowKept DEF LiveInv
<1>3. Inv => ShowsTheFiles
  BY ShowIs DEF LiveInv
<1> QED BY <1>1, <1>2, <1>3, PTL DEF Spec

=============================================================================
