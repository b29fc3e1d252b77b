--------------------------- MODULE SequenceLemmas ---------------------------
(***************************************************************************)
(* Induction over the naturals without an operator as its parameter: a set *)
(* of naturals that is closed under successor is all of them.  From it the *)
(* facts about FlattenSeq, a recursive function, that the proofs about the *)
(* log files, the formats and the documents use.                           *)
(***************************************************************************)
EXTENDS Integers, SequencesExt, SequenceTheorems, WellFoundedInduction, TLAPS

\* Every nonempty set of naturals has a least element.
LEMMA LeastElement ==
  ASSUME NEW T \in SUBSET Nat, T # {}
  PROVE  \E x \in T : \A y \in T : x <= y
<1>. DEFINE R == OpToRel(<, Nat)
<1>1. IsWellFoundedOn(R, Nat)
  BY NatLessThanWellFounded
<1>2. R = {ss \in Nat \X Nat : ss[1] < ss[2]}
  BY DEF OpToRel
<1>. HIDE DEF R
<1>3. PICK x \in T : \A y \in T : <<y, x>> \notin R
  BY <1>1, WFMin
<1>4. \A y \in T : ~(y < x)
  BY <1>2, <1>3
<1>. QED
  BY <1>3, <1>4

\* A set that has 0, and with a number the next one, has them all.
LEMMA SetInduction ==
  ASSUME NEW S \in SUBSET Nat, 0 \in S, \A n \in S : n + 1 \in S
  PROVE  S = Nat
<1>. SUFFICES ASSUME S # Nat PROVE FALSE
  OBVIOUS
<1>1. PICK x \in Nat \ S : \A y \in Nat \ S : x <= y
  BY LeastElement
<1>2. x # 0 /\ x - 1 \in Nat /\ x - 1 \in S
  BY <1>1
<1>. QED
  BY <1>1, <1>2

-----------------------------------------------------------------------------

\* f[i] is the concatenation of the first i of seqs, for i up to m.
IsFlat(f, seqs, m) ==
  f = [i \in 1..m |-> IF i = 1 THEN seqs[i] ELSE f[i - 1] \o seqs[i]]

\* Such an f exists for every m.
LEMMA FlatExists ==
  ASSUME NEW seqs
  PROVE  \A m \in Nat : \E f : IsFlat(f, seqs, m)
<1>. DEFINE T == {m \in Nat : \E f : IsFlat(f, seqs, m)}
<1>1. 0 \in T
  <2>1. IsFlat(<<>>, seqs, 0)
    BY DEF IsFlat
  <2>. QED
    BY <2>1
<1>2. ASSUME NEW m \in T PROVE m + 1 \in T
  <2>1. PICK f : IsFlat(f, seqs, m)
    OBVIOUS
  <2>. DEFINE g == [i \in 1..m+1 |-> IF i = m + 1
                        THEN IF i = 1 THEN seqs[i] ELSE f[i - 1] \o seqs[i]
                        ELSE f[i]]
  <2>2. IsFlat(g, seqs, m + 1)
    <3>1. \A i \in 1..m : f[i] = IF i = 1 THEN seqs[i] ELSE f[i - 1] \o seqs[i]
      BY <2>1 DEF IsFlat
    <3>2. \A i \in 1..m+1 : g[i] = IF i = 1 THEN seqs[i] ELSE g[i - 1] \o seqs[i]
      BY <3>1
    <3>. QED
      BY <3>2 DEF IsFlat
  <2>. QED
    BY <2>2
<1>. QED
  BY <1>1, <1>2, SetInduction

\* Its values.
LEMMA FlatAt ==
  ASSUME NEW f, NEW seqs, NEW m, IsFlat(f, seqs, m)
  PROVE  \A i \in 1..m : f[i] = IF i = 1 THEN seqs[i] ELSE f[i - 1] \o seqs[i]
BY DEF IsFlat

\* Two of them agree as long as the sequences do.
LEMMA FlatAgree ==
  ASSUME NEW s, NEW t, NEW m \in Nat, NEW n \in Nat, NEW f, NEW g,
         IsFlat(f, s, m), IsFlat(g, t, n),
         NEW k \in Nat, k <= m, k <= n, \A i \in 1..k : s[i] = t[i]
  PROVE  k # 0 => f[k] = g[k]
<1>. DEFINE T == {j \in Nat : j \in 1..k => f[j] = g[j]}
<1>1. 0 \in T
  OBVIOUS
<1>2. ASSUME NEW j \in T PROVE j + 1 \in T
  <2>. SUFFICES ASSUME j + 1 \in 1..k PROVE f[j + 1] = g[j + 1]
    OBVIOUS
  <2>. j + 1 \in 1..m /\ j + 1 \in 1..n
    OBVIOUS
  <2>1. f[j + 1] = IF j + 1 = 1 THEN s[j + 1] ELSE f[j + 1 - 1] \o s[j + 1]
    BY FlatAt
  <2>2. g[j + 1] = IF j + 1 = 1 THEN t[j + 1] ELSE g[j + 1 - 1] \o t[j + 1]
    BY FlatAt
  <2>3. j + 1 - 1 = j /\ s[j + 1] = t[j + 1] /\ (j + 1 # 1 => j \in 1..k)
    OBVIOUS
  <2>. QED
    BY <2>1, <2>2, <2>3
<1>3. T = Nat
  <2>. HIDE DEF T
  <2>. QED
    BY <1>1, <1>2, SetInduction DEF T
<1>. QED
  BY <1>3, k # 0 => k \in 1..k

\* The case of sequences that differ in their last element only.
LEMMA FlatBefore ==
  ASSUME NEW s, NEW t, NEW f, NEW g, NEW n \in Nat, n # 0,
         IsFlat(f, s, n), IsFlat(g, t, n), \A i \in 1..n - 1 : t[i] = s[i]
  PROVE  n - 1 # 0 => g[n - 1] = f[n - 1]
<1>1. PICK k \in Nat : k = n - 1
  OBVIOUS
<1>2. k <= n /\ \A i \in 1..k : t[i] = s[i]
  BY <1>1
<1>3. k # 0 => g[k] = f[k]
  BY <1>2, FlatAgree
<1>. QED
  BY <1>1, <1>3

\* FlattenSeq unfolded.
LEMMA FlattenDef ==
  ASSUME NEW T, NEW seqs \in Seq(T), seqs # <<>>
  PROVE  \E f : IsFlat(f, seqs, Len(seqs)) /\ FlattenSeq(seqs) = f[Len(seqs)]
<1>. DEFINE f == CHOOSE f : IsFlat(f, seqs, Len(seqs))
<1>1. IsFlat(f, seqs, Len(seqs))
  BY FlatExists
<1>2. FlattenSeq(seqs) = f[Len(seqs)]
  BY DEF FlattenSeq, IsFlat
<1>. QED
  BY <1>1, <1>2

\* The concatenation of the first i sequences over T is a sequence over T.
LEMMA FlatType ==
  ASSUME NEW T, NEW seqs \in Seq(Seq(T)), NEW f, IsFlat(f, seqs, Len(seqs))
  PROVE  \A i \in 1..Len(seqs) : f[i] \in Seq(T)
<1>. DEFINE S == {j \in Nat : j \in 1..Len(seqs) => f[j] \in Seq(T)}
<1>1. 0 \in S
  OBVIOUS
<1>2. ASSUME NEW j \in S PROVE j + 1 \in S
  <2>. SUFFICES ASSUME j + 1 \in 1..Len(seqs) PROVE f[j + 1] \in Seq(T)
    OBVIOUS
  <2>1. f[j + 1] = IF j + 1 = 1 THEN seqs[j + 1] ELSE f[j + 1 - 1] \o seqs[j + 1]
    BY FlatAt
  <2>2. seqs[j + 1] \in Seq(T)
    BY ElementOfSeq
  <2>3. j + 1 - 1 = j /\ (j + 1 # 1 => j \in 1..Len(seqs))
    OBVIOUS
  <2>4. j + 1 # 1 => f[j] \in Seq(T)
    BY <2>3
  <2>. QED
    BY <2>1, <2>2, <2>3, <2>4
<1>3. S = Nat
  <2>. HIDE DEF S
  <2>. QED
    BY <1>1, <1>2, SetInduction DEF S
<1>. QED
  BY <1>3

\* Concatenation is associative.
LEMMA ConcatAssoc ==
  \A T : \A x, y, z \in Seq(T) : x \o (y \o z) = (x \o y) \o z
<1>. TAKE T
<1>. TAKE x, y, z \in Seq(T)
<1>. QED
  OBVIOUS

\* FlattenSeq of no sequence.
LEMMA FlattenEmpty == FlattenSeq(<<>>) = <<>>
BY DEF FlattenSeq

\* FlattenSeq of sequences over T is a sequence over T.
LEMMA FlattenType ==
  ASSUME NEW T, NEW seqs \in Seq(Seq(T))
  PROVE  FlattenSeq(seqs) \in Seq(T)
<1>1. CASE seqs = <<>>
  BY <1>1, FlattenEmpty, <<>> \in Seq(T)
<1>2. CASE seqs # <<>>
  <2>1. PICK f : IsFlat(f, seqs, Len(seqs)) /\ FlattenSeq(seqs) = f[Len(seqs)]
    BY <1>2, FlattenDef
  <2>2. Len(seqs) \in 1..Len(seqs)
    BY <1>2
  <2>. QED
    BY <2>1, <2>2, FlatType
<1>. QED
  BY <1>1, <1>2

\* FlattenSeq of one sequence.
LEMMA FlattenOne ==
  ASSUME NEW t
  PROVE  FlattenSeq(<<t>>) = t
<1>1. <<t>> \in Seq({t}) /\ <<t>> # <<>> /\ Len(<<t>>) = 1 /\ <<t>>[1] = t
  OBVIOUS
<1>2. PICK f : IsFlat(f, <<t>>, 1) /\ FlattenSeq(<<t>>) = f[1]
  BY <1>1, FlattenDef
<1>3. f[1] = IF 1 = 1 THEN <<t>>[1] ELSE f[1 - 1] \o <<t>>[1]
  BY <1>2, FlatAt, 1 \in 1..1
<1>. QED
  BY <1>1, <1>2, <1>3

\* more is seqs but for the last of its sequences, which is longer by t.
LastLonger(T, seqs, more, t, n) ==
  /\ n \in Nat /\ n # 0 /\ n = Len(seqs) /\ n = Len(more)
  /\ seqs \in Seq(Seq(T)) /\ more \in Seq(Seq(T)) /\ t \in Seq(T)
  /\ more[n] = seqs[n] \o t
  /\ \A i \in 1..n - 1 : more[i] = seqs[i]

\* Then what it is flattened to is longer by t.
LEMMA FlattenLast ==
  ASSUME NEW T, NEW seqs, NEW more, NEW t, NEW n, LastLonger(T, seqs, more, t, n)
  PROVE  FlattenSeq(more) = FlattenSeq(seqs) \o t
<1>. n \in Nat /\ n # 0 /\ n = Len(seqs) /\ t \in Seq(T)
  BY DEF LastLonger
<1>1. seqs[n] \in Seq(T)
  BY ElementOfSeq DEF LastLonger
<1>2. /\ more \in Seq(Seq(T)) /\ Len(more) = n
      /\ more[n] = seqs[n] \o t
      /\ \A i \in 1..n - 1 : more[i] = seqs[i]
  BY DEF LastLonger
<1>0. seqs \in Seq(Seq(T)) /\ seqs # <<>> /\ more # <<>>
  BY <1>2 DEF LastLonger
<1>3. PICK f : IsFlat(f, seqs, n) /\ FlattenSeq(seqs) = f[n]
  BY <1>0, FlattenDef
<1>4. PICK g : IsFlat(g, more, n) /\ FlattenSeq(more) = g[n]
  BY <1>0, <1>2, FlattenDef
<1>5. n - 1 # 0 => g[n - 1] = f[n - 1]
  BY ONLY <1>2, <1>3, <1>4, FlatBefore, n \in Nat, n # 0
<1>6. /\ f[n] = IF n = 1 THEN seqs[n] ELSE f[n - 1] \o seqs[n]
      /\ g[n] = IF n = 1 THEN more[n] ELSE g[n - 1] \o more[n]
  BY ONLY <1>3, <1>4, FlatAt, n \in 1..n
<1>7. CASE n = 1
  BY <1>2, <1>3, <1>4, <1>6, <1>7
<1>8. CASE n # 1
  <2>1. n - 1 \in 1..n - 1 /\ n - 1 \in 1..Len(seqs)
    BY <1>8
  <2>2. PICK u \in Seq(T) : u = f[n - 1]
    BY <1>0, <1>3, <2>1, FlatType
  <2>3. PICK v \in Seq(T) : v = seqs[n]
    BY <1>1
  <2>4. u \o (v \o t) = (u \o v) \o t
    BY ONLY ConcatAssoc, u \in Seq(T), v \in Seq(T), t \in Seq(T)
  <2>5. n - 1 # 0
    BY <1>8
  <2>6. g[n] = u \o (v \o t) /\ f[n] = u \o v
    BY <1>2, <1>5, <1>6, <1>8, <2>2, <2>3, <2>5
  <2>. QED
    BY <1>3, <1>4, <2>4, <2>6
<1>. QED
  BY <1>7, <1>8

\* FlattenSeq of one sequence more.
LEMMA FlattenAppend ==
  ASSUME NEW T, NEW seqs, seqs \in Seq(Seq(T)), NEW t \in Seq(T)
  PROVE  FlattenSeq(Append(seqs, t)) = FlattenSeq(seqs) \o t
<1>. DEFINE more == Append(seqs, t)
            n == Len(seqs)
<1>1. /\ more \in Seq(Seq(T)) /\ Len(more) = n + 1 /\ n \in Nat
      /\ more[n + 1] = t
      /\ \A i \in 1..n : more[i] = seqs[i]
  BY AppendProperties
<1>2. more # <<>>
  BY AppendProperties
<1>. HIDE DEF more, n
<1>3. PICK g : IsFlat(g, more, n + 1) /\ FlattenSeq(more) = g[n + 1]
  BY <1>1, <1>2, FlattenDef
<1>4. g[n + 1] = IF n + 1 = 1 THEN more[n + 1] ELSE g[n + 1 - 1] \o more[n + 1]
  BY <1>1, <1>3, FlatAt, n + 1 \in 1..n + 1
<1>5. CASE seqs = <<>>
  <2>1. n = 0
    BY <1>5 DEF n
  <2>. QED
    BY <1>1, <1>3, <1>4, <1>5, <2>1, FlattenEmpty DEF more
<1>6. CASE seqs # <<>>
  <2>1. PICK f : IsFlat(f, seqs, n) /\ FlattenSeq(seqs) = f[n]
    BY <1>6, FlattenDef DEF n
  <2>2. n # 0 /\ n + 1 # 1 /\ n + 1 - 1 = n /\ n \in 1..n
    BY <1>1, <1>6 DEF n
  <2>3. g[n] = f[n]
    <3>1. PICK m \in Nat : m = n + 1
      BY <1>1
    <3>2. /\ n \in Nat /\ n <= n /\ n <= m /\ IsFlat(g, more, m)
          /\ \A i \in 1..n : more[i] = seqs[i]
      BY <1>1, <1>3, <3>1
    <3>. QED
      BY ONLY <2>1, <2>2, <3>2, FlatAgree, m \in Nat
  <2>. QED
    BY <1>1, <1>3, <1>4, <2>1, <2>2, <2>3 DEF more
<1>. QED
  BY <1>5, <1>6

=============================================================================
