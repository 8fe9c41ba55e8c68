----------------------------- MODULE ZoneSetupProofs -----------------------------
(***************************************************************************)
(* Proofs about ZoneSetup, for any directories, zones, single files and      *)
(* limit.                                                                   *)
(***************************************************************************)
EXTENDS ZoneSetup, FiniteSetTheorems, WellFoundedInduction, TLAPS

-----------------------------------------------------------------------------
(* Numbers.  The theorems of the library on induction have an operator for a *)
(* parameter; these have a set.                                             *)

(* A set of natural numbers has a least one.                                *)
LEMMA LeastNumber ==
    ASSUME NEW S \in SUBSET Nat, S # {}
    PROVE  \E m \in S : \A n \in S : m <= n
  <1> DEFINE Less == {ss \in Nat \X Nat : ss[1] < ss[2]}
  <1>0. IsWellFoundedOn(Less, Nat)
    BY NatLessThanWellFounded DEF OpToRel
  <1> HIDE DEF Less
  <1>1. PICK x \in S : \A y \in S : ~ (<<y, x>> \in Less)
    BY <1>0, WFMin
  <1>2. \A y \in S : ~(y < x)
    BY <1>1 DEF Less
  <1>3. QED
    BY <1>2

(* Induction.                                                               *)
LEMMA NumberInduction ==
    ASSUME NEW S \in SUBSET Nat, 0 \in S, \A n \in S : n + 1 \in S
    PROVE  S = Nat
  <1>1. SUFFICES ASSUME Nat \ S # {} PROVE FALSE
    OBVIOUS
  <1>2. PICK m \in Nat \ S : \A n \in Nat \ S : m <= n
    BY <1>1, LeastNumber
  <1>3. m # 0 /\ m - 1 \in Nat /\ ~(m <= m - 1)
    BY <1>2
  <1>4. m - 1 \in S
    BY <1>2, <1>3
  <1>5. QED
    BY <1>2, <1>4

-----------------------------------------------------------------------------
(* Paths.                                                                   *)

(* The path of the parent, the last name, and the paths above.              *)
LEMMA PathParts ==
    ASSUME NEW S, NEW p \in Seq(S)
    PROVE  /\ Upwards(p) \subseteq Seq(S)
           /\ p \in Upwards(p)
           /\ \A q \in Upwards(p) : Len(q) <= Len(p)
           /\ p # <<>> => /\ ParentOf(p) \in Upwards(p) /\ NameOf(p) \in S
                          /\ Len(ParentOf(p)) = Len(p) - 1
                          /\ p = Append(ParentOf(p), NameOf(p))
  <1>1. \A k \in 0..Len(p) : SubSeq(p, 1, k) \in Seq(S) /\ Len(SubSeq(p, 1, k)) = k
    OBVIOUS
  <1>2. SubSeq(p, 1, Len(p)) = p
    OBVIOUS
  <1>3. ASSUME p # <<>>
        PROVE  /\ ParentOf(p) \in Upwards(p) /\ NameOf(p) \in S
               /\ Len(ParentOf(p)) = Len(p) - 1
               /\ p = Append(ParentOf(p), NameOf(p))
    <2>1. Len(p) \in Nat /\ Len(p) # 0
      BY <1>3
    <2>2. p[Len(p)] \in S
      BY <2>1
    <2>3. ParentOf(p) = SubSeq(p, 1, Len(p) - 1) /\ NameOf(p) = p[Len(p)]
      BY DEF ParentOf, NameOf, Front, Last
    <2>4. Len(p) - 1 \in 0..Len(p)
      BY <2>1
    <2>5. ParentOf(p) \in Upwards(p)
      BY <2>3, <2>4 DEF Upwards
    <2>6. Len(ParentOf(p)) = Len(p) - 1
      BY <1>1, <2>3, <2>4
    <2>7. p = Append(ParentOf(p), NameOf(p))
      BY <2>1, <2>2, <2>3
    <2>8. QED
      BY <2>2, <2>3, <2>5, <2>6, <2>7
  <1>4. p \in Upwards(p)
    <2>1. Len(p) \in 0..Len(p)
      OBVIOUS
    <2>2. QED
      BY <1>2, <2>1 DEF Upwards
  <1>5. \A q \in Upwards(p) : q \in Seq(S) /\ Len(q) <= Len(p)
    <2>1. \A k \in 0..Len(p) : k <= Len(p)
      OBVIOUS
    <2>2. QED
      BY <1>1, <2>1 DEF Upwards
  <1>6. QED
    BY <1>3, <1>4, <1>5

(* The paths above are those p's path begins with.                          *)
LEMMA UpwardsIsPrefix ==
    ASSUME NEW S, NEW p \in Seq(S), NEW q \in Seq(S)
    PROVE  /\ q \in Upwards(p) <=> IsPrefix(q, p)
           /\ IsPrefix(q, p) <=> /\ Len(q) <= Len(p)
                                 /\ \A i \in 1..Len(q) : q[i] = p[i]
           /\ IsPrefix(q, p) => q = SubSeq(p, 1, Len(q))
  <1>1. SubSeq(q, 1, Len(q)) = q
    OBVIOUS
  <1>2. ASSUME Len(q) <= Len(p)
        PROVE  q = SubSeq(p, 1, Len(q)) <=> \A i \in 1..Len(q) : q[i] = p[i]
    BY <1>2
  <1>3. IsPrefix(q, p) <=> Len(q) <= Len(p) /\ q = SubSeq(p, 1, Len(q))
    BY <1>1 DEF IsPrefix
  <1>4. \A k \in 0..Len(p) : Len(SubSeq(p, 1, k)) = k
    OBVIOUS
  <1>5. q \in Upwards(p) => IsPrefix(q, p)
    <2>1. SUFFICES ASSUME NEW k \in 0..Len(p), q = SubSeq(p, 1, k) PROVE IsPrefix(q, p)
      BY DEF Upwards
    <2>2. Len(q) = k
      BY <1>4, <2>1
    <2>3. QED
      BY <1>3, <2>1, <2>2
  <1>6. IsPrefix(q, p) => q \in Upwards(p)
    <2>1. SUFFICES ASSUME IsPrefix(q, p) PROVE q \in Upwards(p)
      OBVIOUS
    <2>2. Len(q) \in 0..Len(p)
      BY <1>3, <2>1
    <2>3. QED
      BY <1>3, <2>1, <2>2 DEF Upwards
  <1>7. QED
    BY <1>2, <1>3, <1>5, <1>6

(* What p's path begins with, its parent's begins with, but for p.           *)
LEMMA PrefixOfParent ==
    ASSUME NEW S, NEW p \in Seq(S), NEW q \in Seq(S), p # <<>>
    PROVE  IsPrefix(q, p) <=> q = p \/ IsPrefix(q, ParentOf(p))
  <1> DEFINE m == ParentOf(p)
  <1>1. /\ Len(p) \in Nat \ {0} /\ Len(q) \in Nat
        /\ m \in Seq(S)
        /\ Len(m) = Len(p) - 1
        /\ \A i \in 1..(Len(p) - 1) : m[i] = p[i]
    <2>1. Len(p) \in Nat \ {0} /\ Len(q) \in Nat
      OBVIOUS
    <2>2. m = SubSeq(p, 1, Len(p) - 1)
      BY DEF ParentOf, Front
    <2>3. m \in Seq(S) /\ Len(m) = Len(p) - 1
      BY PathParts
    <2> HIDE DEF m
    <2>4. \A i \in 1..(Len(p) - 1) : m[i] = p[i]
      BY <2>1, <2>2
    <2>5. QED
      BY <2>1, <2>3, <2>4
  <1> HIDE DEF m
  <1>2. IsPrefix(q, p) <=> Len(q) <= Len(p) /\ \A i \in 1..Len(q) : q[i] = p[i]
    BY UpwardsIsPrefix
  <1>3. IsPrefix(q, m) <=> Len(q) <= Len(m) /\ \A i \in 1..Len(q) : q[i] = m[i]
    BY <1>1, UpwardsIsPrefix
  <1>4. CASE Len(q) = Len(p)
    <2>1. ~IsPrefix(q, m)
      BY <1>1, <1>3, <1>4
    <2>2. q = p <=> \A i \in 1..Len(q) : q[i] = p[i]
      BY <1>4
    <2>3. IsPrefix(q, p) <=> q = p
      BY <1>1, <1>2, <1>4, <2>2
    <2>4. QED
      BY <2>1, <2>3 DEF m
  <1>5. CASE Len(q) # Len(p)
    <2>1. Len(q) <= Len(p) <=> Len(q) <= Len(m)
      BY <1>1, <1>5
    <2>2. Len(q) <= Len(m) => \A i \in 1..Len(q) : m[i] = p[i]
      BY <1>1
    <2>3. q # p
      BY <1>5
    <2>4. IsPrefix(q, p) <=> IsPrefix(q, m)
      BY <1>2, <1>3, <2>1, <2>2
    <2>5. QED
      BY <2>3, <2>4 DEF m
  <1>6. QED
    BY <1>4, <1>5

(* The paths above p are those above its parent, and p.                      *)
LEMMA UpwardsOfParent ==
    ASSUME NEW S, NEW p \in Seq(S), p # <<>>
    PROVE  Upwards(p) = Upwards(ParentOf(p)) \cup {p}
  <1>1. ParentOf(p) \in Seq(S)
    BY PathParts
  <1>2. \A q \in Seq(S) : q \in Upwards(p) <=> q \in Upwards(ParentOf(p)) \cup {p}
    BY <1>1, PrefixOfParent, UpwardsIsPrefix
  <1>3. Upwards(p) \subseteq Seq(S) /\ Upwards(ParentOf(p)) \cup {p} \subseteq Seq(S)
    BY <1>1, PathParts
  <1>4. QED
    BY <1>2, <1>3

-----------------------------------------------------------------------------
(* Strings.                                                                 *)

(* Each name brings its characters and its slash.                            *)
LEMMA CharsStep ==
    ASSUME NEW p \in Seq(Names), NEW k \in 1..Len(p)
    PROVE  /\ CharsBefore(p, 1) = {}
           /\ CharsBefore(p, k + 1) = CharsBefore(p, k) \cup ({k} \X (0..Size[p[k]]))
           /\ CharsBefore(p, k) \cap ({k} \X (0..Size[p[k]])) = {}
           /\ Size[p[k]] \in Nat \ {0}
           /\ IsFiniteSet({k} \X (0..Size[p[k]]))
           /\ Cardinality({k} \X (0..Size[p[k]])) = 1 + Size[p[k]]
  <1> DEFINE Chars(j) == {j} \X (0..Size[p[j]])
  <1>1. 1..(1 - 1) = {} /\ 1..((k + 1) - 1) = (1..(k - 1)) \cup {k} /\ k \notin 1..(k - 1)
    OBVIOUS
  <1>2. \A n : CharsBefore(p, n) = UNION {Chars(j) : j \in 1..(n - 1)}
    BY DEF CharsBefore
  <1>3. \A i, j : i # j => Chars(i) \cap Chars(j) = {}
    OBVIOUS
  <1>4. Size[p[k]] \in Nat \ {0}
    BY SizeAssumption
  <1>5. IsFiniteSet(Chars(k)) /\ Cardinality(Chars(k)) = 1 + Size[p[k]]
    <2>1. IsFiniteSet(0..Size[p[k]]) /\ Cardinality(0..Size[p[k]]) = 1 + Size[p[k]]
      <3>1. PICK m \in Nat : m = Size[p[k]]
        BY <1>4
      <3>2. IsFiniteSet(0..m) /\ Cardinality(0..m) = 1 + m
        BY FS_Interval
      <3>3. QED
        BY <3>1, <3>2
    <2>2. IsFiniteSet({k}) /\ Cardinality({k}) = 1
      BY FS_Singleton
    <2>3. IsFiniteSet(Chars(k)) /\ Cardinality(Chars(k)) = 1 * (1 + Size[p[k]])
      <3>1. PICK S : S = 0..Size[p[k]]
        OBVIOUS
      <3>2. IsFiniteSet({k} \X S) /\ Cardinality({k} \X S) = Cardinality({k}) * Cardinality(S)
        BY <2>1, <2>2, <3>1, FS_Product
      <3>3. QED
        BY <2>1, <2>2, <3>1, <3>2
    <2>4. QED
      BY <1>4, <2>3
  <1> HIDE DEF Chars
  <1>6. CharsBefore(p, 1) = {}
    BY <1>1, <1>2
  <1>7. CharsBefore(p, k + 1) = CharsBefore(p, k) \cup Chars(k)
    BY <1>1, <1>2
  <1>8. CharsBefore(p, k) \cap Chars(k) = {}
    BY <1>1, <1>2, <1>3
  <1>9. QED
    BY <1>4, <1>5, <1>6, <1>7, <1>8 DEF Chars

(* They are finitely many.                                                  *)
LEMMA CharsFinite ==
    ASSUME NEW p \in Seq(Names), NEW k \in 1..(Len(p) + 1)
    PROVE  IsFiniteSet(CharsBefore(p, k)) /\ SlashAt(p, k) \in Nat
  <1> DEFINE Finite == {n \in Nat : n <= Len(p) => IsFiniteSet(CharsBefore(p, n + 1))}
  <1>1. 0 \in Finite
    <2>1. 0 + 1 = 1 /\ 1..(1 - 1) = {}
      OBVIOUS
    <2>2. CharsBefore(p, 1) = {}
      BY <2>1 DEF CharsBefore
    <2>3. QED
      BY <2>1, <2>2, FS_EmptySet
  <1>2. \A n \in Finite : n + 1 \in Finite
    <2> TAKE n \in Finite
    <2>1. n \in Nat /\ n + 1 \in Nat
      OBVIOUS
    <2>2. CASE n + 1 <= Len(p)
      <3>1. n + 1 \in 1..Len(p) /\ IsFiniteSet(CharsBefore(p, n + 1))
        BY <2>1, <2>2
      <3> DEFINE m     == n + 1
                 chars == {m} \X (0..Size[p[m]])
      <3>2. m \in 1..Len(p) /\ IsFiniteSet(CharsBefore(p, m))
        BY <3>1
      <3>3. CharsBefore(p, m + 1) = CharsBefore(p, m) \cup chars /\ IsFiniteSet(chars)
        <4> HIDE DEF m
        <4>1. CharsBefore(p, m + 1) = CharsBefore(p, m) \cup ({m} \X (0..Size[p[m]]))
          BY <3>2, CharsStep
        <4>2. IsFiniteSet({m} \X (0..Size[p[m]]))
          BY <3>2, CharsStep
        <4>3. QED
          BY <4>1, <4>2
      <3> HIDE DEF chars, m
      <3>4. IsFiniteSet(CharsBefore(p, m + 1))
        <4>1. IsFiniteSet(CharsBefore(p, m)) /\ IsFiniteSet(chars)
          BY <3>2, <3>3
        <4>2. IsFiniteSet(CharsBefore(p, m) \cup chars)
          BY <4>1, FS_Union
        <4>3. QED
          BY <3>3, <4>2
      <3>5. IsFiniteSet(CharsBefore(p, (n + 1) + 1))
        BY <3>4 DEF m
      <3>6. QED
        BY <2>1, <3>5
    <2>3. CASE ~(n + 1 <= Len(p))
      BY <2>1, <2>3
    <2>4. QED
      BY <2>2, <2>3
  <1> HIDE DEF Finite
  <1>3. Finite = Nat
    <2>1. Finite \in SUBSET Nat
      BY DEF Finite
    <2>2. QED
      BY <1>1, <1>2, <2>1, NumberInduction
  <1>4. k - 1 \in Finite /\ k - 1 <= Len(p) /\ (k - 1) + 1 = k
    BY <1>3
  <1>5. IsFiniteSet(CharsBefore(p, k))
    BY <1>4 DEF Finite
  <1>6. QED
    BY <1>5, FS_CardinalityType DEF SlashAt

(* The k-th name takes its size and the slash.                              *)
LEMMA SlashAtStep ==
    ASSUME NEW p \in Seq(Names), NEW k \in 1..Len(p)
    PROVE  SlashAt(p, k + 1) = SlashAt(p, k) + 1 + Size[p[k]]
  <1> DEFINE chars == {k} \X (0..Size[p[k]])
  <1>1. k \in 1..(Len(p) + 1)
    OBVIOUS
  <1>2. IsFiniteSet(CharsBefore(p, k)) /\ SlashAt(p, k) \in Nat
    BY <1>1, CharsFinite
  <1>3. /\ CharsBefore(p, k + 1) = CharsBefore(p, k) \cup chars
        /\ CharsBefore(p, k) \cap chars = {}
        /\ Size[p[k]] \in Nat
        /\ IsFiniteSet(chars) /\ Cardinality(chars) = 1 + Size[p[k]]
    BY CharsStep
  <1> HIDE DEF chars
  <1>4. Cardinality(CharsBefore(p, k) \cup chars)
          = Cardinality(CharsBefore(p, k)) + Cardinality(chars)
            - Cardinality(CharsBefore(p, k) \cap chars)
    <2>1. IsFiniteSet(CharsBefore(p, k)) /\ IsFiniteSet(chars)
      BY <1>2, <1>3
    <2>2. QED
      BY <2>1, FS_Union
  <1>5. Cardinality(CharsBefore(p, k) \cap chars) = 0
    BY <1>3, FS_EmptySet
  <1>6. /\ SlashAt(p, k) = Cardinality(CharsBefore(p, k))
        /\ SlashAt(p, k + 1) = Cardinality(CharsBefore(p, k) \cup chars)
    BY <1>3 DEF SlashAt
  <1>7. \A n, m \in Nat : n + (1 + m) - 0 = n + 1 + m
    OBVIOUS
  <1>8. QED
    BY <1>2, <1>3, <1>4, <1>5, <1>6, <1>7

(* The slashes come in the order of the names.                               *)
LEMMA SlashAtOrder ==
    ASSUME NEW p \in Seq(Names), NEW j \in 1..(Len(p) + 1), NEW k \in 1..(Len(p) + 1), j <= k
    PROVE  /\ SlashAt(p, j) \in Nat /\ SlashAt(p, k) \in Nat
           /\ SlashAt(p, j) <= SlashAt(p, k)
           /\ j < k => SlashAt(p, j) + 2 <= SlashAt(p, k)
  <1> DEFINE Reached == {n \in Nat : j + n <= Len(p) + 1 =>
                            /\ SlashAt(p, j + n) \in Nat
                            /\ SlashAt(p, j) <= SlashAt(p, j + n)
                            /\ n > 0 => SlashAt(p, j) + 2 <= SlashAt(p, j + n)}
  <1>1. SlashAt(p, j) \in Nat
    BY CharsFinite
  <1>2. 0 \in Reached
    BY <1>1
  <1>3. \A n \in Reached : n + 1 \in Reached
    <2> SUFFICES ASSUME NEW n \in Reached, j + (n + 1) <= Len(p) + 1
                 PROVE  /\ SlashAt(p, j + (n + 1)) \in Nat
                        /\ SlashAt(p, j) + 2 <= SlashAt(p, j + (n + 1))
      BY <1>1
    <2>1. /\ SlashAt(p, j + n) \in Nat
          /\ SlashAt(p, j) <= SlashAt(p, j + n)
      OBVIOUS
    <2>2. j + n \in 1..Len(p) /\ j + (n + 1) = (j + n) + 1
      OBVIOUS
    <2>3. Size[p[j + n]] \in Nat \ {0}
      BY <2>2, SizeAssumption
    <2>4. SlashAt(p, j + (n + 1)) = SlashAt(p, j + n) + 1 + Size[p[j + n]]
      BY <2>2, SlashAtStep
    <2>5. QED
      BY <1>1, <2>1, <2>3, <2>4
  <1> HIDE DEF Reached
  <1>4. Reached = Nat
    <2>1. Reached \in SUBSET Nat
      BY DEF Reached
    <2>2. QED
      BY <1>2, <1>3, <2>1, NumberInduction
  <1>5. k - j \in Reached /\ j + (k - j) = k
    BY <1>4
  <1>6. QED
    BY <1>1, <1>5 DEF Reached

(* The slashes of a path that begins with another are those of the other.     *)
LEMMA SlashAtPrefix ==
    ASSUME NEW p \in Seq(Names), NEW b \in Seq(Names), IsPrefix(b, p)
    PROVE  SlashAt(b, Len(b) + 1) = SlashAt(p, Len(b) + 1)
  <1>1. \A i \in 1..Len(b) : b[i] = p[i]
    BY UpwardsIsPrefix
  <1>2. 1..((Len(b) + 1) - 1) = 1..Len(b)
    OBVIOUS
  <1>3. {{i} \X (0..Size[b[i]]) : i \in 1..Len(b)} = {{i} \X (0..Size[p[i]]) : i \in 1..Len(b)}
    BY <1>1
  <1>4. QED
    BY <1>2, <1>3 DEF SlashAt, CharsBefore

-----------------------------------------------------------------------------
(* Depths.                                                                  *)

(* Of what is left of the string of a path, while its names are taken from its *)
(* end, just so much is longer than that of the base path as is below it.     *)
LEMMA NamesBelow ==
    ASSUME NEW p \in Seq(Names), NEW b \in Seq(Names), IsPrefix(b, p),
           b = <<>> /\ Len(p) > 1 => Size[p[1]] > 1,
           NEW k \in 1..Len(p)
    PROVE  (IF k = Len(p) THEN StringSize(p) ELSE SlashAt(p, k + 1) - 1) > StringSize(b)
              <=> k > Len(b)
  <1>1. Len(p) \in Nat \ {0} /\ Len(b) \in Nat /\ Len(b) <= Len(p) /\ p # <<>>
    BY UpwardsIsPrefix
  <1>2. StringSize(p) = SlashAt(p, Len(p) + 1)
    BY <1>1 DEF StringSize
  <1>3. /\ k + 1 \in 1..(Len(p) + 1) /\ Len(b) + 1 \in 1..(Len(p) + 1)
        /\ Len(p) + 1 \in 1..(Len(p) + 1) /\ 2 \in 1..(Len(p) + 1) /\ 2 <= k + 1
        /\ k \in Nat
    BY <1>1
  <1>4. SlashAt(p, k + 1) \in Nat /\ SlashAt(p, Len(p) + 1) \in Nat
    BY <1>3, CharsFinite
  <1>5. CASE b # <<>>
    <2>1. StringSize(b) = SlashAt(p, Len(b) + 1)
      BY <1>5, SlashAtPrefix DEF StringSize
    <2>2. SlashAt(p, Len(b) + 1) \in Nat
      BY <1>1, CharsFinite
    <2>3. CASE k > Len(b)
      <3>1. SlashAt(p, Len(b) + 1) + 2 <= SlashAt(p, k + 1)
        <4>1. Len(b) + 1 < k + 1 /\ Len(b) + 1 <= k + 1
          BY <1>1, <1>3, <2>3
        <4>2. QED
          BY <1>3, <4>1, SlashAtOrder
      <3>2. QED
        BY <1>1, <1>2, <1>3, <1>4, <2>1, <2>2, <2>3, <3>1
    <2>4. CASE k <= Len(b)
      <3>1. SlashAt(p, k + 1) <= SlashAt(p, Len(b) + 1)
        <4>1. k + 1 <= Len(b) + 1
          BY <1>1, <1>3, <2>4
        <4>2. QED
          BY <1>3, <4>1, SlashAtOrder
      <3>2. k = Len(p) => Len(b) = Len(p)
        BY <1>1, <2>4
      <3>3. k = Len(p) => StringSize(p) = StringSize(b)
        BY <1>2, <2>1, <3>2
      <3>4. StringSize(b) \in Nat
        BY <2>1, <2>2
      <3>5. QED
        BY <1>1, <1>4, <2>1, <2>4, <3>1, <3>3, <3>4
    <2>5. QED
      BY <1>1, <2>3, <2>4
  <1>6. CASE b = <<>>
    <2>1. StringSize(b) = 1 /\ k > Len(b)
      BY <1>6 DEF StringSize
    <2>2. 1 \in 1..Len(p) /\ 1 + 1 = 2 /\ Size[p[1]] \in Nat \ {0}
      BY <1>1, SizeAssumption
    <2>3. SlashAt(p, 1) \in Nat /\ SlashAt(p, 2) = SlashAt(p, 1) + 1 + Size[p[1]]
      BY <2>2, CharsFinite, SlashAtStep
    <2>4. SlashAt(p, 2) <= SlashAt(p, k + 1) /\ SlashAt(p, 2) <= SlashAt(p, Len(p) + 1)
      <3>1. 2 <= Len(p) + 1
        BY <1>1
      <3>2. QED
        BY <1>3, <3>1, SlashAtOrder
    <2>5. CASE k = Len(p)
      BY <1>1, <1>2, <1>3, <1>4, <2>1, <2>2, <2>3, <2>4, <2>5
    <2>6. CASE k # Len(p)
      <3>1. Len(p) > 1
        BY <1>1, <2>6
      <3>2. Size[p[1]] > 1
        BY <1>6, <3>1
      <3>3. SlashAt(p, 2) \in Nat /\ SlashAt(p, 2) >= 3
        BY <2>2, <2>3, <3>2
      <3>4. SlashAt(p, k + 1) - 1 > 1
        BY <1>4, <2>4, <3>3
      <3>5. QED
        BY <2>1, <2>6, <3>4
    <2>7. QED
      BY <2>5, <2>6
  <1>7. QED
    BY <1>5, <1>6

(* The beginning of a path is one of its string.                              *)
LEMMA PrefixIsBeginning ==
    ASSUME NEW p \in Seq(Names), NEW b \in Seq(Names), IsPrefix(b, p)
    PROVE  StringBeginsWith(p, b)
  <1>1. SUFFICES ASSUME b # <<>> PROVE StringBeginsWith(p, b)
    BY DEF StringBeginsWith
  <1>2. /\ Len(b) <= Len(p) /\ Len(b) \in Nat /\ Len(p) \in Nat
        /\ Len(b) \in 1..Len(b) /\ \A i \in 1..Len(b) : b[i] = p[i]
    BY <1>1, UpwardsIsPrefix
  <1>3. SubSeq(p, 1, Len(b) - 1) = SubSeq(b, 1, Len(b) - 1)
    BY <1>2
  <1>4. QED
    BY <1>2, <1>3 DEF StringBeginsWith, Front

(* getPathDepth() is the difference of the lengths of the paths.             *)
LEMMA PathDepthIsDifference ==
    ASSUME NEW p \in Seq(Names), NEW b \in Seq(Names), NEW m \in Nat,
           StringBeginsWith(p, b) => IsPrefix(b, p),
           b = <<>> /\ Len(p) > 1 => Size[p[1]] > 1
    PROVE  PathDepth(p, b, m) = IF IsPrefix(b, p) /\ Len(p) - Len(b) <= m
                                THEN Len(p) - Len(b) ELSE -1
  <1>1. Len(p) \in Nat /\ Len(b) \in Nat
    OBVIOUS
  <1>2. IsPrefix(b, p) => StringBeginsWith(p, b)
    BY PrefixIsBeginning
  <1>3. ASSUME IsPrefix(b, p)
        PROVE  Cardinality({k \in DOMAIN p :
                   (IF k = Len(p) THEN StringSize(p) ELSE SlashAt(p, k + 1) - 1) > StringSize(b)})
                 = Len(p) - Len(b)
    <2>1. DOMAIN p = 1..Len(p) /\ Len(b) <= Len(p)
      BY <1>3, UpwardsIsPrefix
    <2>2. \A k \in DOMAIN p :
             (IF k = Len(p) THEN StringSize(p) ELSE SlashAt(p, k + 1) - 1) > StringSize(b)
                <=> k > Len(b)
      BY <1>3, <2>1, NamesBelow
    <2>3. {k \in DOMAIN p :
             (IF k = Len(p) THEN StringSize(p) ELSE SlashAt(p, k + 1) - 1) > StringSize(b)}
            = (Len(b) + 1)..Len(p)
      BY <1>1, <2>1, <2>2
    <2>4. Cardinality((Len(b) + 1)..Len(p)) = Len(p) - Len(b)
      <3>1. PICK n \in Nat, l \in Nat : n = Len(p) /\ l = Len(b)
        BY <1>1
      <3>2. Cardinality((l + 1)..n) = IF l + 1 > n THEN 0 ELSE n - (l + 1) + 1
        BY FS_Interval
      <3>3. QED
        BY <2>1, <3>1, <3>2
    <2>5. QED
      BY <2>3, <2>4
  <1>4. QED
    BY <1>2, <1>3 DEF PathDepth

(* Whatever the names, it is -1 or at most the number of names.              *)
LEMMA PathDepthType ==
    ASSUME NEW p \in Seq(Names), NEW b, NEW m
    PROVE  PathDepth(p, b, m) \in -1..Len(p)
  <1> DEFINE names == {k \in DOMAIN p :
                   (IF k = Len(p) THEN StringSize(p) ELSE SlashAt(p, k + 1) - 1) > StringSize(b)}
  <1>1. DOMAIN p = 1..Len(p) /\ Len(p) \in Nat /\ 1 \in Int /\ Len(p) \in Int
    OBVIOUS
  <1>2. IsFiniteSet(1..Len(p)) /\ Cardinality(1..Len(p)) = Len(p)
    BY <1>1, FS_Interval
  <1>3. Cardinality(names) \in Nat /\ Cardinality(names) <= Len(p)
    <2>1. names \in SUBSET (1..Len(p))
      BY <1>1
    <2> HIDE DEF names
    <2>2. QED
      BY <1>2, <2>1, FS_Subset, FS_CardinalityType
  <1>4. PathDepth(p, b, m) = IF StringBeginsWith(p, b) /\ Cardinality(names) <= m
                             THEN Cardinality(names) ELSE -1
    BY DEF PathDepth
  <1> HIDE DEF names
  <1>5. QED
    BY <1>1, <1>3, <1>4

-----------------------------------------------------------------------------
(* ToWatchDirs.                                                             *)

(* Directories have paths of names, and so do zones, files and fakes.        *)
LEMMA PathTypes ==
    /\ <<>> \in Tree
    /\ \A p \in Tree : p \in Seq(Names) /\ Upwards(p) \subseteq Tree /\ p \in Upwards(p)
    /\ \A p \in Tree : p # <<>> => ParentOf(p) \in Tree /\ NameOf(p) \in Names
    /\ \A z \in AllZones : z.path \in Tree /\ z.maxDepth \in Nat
    /\ \A f \in AllFiles : f.dir \in Tree /\ f.name \in Names
    /\ FakePaths \subseteq Seq(Names)
  <1>1. /\ <<>> \in Tree
        /\ \A p \in Tree : p \in Seq(Names) /\ Upwards(p) \subseteq Tree
    BY TreeAssumption
  <1>2. \A p \in Tree : p \in Upwards(p) /\ (p # <<>> => ParentOf(p) \in Tree /\ NameOf(p) \in Names)
    <2> TAKE p \in Tree
    <2>1. p \in Seq(Names) /\ Upwards(p) \subseteq Tree
      BY <1>1
    <2>2. /\ p \in Upwards(p)
          /\ p # <<>> => ParentOf(p) \in Upwards(p) /\ NameOf(p) \in Names
      BY <2>1, PathParts
    <2>3. QED
      BY <2>1, <2>2
  <1>3. QED
    BY <1>1, <1>2, ConfigAssumption DEF DirectoryZone

(* A new ToWatchDir is one.                                                 *)
LEMMA OwnedType ==
    ASSUME TypeOK, NEW p \in Tree
    PROVE  Owned(p) \in ToWatchDir
  <1> DEFINE depth == IF Owners(p) = {} THEN 0
                      ELSE CHOOSE d \in 0..Len(p) :
                              \E z \in Owners(p) : d = PathDepth(p, z.path, z.maxDepth)
  <1>1. p \in Seq(Names) /\ Len(p) \in Nat
    BY PathTypes
  <1>2. Owners(p) \subseteq zones /\ zones \subseteq AllZones
    BY DEF Owners, TypeOK
  <1>3. ASSUME Owners(p) # {}
        PROVE  \E d \in 0..Len(p) : \E z \in Owners(p) : d = PathDepth(p, z.path, z.maxDepth)
    <2>1. PICK z \in Owners(p) : PathDepth(p, z.path, z.maxDepth) >= 0
      BY <1>3 DEF Owners
    <2>2. PathDepth(p, z.path, z.maxDepth) \in -1..Len(p)
      BY <1>1, PathDepthType
    <2>3. PathDepth(p, z.path, z.maxDepth) \in 0..Len(p)
      BY <1>1, <2>1, <2>2
    <2>4. QED
      BY <2>3
  <1>4. depth \in Nat
    <2>1. CASE Owners(p) = {}
      BY <2>1
    <2>2. CASE Owners(p) # {}
      <3>1. depth \in 0..Len(p)
        BY <1>3, <2>2
      <3>2. QED
        BY <3>1
    <2>3. QED
      BY <2>1, <2>2
  <1>5. {z.path : z \in Owners(p)} \in SUBSET Tree
    BY <1>2, PathTypes
  <1>6. Owned(p) = [owner |-> {z.path : z \in Owners(p)}, depth |-> depth,
                    leaf |-> \A z \in Owners(p) : depth = z.maxDepth,
                    exists |-> p \in disk, watched |-> FALSE, pinnedDirs |-> {}, pinnedFiles |-> {}]
    BY DEF Owned
  <1> HIDE DEF depth
  <1>7. (\A z \in Owners(p) : depth = z.maxDepth) \in BOOLEAN /\ (p \in disk) \in BOOLEAN
    OBVIOUS
  <1>8. QED
    BY <1>4, <1>5, <1>6, <1>7 DEF ToWatchDir

(* What is pinned are names.                                                *)
LEMMA PinnedType ==
    ASSUME NEW p \in Tree, NEW q, NEW new
    PROVE  Pinned(p, q, new) \in SUBSET Names
  <1>1. \A i \in DOMAIN p : p[i] \in Names
    BY PathTypes
  <1>2. QED
    BY <1>1 DEF Pinned

(* To fill a gap makes ToWatchDirs of directories above the path.            *)
LEMMA WithGapFilledType ==
    ASSUME TypeOK, NEW p \in Tree, NEW new \in SUBSET Upwards(p)
    PROVE  /\ DOMAIN WithGapFilled(p, new) = DOMAIN dirs \cup new
           /\ DOMAIN WithGapFilled(p, new) \subseteq Tree
           /\ \A q \in DOMAIN dirs \cup new : WithGapFilled(p, new)[q] \in ToWatchDir
  <1>1. new \subseteq Tree /\ DOMAIN dirs \subseteq Tree
    BY PathTypes DEF TypeOK
  <1>2. DOMAIN WithGapFilled(p, new) = DOMAIN dirs \cup new
    BY DEF WithGapFilled
  <1>3. ASSUME NEW q \in new
        PROVE  [Owned(q) EXCEPT !.pinnedDirs = Pinned(p, q, new), !.watched = q \in Watching(new)]
                 \in ToWatchDir
    <2>1. Owned(q) \in ToWatchDir
      BY <1>1, OwnedType
    <2>2. Pinned(p, q, new) \in SUBSET Names
      BY PinnedType
    <2>3. (q \in Watching(new)) \in BOOLEAN
      OBVIOUS
    <2>4. QED
      BY <2>1, <2>2, <2>3 DEF ToWatchDir
  <1>4. ASSUME NEW q \in DOMAIN dirs
        PROVE  [dirs[q] EXCEPT !.pinnedDirs = @ \cup Pinned(p, q, new)] \in ToWatchDir
    <2>1. dirs[q] \in ToWatchDir
      BY DEF TypeOK
    <2>2. Pinned(p, q, new) \in SUBSET Names
      BY PinnedType
    <2>3. QED
      BY <2>1, <2>2 DEF ToWatchDir
  <1>5. \A q \in DOMAIN dirs : dirs[q] \in ToWatchDir
    BY DEF TypeOK
  <1>6. QED
    BY <1>1, <1>2, <1>3, <1>4, <1>5 DEF WithGapFilled

-----------------------------------------------------------------------------
(* Types.                                                                   *)

(* To give up forgets what was to be done.                                  *)
LEMMA GiveUpType ==
    ASSUME TypeOK, GiveUp, DOMAIN dirs' \subseteq Tree,
           \A p \in DOMAIN dirs' : dirs'[p] \in ToWatchDir
    PROVE  TypeOK'
  BY DEF TypeOK, GiveUp, config

(* So does the end of the program.                                          *)
LEMMA AbortType ==
    ASSUME TypeOK, Abort
    PROVE  TypeOK'
  BY DEF TypeOK, Abort, config

(* So does every step of filling a gap, or it does one zone or file.         *)
LEMMA FillTheGapsType ==
    ASSUME TypeOK, NEW p \in Tree, NEW e, NEW filled, FillTheGaps(p, e, filled),
           DOMAIN filled \subseteq Tree, \A q \in DOMAIN filled : filled[q] \in ToWatchDir
    PROVE  TypeOK'
  <1>1. CASE GapTooLong(p) /\ GiveUp
    <2> DEFINE made == {q \in Gap(p) : Len(p) - Len(q) < Room}
    <2>1. dirs' = [q \in DOMAIN dirs \cup made |->
                      IF q \in made THEN [Owned(q) EXCEPT !.pinnedDirs = Pinned(p, q, made)]
                                    ELSE dirs[q]]
      BY <1>1 DEF GapTooLong
    <2>2. made \subseteq Tree
      BY PathTypes DEF Gap
    <2> HIDE DEF made
    <2>3. ASSUME NEW q \in made
          PROVE  [Owned(q) EXCEPT !.pinnedDirs = Pinned(p, q, made)] \in ToWatchDir
      <3>1. Owned(q) \in ToWatchDir /\ Pinned(p, q, made) \in SUBSET Names
        BY <2>2, OwnedType, PinnedType
      <3>2. QED
        BY <3>1 DEF ToWatchDir
    <2>4. DOMAIN dirs \subseteq Tree /\ \A q \in DOMAIN dirs : dirs[q] \in ToWatchDir
      BY DEF TypeOK
    <2>5. DOMAIN dirs' \subseteq Tree /\ \A q \in DOMAIN dirs' : dirs'[q] \in ToWatchDir
      BY <2>1, <2>2, <2>3, <2>4
    <2>6. QED
      BY <1>1, <2>5, GiveUpType
  <1>2. CASE /\ dirs' = filled
             /\ todo' = todo \ {e}
             /\ UNCHANGED <<running, stage, toVisit>> /\ UNCHANGED config
    BY <1>2 DEF TypeOK, config
  <1>3. CASE NoRoomInGap(p) /\ GiveUp
    <2>1. PICK g : g = WithGapFilled(p, Gap(p))
      OBVIOUS
    <2>2. DOMAIN g \subseteq Tree /\ \A d \in DOMAIN g : g[d] \in ToWatchDir
      <3>1. Gap(p) \in SUBSET Upwards(p)
        BY DEF Gap
      <3>2. QED
        BY <2>1, <3>1, WithGapFilledType
    <2>3. PICK q : dirs' = [d \in DOMAIN g |-> IF d \in Gap(p) /\ Len(d) >= Len(q)
                                            THEN [g[d] EXCEPT !.watched = FALSE] ELSE g[d]]
      BY <1>3, <2>1 DEF NoRoomInGap
    <2>4. \A d \in DOMAIN g : [g[d] EXCEPT !.watched = FALSE] \in ToWatchDir
      BY <2>2 DEF ToWatchDir
    <2>5. DOMAIN dirs' \subseteq Tree /\ \A d \in DOMAIN dirs' : dirs'[d] \in ToWatchDir
      BY <2>2, <2>3, <2>4
    <2>6. QED
      BY <1>3, <2>5, GiveUpType
  <1>4. QED
    BY <1>1, <1>2, <1>3, AbortType DEF FillTheGaps

(* So does the visit of a directory.                                        *)
LEMMA CreateToWatchDirType ==
    ASSUME TypeOK, NEW p \in Tree, CreateToWatchDir(p)
    PROVE  TypeOK'
  <1> DEFINE dir == IF p \in DOMAIN dirs THEN dirs[p] ELSE Owned(p)
             new == IF dir.watched THEN {} ELSE {p}
             With(watched) == [q \in DOMAIN dirs \cup {p} |->
                                  IF q = p THEN [dir EXCEPT !.watched = watched] ELSE dirs[q]]
             visited == (toVisit \ {p}) \cup
                           (IF running /\ ~dirs'[p].watched THEN {} ELSE Subdirectories(p, dir))
             watches == dir.watched \/ p \in Watching(new)
  <1>1. \/ toVisit' = toVisit \ {p} /\ UNCHANGED <<running, stage, todo, dirs>> /\ UNCHANGED config
        \/ /\ dirs' = With(watches)
           /\ toVisit' = visited
           /\ UNCHANGED <<running, stage, todo>> /\ UNCHANGED config
        \/ dirs' = With(FALSE) /\ GiveUp
        \/ Abort
        \/ GiveUp /\ UNCHANGED dirs
    BY DEF CreateToWatchDir
  <1>2. dir \in ToWatchDir
    BY OwnedType DEF TypeOK
  <1>3. watches \in BOOLEAN
    OBVIOUS
  <1>4. visited \subseteq toVisit \cup disk
    BY DEF Subdirectories
  <1> HIDE DEF dir, visited, watches
  <1>5. ASSUME NEW watched \in BOOLEAN, dirs' = With(watched)
        PROVE  DOMAIN dirs' \subseteq Tree /\ \A q \in DOMAIN dirs' : dirs'[q] \in ToWatchDir
    <2>1. [dir EXCEPT !.watched = watched] \in ToWatchDir
      BY <1>2 DEF ToWatchDir
    <2>2. QED
      BY <1>5, <2>1 DEF TypeOK
  <1> HIDE DEF With
  <1>6. CASE toVisit' = toVisit \ {p} /\ UNCHANGED <<running, stage, todo, dirs>> /\ UNCHANGED config
    BY <1>6 DEF TypeOK, config
  <1>7. CASE GiveUp /\ (UNCHANGED dirs \/ dirs' = With(FALSE))
    BY <1>5, <1>7, GiveUpType DEF TypeOK
  <1>8. CASE /\ dirs' = With(watches)
             /\ toVisit' = visited
             /\ UNCHANGED <<running, stage, todo>> /\ UNCHANGED config
    <2>1. DOMAIN dirs' \subseteq Tree /\ \A q \in DOMAIN dirs' : dirs'[q] \in ToWatchDir
      BY <1>3, <1>5, <1>8
    <2>2. QED
      BY <1>4, <1>8, <2>1 DEF TypeOK, config
  <1>9. QED
    BY <1>1, <1>6, <1>7, <1>8, AbortType

(* There is no ToWatchDir in the beginning.                                 *)
LEMMA NoDirs == DOMAIN << >> = {}
  OBVIOUS

(* All variables keep their types, whatever the names and the filters.       *)
THEOREM TypeCorrect == Spec => []TypeOK
  <1>1. Init => TypeOK
    <2> SUFFICES ASSUME Init PROVE TypeOK
      OBVIOUS
    <2>1. DOMAIN dirs = {}
      BY NoDirs DEF Init
    <2>2. QED
      BY <2>1 DEF Init, TypeOK
  <1>2. TypeOK /\ [Next]_vars => TypeOK'
    <2> SUFFICES ASSUME TypeOK, [Next]_vars PROVE TypeOK'
      OBVIOUS
    <2>1. ASSUME NEW z \in AllZones, AddDirectoryZone(z) \/ RemoveDirectoryZone(z) PROVE TypeOK'
      BY <2>1 DEF AddDirectoryZone, RemoveDirectoryZone, TypeOK
    <2>2. ASSUME NEW f \in AllFiles, AddToWatchFile(f) \/ RemoveToWatchFile(f) PROVE TypeOK'
      BY <2>2 DEF AddToWatchFile, RemoveToWatchFile, TypeOK
    <2>3. ASSUME CalcToWatchDirectories \/ Start PROVE TypeOK'
      <3>1. PICK run \in BOOLEAN : Setup(run)
        BY <2>3 DEF CalcToWatchDirectories, Start
      <3>2. QED
        <4>1. DOMAIN dirs' = {}
          BY <3>1, NoDirs DEF Setup
        <4>2. /\ zones' = zones /\ files' = files /\ toVisit' = toVisit
              /\ disk' = disk /\ denied' = denied
              /\ setups' = setups + 1 /\ running' = run /\ stage' = "zone gaps" /\ todo' = zones
          BY <3>1 DEF Setup
        <4>3. DOMAIN dirs' \subseteq Tree /\ \A p \in DOMAIN dirs' : dirs'[p] \in ToWatchDir
          BY <4>1
        <4>4. setups' \in Nat
          <5>1. setups \in Nat
            BY DEF TypeOK
          <5>2. setups' = setups + 1
            BY <4>2
          <5>3. QED
            BY <5>1, <5>2
        <4>5. running' \in BOOLEAN
          BY <4>2
        <4>6. QED
          BY <4>2, <4>3, <4>4, <4>5 DEF TypeOK
    <2>4. ASSUME NEW z \in AllZones, FillZoneGaps(z) PROVE TypeOK'
      <3>1. z.path \in Tree /\ Gap(z.path) \in SUBSET Upwards(z.path)
        BY PathTypes DEF Gap
      <3>2. FillTheGaps(z.path, z, WithGapFilled(z.path, Gap(z.path)))
        BY <2>4 DEF FillZoneGaps
      <3>3. QED
        BY <3>1, <3>2, FillTheGapsType, WithGapFilledType
    <2>5. ASSUME NEW z \in AllZones, CreateZone(z) PROVE TypeOK'
      <3>1. toVisit' \subseteq disk
        BY <2>5 DEF CreateZone, Subdirectories
      <3>2. QED
        BY <2>5, <3>1 DEF CreateZone, TypeOK, config
    <2>6. ASSUME NEW f \in AllFiles, FillFileGaps(f) PROVE TypeOK'
      <3> DEFINE gapless == WithGapFilled(f.dir, Gap(f.dir))
                 filled  == [gapless EXCEPT ![f.dir].pinnedFiles = @ \cup {f.name}]
      <3>1. f.dir \in Tree /\ f.name \in Names /\ Gap(f.dir) \in SUBSET Upwards(f.dir)
        BY PathTypes DEF Gap
      <3>2. FillTheGaps(f.dir, f, filled)
        BY <2>6 DEF FillFileGaps
      <3>3. DOMAIN gapless \subseteq Tree /\ \A q \in DOMAIN gapless : gapless[q] \in ToWatchDir
        BY <3>1, WithGapFilledType
      <3> HIDE DEF gapless
      <3>4. DOMAIN filled \subseteq Tree /\ \A q \in DOMAIN filled : filled[q] \in ToWatchDir
        BY <3>1, <3>3 DEF ToWatchDir
      <3> HIDE DEF filled
      <3>5. QED
        BY <3>1, <3>2, <3>4, FillTheGapsType
    <2>7. ASSUME NEW p \in Tree, CreateToWatchDir(p) PROVE TypeOK'
      BY <2>7, CreateToWatchDirType
    <2>8. CASE NextStage
      BY <2>8 DEF NextStage, TypeOK, config
    <2>9. CASE Stop
      BY <2>9 DEF Stop, TypeOK, config
    <2>10. CASE UNCHANGED vars \/ Aborted
      BY <2>10 DEF TypeOK, vars, Aborted
    <2>11. QED
      BY <2>1, <2>2, <2>3, <2>4, <2>5, <2>6, <2>7, <2>8, <2>9, <2>10
      DEF Next, Configure, InitialSetup
  <1>3. QED
    BY <1>1, <1>2, PTL DEF Spec

-----------------------------------------------------------------------------
(* What the steps of initialSetup() do to the ToWatchDirs.                    *)

\* Nothing is taken away, and what is new is as Owned() has it.
Grows ==
    /\ UNCHANGED <<disk, denied, zones, files, running>>
    /\ DOMAIN dirs \subseteq DOMAIN dirs'
    /\ \A q \in DOMAIN dirs :
          /\ dirs'[q].owner = dirs[q].owner
          /\ dirs'[q].depth = dirs[q].depth
          /\ dirs'[q].leaf = dirs[q].leaf
          /\ dirs[q].pinnedDirs \subseteq dirs'[q].pinnedDirs
          /\ dirs[q].pinnedFiles \subseteq dirs'[q].pinnedFiles
          /\ dirs[q].watched => dirs'[q].watched
          /\ dirs'[q].watched => dirs[q].watched \/ (running /\ Watchable(q))
    /\ \A q \in DOMAIN dirs' \ DOMAIN dirs :
          /\ dirs'[q].owner = Owned(q).owner
          /\ dirs'[q].depth = Owned(q).depth
          /\ dirs'[q].leaf = Owned(q).leaf
          /\ dirs'[q].watched <=> running /\ Watchable(q)
          /\ running => ~InFakeFS(q)
    /\ \A q \in DOMAIN dirs' : \A n \in dirs'[q].pinnedDirs :
          \/ q \in DOMAIN dirs /\ n \in dirs[q].pinnedDirs
          \/ Append(q, n) \in OnTheWay

\* Those of p and the directories above it are there, and pinned where they are new.
Fills(p) ==
    /\ DOMAIN dirs' = DOMAIN dirs \cup Upwards(p)
    /\ \A q \in Upwards(p) \ DOMAIN dirs :
          q # <<>> => NameOf(q) \in dirs'[ParentOf(q)].pinnedDirs

\* A directory that has a ToWatchDir, or passes the filters in its parent, is entered.
Visits(p) ==
    /\ p \in toVisit
    /\ \/ /\ \/ FilteredOutSubDir(dirs[ParentOf(p)], p)
             \/ p \in DOMAIN dirs /\ dirs[p].owner # dirs[ParentOf(p)].owner
          /\ dirs' = dirs /\ toVisit' = toVisit \ {p}
       \/ /\ ~FilteredOutSubDir(dirs[ParentOf(p)], p)
          /\ DOMAIN dirs' = DOMAIN dirs \cup {p}
          /\ toVisit' = (toVisit \ {p}) \cup (IF running /\ ~dirs'[p].watched THEN {}
                                              ELSE Subdirectories(p, dirs'[p]))

(* The names that are pinned on the way to p are those of the new directories. *)
LEMMA PinnedNames ==
    ASSUME NEW p \in Seq(Names), NEW q \in Upwards(p), NEW new
    PROVE  /\ \A n \in Pinned(p, q, new) : Append(q, n) \in Upwards(p)
           /\ q # <<>> /\ q \in new => NameOf(q) \in Pinned(p, ParentOf(q), new)
  <1>1. q \in Seq(Names) /\ Len(q) \in Nat /\ Len(p) \in Nat
    BY PathParts
  <1>2. /\ Len(q) <= Len(p)
        /\ \A i \in 1..Len(q) : q[i] = p[i]
        /\ q = SubSeq(p, 1, Len(q))
    BY <1>1, UpwardsIsPrefix
  <1>3. ASSUME NEW n \in Pinned(p, q, new) PROVE Append(q, n) \in Upwards(p)
    <2>1. PICK k \in DOMAIN p : n = p[k] /\ k = Len(q) + 1
      BY DEF Pinned
    <2>2. Append(q, n) = SubSeq(p, 1, Len(q) + 1)
      BY <1>1, <1>2, <2>1
    <2>3. Len(q) + 1 \in 0..Len(p)
      BY <1>1, <2>1
    <2>4. QED
      BY <2>2, <2>3 DEF Upwards
  <1>4. ASSUME q # <<>>, q \in new PROVE NameOf(q) \in Pinned(p, ParentOf(q), new)
    <2>1. Len(ParentOf(q)) = Len(q) - 1 /\ Len(q) > 0
      BY <1>1, <1>4, PathParts
    <2>2. Len(q) \in DOMAIN p /\ Len(q) = Len(ParentOf(q)) + 1 /\ Len(q) \in 1..Len(q)
      BY <1>1, <1>2, <2>1
    <2>3. NameOf(q) = p[Len(q)] /\ SubSeq(p, 1, Len(q)) \in new
      BY <1>2, <1>4, <2>2 DEF NameOf, Last
    <2>4. QED
      BY <2>2, <2>3 DEF Pinned
  <1>5. QED
    BY <1>3, <1>4

(* Filling a gap keeps what was there, and makes the way to p.               *)
LEMMA FillGrows ==
    ASSUME TypeOK, NEW p \in Tree, Upwards(p) \subseteq OnTheWay, ~Asserts(Gap(p)),
           UNCHANGED <<disk, denied, zones, files, running>>,
           DOMAIN dirs' = DOMAIN WithGapFilled(p, Gap(p)),
           \A q \in DOMAIN dirs' :
              /\ dirs'[q].owner = WithGapFilled(p, Gap(p))[q].owner
              /\ dirs'[q].depth = WithGapFilled(p, Gap(p))[q].depth
              /\ dirs'[q].leaf = WithGapFilled(p, Gap(p))[q].leaf
              /\ dirs'[q].watched = WithGapFilled(p, Gap(p))[q].watched
              /\ dirs'[q].pinnedDirs = WithGapFilled(p, Gap(p))[q].pinnedDirs
              /\ WithGapFilled(p, Gap(p))[q].pinnedFiles \subseteq dirs'[q].pinnedFiles
    PROVE  Grows /\ Fills(p)
  <1> DEFINE new == Gap(p)
             g   == WithGapFilled(p, new)
  <1>1. p \in Seq(Names) /\ Upwards(p) \subseteq Tree /\ new = Upwards(p) \ DOMAIN dirs
    BY PathTypes DEF Gap
  <1>2. DOMAIN g = DOMAIN dirs \cup Upwards(p) /\ DOMAIN g = DOMAIN dirs'
    BY <1>1 DEF WithGapFilled
  <1>3. ASSUME NEW q \in new
        PROVE  /\ g[q].owner = Owned(q).owner
               /\ g[q].depth = Owned(q).depth
               /\ g[q].leaf = Owned(q).leaf
               /\ g[q].watched <=> running /\ Watchable(q)
               /\ running => ~InFakeFS(q)
               /\ g[q].pinnedDirs = Pinned(p, q, new)
    <2>1. g[q] = [Owned(q) EXCEPT !.pinnedDirs = Pinned(p, q, new), !.watched = q \in Watching(new)]
      BY DEF WithGapFilled
    <2>2. Owned(q) \in ToWatchDir
      BY <1>1, <1>3, OwnedType
    <2>3. q \in Watching(new) <=> running /\ Watchable(q)
      BY <1>3 DEF Watching
    <2>4. running => ~InFakeFS(q)
      BY <1>3 DEF Asserts
    <2> HIDE DEF g, new
    <2>5. QED
      BY <2>1, <2>2, <2>3, <2>4 DEF ToWatchDir
  <1>4. ASSUME NEW q \in DOMAIN dirs
        PROVE  /\ g[q].owner = dirs[q].owner
               /\ g[q].depth = dirs[q].depth
               /\ g[q].leaf = dirs[q].leaf
               /\ g[q].watched = dirs[q].watched
               /\ g[q].pinnedFiles = dirs[q].pinnedFiles
               /\ IF q \in Upwards(p) THEN g[q].pinnedDirs = dirs[q].pinnedDirs \cup Pinned(p, q, new)
                                      ELSE g[q].pinnedDirs = dirs[q].pinnedDirs
    <2>1. g[q] = IF q \in Upwards(p) THEN [dirs[q] EXCEPT !.pinnedDirs = @ \cup Pinned(p, q, new)]
                 ELSE dirs[q]
      BY <1>1 DEF WithGapFilled
    <2>2. dirs[q] \in ToWatchDir
      BY DEF TypeOK
    <2> HIDE DEF g, new
    <2>3. QED
      BY <2>1, <2>2 DEF ToWatchDir
  <1>5. \A q \in DOMAIN dirs' :
           /\ dirs'[q].owner = g[q].owner
           /\ dirs'[q].depth = g[q].depth
           /\ dirs'[q].leaf = g[q].leaf
           /\ dirs'[q].watched = g[q].watched
           /\ dirs'[q].pinnedDirs = g[q].pinnedDirs
           /\ g[q].pinnedFiles \subseteq dirs'[q].pinnedFiles
    OBVIOUS
  <1> HIDE DEF g, new
  <1>6. ASSUME NEW q \in DOMAIN dirs', NEW n \in dirs'[q].pinnedDirs
        PROVE  (q \in DOMAIN dirs /\ n \in dirs[q].pinnedDirs) \/ Append(q, n) \in OnTheWay
    <2>1. CASE q \in Upwards(p) /\ n \in Pinned(p, q, new)
      BY <1>1, <2>1, PinnedNames
    <2>2. n \in g[q].pinnedDirs /\ (q \in DOMAIN dirs \/ q \in new)
      BY <1>1, <1>2, <1>5, <1>6
    <2>3. CASE q \in new
      BY <1>1, <1>3, <2>1, <2>2, <2>3
    <2>4. CASE q \in DOMAIN dirs
      BY <1>4, <2>1, <2>2, <2>4
    <2>5. QED
      BY <2>2, <2>3, <2>4
  <1>7. ASSUME NEW q \in Upwards(p) \ DOMAIN dirs, q # <<>>
        PROVE  NameOf(q) \in dirs'[ParentOf(q)].pinnedDirs
    <2>1. q \in Seq(Names)
      BY <1>1, PathParts
    <2>2. ParentOf(q) \in Upwards(p)
      <3>1. ParentOf(q) \in Seq(Names) /\ ParentOf(q) \in Upwards(q)
        BY <1>7, <2>1, PathParts
      <3>2. IsPrefix(ParentOf(q), q) /\ IsPrefix(q, p)
        BY <1>1, <1>7, <2>1, <3>1, UpwardsIsPrefix
      <3>3. IsPrefix(ParentOf(q), p)
        BY <1>1, <2>1, <3>1, <3>2, UpwardsIsPrefix
      <3>4. QED
        BY <1>1, <3>1, <3>3, UpwardsIsPrefix
    <2>3. NameOf(q) \in Pinned(p, ParentOf(q), new)
      BY <1>1, <1>7, PinnedNames
    <2>4. ParentOf(q) \in DOMAIN dirs' /\ (ParentOf(q) \in DOMAIN dirs \/ ParentOf(q) \in new)
      BY <1>1, <1>2, <2>2
    <2>5. QED
      BY <1>3, <1>4, <1>5, <2>2, <2>3, <2>4
  <1>8. DOMAIN dirs' \ DOMAIN dirs = new
    BY <1>1, <1>2
  <1>9. Grows
    BY <1>2, <1>3, <1>4, <1>5, <1>6, <1>8 DEF Grows
  <1>10. QED
    BY <1>2, <1>7, <1>9 DEF Fills

(* The visit of a directory keeps what was there, and adds that one at most.  *)
LEMMA VisitGrows ==
    ASSUME TypeOK, NEW p \in Tree, CreateToWatchDir(p)
    PROVE  \/ Grows /\ Visits(p) /\ UNCHANGED <<stage, todo>>
           \/ GiveUp
           \/ Abort
  <1> DEFINE dir == IF p \in DOMAIN dirs THEN dirs[p] ELSE Owned(p)
             new == IF dir.watched THEN {} ELSE {p}
             watches == dir.watched \/ p \in Watching(new)
  <1>1. dir \in ToWatchDir
    BY OwnedType DEF TypeOK
  <1>2. /\ watches <=> dir.watched \/ (running /\ Watchable(p))
        /\ ~Asserts(new) /\ ~dir.watched => (running => ~InFakeFS(p))
    BY DEF Watching, Asserts
  <1>3. p \notin DOMAIN dirs => dir = Owned(p) /\ dir.watched = FALSE /\ dir.pinnedDirs = {}
    BY DEF Owned
  <1>4. p \in DOMAIN dirs => dir = dirs[p]
    OBVIOUS
  <1>5. CASE /\ FilteredOutSubDir(dirs[ParentOf(p)], p) \/ (p \in DOMAIN dirs /\ dir.owner # dirs[ParentOf(p)].owner)
             /\ toVisit' = toVisit \ {p}
             /\ UNCHANGED <<running, stage, todo, dirs>> /\ UNCHANGED config
    <2>1. Grows
      BY <1>5 DEF Grows, config
    <2>2. p \in toVisit
      BY DEF CreateToWatchDir
    <2>3. QED
      BY <1>4, <1>5, <2>1, <2>2 DEF Visits
  <1>6. CASE /\ ~FilteredOutSubDir(dirs[ParentOf(p)], p)
             /\ ~Asserts(new)
             /\ dirs' = [q \in DOMAIN dirs \cup {p} |->
                            IF q = p THEN [dir EXCEPT !.watched = watches] ELSE dirs[q]]
             /\ toVisit' = (toVisit \ {p}) \cup
                     (IF running /\ ~dirs'[p].watched THEN {} ELSE Subdirectories(p, dir))
             /\ UNCHANGED <<running, stage, todo>> /\ UNCHANGED config
    <2>1. DOMAIN dirs' = DOMAIN dirs \cup {p}
      BY <1>6
    <2> HIDE DEF dir, new, watches
    <2>2. /\ dirs'[p].owner = dir.owner /\ dirs'[p].depth = dir.depth /\ dirs'[p].leaf = dir.leaf
          /\ dirs'[p].pinnedDirs = dir.pinnedDirs /\ dirs'[p].pinnedFiles = dir.pinnedFiles
          /\ dirs'[p].watched = watches
      <3>1. dirs'[p] = [dir EXCEPT !.watched = watches]
        BY <1>6
      <3>2. QED
        BY <1>1, <3>1 DEF ToWatchDir
    <2>3. \A q \in DOMAIN dirs : q # p => dirs'[q] = dirs[q]
      BY <1>6
    <2>4. \A q \in DOMAIN dirs : q = p => dir = dirs[q]
      BY <1>4
    <2>5. Grows
      <3>1. \A q \in DOMAIN dirs :
              /\ dirs'[q].owner = dirs[q].owner
              /\ dirs'[q].depth = dirs[q].depth
              /\ dirs'[q].leaf = dirs[q].leaf
              /\ dirs[q].pinnedDirs \subseteq dirs'[q].pinnedDirs
              /\ dirs[q].pinnedFiles \subseteq dirs'[q].pinnedFiles
              /\ dirs[q].watched => dirs'[q].watched
              /\ dirs'[q].watched => dirs[q].watched \/ (running /\ Watchable(q))
        BY <1>2, <2>2, <2>3, <2>4
      <3>2. \A q \in DOMAIN dirs' \ DOMAIN dirs :
              /\ q = p /\ dir = Owned(q) /\ dirs'[q].pinnedDirs = {}
              /\ dirs'[q].owner = Owned(q).owner
              /\ dirs'[q].depth = Owned(q).depth
              /\ dirs'[q].leaf = Owned(q).leaf
              /\ dirs'[q].watched <=> running /\ Watchable(q)
              /\ running => ~InFakeFS(q)
        BY <1>2, <1>3, <1>6, <2>1, <2>2
      <3>3. \A q \in DOMAIN dirs : dirs'[q].pinnedDirs = dirs[q].pinnedDirs
        BY <2>2, <2>3, <2>4
      <3>4. UNCHANGED <<disk, denied, zones, files, running>>
        BY <1>6 DEF config
      <3>5. QED
        BY <2>1, <3>1, <3>2, <3>3, <3>4 DEF Grows
    <2>6. Subdirectories(p, dir) = Subdirectories(p, dirs'[p])
      BY <2>2 DEF Subdirectories
    <2>7. p \in toVisit
      BY DEF CreateToWatchDir
    <2>8. Visits(p)
      BY <1>6, <2>1, <2>6, <2>7 DEF Visits
    <2>9. QED
      BY <1>6, <2>5, <2>8
  <1>7. QED
    BY <1>5, <1>6 DEF CreateToWatchDir

-----------------------------------------------------------------------------
(* The steps of initialSetup() that do not give up.                          *)

Begun ==
    /\ ~Active
    /\ zones # {} \/ files # {}
    /\ DOMAIN dirs' = {} /\ stage' = "zone gaps" /\ todo' = zones /\ toVisit' = {}
    /\ UNCHANGED <<disk, denied, zones, files>>

ZoneFilled(z) ==
    /\ stage = "zone gaps" /\ z \in todo
    /\ Grows /\ Fills(z.path)
    /\ todo' = todo \ {z} /\ UNCHANGED <<stage, toVisit>>

FileFilled(f) ==
    /\ stage = "file gaps" /\ f \in todo
    /\ Grows /\ Fills(f.dir) /\ f.name \in dirs'[f.dir].pinnedFiles
    /\ todo' = todo \ {f} /\ UNCHANGED <<stage, toVisit>>

ZoneEntered(z) ==
    /\ stage = "create" /\ z \in todo /\ toVisit = {}
    /\ toVisit' = Subdirectories(z.path, dirs[z.path])
    /\ todo' = todo \ {z}
    /\ UNCHANGED <<stage, dirs, disk, denied, zones, files, running>>

Visited(p) == stage = "create" /\ Grows /\ Visits(p) /\ UNCHANGED <<stage, todo>>

StageDone ==
    /\ todo = {} /\ stage # "idle" /\ toVisit = {} /\ toVisit' = {}
    /\ \/ stage = "zone gaps" /\ stage' = "file gaps" /\ todo' = files
       \/ stage = "file gaps" /\ stage' = "create" /\ todo' = zones
       \/ stage = "create" /\ stage' = "idle" /\ todo' = {}
    /\ UNCHANGED <<disk, denied, zones, files, running, dirs>>

SetupStep ==
    \/ Begun
    \/ \E z \in zones : ZoneFilled(z) \/ ZoneEntered(z)
    \/ \E f \in files : FileFilled(f)
    \/ \E p \in Tree : Visited(p)
    \/ StageDone
    \/ UNCHANGED <<disk, denied, zones, files, running, stage, todo, toVisit, dirs>>

(* While it is at work, or a run is on, there are no other steps.             *)
LEMMA StepIsSetupStep ==
    ASSUME TypeOK, ConfigInv, [Next]_vars, Active'
    PROVE  SetupStep /\ (Active \/ Begun)
  <1>1. ASSUME GiveUp \/ Abort \/ Stop PROVE FALSE
    BY <1>1 DEF GiveUp, Abort, Stop, Active
  <1>2. ASSUME NEW z \in AllZones, AddDirectoryZone(z) \/ RemoveDirectoryZone(z) PROVE FALSE
    BY <1>2 DEF AddDirectoryZone, RemoveDirectoryZone, Stopped, Active
  <1>3. ASSUME NEW f \in AllFiles, AddToWatchFile(f) \/ RemoveToWatchFile(f) PROVE FALSE
    BY <1>3 DEF AddToWatchFile, RemoveToWatchFile, Stopped, Active
  <1>4. ASSUME CalcToWatchDirectories \/ Start PROVE Begun
    <2>1. PICK run \in BOOLEAN : Setup(run)
      BY <1>4 DEF CalcToWatchDirectories, Start
    <2>2. DOMAIN dirs' = {} /\ ~Active /\ toVisit' = {}
      BY <2>1, NoDirs DEF Setup, Stopped, Active, ConfigInv
    <2>3. QED
      BY <2>1, <2>2 DEF Setup, Begun
  <1>5. ASSUME NEW z \in AllZones, FillZoneGaps(z) PROVE Active /\ z \in zones /\ ZoneFilled(z)
    <2> DEFINE filled == WithGapFilled(z.path, Gap(z.path))
    <2>1. /\ stage = "zone gaps" /\ z \in todo /\ FillTheGaps(z.path, z, filled)
          /\ z \in zones /\ z.path \in Tree
      BY <1>5, PathTypes DEF FillZoneGaps, ConfigInv
    <2>2. /\ dirs' = filled /\ todo' = todo \ {z} /\ ~Asserts(Gap(z.path))
          /\ UNCHANGED <<running, stage, toVisit>> /\ UNCHANGED config
      BY <1>1, <2>1 DEF FillTheGaps
    <2>3. Upwards(z.path) \subseteq OnTheWay
      BY <2>1 DEF OnTheWay
    <2> HIDE DEF filled
    <2>4. UNCHANGED <<disk, denied, zones, files, running>>
      BY <2>2 DEF config
    <2>5. Grows /\ Fills(z.path)
      BY <2>1, <2>2, <2>3, <2>4, FillGrows DEF filled
    <2>6. QED
      BY <2>1, <2>2, <2>5 DEF ZoneFilled, Active
  <1>6. ASSUME NEW f \in AllFiles, FillFileGaps(f) PROVE Active /\ f \in files /\ FileFilled(f)
    <2> DEFINE gapless == WithGapFilled(f.dir, Gap(f.dir))
               filled  == [gapless EXCEPT ![f.dir].pinnedFiles = @ \cup {f.name}]
    <2>1. /\ stage = "file gaps" /\ f \in todo /\ FillTheGaps(f.dir, f, filled)
          /\ f \in files /\ f.dir \in Tree /\ f.name \in Names
      BY <1>6, PathTypes DEF FillFileGaps, ConfigInv
    <2>2. /\ dirs' = filled /\ todo' = todo \ {f} /\ ~Asserts(Gap(f.dir))
          /\ UNCHANGED <<running, stage, toVisit>> /\ UNCHANGED config
      BY <1>1, <2>1 DEF FillTheGaps
    <2>3. Upwards(f.dir) \subseteq OnTheWay
      BY <2>1 DEF OnTheWay
    <2>4. UNCHANGED <<disk, denied, zones, files, running>>
      BY <2>2 DEF config
    <2>5. Gap(f.dir) \in SUBSET Upwards(f.dir) /\ f.dir \in Upwards(f.dir)
      BY <2>1, PathTypes DEF Gap
    <2>6. /\ \A q \in DOMAIN gapless : gapless[q] \in ToWatchDir
          /\ DOMAIN gapless = DOMAIN dirs \cup Gap(f.dir)
      BY <2>1, <2>5, WithGapFilledType
    <2>7. f.dir \in DOMAIN gapless
      BY <2>5, <2>6 DEF Gap
    <2> HIDE DEF gapless
    <2>8. /\ DOMAIN filled = DOMAIN gapless
          /\ \A q \in DOMAIN gapless :
                /\ filled[q].owner = gapless[q].owner
                /\ filled[q].depth = gapless[q].depth
                /\ filled[q].leaf = gapless[q].leaf
                /\ filled[q].watched = gapless[q].watched
                /\ filled[q].pinnedDirs = gapless[q].pinnedDirs
                /\ gapless[q].pinnedFiles \subseteq filled[q].pinnedFiles
          /\ f.name \in filled[f.dir].pinnedFiles
      BY <2>6, <2>7 DEF ToWatchDir
    <2> HIDE DEF filled
    <2>9. Grows /\ Fills(f.dir)
      BY <2>1, <2>2, <2>3, <2>4, <2>8, FillGrows DEF gapless
    <2>10. QED
      BY <2>1, <2>2, <2>8, <2>9 DEF FileFilled, Active
  <1>7. ASSUME NEW z \in AllZones, CreateZone(z) PROVE Active /\ z \in zones /\ ZoneEntered(z)
    BY <1>7 DEF CreateZone, ZoneEntered, ConfigInv, Active, config
  <1>8. ASSUME NEW p \in Tree, CreateToWatchDir(p) PROVE Active /\ Visited(p)
    <2>1. Grows /\ Visits(p) /\ UNCHANGED <<stage, todo>>
      BY <1>1, <1>8, VisitGrows
    <2>2. stage = "create"
      BY <1>8 DEF CreateToWatchDir, ConfigInv
    <2>3. QED
      BY <2>1, <2>2 DEF Visited, Active
  <1>9. ASSUME NextStage PROVE Active /\ StageDone
    BY <1>9 DEF NextStage, StageDone, ConfigInv, Active, config
  <1>10. ASSUME UNCHANGED vars \/ Aborted
         PROVE  Active /\ UNCHANGED <<disk, denied, zones, files, running, stage, todo, toVisit, dirs>>
    BY <1>10 DEF vars, Active, Aborted
  <1>11. QED
    BY <1>1, <1>2, <1>3, <1>4, <1>5, <1>6, <1>7, <1>8, <1>9, <1>10
    DEF Next, Configure, InitialSetup, SetupStep

-----------------------------------------------------------------------------
(* The invariant that needs nothing of names and filters.                     *)

LEMMA ConfigKept == TypeOK /\ ConfigInv /\ [Next]_vars => ConfigInv'
  <1> SUFFICES ASSUME TypeOK, ConfigInv, [Next]_vars PROVE ConfigInv'
    OBVIOUS
  <1>1. ASSUME NEW z \in AllZones, AddDirectoryZone(z) PROVE ConfigInv'
    <2>1. /\ stage = "idle" /\ ~running /\ stage' = stage /\ running' = running
          /\ todo' = todo /\ toVisit' = toVisit /\ disk' = disk
      BY <1>1 DEF AddDirectoryZone, Stopped
    <2>2. /\ \A x, y \in zones' : x.path = y.path => x = y
          /\ \A y \in zones' : \A k \in FakePaths : ~StringBeginsWith(y.path, k)
      BY <1>1 DEF AddDirectoryZone, ConfigInv
    <2>3. QED
      BY <2>1, <2>2 DEF ConfigInv, Active
  <1>2. ASSUME NEW z \in AllZones, RemoveDirectoryZone(z) PROVE ConfigInv'
    BY <1>2 DEF RemoveDirectoryZone, Stopped, ConfigInv, Active
  <1>3. ASSUME NEW f \in AllFiles, AddToWatchFile(f) \/ RemoveToWatchFile(f) PROVE ConfigInv'
    <2>1. /\ stage = "idle" /\ ~running /\ stage' = stage /\ running' = running
          /\ todo' = todo /\ toVisit' = toVisit /\ disk' = disk /\ zones' = zones
      BY <1>3 DEF AddToWatchFile, RemoveToWatchFile, Stopped
    <2>2. QED
      BY <2>1 DEF ConfigInv, Active
  <1>4. CASE GiveUp \/ Abort
    <2>1. /\ disk' = disk /\ zones' = zones /\ files' = files
          /\ running' = FALSE /\ stage' \in {"idle", "aborted"} /\ todo' = {} /\ toVisit' = {}
      BY <1>4 DEF GiveUp, Abort, config
    <2>2. QED
      BY <2>1 DEF ConfigInv, Active
  <1>5. CASE Stop
    BY <1>5 DEF Stop, config, ConfigInv, Active
  <1>6. CASE NextStage
    BY <1>6 DEF NextStage, config, ConfigInv, Active
  <1>7. CASE Active'
    <2>1. SetupStep /\ (Active \/ Begun)
      BY <1>7, StepIsSetupStep
    <2>2. UNCHANGED <<disk, denied, zones, files>>
      BY <2>1 DEF SetupStep, Begun, ZoneFilled, FileFilled, ZoneEntered, Visited, StageDone, Grows
    <2>3. zones # {} \/ files # {}
      BY <2>1 DEF Begun, ConfigInv
    <2>4. CASE Begun
      BY <2>2, <2>3, <2>4 DEF Begun, ConfigInv
    <2>5. CASE \E z \in zones : ZoneFilled(z) \/ ZoneEntered(z)
      BY <2>2, <2>3, <2>5 DEF ZoneFilled, ZoneEntered, ConfigInv
    <2>6. CASE \E f \in files : FileFilled(f)
      BY <2>2, <2>3, <2>6 DEF FileFilled, ConfigInv
    <2>7. CASE \E p \in Tree : Visited(p)
      BY <2>2, <2>3, <2>7 DEF Visited, ConfigInv
    <2>8. CASE StageDone
      BY <2>2, <2>3, <2>8 DEF StageDone, ConfigInv
    <2>9. CASE UNCHANGED <<disk, denied, zones, files, running, stage, todo, toVisit, dirs>>
      BY <2>3, <2>9 DEF ConfigInv
    <2>10. QED
      BY <2>1, <2>4, <2>5, <2>6, <2>7, <2>8, <2>9 DEF SetupStep
  <1>8. CASE ~Active' /\ (UNCHANGED vars \/ Aborted)
    BY <1>8 DEF vars, ConfigInv, Active, Aborted
  <1>9. ASSUME ~Active', NEW p \in Tree, CreateToWatchDir(p) PROVE GiveUp \/ Abort
    BY <1>9 DEF CreateToWatchDir, ConfigInv, Active
  <1>10. ASSUME ~Active', NEW z \in AllZones, FillZoneGaps(z) \/ CreateZone(z) PROVE GiveUp \/ Abort
    BY <1>10 DEF FillZoneGaps, FillTheGaps, CreateZone, Active
  <1>11. ASSUME ~Active', NEW f \in AllFiles, FillFileGaps(f) PROVE GiveUp \/ Abort
    BY <1>11 DEF FillFileGaps, FillTheGaps, Active
  <1>12. ASSUME ~Active', CalcToWatchDirectories \/ Start PROVE FALSE
    BY <1>12 DEF CalcToWatchDirectories, Start, Setup, Active
  <1>13. QED
    BY <1>1, <1>2, <1>3, <1>4, <1>5, <1>6, <1>7, <1>8, <1>9, <1>10, <1>11, <1>12
    DEF Next, Configure, InitialSetup

(* A name that is pinned, or passes, goes on to do so.                        *)
LEMMA NotFilteredOutKept ==
    ASSUME TypeOK, Grows, NEW p, NEW m \in DOMAIN dirs, ~FilteredOutSubDir(dirs[m], p)
    PROVE  ~FilteredOutSubDir(dirs[m], p)'
  <1>1. zones' = zones /\ dirs'[m].owner = dirs[m].owner /\ dirs[m].pinnedDirs \subseteq dirs'[m].pinnedDirs
    BY DEF Grows
  <1>2. OwnerZones(dirs[m])' = OwnerZones(dirs[m])
    BY <1>1 DEF OwnerZones
  <1>3. QED
    BY <1>1, <1>2 DEF FilteredOutSubDir

(* New ToWatchDirs leave the others where they were; they have to be reached.  *)
LEMMA WaysGrow ==
    ASSUME TypeOK, WaysInv, Grows,
           \A q \in DOMAIN dirs' \ DOMAIN dirs :
              /\ Upwards(q) \subseteq DOMAIN dirs'
              /\ q # <<>> => ~FilteredOutSubDir(dirs[ParentOf(q)], q)'
    PROVE  WaysInv'
  <1>1. OnTheWay' = OnTheWay /\ running' = running /\ DOMAIN dirs \subseteq DOMAIN dirs'
    BY DEF Grows, OnTheWay
  <1>2. ASSUME NEW q \in DOMAIN dirs'
        PROVE  /\ dirs'[q].watched <=> running /\ Watchable(q)
               /\ running => ~InFakeFS(q)
    BY DEF Grows, WaysInv
  <1>3. \A q : Watchable(q)' = Watchable(q) /\ InFakeFS(q)' = InFakeFS(q)
    BY DEF Grows, Watchable, InFakeFS
  <1>4. ASSUME NEW q \in DOMAIN dirs' PROVE Upwards(q) \subseteq DOMAIN dirs'
    BY <1>1 DEF WaysInv
  <1>5. ASSUME NEW q \in DOMAIN dirs', q # <<>>
        PROVE  ~FilteredOutSubDir(dirs[ParentOf(q)], q)'
    <2>1. CASE q \in DOMAIN dirs
      <3>1. ParentOf(q) \in DOMAIN dirs
        BY <1>5, <2>1, PathParts, PathTypes DEF TypeOK, WaysInv
      <3>2. ~FilteredOutSubDir(dirs[ParentOf(q)], q)
        BY <1>5, <2>1 DEF WaysInv
      <3>3. QED
        BY <3>1, <3>2, NotFilteredOutKept
    <2>2. QED
      BY <1>5, <2>1
  <1>6. ASSUME NEW q \in DOMAIN dirs', NEW n \in dirs'[q].pinnedDirs
        PROVE  Append(q, n) \in OnTheWay
    BY DEF Grows, WaysInv
  <1>7. QED
    BY <1>1, <1>2, <1>3, <1>4, <1>5, <1>6 DEF WaysInv

(* Of a ToWatchDir in a way that was filled, the name is pinned in its parent. *)
LEMMA WaysFilled ==
    ASSUME TypeOK, WaysInv, Grows, NEW p \in Tree, Fills(p)
    PROVE  WaysInv' /\ p \in DOMAIN dirs'
  <1>1. p \in Seq(Names) /\ p \in Upwards(p)
    BY PathTypes
  <1>2. ASSUME NEW q \in DOMAIN dirs' \ DOMAIN dirs
        PROVE  /\ Upwards(q) \subseteq DOMAIN dirs'
               /\ q # <<>> => ~FilteredOutSubDir(dirs[ParentOf(q)], q)'
    <2>1. q \in Upwards(p) /\ q \in Seq(Names)
      BY <1>1, PathParts DEF Fills
    <2>2. Upwards(q) \subseteq Upwards(p)
      <3>1. SUFFICES ASSUME NEW r \in Upwards(q) PROVE r \in Upwards(p)
        OBVIOUS
      <3>2. r \in Seq(Names)
        BY <2>1, PathParts
      <3>3. IsPrefix(r, q) /\ IsPrefix(q, p)
        BY <1>1, <2>1, <3>2, UpwardsIsPrefix
      <3>4. IsPrefix(r, p)
        BY <1>1, <2>1, <3>2, <3>3, UpwardsIsPrefix
      <3>5. QED
        BY <1>1, <3>2, <3>4, UpwardsIsPrefix
    <2>3. q # <<>> => NameOf(q) \in dirs'[ParentOf(q)].pinnedDirs
      BY <2>1 DEF Fills
    <2>4. QED
      BY <2>2, <2>3 DEF Fills, FilteredOutSubDir
  <1>3. WaysInv'
    BY <1>2, WaysGrow
  <1>4. QED
    BY <1>1, <1>3 DEF Fills

(* A directory that is visited has a parent, in which it was found to pass.    *)
LEMMA WaysVisited ==
    ASSUME TypeOK, WaysInv, VisitInv, Grows, NEW p \in Tree, Visits(p)
    PROVE  WaysInv'
  <1>1. p \in Seq(Names) /\ p # <<>> /\ ParentOf(p) \in DOMAIN dirs /\ ParentOf(p) \in Seq(Names)
    BY PathTypes DEF VisitInv, Visits
  <1>2. ASSUME NEW q \in DOMAIN dirs' \ DOMAIN dirs
        PROVE  /\ Upwards(q) \subseteq DOMAIN dirs'
               /\ q # <<>> => ~FilteredOutSubDir(dirs[ParentOf(q)], q)'
    <2>1. q = p /\ ~FilteredOutSubDir(dirs[ParentOf(p)], p) /\ DOMAIN dirs' = DOMAIN dirs \cup {p}
      BY DEF Visits
    <2>2. ~FilteredOutSubDir(dirs[ParentOf(p)], p)'
      BY <1>1, <2>1, NotFilteredOutKept
    <2>3. Upwards(q) = Upwards(ParentOf(p)) \cup {p} /\ Upwards(ParentOf(p)) \subseteq DOMAIN dirs
      BY <1>1, <2>1, UpwardsOfParent DEF WaysInv
    <2>4. QED
      BY <2>1, <2>2, <2>3
  <1>3. QED
    BY <1>2, WaysGrow

LEMMA WaysKept ==
    ASSUME TypeOK, ConfigInv, Active => WaysInv /\ VisitInv, SetupStep, Active \/ Begun
    PROVE  WaysInv'
  <1>1. CASE Begun
    BY <1>1 DEF Begun, WaysInv
  <1>2. ASSUME ~Begun, NEW z \in zones, ZoneFilled(z) PROVE WaysInv'
    BY <1>2, WaysFilled, PathTypes DEF ZoneFilled, TypeOK
  <1>3. ASSUME ~Begun, NEW f \in files, FileFilled(f) PROVE WaysInv'
    BY <1>3, WaysFilled, PathTypes DEF FileFilled, TypeOK
  <1>4. ASSUME ~Begun, NEW p \in Tree, Visited(p) PROVE WaysInv'
    BY <1>4, WaysVisited DEF Visited
  <1>5. ASSUME ~Begun, UNCHANGED <<dirs, disk, denied, zones, files, running>> PROVE WaysInv'
    <2>1. \A p : Watchable(p)' = Watchable(p) /\ InFakeFS(p)' = InFakeFS(p)
      BY <1>5 DEF Watchable, InFakeFS
    <2>2. \A p : FilteredOutSubDir(dirs[ParentOf(p)], p)' = FilteredOutSubDir(dirs[ParentOf(p)], p)
      BY <1>5 DEF FilteredOutSubDir, OwnerZones
    <2>3. OnTheWay' = OnTheWay
      BY <1>5 DEF OnTheWay
    <2>4. QED
      BY <1>5, <2>1, <2>2, <2>3 DEF WaysInv
  <1>6. QED
    BY <1>1, <1>2, <1>3, <1>4, <1>5 DEF SetupStep, ZoneEntered, StageDone

LEMMA GapsKept ==
    ASSUME TypeOK, ConfigInv, Active => GapsInv, SetupStep, Active \/ Begun
    PROVE  GapsInv'
  <1>1. CASE Begun
    BY <1>1 DEF Begun, GapsInv
  <1>2. ASSUME ~Begun, NEW z \in zones, ZoneFilled(z) PROVE GapsInv'
    <2>1. /\ z.path \in DOMAIN dirs' /\ DOMAIN dirs \subseteq DOMAIN dirs'
          /\ stage = "zone gaps" /\ stage' = stage /\ todo' = todo \ {z} /\ zones' = zones
      BY <1>2, PathTypes DEF ZoneFilled, Grows, Fills, TypeOK
    <2>2. QED
      BY <1>2, <2>1 DEF GapsInv
  <1>3. ASSUME ~Begun, stage # "zone gaps", stage' # "zone gaps", zones' = zones,
               DOMAIN dirs \subseteq DOMAIN dirs'
        PROVE  GapsInv'
    BY <1>3 DEF GapsInv
  <1>4. ASSUME ~Begun, NEW f \in files, FileFilled(f) PROVE GapsInv'
    BY <1>3, <1>4 DEF FileFilled, Grows
  <1>5. ASSUME ~Begun, NEW p \in Tree, Visited(p) PROVE GapsInv'
    BY <1>3, <1>5 DEF Visited, Grows
  <1>6. ASSUME ~Begun, NEW z \in zones, ZoneEntered(z) PROVE GapsInv'
    BY <1>3, <1>6 DEF ZoneEntered
  <1>7. ASSUME ~Begun, StageDone PROVE GapsInv'
    BY <1>7 DEF StageDone, GapsInv
  <1>8. ASSUME ~Begun, UNCHANGED <<disk, denied, zones, files, running, stage, todo, toVisit, dirs>>
        PROVE  GapsInv'
    BY <1>8 DEF GapsInv
  <1>9. QED
    BY <1>1, <1>2, <1>4, <1>5, <1>6, <1>7, <1>8 DEF SetupStep

LEMMA FilesKept ==
    ASSUME TypeOK, ConfigInv, Active => FilesInv, SetupStep, Active \/ Begun
    PROVE  FilesInv'
  <1>1. CASE Begun
    BY <1>1 DEF Begun, FilesInv
  <1>2. ASSUME Grows, NEW f, PinnedInDir(f) PROVE PinnedInDir(f)'
    BY <1>2 DEF Grows, PinnedInDir
  <1>3. ASSUME ~Begun, NEW z \in zones, ZoneFilled(z) PROVE FilesInv'
    BY <1>3 DEF ZoneFilled, FilesInv
  <1>4. ASSUME ~Begun, NEW f \in files, FileFilled(f) PROVE FilesInv'
    <2>1. /\ stage = "file gaps" /\ stage' = stage /\ todo' = todo \ {f} /\ files' = files /\ Grows
          /\ PinnedInDir(f)'
      BY <1>4, PathTypes DEF FileFilled, Grows, Fills, TypeOK, PinnedInDir
    <2>2. QED
      BY <1>2, <1>4, <2>1 DEF FilesInv
  <1>5. ASSUME ~Begun, NEW p \in Tree, Visited(p) PROVE FilesInv'
    <2>1. stage = "create" /\ stage' = stage /\ Grows /\ files' = files
      BY <1>5 DEF Visited, Grows
    <2>2. QED
      BY <1>2, <1>5, <2>1 DEF FilesInv
  <1>6. ASSUME ~Begun, NEW z \in zones, ZoneEntered(z) PROVE FilesInv'
    BY <1>6 DEF ZoneEntered, FilesInv, PinnedInDir
  <1>7. ASSUME ~Begun, StageDone PROVE FilesInv'
    BY <1>7 DEF StageDone, FilesInv, PinnedInDir
  <1>8. ASSUME ~Begun, UNCHANGED <<disk, denied, zones, files, running, stage, todo, toVisit, dirs>>
        PROVE  FilesInv'
    BY <1>8 DEF FilesInv, PinnedInDir
  <1>9. QED
    BY <1>1, <1>3, <1>4, <1>5, <1>6, <1>7, <1>8 DEF SetupStep

LEMMA VisitKept ==
    ASSUME TypeOK, ConfigInv, Active => GapsInv /\ VisitInv, SetupStep, Active \/ Begun
    PROVE  VisitInv'
  <1>1. ASSUME NEW p, p \in DOMAIN dirs', NEW q \in Subdirectories(p, dirs'[p])
        PROVE  q # <<>> /\ ParentOf(q) \in DOMAIN dirs' /\ ~dirs'[ParentOf(q)].leaf
    BY <1>1 DEF Subdirectories
  <1>2. ASSUME ~Begun, NEW z \in zones, ZoneFilled(z) PROVE VisitInv'
    BY <1>2 DEF ZoneFilled, ConfigInv, VisitInv
  <1>3. ASSUME ~Begun, NEW f \in files, FileFilled(f) PROVE VisitInv'
    BY <1>3 DEF FileFilled, ConfigInv, VisitInv
  <1>4. ASSUME ~Begun, NEW z \in zones, ZoneEntered(z) PROVE VisitInv'
    <2>1. z.path \in DOMAIN dirs' /\ toVisit' = Subdirectories(z.path, dirs'[z.path])
      BY <1>4 DEF ZoneEntered, GapsInv
    <2>2. QED
      BY <1>1, <2>1 DEF VisitInv
  <1>5. ASSUME ~Begun, NEW p \in Tree, Visited(p) PROVE VisitInv'
    <2>1. Grows /\ VisitInv
      BY <1>5 DEF Visited
    <2>2. ASSUME NEW q \in toVisit
          PROVE  q # <<>> /\ ParentOf(q) \in DOMAIN dirs' /\ ~dirs'[ParentOf(q)].leaf
      BY <2>1 DEF Grows, VisitInv
    <2>3. ASSUME NEW q \in toVisit' \ toVisit
          PROVE  q # <<>> /\ ParentOf(q) \in DOMAIN dirs' /\ ~dirs'[ParentOf(q)].leaf
      <3>1. p \in DOMAIN dirs' /\ q \in Subdirectories(p, dirs'[p])
        BY <1>5, <2>3 DEF Visited, Visits
      <3>2. QED
        BY <1>1, <3>1
    <2>4. QED
      BY <2>2, <2>3 DEF VisitInv
  <1>6. CASE toVisit' = {}
    BY <1>6 DEF VisitInv
  <1>7. ASSUME ~Begun, UNCHANGED <<disk, denied, zones, files, running, stage, todo, toVisit, dirs>>
        PROVE  VisitInv'
    BY <1>7 DEF VisitInv
  <1>8. QED
    BY <1>2, <1>3, <1>4, <1>5, <1>6, <1>7 DEF SetupStep, Begun, StageDone

(* SetupInv is inductive.                                                    *)
THEOREM SetupInvariant == Spec => []SetupInv
  <1>1. Init => SetupInv
    <2>1. DOMAIN << >> = {}
      BY NoDirs
    <2>2. QED
      BY <2>1 DEF Init, SetupInv, ConfigInv, Active
  <1>2. TypeOK /\ SetupInv /\ [Next]_vars => SetupInv'
    <2> SUFFICES ASSUME TypeOK, SetupInv, [Next]_vars PROVE SetupInv'
      OBVIOUS
    <2>1. ConfigInv'
      BY ConfigKept DEF SetupInv
    <2>2. ASSUME Active' PROVE WaysInv' /\ GapsInv' /\ FilesInv' /\ VisitInv'
      <3>1. SetupStep /\ (Active \/ Begun)
        BY <2>2, StepIsSetupStep DEF SetupInv
      <3>2. QED
        BY <3>1, WaysKept, GapsKept, FilesKept, VisitKept DEF SetupInv
    <2>3. QED
      BY <2>1, <2>2 DEF SetupInv
  <1>3. QED
    BY <1>1, <1>2, TypeCorrect, PTL DEF Spec

(* SingleFilesAreReported: the name is pinned before the run has begun.       *)
THEOREM FilesCorrect == Spec => []SingleFilesAreReported
  <1>1. SetupInv => SingleFilesAreReported
    BY DEF SetupInv, Active, FilesInv, PinnedInDir, SingleFilesAreReported, Started, FilteredOutFile
  <1>2. QED
    BY <1>1, SetupInvariant, PTL

-----------------------------------------------------------------------------
(* The owner is the closest zone, where the code's comparison of strings is    *)
(* one of paths.                                                             *)

(* Of two paths above p the longer one is the longer string.                  *)
LEMMA SizeOrder ==
    ASSUME NEW p \in Seq(Names), NEW b \in Seq(Names), NEW c \in Seq(Names),
           IsPrefix(b, p), IsPrefix(c, p)
    PROVE  StringSize(b) <= StringSize(c) <=> Len(b) <= Len(c)
  <1>1. /\ Len(b) \in Nat /\ Len(c) \in Nat /\ Len(p) \in Nat
        /\ Len(b) <= Len(p) /\ Len(c) <= Len(p)
        /\ b = <<>> <=> Len(b) = 0
        /\ c = <<>> <=> Len(c) = 0
    BY UpwardsIsPrefix
  <1> DEFINE lb == Len(b)
             lc == Len(c)
             s(i) == SlashAt(p, i)
  <1>2. /\ StringSize(b) = IF lb = 0 THEN 1 ELSE s(lb + 1)
        /\ StringSize(c) = IF lc = 0 THEN 1 ELSE s(lc + 1)
    BY <1>1, SlashAtPrefix DEF StringSize
  <1>3. lb + 1 \in 1..(Len(p) + 1) /\ lc + 1 \in 1..(Len(p) + 1) /\ 1 \in 1..(Len(p) + 1)
    BY <1>1
  <1>4. /\ s(1) \in Nat /\ s(lb + 1) \in Nat /\ s(lc + 1) \in Nat
        /\ lb # 0 => s(1) + 2 <= s(lb + 1)
        /\ lc # 0 => s(1) + 2 <= s(lc + 1)
    BY <1>1, <1>3, SlashAtOrder
  <1>5. /\ lb < lc => s(lb + 1) + 2 <= s(lc + 1)
        /\ lc < lb => s(lc + 1) + 2 <= s(lb + 1)
    <2>1. /\ lb < lc => lb + 1 < lc + 1 /\ lb + 1 <= lc + 1
          /\ lc < lb => lc + 1 < lb + 1 /\ lc + 1 <= lb + 1
      BY <1>1
    <2>2. QED
      BY <1>3, <2>1, SlashAtOrder
  <1> HIDE DEF lb, lc, s
  <1>6. lb \in Nat /\ lc \in Nat
    BY <1>1 DEF lb, lc
  <1>7. StringSize(b) <= StringSize(c) <=> lb <= lc
    <2>1. CASE lb = 0
      BY <1>2, <1>4, <1>6, <2>1
    <2>2. CASE lc = 0
      BY <1>2, <1>4, <1>6, <2>2
    <2>3. CASE lb # 0 /\ lc # 0
      BY <1>2, <1>4, <1>5, <1>6, <2>3
    <2>4. QED
      BY <2>1, <2>2, <2>3
  <1>8. QED
    BY <1>7 DEF lb, lc

(* What is known of the zones.                                               *)
LEMMA ZoneTypes ==
    ASSUME TypeOK, NEW z \in zones
    PROVE  /\ z \in AllZones /\ z.path \in Tree /\ z.path \in Seq(Names) /\ z.maxDepth \in Nat
           /\ Len(z.path) \in Nat
  <1>1. z \in AllZones
    BY DEF TypeOK
  <1>2. z.path \in Tree /\ z.path \in Seq(Names) /\ z.maxDepth \in Nat
    BY <1>1, PathTypes
  <1>3. QED
    BY <1>1, <1>2

LEMMA DepthInZone ==
    ASSUME NamesAreApart, TypeOK, NEW z \in zones, NEW p \in Tree
    PROVE  PathDepth(p, z.path, z.maxDepth) = IF Covers(z, p) THEN Len(p) - Len(z.path) ELSE -1
  <1>1. p \in Seq(Names)
    BY PathTypes
  <1>2. z \in AllZones /\ z.path \in Seq(Names) /\ z.maxDepth \in Nat
    BY ZoneTypes
  <1>3. StringBeginsWith(p, z.path) => IsPrefix(z.path, p)
    BY <1>2 DEF NamesAreApart
  <1>4. z.path = <<>> /\ Len(p) > 1 => Size[p[1]] > 1
    BY <1>2 DEF NamesAreApart
  <1>5. QED
    BY <1>1, <1>2, <1>3, <1>4, PathDepthIsDifference DEF Covers

LEMMA OwnersClosest ==
    ASSUME NamesAreApart, TypeOK, NEW p \in Tree
    PROVE  Owners(p) = Closest(p)
  <1> DEFINE candidates == {z \in zones : PathDepth(p, z.path, z.maxDepth) >= 0}
             covering   == {z \in zones : Covers(z, p)}
  <1>1. p \in Seq(Names) /\ Len(p) \in Nat
    BY PathTypes
  <1>2. ASSUME NEW z \in zones PROVE PathDepth(p, z.path, z.maxDepth) >= 0 <=> Covers(z, p)
    <2>1. CASE Covers(z, p)
      <3>1. IsPrefix(z.path, p)
        BY <2>1 DEF Covers
      <3>2. Len(z.path) \in Nat /\ Len(z.path) <= Len(p)
        BY <1>1, <3>1, ZoneTypes, UpwardsIsPrefix
      <3>3. QED
        BY <1>1, <2>1, <3>2, DepthInZone
    <2>2. CASE ~Covers(z, p)
      BY <2>2, DepthInZone
    <2>3. QED
      BY <2>1, <2>2
  <1>3. candidates = covering
    BY <1>2
  <1>4. \A y, z \in covering : StringSize(y.path) <= StringSize(z.path) <=> Len(y.path) <= Len(z.path)
    BY <1>1, ZoneTypes, SizeOrder DEF Covers
  <1>5. Owners(p) = {z \in candidates : \A y \in candidates : StringSize(y.path) <= StringSize(z.path)}
    BY DEF Owners
  <1>6. Closest(p) = {z \in covering : \A y \in covering : Len(y.path) <= Len(z.path)}
    BY DEF Closest
  <1> HIDE DEF candidates, covering
  <1>7. QED
    BY <1>3, <1>4, <1>5, <1>6

(* Whatever is in a zone has one closest zone.                                *)
LEMMA ClosestIsOne ==
    ASSUME TypeOK, ConfigInv, NEW p \in Tree
    PROVE  /\ \A y, z \in Closest(p) : y = z
           /\ \A y \in zones : Covers(y, p) => \E z \in Closest(p) : Len(y.path) <= Len(z.path)
  <1>1. p \in Seq(Names) /\ Len(p) \in Nat
    BY PathTypes
  <1>2. ASSUME NEW y \in Closest(p), NEW z \in Closest(p) PROVE y = z
    <2>1. /\ y \in zones /\ z \in zones /\ IsPrefix(y.path, p) /\ IsPrefix(z.path, p)
          /\ Len(y.path) <= Len(z.path) /\ Len(z.path) <= Len(y.path)
      BY DEF Closest, Covers
    <2>2. /\ y.path \in Seq(Names) /\ z.path \in Seq(Names)
          /\ Len(y.path) \in Nat /\ Len(z.path) \in Nat
      BY <2>1, ZoneTypes
    <2>3. y.path = SubSeq(p, 1, Len(y.path)) /\ z.path = SubSeq(p, 1, Len(z.path))
      BY <1>1, <2>1, <2>2, UpwardsIsPrefix
    <2>4. y.path = z.path
      BY <2>1, <2>2, <2>3
    <2>5. QED
      BY <2>1, <2>4 DEF ConfigInv
  <1>3. ASSUME NEW y \in zones, Covers(y, p)
        PROVE  \E z \in Closest(p) : Len(y.path) <= Len(z.path)
    <2> DEFINE S == {Len(p) - Len(z.path) : z \in {x \in zones : Covers(x, p)}}
    <2>1. ASSUME NEW z \in zones, Covers(z, p)
          PROVE  Len(z.path) \in Nat /\ Len(p) - Len(z.path) \in Nat
      <3>1. z.path \in Seq(Names) /\ Len(z.path) \in Nat /\ IsPrefix(z.path, p)
        BY <2>1, ZoneTypes DEF Covers
      <3>2. Len(z.path) <= Len(p)
        BY <1>1, <3>1, UpwardsIsPrefix
      <3>3. QED
        BY <1>1, <3>1, <3>2
    <2>2. S \in SUBSET Nat /\ S # {}
      BY <1>3, <2>1
    <2>3. PICK m \in S : \A n \in S : m <= n
      BY <2>2, LeastNumber
    <2>4. PICK z \in zones : Covers(z, p) /\ m = Len(p) - Len(z.path)
      BY <2>3
    <2>5. \A x \in zones : Covers(x, p) => Len(x.path) <= Len(z.path)
      <3> TAKE x \in zones
      <3> HAVE Covers(x, p)
      <3>1. m <= Len(p) - Len(x.path)
        BY <2>3
      <3>2. Len(x.path) \in Nat /\ Len(z.path) \in Nat
        BY <2>1, <2>4
      <3>3. QED
        BY <1>1, <2>4, <3>1, <3>2
    <2>6. QED
      BY <1>3, <2>4, <2>5 DEF Closest
  <1>4. QED
    BY <1>2, <1>3

LEMMA OwnedClosest ==
    ASSUME NamesAreApart, TypeOK, ConfigInv, NEW p \in Tree
    PROVE  /\ Owned(p).owner = {z.path : z \in Closest(p)}
           /\ \A z \in Closest(p) : Owned(p).depth = Len(p) - Len(z.path)
           /\ Owned(p).leaf <=> \A z \in Closest(p) : Len(p) - Len(z.path) = z.maxDepth
  <1> DEFINE depth == IF Closest(p) = {} THEN 0
                      ELSE CHOOSE d \in 0..Len(p) :
                              \E z \in Closest(p) : d = PathDepth(p, z.path, z.maxDepth)
  <1>1. Owners(p) = Closest(p)
    BY OwnersClosest
  <1>2. /\ Owned(p).owner = {z.path : z \in Closest(p)}
        /\ Owned(p).depth = depth
        /\ Owned(p).leaf <=> \A z \in Closest(p) : depth = z.maxDepth
    BY <1>1 DEF Owned
  <1>3. ASSUME NEW z \in Closest(p) PROVE depth = Len(p) - Len(z.path)
    <2>1. z \in zones /\ Covers(z, p)
      BY DEF Closest
    <2>2. PathDepth(p, z.path, z.maxDepth) = Len(p) - Len(z.path)
      BY <2>1, DepthInZone
    <2>3. \A y \in Closest(p) : y = z
      BY ClosestIsOne
    <2>4. p \in Seq(Names) /\ Len(p) \in Nat /\ z.path \in Seq(Names) /\ Len(z.path) \in Nat
      BY <2>1, PathTypes, ZoneTypes
    <2>5. Len(z.path) <= Len(p)
      BY <2>1, <2>4, UpwardsIsPrefix DEF Covers
    <2>6. Len(p) - Len(z.path) \in 0..Len(p)
      BY <2>4, <2>5
    <2> HIDE DEF depth
    <2>7. \A d \in 0..Len(p) :
             (\E y \in Closest(p) : d = PathDepth(p, y.path, y.maxDepth)) <=> d = Len(p) - Len(z.path)
      BY <2>2, <2>3
    <2>8. QED
      BY <2>6, <2>7 DEF depth
  <1>4. QED
    BY <1>2, <1>3

LEMMA OwnersKept ==
    ASSUME NamesAreApart, TypeOK, TypeOK', ConfigInv, Active => OwnersInv, SetupStep, Active \/ Begun
    PROVE  OwnersInv'
  <1>1. CASE Begun
    BY <1>1 DEF Begun, OwnersInv
  <1>2. ASSUME ~Begun, Grows PROVE OwnersInv'
    <2>1. \A p : Closest(p)' = Closest(p)
      BY <1>2 DEF Grows, Closest
    <2>2. ASSUME NEW p \in DOMAIN dirs'
          PROVE  /\ dirs'[p].owner = {z.path : z \in Closest(p)}
                 /\ \A z \in Closest(p) : dirs'[p].depth = Len(p) - Len(z.path)
                 /\ dirs'[p].leaf <=> \A z \in Closest(p) : Len(p) - Len(z.path) = z.maxDepth
      <3>1. CASE p \in DOMAIN dirs
        BY <1>2, <3>1 DEF Grows, OwnersInv
      <3>2. CASE p \notin DOMAIN dirs
        <4>1. p \in Tree
          BY DEF TypeOK
        <4>2. QED
          BY <1>2, <3>2, <4>1, OwnedClosest DEF Grows
      <3>3. QED
        BY <3>1, <3>2
    <2>3. QED
      BY <2>1, <2>2 DEF OwnersInv
  <1>3. ASSUME ~Begun, UNCHANGED <<dirs, zones>> PROVE OwnersInv'
    BY <1>3 DEF OwnersInv, Closest
  <1>4. QED
    BY <1>1, <1>2, <1>3 DEF SetupStep, ZoneFilled, ZoneEntered, FileFilled, Visited, StageDone

(* The zones whose filters hold for a directory are its closest ones.         *)
LEMMA OwnerZonesClosest ==
    ASSUME TypeOK, ConfigInv, OwnersInv, NEW p \in DOMAIN dirs
    PROVE  OwnerZones(dirs[p]) = Closest(p)
  <1>1. dirs[p].owner = {z.path : z \in Closest(p)} /\ Closest(p) \subseteq zones
    BY DEF OwnersInv, Closest
  <1>2. \A z \in zones : z.path \in dirs[p].owner <=> z \in Closest(p)
    BY <1>1 DEF ConfigInv
  <1>3. QED
    BY <1>1, <1>2 DEF OwnerZones

(* What is proved of the steps holds of the behaviours.                       *)
LEMMA OwnersInvariant ==
    ASSUME NamesAreApart
    PROVE  Spec => [](Active => OwnersInv)
  <1>1. Init => (Active => OwnersInv)
    BY DEF Init, Active
  <1>2. TypeOK /\ TypeOK' /\ SetupInv /\ (Active => OwnersInv) /\ [Next]_vars => (Active => OwnersInv)'
    <2> SUFFICES ASSUME TypeOK, TypeOK', SetupInv, Active => OwnersInv, [Next]_vars, Active'
                 PROVE  OwnersInv'
      OBVIOUS
    <2>1. SetupStep /\ (Active \/ Begun)
      BY StepIsSetupStep DEF SetupInv
    <2>2. QED
      BY <2>1, OwnersKept DEF SetupInv
  <1>3. QED
    BY <1>1, <1>2, TypeCorrect, SetupInvariant, PTL DEF Spec

(* OwnersAreClosest, for names of which none begins with another.             *)
THEOREM OwnersCorrect ==
    ASSUME NamesAreApart
    PROVE  Spec => []OwnersAreClosest
  <1>1. (Active => OwnersInv) => OwnersAreClosest
    BY DEF Active, OwnersInv, OwnersAreClosest, Started
  <1>2. QED
    BY <1>1, OwnersInvariant, PTL

-----------------------------------------------------------------------------
(* Fake file systems, and what is noticed.                                    *)

LEMMA WaysLead ==
    ASSUME NEW q
    PROVE  q \in OnTheWay <=> \/ \E z \in zones : q \in Upwards(z.path)
                             \/ \E f \in files : q \in Upwards(f.dir)
  BY DEF OnTheWay

(* AppearanceIsNoticed, whatever the zones, the files and the names are.       *)
THEOREM AppearanceNoticed == Spec => []AppearanceIsNoticed
  <1>1. TypeOK /\ SetupInv => AppearanceIsNoticed
    <2> SUFFICES ASSUME TypeOK, SetupInv, Started, NEW p \in DOMAIN dirs
                 PROVE  /\ dirs[p].watched <=> p \in disk \ denied
                        /\ p # <<>> => /\ ParentOf(p) \in DOMAIN dirs
                                       /\ ~FilteredOutSubDir(dirs[ParentOf(p)], p)
      BY DEF AppearanceIsNoticed
    <2>1. WaysInv /\ running
      BY DEF SetupInv, Active, Started
    <2>2. Watchable(p) <=> p \in disk \ denied
      BY <2>1 DEF WaysInv, Watchable
    <2>3. p \in Seq(Names)
      BY PathTypes DEF TypeOK
    <2>4. p # <<>> => ParentOf(p) \in Upwards(p)
      BY <2>3, PathParts
    <2>5. QED
      BY <2>1, <2>2, <2>4 DEF WaysInv
  <1>2. QED
    BY <1>1, TypeCorrect, SetupInvariant, PTL

-----------------------------------------------------------------------------
(* What is not on the way to a zone or a file.                                *)

(* isMatchedByFilters() is right about exact filters.                         *)
LEMMA ExactFilters ==
    ASSUME FiltersAreExact, TypeOK, NEW z \in zones, NEW n
    PROVE  PassesFilters(z.dirIncludes, z.dirExcludes, n) <=> Passes(z.dirIncludes, z.dirExcludes, n)
  <1>1. \A f \in z.dirIncludes \cup z.dirExcludes : f.exact
    BY DEF FiltersAreExact, TypeOK
  <1>2. QED
    BY <1>1 DEF PassesFilters, Passes, Matched

(* The zone of a directory that is no leaf of it is that of its subdirectories *)
(* that are no base paths themselves.                                        *)
LEMMA ClosestBelow ==
    ASSUME TypeOK, NEW p \in Tree, p # <<>>, NEW z \in Closest(ParentOf(p)),
           Len(ParentOf(p)) - Len(z.path) # z.maxDepth,
           \A y \in zones : y.path # p
    PROVE  z \in Closest(p)
  <1>1. /\ p \in Seq(Names) /\ ParentOf(p) \in Seq(Names)
        /\ Len(p) \in Nat /\ Len(ParentOf(p)) \in Nat /\ Len(ParentOf(p)) = Len(p) - 1
    BY PathTypes, PathParts
  <1>2. \A y \in zones : IsPrefix(y.path, p) <=> IsPrefix(y.path, ParentOf(p))
    BY <1>1, ZoneTypes, PrefixOfParent
  <1>3. z \in zones /\ Covers(z, ParentOf(p)) /\ z.maxDepth \in Nat /\ Len(z.path) \in Nat
    BY ZoneTypes DEF Closest
  <1>4. Covers(z, p)
    <2>1. IsPrefix(z.path, p) /\ Len(ParentOf(p)) - Len(z.path) <= z.maxDepth
      BY <1>2, <1>3 DEF Covers
    <2>2. PICK n \in Nat, k \in Nat, m \in Nat :
             n = Len(ParentOf(p)) /\ n + 1 = Len(p) /\ k = Len(z.path) /\ m = z.maxDepth
      BY <1>1, <1>3
    <2>3. n - k <= m /\ n - k # m
      BY <2>1, <2>2
    <2>4. (n + 1) - k <= m
      BY <2>3
    <2>5. Len(p) - Len(z.path) <= z.maxDepth
      BY <2>2, <2>4
    <2>6. QED
      BY <2>1, <2>5 DEF Covers
  <1>5. \A y \in zones : Covers(y, p) => Covers(y, ParentOf(p))
    <2> TAKE y \in zones
    <2>1. y.maxDepth \in Nat /\ Len(y.path) \in Nat
      BY ZoneTypes
    <2>2. PICK n \in Nat, k \in Nat, m \in Nat :
             n = Len(ParentOf(p)) /\ n + 1 = Len(p) /\ k = Len(y.path) /\ m = y.maxDepth
      BY <1>1, <2>1
    <2>3. Len(p) - Len(y.path) <= y.maxDepth => Len(ParentOf(p)) - Len(y.path) <= y.maxDepth
      <3>1. (n + 1) - k <= m => n - k <= m
        OBVIOUS
      <3>2. QED
        BY <2>2, <3>1
    <2>4. QED
      BY <1>2, <2>3 DEF Covers
  <1>6. QED
    BY <1>3, <1>4, <1>5 DEF Closest

LEMMA OnlyKept ==
    ASSUME NamesAreApart, FiltersAreExact, TypeOK, ConfigInv, zones # {} \/ files # {},
           Active => WaysInv /\ VisitInv /\ OwnersInv /\ OnlyInv, SetupStep, Active \/ Begun
    PROVE  OnlyInv'
  <1> DEFINE Only(p, ds) == \E z \in Closest(p) :
                               /\ p \in disk
                               /\ ds[ParentOf(p)].owner = {z.path}
                               /\ Passes(z.dirIncludes, z.dirExcludes, NameOf(p))
  <1>1. CASE Begun
    BY <1>1 DEF Begun, OnlyInv
  <1>2. <<>> \in OnTheWay
    <2>1. \A p \in Tree : <<>> \in Upwards(p)
      <3> TAKE p \in Tree
      <3>1. p \in Seq(Names) /\ <<>> \in Seq(Names) /\ IsPrefix(<<>>, p)
        BY PathTypes, UpwardsIsPrefix
      <3>2. QED
        BY <3>1, UpwardsIsPrefix
    <2>2. QED
      BY <2>1, PathTypes, WaysLead DEF TypeOK
  <1>3. ASSUME ~Begun, NEW p \in DOMAIN dirs \ OnTheWay, Grows
        PROVE  Only(p, dirs')
    <2>1. p # <<>> /\ p \in Seq(Names)
      BY <1>2, <1>3, PathTypes DEF TypeOK
    <2>2. ParentOf(p) \in DOMAIN dirs
      BY <1>3, <2>1, PathParts DEF WaysInv
    <2>3. dirs'[ParentOf(p)].owner = dirs[ParentOf(p)].owner
      BY <1>3, <2>2 DEF Grows
    <2>4. Only(p, dirs)
      BY <1>3 DEF OnlyInv
    <2>5. QED
      BY <2>3, <2>4
  <1>4. ASSUME UNCHANGED <<disk, denied, zones, files>>,
               \A p \in DOMAIN dirs' \ OnTheWay : Only(p, dirs')
        PROVE  OnlyInv'
    <2>1. OnTheWay' = OnTheWay
      BY <1>4 DEF OnTheWay
    <2>2. \A p : Closest(p)' = Closest(p)
      BY <1>4 DEF Closest
    <2>3. QED
      BY <1>4, <2>1, <2>2 DEF OnlyInv
  <1> HIDE DEF Only
  <1>5. ASSUME ~Begun, NEW p \in Tree, Upwards(p) \subseteq OnTheWay, Grows, Fills(p) PROVE OnlyInv'
    BY <1>3, <1>4, <1>5 DEF Grows, Fills
  <1>6. ASSUME ~Begun, NEW z \in zones, ZoneFilled(z) PROVE OnlyInv'
    BY <1>5, <1>6, PathTypes DEF ZoneFilled, OnTheWay, TypeOK
  <1>7. ASSUME ~Begun, NEW f \in files, FileFilled(f) PROVE OnlyInv'
    BY <1>5, <1>7, PathTypes DEF FileFilled, OnTheWay, TypeOK
  <1>8. ASSUME ~Begun, NEW p \in Tree, Visited(p) PROVE OnlyInv'
    <2>1. Grows /\ Visits(p) /\ UNCHANGED <<disk, denied, zones, files>>
      BY <1>8 DEF Visited, Grows
    <2>2. ASSUME NEW q \in DOMAIN dirs' \ OnTheWay, q \notin DOMAIN dirs PROVE Only(q, dirs')
      <3>1. q = p /\ ~FilteredOutSubDir(dirs[ParentOf(p)], p) /\ p \in toVisit
        BY <2>1, <2>2 DEF Visits
      <3>2. /\ p # <<>> /\ ParentOf(p) \in DOMAIN dirs /\ ~dirs[ParentOf(p)].leaf
            /\ p \in disk /\ p \in Seq(Names) /\ p = Append(ParentOf(p), NameOf(p))
        BY <1>8, <3>1, PathTypes, PathParts DEF VisitInv, TypeOK
      <3>3. NameOf(p) \notin dirs[ParentOf(p)].pinnedDirs
        BY <1>8, <2>2, <3>1, <3>2 DEF WaysInv
      <3>4. PICK z \in OwnerZones(dirs[ParentOf(p)]) :
               PassesFilters(z.dirIncludes, z.dirExcludes, NameOf(p))
        BY <3>1, <3>3 DEF FilteredOutSubDir
      <3>5. z \in Closest(ParentOf(p)) /\ z \in zones
        BY <1>8, <3>2, <3>4, OwnerZonesClosest DEF OwnerZones
      <3>6. ParentOf(p) \in Tree
        BY <3>2 DEF TypeOK
      <3>7. Closest(ParentOf(p)) = {z}
        BY <3>5, <3>6, ClosestIsOne
      <3>8. Len(ParentOf(p)) - Len(z.path) # z.maxDepth
        BY <1>8, <3>2, <3>7 DEF OwnersInv
      <3>9. \A y \in zones : y.path # p
        BY <2>2, <3>1, PathTypes DEF OnTheWay, TypeOK
      <3>10. z \in Closest(p)
        BY <3>2, <3>5, <3>8, <3>9, ClosestBelow
      <3>11. Passes(z.dirIncludes, z.dirExcludes, NameOf(p))
        BY <3>4, <3>5, ExactFilters
      <3>12. dirs'[ParentOf(p)].owner = {z.path}
        BY <1>8, <2>1, <3>2, <3>7 DEF Grows, OwnersInv
      <3>13. QED
        BY <3>1, <3>2, <3>10, <3>11, <3>12 DEF Only
    <2>3. QED
      BY <1>3, <1>4, <1>8, <2>1, <2>2
  <1>9. ASSUME ~Begun, UNCHANGED <<disk, denied, zones, files, dirs>> PROVE OnlyInv'
    BY <1>4, <1>9 DEF OnlyInv, Only
  <1>10. QED
    BY <1>1, <1>6, <1>7, <1>8, <1>9 DEF SetupStep, ZoneEntered, StageDone

LEMMA OnlyInvariant ==
    ASSUME NamesAreApart, FiltersAreExact
    PROVE  Spec => [](Active => OnlyInv)
  <1>1. Init => (Active => OnlyInv)
    BY DEF Init, Active
  <1>2. TypeOK /\ SetupInv /\ (Active => OwnersInv) /\ (Active => OnlyInv) /\ [Next]_vars
        => (Active => OnlyInv)'
    <2> SUFFICES ASSUME TypeOK, SetupInv, Active => OwnersInv, Active => OnlyInv, [Next]_vars, Active'
                 PROVE  OnlyInv'
      OBVIOUS
    <2>1. SetupStep /\ (Active \/ Begun)
      BY StepIsSetupStep DEF SetupInv
    <2>2. zones # {} \/ files # {}
      BY <2>1 DEF SetupInv, ConfigInv, Begun
    <2>3. QED
      BY <2>1, <2>2, OnlyKept DEF SetupInv
  <1>3. QED
    BY <1>1, <1>2, TypeCorrect, SetupInvariant, OwnersInvariant, PTL DEF Spec

(* NothingElseIsWatched, for names of which none begins with another, and exact *)
(* filters.                                                                  *)
THEOREM OnlyTheseWatched ==
    ASSUME NamesAreApart, FiltersAreExact
    PROVE  Spec => []NothingElseIsWatched
  <1>1. (Active => OnlyInv) => NothingElseIsWatched
    BY DEF Active, OnlyInv, NothingElseIsWatched, Started
  <1>2. QED
    BY <1>1, OnlyInvariant, PTL

-----------------------------------------------------------------------------
(* The directories in the zones.                                              *)

(* The beginnings of a path.                                                  *)
LEMMA PartOfPath ==
    ASSUME NEW S, NEW p \in Seq(S), NEW k \in 0..Len(p)
    PROVE  /\ SubSeq(p, 1, k) \in Seq(S) /\ Len(SubSeq(p, 1, k)) = k
           /\ SubSeq(p, 1, k) \in Upwards(p)
           /\ SubSeq(p, 1, Len(p)) = p
  BY DEF Upwards

(* What begins one of them begins the path.                                    *)
LEMMA PartOfPart ==
    ASSUME NEW S, NEW p \in Seq(S), NEW k \in 0..Len(p), NEW j \in 0..k
    PROVE  SubSeq(SubSeq(p, 1, k), 1, j) = SubSeq(p, 1, j)
  OBVIOUS

LEMMA ParentOfPart ==
    ASSUME NEW S, NEW p \in Seq(S), NEW k \in 1..Len(p)
    PROVE  SubSeq(p, 1, k) # <<>> /\ ParentOf(SubSeq(p, 1, k)) = SubSeq(p, 1, k - 1)
  <1> DEFINE q == SubSeq(p, 1, k)
  <1>1. k \in Nat /\ k \in 0..Len(p) /\ k - 1 \in 0..k
    OBVIOUS
  <1>2. q \in Seq(S) /\ Len(q) = k
    BY <1>1, PartOfPath
  <1>3. SubSeq(q, 1, k - 1) = SubSeq(p, 1, k - 1)
    BY <1>1, PartOfPart
  <1> HIDE DEF q
  <1>4. q # <<>> /\ Front(q) = SubSeq(q, 1, k - 1)
    BY <1>1, <1>2 DEF Front
  <1>5. QED
    BY <1>3, <1>4 DEF q, ParentOf

LEMMA ClosestOfItself ==
    ASSUME TypeOK, NEW z \in zones
    PROVE  z \in Closest(z.path)
  <1>1. z.path \in Seq(Names) /\ Len(z.path) \in Nat /\ z.maxDepth \in Nat
    BY ZoneTypes
  <1>2. IsPrefix(z.path, z.path) /\ Len(z.path) - Len(z.path) <= z.maxDepth
    BY <1>1, UpwardsIsPrefix
  <1>3. \A y \in zones : IsPrefix(y.path, z.path) => Len(y.path) <= Len(z.path)
    BY <1>1, ZoneTypes, UpwardsIsPrefix
  <1>4. QED
    BY <1>2, <1>3 DEF Closest, Covers

(* If p is wanted, so are the directories from the base path down to it.       *)
LEMMA WantedAbove ==
    ASSUME TypeOK, NEW p \in Tree, NEW z \in zones, Wanted(p, z), NEW k \in Len(z.path)..Len(p)
    PROVE  /\ Wanted(SubSeq(p, 1, k), z)
           /\ SubSeq(p, 1, k) \in Tree
           /\ k \in 0..Len(p)
           /\ z.path = SubSeq(p, 1, Len(z.path)) /\ Len(z.path) \in 0..Len(p)
           /\ k = Len(z.path) => SubSeq(p, 1, k) = z.path
  <1> DEFINE q == SubSeq(p, 1, k)
  <1>1. p \in Seq(Names) /\ Len(p) \in Nat /\ Upwards(p) \subseteq Tree
    BY PathTypes
  <1>2. /\ z.path \in Seq(Names) /\ Len(z.path) \in Nat
        /\ IsPrefix(z.path, p)
    BY ZoneTypes DEF Wanted, Closest, Covers
  <1>3. Len(z.path) <= Len(p) /\ z.path = SubSeq(p, 1, Len(z.path))
    BY <1>1, <1>2, UpwardsIsPrefix
  <1>4. k \in 0..Len(p) /\ k \in Nat
    BY <1>1, <1>2, <1>3
  <1>5. q \in Tree /\ Len(q) = k /\ \A j \in 0..k : SubSeq(q, 1, j) = SubSeq(p, 1, j)
    BY <1>1, <1>4, PartOfPath, PartOfPart
  <1>6. \A j \in (Len(z.path) + 1)..k :
           /\ j \in (Len(z.path) + 1)..Len(p)
           /\ SubSeq(q, 1, j) = SubSeq(p, 1, j)
    BY <1>1, <1>2, <1>4, <1>5
  <1>7. z \in Closest(q)
    <2>1. CASE k = Len(z.path)
      BY <1>3, <2>1, ClosestOfItself
    <2>2. CASE k # Len(z.path)
      <3>1. k \in (Len(z.path) + 1)..Len(p)
        BY <1>1, <1>2, <1>4, <2>2
      <3>2. QED
        BY <3>1 DEF Wanted
    <2>3. QED
      BY <2>1, <2>2
  <1>8. \A j \in Len(z.path)..(k - 1) :
           /\ j \in Len(z.path)..(Len(p) - 1)
           /\ SubSeq(q, 1, j) = SubSeq(p, 1, j)
    BY <1>1, <1>2, <1>4, <1>5
  <1> HIDE DEF q
  <1>9. Wanted(q, z)
    BY <1>5, <1>6, <1>7, <1>8 DEF Wanted
  <1>10. QED
    BY <1>2, <1>3, <1>4, <1>5, <1>9 DEF q

(* It is not passed by: its parent is of the same zone, whose filters it passes. *)
LEMMA WantedPasses ==
    ASSUME FiltersAreExact, TypeOK, ConfigInv, OwnersInv, NEW q \in Tree, NEW z \in zones,
           Wanted(q, z), Len(z.path) < Len(q), ParentOf(q) \in DOMAIN dirs
    PROVE  /\ ~FilteredOutSubDir(dirs[ParentOf(q)], q)
           /\ q \in DOMAIN dirs => dirs[q].owner = dirs[ParentOf(q)].owner
  <1>1. q \in Seq(Names) /\ Len(q) \in Nat /\ z.path \in Seq(Names) /\ Len(z.path) \in Nat
    BY PathTypes, ZoneTypes
  <1>2. q # <<>> /\ Len(q) \in 1..Len(q) /\ q = SubSeq(q, 1, Len(q))
    BY <1>1
  <1>3. ParentOf(q) = SubSeq(q, 1, Len(q) - 1)
    <2>1. ParentOf(SubSeq(q, 1, Len(q))) = SubSeq(q, 1, Len(q) - 1)
      BY <1>1, <1>2, ParentOfPart
    <2>2. QED
      BY <1>2, <2>1
  <1>4. Len(q) - 1 \in Len(z.path)..Len(q) /\ Len(q) \in (Len(z.path) + 1)..Len(q)
    BY <1>1
  <1>5. Wanted(ParentOf(q), z) /\ ParentOf(q) \in Tree
    BY <1>3, <1>4, WantedAbove
  <1>6. z \in Closest(ParentOf(q)) /\ z \in Closest(q)
    BY <1>5 DEF Wanted
  <1>7. Closest(ParentOf(q)) = {z} /\ Closest(q) = {z}
    BY <1>5, <1>6, ClosestIsOne
  <1>8. Passes(z.dirIncludes, z.dirExcludes, NameOf(q)) /\ q \notin FakePaths
    BY <1>2, <1>4 DEF Wanted
  <1>9. OwnerZones(dirs[ParentOf(q)]) = {z}
    BY <1>7, OwnerZonesClosest
  <1>10. ~FilteredOutSubDir(dirs[ParentOf(q)], q)
    BY <1>8, <1>9, ExactFilters DEF FilteredOutSubDir
  <1>11. q \in DOMAIN dirs => dirs[q].owner = dirs[ParentOf(q)].owner
    BY <1>7 DEF OwnersInv
  <1>12. QED
    BY <1>10, <1>11

(* The way to it goes on below a directory that is entered.                    *)
LEMMA WantedGoesOn ==
    ASSUME TypeOK, ConfigInv, NEW p \in disk, NEW z \in zones, Wanted(p, z),
           NEW k \in Len(z.path)..(Len(p) - 1), NEW q, q = SubSeq(p, 1, k), NEW dir,
           dir.leaf <=> \A x \in Closest(q) : Len(q) - Len(x.path) = x.maxDepth
    PROVE  /\ k + 1 \in (Len(z.path) + 1)..Len(p)
           /\ SubSeq(p, 1, k + 1) \in Subdirectories(q, dir)
  <1> DEFINE r == SubSeq(p, 1, k + 1)
  <1>1. /\ p \in Tree /\ p \in Seq(Names) /\ Len(p) \in Nat
        /\ z.path \in Seq(Names) /\ Len(z.path) \in Nat /\ z.maxDepth \in Nat
    <2>1. p \in Tree
      BY DEF TypeOK
    <2>2. p \in Seq(Names)
      BY <2>1, PathTypes
    <2>3. QED
      BY <2>1, <2>2, ZoneTypes
  <1>2. /\ k \in Len(z.path)..Len(p) /\ k + 1 \in Len(z.path)..Len(p) /\ k \in Nat
        /\ k + 1 \in (Len(z.path) + 1)..Len(p) /\ k + 1 \in 0..Len(p) /\ k \in 0..Len(p)
        /\ k + 1 \in 1..Len(p) /\ (k + 1) - 1 = k
    BY <1>1
  <1>3. /\ r # <<>> /\ ParentOf(r) = q /\ r \in Upwards(p)
        /\ Len(r) = k + 1 /\ Len(q) = k
    <2>1. r # <<>> /\ ParentOf(r) = SubSeq(p, 1, (k + 1) - 1)
      BY <1>1, <1>2, ParentOfPart
    <2>2. r \in Upwards(p) /\ Len(r) = k + 1 /\ Len(q) = k
      BY <1>1, <1>2, PartOfPath
    <2>3. QED
      BY <1>2, <2>1, <2>2
  <1>4. r \in disk
    BY <1>3 DEF ConfigInv
  <1>5. Wanted(q, z) /\ Wanted(r, z) /\ q \in Tree
    BY <1>1, <1>2, WantedAbove
  <1> HIDE DEF r
  <1>6. Closest(q) = {z}
    BY <1>5, ClosestIsOne DEF Wanted
  <1>7. (k + 1) - Len(z.path) <= z.maxDepth
    BY <1>3, <1>5 DEF Wanted, Closest, Covers
  <1>8. k - Len(z.path) # z.maxDepth
    <2>1. PICK m \in Nat, n \in Nat : m = Len(z.path) /\ n = z.maxDepth
      BY <1>1
    <2>2. (k + 1) - m <= n => k - m # n
      BY <1>2
    <2>3. QED
      BY <1>7, <2>1, <2>2
  <1>9. ~dir.leaf
    BY <1>3, <1>6, <1>8
  <1>10. r \in Subdirectories(q, dir)
    <2>1. q \notin denied
      BY DEF Wanted
    <2>2. QED
      BY <1>3, <1>4, <1>9, <2>1 DEF Subdirectories
  <1>11. QED
    BY <1>2, <1>10 DEF r

LEMMA CoverEntered ==
    ASSUME NamesAreApart, FiltersAreExact, TypeOK, ConfigInv, GapsInv, OwnersInv, CoverInv,
           running, NEW y \in zones, ZoneEntered(y)
    PROVE  CoverInv'
  <1>1. /\ stage = "create" /\ y \in todo /\ toVisit = {} /\ todo' = todo \ {y}
        /\ toVisit' = Subdirectories(y.path, dirs[y.path])
        /\ UNCHANGED <<stage, dirs, disk, denied, zones, running>>
    BY DEF ZoneEntered
  <1>2. ASSUME NEW z \in zones \ todo', NEW p \in disk, Wanted(p, z)
        PROVE  \/ p \in DOMAIN dirs
               \/ \E k \in (Len(z.path) + 1)..Len(p) : SubSeq(p, 1, k) \in toVisit'
    <2>1. CASE z # y
      BY <1>1, <1>2, <2>1 DEF CoverInv
    <2>2. CASE z = y
      <3>1. p \in Tree
        BY DEF TypeOK
      <3>2. p \in Seq(Names) /\ Len(p) \in Nat /\ z.path \in Seq(Names) /\ Len(z.path) \in Nat
        BY <3>1, PathTypes, ZoneTypes
      <3>3. z.path \in DOMAIN dirs
        BY <1>1 DEF GapsInv
      <3>4. z.path = SubSeq(p, 1, Len(z.path)) /\ Len(z.path) <= Len(p)
        <4>1. IsPrefix(z.path, p)
          BY <1>2 DEF Wanted, Closest, Covers
        <4>2. QED
          BY <3>2, <4>1, UpwardsIsPrefix
      <3>5. CASE Len(p) = Len(z.path)
        BY <3>2, <3>3, <3>4, <3>5
      <3>6. CASE Len(p) # Len(z.path)
        <4>1. Len(z.path) \in Len(z.path)..(Len(p) - 1)
          BY <3>2, <3>4, <3>6
        <4>2. /\ Len(z.path) + 1 \in (Len(z.path) + 1)..Len(p)
              /\ SubSeq(p, 1, Len(z.path) + 1) \in Subdirectories(z.path, dirs[z.path])
          <5>1. dirs[z.path].leaf <=> \A x \in Closest(z.path) : Len(z.path) - Len(x.path) = x.maxDepth
            BY <3>3 DEF OwnersInv
          <5>2. /\ Len(z.path) + 1 \in (Len(z.path) + 1)..Len(p)
                /\ SubSeq(p, 1, Len(z.path) + 1) \in Subdirectories(z.path, dirs[z.path])
            BY <1>2, <3>4, <4>1, <5>1, WantedGoesOn
          <5>3. QED
            BY <5>2
        <4>3. QED
          BY <1>1, <2>2, <4>2
      <3>7. QED
        BY <3>5, <3>6
    <2>3. QED
      BY <2>1, <2>2
  <1>3. \A p, z : Wanted(p, z)' = Wanted(p, z)
    BY <1>1 DEF Wanted, Closest
  <1>4. QED
    BY <1>1, <1>2, <1>3 DEF CoverInv

(* The visit of a directory on the way to it moves the place down.             *)
LEMMA CoverVisited ==
    ASSUME NamesAreApart, FiltersAreExact, TypeOK, TypeOK', ConfigInv, VisitInv,
           OwnersInv, OwnersInv', WaysInv', CoverInv, running,
           NEW w \in Tree, Visited(w)
    PROVE  CoverInv'
  <1>1. /\ stage = "create" /\ Grows /\ Visits(w) /\ w \in toVisit /\ todo' = todo
        /\ UNCHANGED <<stage, disk, denied, zones, running>> /\ DOMAIN dirs \subseteq DOMAIN dirs'
    BY DEF Visited, Visits, Grows
  <1>2. /\ \A p : Watchable(p)' = Watchable(p) /\ InFakeFS(p)' = InFakeFS(p)
        /\ \A p, z : Wanted(p, z)' = Wanted(p, z)
        /\ \A p : Closest(p)' = Closest(p)
    BY <1>1 DEF Wanted, Closest, Watchable, InFakeFS
  <1>3. ASSUME NEW z \in zones \ todo, NEW p \in disk, Wanted(p, z)
        PROVE  \/ p \in DOMAIN dirs'
               \/ \E k \in (Len(z.path) + 1)..Len(p) : SubSeq(p, 1, k) \in toVisit'
    <2>1. CASE p \in DOMAIN dirs
      BY <1>1, <2>1
    <2>2. CASE p \notin DOMAIN dirs
      <3>1. PICK k \in (Len(z.path) + 1)..Len(p) : SubSeq(p, 1, k) \in toVisit
        BY <1>1, <1>3, <2>2 DEF CoverInv
      <3>2. CASE SubSeq(p, 1, k) # w
        BY <1>1, <3>1, <3>2 DEF Visits
      <3>3. CASE SubSeq(p, 1, k) = w
        <4>1. p \in Tree
          BY DEF TypeOK
        <4>2. /\ p \in Seq(Names) /\ Len(p) \in Nat /\ p = SubSeq(p, 1, Len(p))
              /\ z.path \in Seq(Names) /\ Len(z.path) \in Nat
          BY <4>1, PathTypes, ZoneTypes
        <4>3. k \in Len(z.path)..Len(p) /\ k \in 0..Len(p) /\ Len(z.path) < k
          BY <4>2
        <4>4. Wanted(w, z) /\ Len(w) = k
          BY <1>3, <3>3, <4>1, <4>2, <4>3, WantedAbove, PartOfPath
        <4>5. ParentOf(w) \in DOMAIN dirs /\ w \in disk
          BY <1>1 DEF VisitInv, TypeOK
        <4>6. /\ ~FilteredOutSubDir(dirs[ParentOf(w)], w)
              /\ w \in DOMAIN dirs => dirs[w].owner = dirs[ParentOf(w)].owner
          BY <4>3, <4>4, <4>5, WantedPasses
        <4>7. /\ DOMAIN dirs' = DOMAIN dirs \cup {w}
              /\ toVisit' = (toVisit \ {w}) \cup
                    (IF running /\ ~dirs'[w].watched THEN {} ELSE Subdirectories(w, dirs'[w]))
          BY <1>1, <4>6 DEF Visits
        <4>8. w \notin denied => dirs'[w].watched
          BY <1>1, <1>2, <4>5, <4>7 DEF WaysInv, Watchable
        <4>9. CASE k = Len(p)
          BY <3>3, <4>2, <4>7, <4>9
        <4>10. CASE k # Len(p)
          <5>1. k \in Len(z.path)..(Len(p) - 1)
            <6>1. k \in Nat /\ Len(z.path) < k /\ k <= Len(p)
              BY <4>2, <4>3
            <6>2. Len(p) \in Nat /\ Len(z.path) \in Nat
              BY <4>2
            <6>3. QED
              BY <4>10, <6>1, <6>2
          <5>2. /\ k + 1 \in (Len(z.path) + 1)..Len(p)
                /\ SubSeq(p, 1, k + 1) \in Subdirectories(w, dirs'[w])
            <6>1. dirs'[w].leaf <=> \A x \in Closest(w) : Len(w) - Len(x.path) = x.maxDepth
              BY <1>2, <4>7 DEF OwnersInv
            <6>2. QED
              BY <1>3, <3>3, <5>1, <6>1, WantedGoesOn
          <5>3. w \notin denied
            BY <1>3, <3>3, <5>1 DEF Wanted
          <5>4. SubSeq(p, 1, k + 1) \in toVisit'
            BY <4>7, <4>8, <5>2, <5>3
          <5>5. QED
            BY <5>2, <5>4
        <4>11. QED
          BY <4>9, <4>10
      <3>4. QED
        BY <3>2, <3>3
    <2>3. QED
      BY <2>1, <2>2
  <1>4. QED
    BY <1>1, <1>2, <1>3 DEF CoverInv

LEMMA CoverKept ==
    ASSUME NamesAreApart, FiltersAreExact, TypeOK, TypeOK', ConfigInv,
           Active => GapsInv /\ VisitInv /\ OwnersInv /\ CoverInv,
           OwnersInv', WaysInv', SetupStep, Active \/ Begun
    PROVE  CoverInv'
  <1>1. CASE Begun
    BY <1>1 DEF Begun, CoverInv
  <1>2. CASE ~(running' /\ stage' \in {"create", "idle"})
    BY <1>2 DEF CoverInv
  <1>3. ASSUME Active, running, NEW z \in zones, ZoneFilled(z) \/ ZoneEntered(z) PROVE CoverInv'
    BY <1>3, CoverEntered DEF ZoneFilled, CoverInv
  <1>4. ASSUME Active, running, NEW f \in files, FileFilled(f) PROVE CoverInv'
    BY <1>4 DEF FileFilled, CoverInv
  <1>5. ASSUME Active, running, NEW p \in Tree, Visited(p) PROVE CoverInv'
    BY <1>5, CoverVisited
  <1>6. ASSUME Active, running, StageDone PROVE CoverInv'
    <2>1. CASE stage # "create"
      BY <1>6, <2>1 DEF StageDone, CoverInv
    <2>2. CASE stage = "create"
      <3>1. todo = {} /\ toVisit = {} /\ UNCHANGED <<disk, denied, zones, dirs>>
        BY <1>6, <2>2 DEF StageDone
      <3>2. \A p, z : Wanted(p, z)' = Wanted(p, z)
        BY <3>1 DEF Wanted, Closest
      <3>3. \A z \in zones : \A p \in disk : Wanted(p, z) => p \in DOMAIN dirs
        BY <1>6, <2>2, <3>1 DEF CoverInv
      <3>4. QED
        BY <3>1, <3>2, <3>3 DEF CoverInv
    <2>3. QED
      BY <2>1, <2>2
  <1>7. ASSUME Active, UNCHANGED <<disk, denied, zones, files, running, stage, todo, toVisit, dirs>>
        PROVE  CoverInv'
    BY <1>7 DEF CoverInv, Wanted, Closest
  <1>8. CASE ~Begun /\ running' /\ stage' \in {"create", "idle"}
    <2>1. Active
      BY <1>8
    <2>2. running \/ UNCHANGED <<disk, denied, zones, files, running, stage, todo, toVisit, dirs>>
      BY <1>8 DEF SetupStep, ZoneFilled, ZoneEntered, FileFilled, Visited, StageDone, Grows
    <2>3. QED
      BY <1>3, <1>4, <1>5, <1>6, <1>7, <1>8, <2>1, <2>2 DEF SetupStep
  <1>9. QED
    BY <1>1, <1>2, <1>8

LEMMA CoverInvariant ==
    ASSUME NamesAreApart, FiltersAreExact
    PROVE  Spec => [](Active => CoverInv)
  <1>1. Init => (Active => CoverInv)
    BY DEF Init, Active
  <1>2. /\ TypeOK /\ TypeOK' /\ SetupInv /\ SetupInv'
        /\ (Active => OwnersInv) /\ (Active => OwnersInv)'
        /\ (Active => CoverInv) /\ [Next]_vars
        => (Active => CoverInv)'
    <2> SUFFICES ASSUME TypeOK, TypeOK', SetupInv, SetupInv', Active => OwnersInv,
                        (Active => OwnersInv)', Active => CoverInv, [Next]_vars, Active'
                 PROVE  CoverInv'
      OBVIOUS
    <2>1. SetupStep /\ (Active \/ Begun)
      BY StepIsSetupStep DEF SetupInv
    <2>2. OwnersInv' /\ WaysInv'
      BY DEF SetupInv
    <2>3. QED
      BY <2>1, <2>2, CoverKept DEF SetupInv
  <1>3. QED
    BY <1>1, <1>2, TypeCorrect, SetupInvariant, OwnersInvariant, PTL DEF Spec

(* ZonesAreCovered, for names of which none begins with another, and exact      *)
(* filters: what is to be watched is never passed by on the way to it.        *)
THEOREM ZonesCovered ==
    ASSUME NamesAreApart, FiltersAreExact
    PROVE  Spec => []ZonesAreCovered
  <1>1. TypeOK /\ SetupInv /\ (Active => OwnersInv) /\ (Active => CoverInv) => ZonesAreCovered
    <2> SUFFICES ASSUME TypeOK, SetupInv, Active => OwnersInv, Active => CoverInv, Started,
                        NEW z \in zones, NEW p \in disk, Wanted(p, z)
                 PROVE  /\ p \in DOMAIN dirs
                        /\ dirs[p].owner = {z.path}
                        /\ dirs[p].depth = Len(p) - Len(z.path)
      BY DEF ZonesAreCovered
    <2>1. /\ ConfigInv /\ OwnersInv /\ CoverInv /\ running /\ stage = "idle"
          /\ todo = {} /\ toVisit = {}
      BY DEF SetupInv, ConfigInv, Active, Started
    <2>2. p \in DOMAIN dirs
      BY <2>1 DEF CoverInv
    <2>3. p \in Tree /\ z \in Closest(p)
      BY DEF TypeOK, Wanted
    <2>4. Closest(p) = {z}
      BY <2>1, <2>3, ClosestIsOne
    <2>5. QED
      BY <2>1, <2>2, <2>4 DEF OwnersInv
  <1>2. QED
    BY <1>1, TypeCorrect, SetupInvariant, OwnersInvariant, CoverInvariant, PTL

(* All of the inductive invariant.                                            *)
THEOREM IInvariant ==
    ASSUME NamesAreApart, FiltersAreExact
    PROVE  Spec => []IInv
  BY SetupInvariant, OwnersInvariant, CoverInvariant, OnlyInvariant, PTL DEF IInv

=============================================================================
