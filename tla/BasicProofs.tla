---------------------------- MODULE BasicProofs -----------------------------
(***************************************************************************)
(* What the other proofs share: the least element of a set of numbers,     *)
(* induction, and the parts of a sequence.                                 *)
(***************************************************************************)
EXTENDS Least, Sequences, TLAPS, WellFoundedInduction, SequenceTheorems

\* The first match of a table scan, such as the first free slot, inode or sector,
\* exists and is the first.
LEMMA LowestOfSet ==
    ASSUME NEW S \in SUBSET Nat, S # {}
    PROVE  Lowest(S) \in S /\ \A y \in S : Lowest(S) <= y
<1> DEFINE R == OpToRel(<, Nat)
<1>1. IsWellFoundedOn(R, Nat)
  BY NatLessThanWellFounded
<1>2. \A i, j \in Nat : <<i, j>> \in R <=> i < j
  BY DEF OpToRel
<1> HIDE DEF R
<1>3. \E x \in S : \A y \in S : ~(<<y, x>> \in R)
  BY <1>1, WFMin
<1>4. \E x \in S : \A y \in S : x <= y
  <2>1. PICK x \in S : \A y \in S : ~(<<y, x>> \in R)
    BY <1>3
  <2>2. ASSUME NEW y \in S PROVE x <= y
    <3>1. ~(y < x)
      BY <1>2, <2>1
    <3> QED
      BY <3>1
  <2> QED
    BY <2>2
<1> QED
  BY <1>4 DEF Lowest

\* Induction, for a set of numbers: the provers cannot use the library's rule,
\* which takes an operator.
LEMMA InductionOnSet ==
    ASSUME NEW S \in SUBSET Nat, 0 \in S, \A n \in S : n + 1 \in S
    PROVE  S = Nat
<1> SUFFICES ASSUME Nat \ S # {} PROVE FALSE
  OBVIOUS
<1>1. PICK T \in SUBSET Nat : T = Nat \ S
  OBVIOUS
<1>2. PICK m \in T : \A y \in T : m <= y
  BY <1>1, LowestOfSet
<1>3. m \in Nat /\ m # 0
  BY <1>1, <1>2
<1>4. m - 1 \in Nat /\ ~(m <= m - 1) /\ (m - 1) + 1 = m
  BY <1>3
<1>5. m - 1 \in S
  BY <1>1, <1>2, <1>4
<1> QED
  BY <1>1, <1>2, <1>4, <1>5

\* A part of a sequence, element by element.
LEMMA SubSeqIs ==
    ASSUME NEW S, NEW s \in Seq(S), NEW m \in Nat, NEW n \in Nat, m <= n, n <= Len(s),
           NEW t \in Seq(S), Len(t) = n - m, \A a \in 1 .. (n - m) : t[a] = s[m + a]
    PROVE  t = SubSeq(s, m + 1, n)
<1>1. \A a \in (m + 1) .. n : s[a] \in S
  OBVIOUS
<1>2. m + 1 \in Int /\ n \in Int
  OBVIOUS
<1>3. /\ SubSeq(s, m + 1, n) \in Seq(S)
      /\ Len(SubSeq(s, m + 1, n)) = IF m + 1 <= n THEN n - (m + 1) + 1 ELSE 0
      /\ \A a \in 1 .. (n - (m + 1) + 1) : SubSeq(s, m + 1, n)[a] = s[(m + 1) + a - 1]
  BY <1>1, <1>2, SubSeqProperties
<1>4. /\ Len(SubSeq(s, m + 1, n)) = n - m
      /\ \A a \in 1 .. (n - m) : SubSeq(s, m + 1, n)[a] = s[m + a]
  BY <1>3
<1> QED
  BY <1>3, <1>4, SeqEqual

\* A stretch of a sequence, given unit by unit.
LEMMA SliceIs ==
    ASSUME NEW S, NEW s \in Seq(S), NEW m \in Nat, NEW k \in Nat, m + k <= Len(s),
           NEW t \in [1 .. k -> S], \A a \in 1 .. k : t[a] = s[m + a]
    PROVE  t = SubSeq(s, m + 1, m + k) /\ Len(t) = k
<1>1. t \in Seq(S) /\ Len(t) = k
  OBVIOUS
<1>2. PICK n \in Nat : n = m + k
  OBVIOUS
<1>3. n - m = k /\ m <= n /\ n <= Len(s)
  BY <1>2
<1>4. Len(t) = n - m /\ \A a \in 1 .. (n - m) : t[a] = s[m + a]
  BY <1>1, <1>3
<1>5. t = SubSeq(s, m + 1, n)
  BY <1>1, <1>3, <1>4, SubSeqIs
<1> QED
  BY <1>1, <1>2, <1>5

\* What SubSeq() is, unit by unit.
LEMMA StretchIs ==
    ASSUME NEW S, NEW s \in Seq(S), NEW m \in Nat, NEW k \in Nat, m + k <= Len(s)
    PROVE  /\ SubSeq(s, m + 1, m + k) \in Seq(S) /\ Len(SubSeq(s, m + 1, m + k)) = k
           /\ SubSeq(s, m + 1, m + k) \in [1 .. k -> S]
           /\ \A a \in 1 .. k : SubSeq(s, m + 1, m + k)[a] = s[m + a]
<1>1. \A a \in (m + 1) .. (m + k) : s[a] \in S
  OBVIOUS
<1>2. m + 1 \in Int /\ m + k \in Int
  OBVIOUS
<1>3. /\ SubSeq(s, m + 1, m + k) \in Seq(S)
      /\ Len(SubSeq(s, m + 1, m + k)) = IF m + 1 <= m + k THEN (m + k) - (m + 1) + 1 ELSE 0
      /\ \A a \in 1 .. ((m + k) - (m + 1) + 1) :
            SubSeq(s, m + 1, m + k)[a] = s[(m + 1) + a - 1]
  BY <1>1, <1>2, SubSeqProperties
<1>4. PICK t : t = SubSeq(s, m + 1, m + k)
  OBVIOUS
<1>5. t \in Seq(S) /\ Len(t) = k /\ \A a \in 1 .. k : t[a] = s[m + a]
  BY <1>3, <1>4
<1>6. t \in [1 .. k -> S]
  BY <1>5
<1> QED
  BY <1>4, <1>5, <1>6

\* The first k units of a sequence.
LEMMA PrefixIs ==
    ASSUME NEW S, NEW s \in Seq(S), NEW k \in Nat, k <= Len(s)
    PROVE  /\ SubSeq(s, 1, k) \in Seq(S) /\ Len(SubSeq(s, 1, k)) = k
           /\ \A a \in 1 .. k : SubSeq(s, 1, k)[a] = s[a]
<1>1. 0 \in Nat /\ 0 + 1 = 1 /\ 0 + k = k /\ 0 + k <= Len(s) /\ \A a \in 1 .. k : 0 + a = a
  OBVIOUS
<1>2. /\ SubSeq(s, 0 + 1, 0 + k) \in Seq(S) /\ Len(SubSeq(s, 0 + 1, 0 + k)) = k
      /\ \A a \in 1 .. k : SubSeq(s, 0 + 1, 0 + k)[a] = s[0 + a]
  BY <1>1, StretchIs
<1> QED
  BY <1>1, <1>2

\* A prefix and the stretch behind it are the longer prefix.
LEMMA PrefixJoined ==
    ASSUME NEW S, NEW s \in Seq(S), NEW m \in Nat, NEW k \in Nat, m + k <= Len(s)
    PROVE  SubSeq(s, 1, m) \o SubSeq(s, m + 1, m + k) = SubSeq(s, 1, m + k)
<1>1. PICK p : p = SubSeq(s, 1, m)
  OBVIOUS
<1>2. PICK q : q = SubSeq(s, m + 1, m + k)
  OBVIOUS
<1>3. PICK r : r = SubSeq(s, 1, m + k)
  OBVIOUS
<1>4. m <= Len(s) /\ m + k \in Nat
  OBVIOUS
<1>5. p \in Seq(S) /\ Len(p) = m /\ \A a \in 1 .. m : p[a] = s[a]
  BY <1>1, <1>4, PrefixIs
<1>6. q \in Seq(S) /\ Len(q) = k /\ \A a \in 1 .. k : q[a] = s[m + a]
  BY <1>2, StretchIs
<1>7. r \in Seq(S) /\ Len(r) = m + k /\ \A a \in 1 .. (m + k) : r[a] = s[a]
  BY <1>3, <1>4, PrefixIs
<1>8. /\ p \o q \in Seq(S) /\ Len(p \o q) = m + k
      /\ \A a \in 1 .. (m + k) : (p \o q)[a] = IF a <= m THEN p[a] ELSE q[a - m]
  BY <1>5, <1>6, ConcatProperties
<1>9. ASSUME NEW a \in 1 .. (m + k) PROVE (p \o q)[a] = r[a]
  <2>1. CASE a <= m
    BY <1>5, <1>7, <1>8, <2>1
  <2>2. CASE ~(a <= m)
    <3>1. a - m \in 1 .. k /\ m + (a - m) = a
      BY <2>2
    <3>2. (p \o q)[a] = q[a - m] /\ q[a - m] = s[m + (a - m)]
      BY <1>6, <1>8, <2>2, <3>1
    <3> QED
      BY <1>7, <3>1, <3>2
  <2> QED
    BY <2>1, <2>2
<1> QED
  BY <1>1, <1>2, <1>3, <1>7, <1>8, <1>9, SeqEqual

\* A prefix and the next unit are the prefix that is one longer.
LEMMA PrefixAppend ==
    ASSUME NEW S, NEW s \in Seq(S), NEW k \in Nat, k + 1 <= Len(s)
    PROVE  SubSeq(s, 1, k + 1) = Append(SubSeq(s, 1, k), s[k + 1])
<1>1. k <= Len(s) /\ k + 1 \in Nat /\ s[k + 1] \in S
  OBVIOUS
<1>2. PICK p : p = SubSeq(s, 1, k)
  OBVIOUS
<1>3. PICK r : r = SubSeq(s, 1, k + 1)
  OBVIOUS
<1>4. p \in Seq(S) /\ Len(p) = k /\ \A a \in 1 .. k : p[a] = s[a]
  BY <1>1, <1>2, PrefixIs
<1>5. r \in Seq(S) /\ Len(r) = k + 1 /\ \A a \in 1 .. (k + 1) : r[a] = s[a]
  BY <1>1, <1>3, PrefixIs
<1>6. PICK q \in Seq(S) : q = Append(p, s[k + 1])
  BY <1>1, <1>4, AppendProperties
<1>7. Len(q) = k + 1 /\ q[k + 1] = s[k + 1] /\ \A a \in 1 .. k : q[a] = p[a]
  BY <1>1, <1>4, <1>6, AppendProperties
<1>8. \A a \in 1 .. (k + 1) : q[a] = r[a]
  BY <1>4, <1>5, <1>7
<1> QED
  BY <1>2, <1>3, <1>5, <1>6, <1>7, <1>8, SeqEqual

\* Two sequences joined, unit by unit.
LEMMA JoinedIs ==
    ASSUME NEW S, NEW s \in Seq(S), NEW t \in Seq(S)
    PROVE  /\ s \o t \in Seq(S) /\ Len(s \o t) = Len(s) + Len(t)
           /\ \A i \in 1 .. Len(s) : (s \o t)[i] = s[i]
           /\ \A i \in 1 .. Len(t) : (s \o t)[Len(s) + i] = t[i]
<1>1. PICK m \in Nat, n \in Nat : m = Len(s) /\ n = Len(t)
  OBVIOUS
<1>2. PICK u \in Seq(S) : u = s \o t
  BY ConcatProperties
<1>3. /\ Len(u) = m + n
      /\ \A i \in 1 .. (m + n) : u[i] = IF i <= m THEN s[i] ELSE t[i - m]
  BY <1>1, <1>2, ConcatProperties
<1>4. ASSUME NEW i \in 1 .. m PROVE u[i] = s[i]
  <2>1. i \in 1 .. (m + n) /\ i <= m
    OBVIOUS
  <2> QED
    BY <1>3, <2>1
<1>5. ASSUME NEW i \in 1 .. n PROVE u[m + i] = t[i]
  <2>1. m + i \in 1 .. (m + n) /\ ~(m + i <= m) /\ (m + i) - m = i
    OBVIOUS
  <2>2. u[m + i] = t[(m + i) - m]
    BY <1>3, <2>1
  <2> QED
    BY <2>1, <2>2
<1> QED
  BY <1>1, <1>2, <1>3, <1>4, <1>5

\* Joining is associative: the provers use this better without its definition.
Join(s, t) == s \o t

\* One sequence after another is a sequence of the same kind.
LEMMA JoinType ==
    ASSUME NEW S, NEW s \in Seq(S), NEW t \in Seq(S)
    PROVE  Join(s, t) \in Seq(S)
<1> QED
  BY ConcatProperties DEF Join

\* Where the brackets are does not matter.
LEMMA JoinAssociative ==
    ASSUME NEW S, NEW s \in Seq(S), NEW t \in Seq(S), NEW u \in Seq(S)
    PROVE  Join(Join(s, t), u) = Join(s, Join(t, u))
<1> QED
  BY ConcatAssociative DEF Join

\* Five parts put together in two ways.
LEMMA Regroup ==
    ASSUME NEW S, NEW p \in Seq(S), NEW a \in Seq(S), NEW b \in Seq(S), NEW n \in Seq(S),
           NEW z \in Seq(S)
    PROVE  Join(Join(p, Join(Join(a, b), n)), z) = Join(Join(p, a), Join(Join(b, n), z))
<1>1. PICK c \in Seq(S) : c = Join(b, n)
  BY JoinType
<1>2. PICK d \in Seq(S) : d = Join(p, a)
  BY JoinType
<1>3. Join(Join(a, b), n) = Join(a, c)
  BY <1>1, JoinAssociative
<1>4. Join(p, Join(a, c)) = Join(d, c)
  BY <1>2, JoinAssociative
<1>5. Join(Join(d, c), z) = Join(d, Join(c, z))
  BY JoinAssociative
<1> QED
  BY <1>1, <1>2, <1>3, <1>4, <1>5, Zenon
=============================================================================
