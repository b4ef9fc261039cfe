-------------------------- MODULE FrameCodecProofs --------------------------
(***************************************************************************)
(* Theorems about the codec, for every alphabet, limit and stream and for  *)
(* every way the reads cut it.  Fairness plays no part in them.            *)
(***************************************************************************)
EXTENDS FrameCodec, FiniteSetTheorems, SequenceTheorems, WellFoundedInduction, TLAPS

\* The least-number principle, from the well-foundedness of < on Nat.
LEMMA LeastNumber ==
  ASSUME NEW T \in SUBSET Nat, T # {}
  PROVE  \E m \in T : \A n \in T : m <= n
  <1> DEFINE R == OpToRel(<, Nat)
  <1>1. IsWellFoundedOn(R, Nat)
    BY NatLessThanWellFounded, Zenon
  <1>2. \A m, n \in Nat : n < m => <<n, m>> \in R
    BY SMT DEF OpToRel
  <1> HIDE DEF R
  <1>3. PICK m \in T : \A n \in T : ~ (<<n, m>> \in R)
    BY <1>1, WFMin, Zenon
  <1>4. \A n \in T : ~ (n < m)
    BY <1>2, <1>3
  <1>5. \A n \in T : m <= n
    BY <1>4
  <1> QED BY <1>5

\* A byte is payload or delimiter, and not both.
LEMMA Bytes ==
  \A b \in Byte : b \in Payload <=> b \notin Delimiter
  BY FrameCodecAssumption DEF Byte

\* What SubSeq does within its bounds.
LEMMA Cut ==
  ASSUME NEW S, NEW s \in Seq(S), NEW m \in Nat, NEW n \in Nat, 1 <= m, n <= Len(s), m <= n + 1
  PROVE  /\ SubSeq(s, m, n) \in Seq(S)
         /\ Len(SubSeq(s, m, n)) = n - m + 1
         /\ \A i \in 1 .. n - m + 1 : SubSeq(s, m, n)[i] = s[m + i - 1]
  <1>1. \A i \in m .. n : s[i] \in S
    BY ElementOfSeq
  <1> QED BY <1>1, SubSeqProperties

\* A cut of a cut is a cut.
LEMMA CutOfCut ==
  ASSUME NEW S, NEW s \in Seq(S), NEW a \in Nat, NEW b \in Nat, 1 <= a, b <= Len(s), a <= b + 1,
         NEW m \in Nat, NEW n \in Nat, 1 <= m, n <= b - a + 1, m <= n + 1
  PROVE  SubSeq(SubSeq(s, a, b), m, n) = SubSeq(s, a + m - 1, a + n - 1)
  <1> DEFINE t == SubSeq(s, a, b)
  <1> DEFINE u == SubSeq(t, m, n)
  <1> DEFINE v == SubSeq(s, a + m - 1, a + n - 1)
  <1>1. t \in Seq(S) /\ Len(t) = b - a + 1 /\ \A i \in 1 .. b - a + 1 : t[i] = s[a + i - 1]
    BY Cut
  <1>2. v \in Seq(S) /\ Len(v) = n - m + 1 /\ \A i \in 1 .. n - m + 1 : v[i] = s[a + m - 1 + i - 1]
    <2>1. a + m - 1 \in Nat /\ a + n - 1 \in Nat /\ 1 <= a + m - 1 /\ a + n - 1 <= Len(s)
          /\ a + m - 1 <= a + n - 1 + 1 /\ (a + n - 1) - (a + m - 1) + 1 = n - m + 1
      OBVIOUS
    <2> QED BY <2>1, Cut
  <1> HIDE DEF t, v
  <1>3. u \in Seq(S) /\ Len(u) = n - m + 1 /\ \A i \in 1 .. n - m + 1 : u[i] = t[m + i - 1]
    <2>1. n <= Len(t)
      BY <1>1
    <2>2. \A s2 \in Seq(S) : n <= Len(s2) =>
            /\ SubSeq(s2, m, n) \in Seq(S)
            /\ Len(SubSeq(s2, m, n)) = n - m + 1
            /\ \A i \in 1 .. n - m + 1 : SubSeq(s2, m, n)[i] = s2[m + i - 1]
      BY Cut
    <2> QED BY <1>1, <2>1, <2>2, Zenon
  <1> HIDE DEF u
  <1>4. \A i \in 1 .. Len(u) : u[i] = v[i]
    BY <1>1, <1>2, <1>3
  <1>5. u = v
    BY <1>2, <1>3, <1>4, SeqEqual
  <1> QED BY <1>5 DEF u, v, t

\* discard_delimiters drops the leading delimiters, all of them and nothing else.
LEMMA Discarded ==
  ASSUME NEW s \in Seq(Byte)
  PROVE  \E x \in 0 .. Len(s) :
           /\ discard_delimiters(s) = SubSeq(s, x + 1, Len(s))
           /\ \A j \in 1 .. x : s[j] \in Delimiter
           /\ x = Len(s) \/ s[x + 1] \in Payload
  <1> DEFINE T == {x \in 0 .. Len(s) : x = Len(s) \/ s[x + 1] \in Payload}
  <1> DEFINE leading == {i \in 1 .. Len(s) : \A j \in 1 .. i : s[j] \in Delimiter}
  <1>0. Len(s) \in Nat /\ \A i \in 1 .. Len(s) : s[i] \in Byte
    BY ElementOfSeq
  <1>1. T \in SUBSET Nat /\ T # {}
    BY <1>0
  <1>2. PICK x \in T : \A n \in T : x <= n
    BY <1>1, LeastNumber
  <1>3. \A j \in 1 .. x : s[j] \in Delimiter
    <2> SUFFICES ASSUME NEW j \in 1 .. x PROVE s[j] \in Delimiter
      OBVIOUS
    <2>0. x \in Nat
      BY <1>1, <1>2, Zenon
    <2>1. j - 1 \notin T
      <3> HIDE DEF T
      <3> SUFFICES ASSUME j - 1 \in T PROVE FALSE
        OBVIOUS
      <3>1. x <= j - 1
        BY <1>2, Zenon
      <3> QED BY <2>0, <3>1
    <2>2. j - 1 \in 0 .. Len(s) /\ j - 1 # Len(s) /\ j \in 1 .. Len(s) /\ j - 1 + 1 = j
      BY <1>0, <1>2
    <2>3. s[j] \notin Payload
      BY <2>1, <2>2
    <2> QED BY <1>0, <2>2, <2>3, Bytes
  <1>4. leading = 1 .. x
    <2>1. \A i \in 1 .. x : i \in leading
      BY <1>0, <1>2, <1>3
    <2>2. ASSUME NEW i \in leading PROVE i \in 1 .. x
      <3> SUFFICES ASSUME ~ (i <= x) PROVE FALSE
        BY <1>0, <1>2
      <3>1. x + 1 \in 1 .. i /\ x + 1 \in 1 .. Len(s) /\ x # Len(s)
        BY <1>0, <1>2
      <3>2. s[x + 1] \in Delimiter /\ s[x + 1] \in Payload
        BY <1>2, <3>1
      <3> QED BY <1>0, <3>1, <3>2, Bytes
    <2> QED BY <2>1, <2>2
  <1>5. Cardinality(leading) = x
    <2>1. x \in Nat
      BY <1>1, <1>2, Zenon
    <2>2. Cardinality(1 .. x) = x
      BY <2>1, FS_Interval
    <2> QED BY <1>4, <2>2, Zenon
  <1>6. discard_delimiters(s) = SubSeq(s, x + 1, Len(s))
    BY <1>5 DEF discard_delimiters, advance
  <1> QED BY <1>2, <1>3, <1>6

\* delimiter_index finds the first delimiter.
LEMMA FirstDelimiter ==
  ASSUME NEW s \in Seq(Byte), HasDelimiter(s)
  PROVE  /\ delimiter_index(s) \in 0 .. Len(s) - 1
         /\ s[delimiter_index(s) + 1] \in Delimiter
         /\ \A j \in 1 .. delimiter_index(s) : s[j] \in Payload
  <1> DEFINE T == {i \in 0 .. Len(s) - 1 : s[i + 1] \in Delimiter}
  <1>0. Len(s) \in Nat /\ \A i \in 1 .. Len(s) : s[i] \in Byte
    BY ElementOfSeq
  <1>1. T \in SUBSET Nat /\ T # {}
    <2>1. PICK i \in 1 .. Len(s) : s[i] \in Delimiter
      BY DEF HasDelimiter
    <2>2. i - 1 \in 0 .. Len(s) - 1 /\ (i - 1) + 1 = i
      BY <1>0
    <2>3. i - 1 \in T
      BY <2>1, <2>2
    <2>4. T \in SUBSET Nat
      BY <1>0
    <2> QED BY <2>3, <2>4, Zenon
  <1>2. PICK i \in T : \A n \in T : i <= n
    BY <1>1, LeastNumber
  <1>3. \A j \in 1 .. i : s[j] \notin Delimiter
    <2> SUFFICES ASSUME NEW j \in 1 .. i, s[j] \in Delimiter PROVE FALSE
      OBVIOUS
    <2>1. j - 1 \in 0 .. Len(s) - 1 /\ j - 1 + 1 = j
      BY <1>0, <1>2
    <2>2. j - 1 \in T
      BY <2>1
    <2>3. i <= j - 1
      BY <1>2, <2>2, Zenon
    <2>4. i \in Nat
      BY <1>1, <1>2, Zenon
    <2> QED BY <2>3, <2>4
  <1>4. \E k \in 0 .. Len(s) - 1 : s[k + 1] \in Delimiter /\ \A j \in 1 .. k : s[j] \notin Delimiter
    BY <1>2, <1>3
  <1> DEFINE d == delimiter_index(s)
  <1>5. d \in 0 .. Len(s) - 1 /\ s[d + 1] \in Delimiter /\ \A j \in 1 .. d : s[j] \notin Delimiter
    BY <1>4, Zenon DEF delimiter_index
  <1>6. \A j \in 1 .. d : s[j] \in Payload
    BY <1>0, <1>5, Bytes
  <1> QED BY <1>5, <1>6
-----------------------------------------------------------------------------
(***************************************************************************)
(* The reference definition: the k-th run exists, is unique, and depends   *)
(* only on the bytes up to the delimiter that ends it.                     *)
(***************************************************************************)
\* A finite set of numbers can be counted off in ascending order.
LEMMA CountedOff ==
  ASSUME NEW S \in SUBSET Nat, IsFiniteSet(S)
  PROVE  /\ \A i \in S : Cardinality({j \in S : j <= i}) \in 1 .. Cardinality(S)
         /\ \A i, h \in S : Cardinality({j \in S : j <= i}) = Cardinality({j \in S : j <= h}) => i = h
         /\ \A k \in 1 .. Cardinality(S) : \E i \in S : Cardinality({j \in S : j <= i}) = k
  <1> DEFINE Below(i) == {j \in S : j <= i}
  <1> DEFINE rank == [i \in S |-> Cardinality(Below(i))]
  <1> DEFINE K == 1 .. Cardinality(S)
  <1>1. Cardinality(S) \in Nat
    BY FS_CardinalityType
  <1>2. \A i \in S : /\ IsFiniteSet(Below(i)) /\ Cardinality(Below(i)) <= Cardinality(S)
                     /\ Cardinality(Below(i)) \in Nat
    BY FS_Subset, FS_CardinalityType
  <1>3. \A i \in S : Cardinality(Below(i)) # 0
    <2> TAKE i \in S
    <2>1. i \in Below(i)
      OBVIOUS
    <2> HIDE DEF Below
    <2> QED BY <1>2, <2>1, FS_EmptySet
  <1>4. \A i \in S : Cardinality(Below(i)) \in K
    <2> HIDE DEF Below
    <2> QED BY <1>1, <1>2, <1>3
  <1>5. ASSUME NEW i \in S, NEW h \in S, i < h
        PROVE  Cardinality(Below(i)) # Cardinality(Below(h))
    <2>1. Below(i) \in SUBSET Below(h)
      <3>1. \A j \in S : j <= i => j <= h
        <4>1. i \in Nat /\ h \in Nat /\ \A j \in S : j \in Nat
          OBVIOUS
        <4> QED BY <1>5, <4>1
      <3> QED BY <3>1, Zenon
    <2>2. h \in Below(h) /\ h \notin Below(i)
      BY <1>5
    <2> HIDE DEF Below
    <2> QED BY <1>2, <2>1, <2>2, FS_Subset
  <1>6. \A i, h \in S : Cardinality(Below(i)) = Cardinality(Below(h)) => i = h
    <2> TAKE i, h \in S
    <2>1. i \in Nat /\ h \in Nat
      OBVIOUS
    <2> HIDE DEF Below
    <2>2. i < h \/ h < i \/ i = h
      BY <2>1
    <2> QED BY <1>5, <2>2
  <1>7. rank \in Injection(S, K)
    <2>1. rank \in [S -> K]
      <3> HIDE DEF Below, K
      <3> QED BY <1>4
    <2> HIDE DEF Below, K
    <2> QED BY <1>6, <2>1 DEF Injection, IsInjective
  <1>8. IsFiniteSet(K) /\ Cardinality(K) = Cardinality(S)
    BY <1>1, FS_Interval
  <1> HIDE DEF K
  <1>9. rank \in Surjection(S, K)
    <2> HIDE DEF rank
    <2> QED BY <1>7, <1>8, FS_Injection
  <1>10. \A k \in K : \E i \in S : Cardinality(Below(i)) = k
    <2> HIDE DEF Below
    <2> QED BY <1>9 DEF Surjection
  <1> QED BY <1>4, <1>6, <1>10 DEF K

\* The starts of a sequence are finitely many positions of it.
LEMMA StartsFinite ==
  ASSUME NEW s \in Seq(Byte)
  PROVE  Starts(s) \in SUBSET Nat /\ IsFiniteSet(Starts(s)) /\ Cardinality(Starts(s)) \in Nat
  <1>1. Len(s) \in Nat
    OBVIOUS
  <1>2. Starts(s) \in SUBSET (1 .. Len(s)) /\ 1 .. Len(s) \in SUBSET Nat
    BY <1>1 DEF Starts
  <1>3. IsFiniteSet(1 .. Len(s))
    BY <1>1, FS_Interval
  <1> QED BY <1>2, <1>3, FS_Subset, FS_CardinalityType

\* The position that ends the run of i: payload from i to it, a delimiter or nothing after it.
Ends(s, i, e) ==
  /\ e \in i .. Len(s)
  /\ \A k \in i .. e : s[k] \in Payload
  /\ e = Len(s) \/ s[e + 1] \in Delimiter

\* A run has exactly one end.
LEMMA RunEnds ==
  ASSUME NEW s \in Seq(Byte), NEW i \in Starts(s)
  PROVE  /\ Ends(s, i, RunEnd(s, i))
         /\ \A e : Ends(s, i, e) => e = RunEnd(s, i)
  <1> DEFINE T == {e \in i .. Len(s) : e = Len(s) \/ s[e + 1] \in Delimiter}
  <1>0. Len(s) \in Nat /\ \A k \in 1 .. Len(s) : s[k] \in Byte
    BY ElementOfSeq
  <1>1. i \in 1 .. Len(s) /\ s[i] \in Payload
    BY DEF Starts
  <1>2. T \in SUBSET Nat /\ T # {}
    <2>1. Len(s) \in T
      BY <1>0, <1>1
    <2>2. T \in SUBSET Nat
      BY <1>0, <1>1
    <2> QED BY <2>1, <2>2, Zenon
  <1>3. PICK e \in T : \A n \in T : e <= n
    BY <1>2, LeastNumber
  <1>4. e \in i .. Len(s) /\ (e = Len(s) \/ s[e + 1] \in Delimiter)
    BY <1>3
  <1>5. ASSUME NEW k \in i .. e PROVE s[k] \in Payload
    <2>1. CASE k = i
      BY <1>1, <2>1
    <2>2. CASE k # i
      <3>1. k - 1 \in i .. Len(s) /\ ~ (e <= k - 1) /\ (k - 1) + 1 = k /\ k \in 1 .. Len(s)
        BY <1>0, <1>1, <1>4, <2>2
      <3>2. k - 1 \notin T
        BY <1>3, <3>1, Zenon
      <3>3. s[k] \notin Delimiter
        BY <3>1, <3>2
      <3> QED BY <1>0, <3>1, <3>3, Bytes
    <2> QED BY <2>1, <2>2
  <1>6. Ends(s, i, e)
    BY <1>4, <1>5 DEF Ends
  <1>7. ASSUME NEW a, NEW b, Ends(s, i, a), Ends(s, i, b), a < b PROVE FALSE
    <2>1. a + 1 \in i .. b /\ a # Len(s) /\ a + 1 \in 1 .. Len(s)
      BY <1>0, <1>1, <1>7 DEF Ends
    <2>2. s[a + 1] \in Payload /\ s[a + 1] \in Delimiter
      BY <1>7, <2>1 DEF Ends
    <2> QED BY <1>0, <2>1, <2>2, Bytes
  <1>8. \A a, b : Ends(s, i, a) /\ Ends(s, i, b) => a = b
    <2> TAKE a, b
    <2> HAVE Ends(s, i, a) /\ Ends(s, i, b)
    <2>1. a < b \/ b < a \/ a = b
      BY <1>0, <1>1 DEF Ends
    <2> QED BY <1>7, <2>1
  <1>9. Ends(s, i, RunEnd(s, i))
    <2>1. RunEnd(s, i) = CHOOSE j \in i .. Len(s) :
                           (\A k \in i .. j : s[k] \in Payload) /\ (j = Len(s) \/ s[j + 1] \in Delimiter)
      BY DEF RunEnd
    <2>2. \E j \in i .. Len(s) :
             (\A k \in i .. j : s[k] \in Payload) /\ (j = Len(s) \/ s[j + 1] \in Delimiter)
      BY <1>6, Zenon DEF Ends
    <2> QED BY <2>1, <2>2, Zenon DEF Ends
  <1> QED BY <1>8, <1>9

\* The k-th run is the one whose start has rank k.
LEMMA RunAt ==
  ASSUME NEW s \in Seq(Byte)
  PROVE  /\ Len(Runs(s)) = Cardinality(Starts(s))
         /\ DOMAIN Runs(s) = 1 .. Cardinality(Starts(s))
         /\ Runs(s) \in Seq(Seq(Byte))
         /\ \A i \in Starts(s) :
              LET k == Cardinality({j \in Starts(s) : j <= i})
              IN  k \in 1 .. Cardinality(Starts(s)) /\ Runs(s)[k] = SubSeq(s, i, RunEnd(s, i))
         /\ \A k \in 1 .. Cardinality(Starts(s)) :
              \E i \in Starts(s) : Cardinality({j \in Starts(s) : j <= i}) = k
  <1> DEFINE S == Starts(s)
  <1> DEFINE Rank(i) == Cardinality({j \in S : j <= i})
  <1> DEFINE N == Cardinality(S)
  <1> DEFINE Pos(k) == CHOOSE i \in S : Rank(i) = k
  <1> DEFINE Run(k) == SubSeq(s, Pos(k), RunEnd(s, Pos(k)))
  <1>0. N \in Nat
    BY StartsFinite
  <1>1. /\ \A i \in S : Rank(i) \in 1 .. N
        /\ \A i, h \in S : Rank(i) = Rank(h) => i = h
        /\ \A k \in 1 .. N : \E i \in S : Rank(i) = k
    <2>1. S \in SUBSET Nat /\ IsFiniteSet(S)
      BY StartsFinite
    <2> HIDE DEF S
    <2> QED BY <2>1, CountedOff
  <1>2. Runs(s) = [k \in 1 .. N |-> Run(k)]
    BY DEF Runs
  <1> HIDE DEF Rank, N
  <1>3. \A k \in 1 .. N : Pos(k) \in S /\ Rank(Pos(k)) = k
    BY <1>1, Zenon
  <1>4. \A i \in S : Pos(Rank(i)) = i
    BY <1>1, <1>3
  <1> HIDE DEF Pos
  <1>5. \A i \in S : SubSeq(s, i, RunEnd(s, i)) \in Seq(Byte)
    <2> TAKE i \in S
    <2>1. Ends(s, i, RunEnd(s, i)) /\ i \in 1 .. Len(s)
      BY RunEnds DEF Starts
    <2>2. RunEnd(s, i) \in i .. Len(s)
      BY <2>1 DEF Ends
    <2> DEFINE e == RunEnd(s, i)
    <2>3. e \in Nat /\ e <= Len(s) /\ i \in Nat /\ 1 <= i /\ i <= e + 1
      BY <2>1, <2>2
    <2> HIDE DEF e
    <2>4. SubSeq(s, i, e) \in Seq(Byte)
      BY <2>3, Cut
    <2> QED BY <2>4 DEF e
  <1>6. \A k \in 1 .. N : Run(k) \in Seq(Byte)
    BY <1>3, <1>5
  <1>7. \A i \in S : Run(Rank(i)) = SubSeq(s, i, RunEnd(s, i))
    BY <1>4
  <1> HIDE DEF Run, S
  <1>8. Runs(s) \in Seq(Seq(Byte)) /\ Len(Runs(s)) = N /\ DOMAIN Runs(s) = 1 .. N
    BY <1>0, <1>2, <1>6
  <1>9. \A i \in S : Rank(i) \in 1 .. N /\ Runs(s)[Rank(i)] = SubSeq(s, i, RunEnd(s, i))
    BY <1>1, <1>2, <1>7
  <1> QED BY <1>1, <1>8, <1>9 DEF S, N, Rank
-----------------------------------------------------------------------------
\* No run crosses position n.
Boundary(s, n) == n = 0 \/ s[n] \in Delimiter

\* The first n bytes.
Prefix(s, n) == SubSeq(s, 1, n)

\* What a prefix holds.
LEMMA PrefixIs ==
  ASSUME NEW s \in Seq(Byte), NEW n \in 0 .. Len(s)
  PROVE  /\ Prefix(s, n) \in Seq(Byte)
         /\ Len(Prefix(s, n)) = n
         /\ \A i \in 1 .. n : Prefix(s, n)[i] = s[i]
  <1>1. n \in Nat /\ n <= Len(s) /\ 1 <= n + 1 /\ n - 1 + 1 = n
    OBVIOUS
  <1>2. /\ SubSeq(s, 1, n) \in Seq(Byte)
        /\ Len(SubSeq(s, 1, n)) = n - 1 + 1
        /\ \A i \in 1 .. n - 1 + 1 : SubSeq(s, 1, n)[i] = s[1 + i - 1]
    BY <1>1, Cut
  <1>3. \A i \in 1 .. n : 1 + i - 1 = i
    BY <1>1
  <1> QED BY <1>1, <1>2, <1>3 DEF Prefix

\* The starts of a prefix are the starts within it.
LEMMA StartsOfPrefix ==
  ASSUME NEW s \in Seq(Byte), NEW n \in 0 .. Len(s)
  PROVE  Starts(Prefix(s, n)) = {i \in Starts(s) : i <= n}
  <1> DEFINE p == Prefix(s, n)
  <1>1. Len(p) = n /\ \A i \in 1 .. n : p[i] = s[i]
    BY PrefixIs
  <1>2. Len(s) \in Nat /\ n \in Nat /\ n <= Len(s)
    OBVIOUS
  <1> HIDE DEF p
  <1>3. ASSUME NEW i \in 1 .. n PROVE i \in Starts(p) <=> i \in Starts(s)
    <2>1. i \in 1 .. Len(s) /\ i \in 1 .. Len(p) /\ p[i] = s[i]
      BY <1>1, <1>2
    <2>2. CASE i = 1
      BY <2>1, <2>2 DEF Starts
    <2>3. CASE i # 1
      <3>1. p[i - 1] = s[i - 1]
        BY <1>1, <1>2, <2>3
      <3> QED BY <2>1, <2>3, <3>1 DEF Starts
    <2> QED BY <2>2, <2>3
  <1>4. \A i \in Starts(p) : i \in 1 .. n
    BY <1>1 DEF Starts
  <1>5. \A i \in Starts(s) : i <= n => i \in 1 .. n
    BY <1>2 DEF Starts
  <1> QED BY <1>2, <1>3, <1>4, <1>5 DEF p

\* The runs before a boundary are the first runs of the whole.
LEMMA RunsPrefix ==
  ASSUME NEW s \in Seq(Byte), NEW n \in 0 .. Len(s), Boundary(s, n)
  PROVE  /\ Len(Runs(Prefix(s, n))) <= Len(Runs(s))
         /\ \A k \in 1 .. Len(Runs(Prefix(s, n))) : Runs(s)[k] = Runs(Prefix(s, n))[k]
  <1> DEFINE p == Prefix(s, n)
  <1>1. p \in Seq(Byte) /\ Len(p) = n /\ \A i \in 1 .. n : p[i] = s[i]
    BY PrefixIs
  <1>2. Starts(p) = {i \in Starts(s) : i <= n}
    BY StartsOfPrefix
  <1>3. Len(s) \in Nat /\ n \in Nat /\ n <= Len(s)
    OBVIOUS
  <1>p. p = SubSeq(s, 1, n)
    BY DEF Prefix
  <1> HIDE DEF p
  <1>4. Starts(s) \in SUBSET Nat /\ IsFiniteSet(Starts(s))
    BY StartsFinite
  <1>5. Cardinality(Starts(p)) <= Cardinality(Starts(s))
    BY <1>2, <1>4, FS_Subset
  <1>6. ASSUME NEW i \in Starts(p)
        PROVE  /\ {j \in Starts(p) : j <= i} = {j \in Starts(s) : j <= i}
               /\ SubSeq(p, i, RunEnd(p, i)) = SubSeq(s, i, RunEnd(s, i))
    <2>1. i \in Nat /\ 1 <= i /\ i <= n /\ i \in Starts(s)
      BY <1>1, <1>2 DEF Starts
    <2>2. {j \in Starts(p) : j <= i} = {j \in Starts(s) : j <= i}
      BY <1>2, <1>3, <1>4, <2>1
    <2> DEFINE e == RunEnd(p, i)
    <2>3. Ends(p, i, e)
      BY <1>1, RunEnds
    <2> HIDE DEF e
    <2>4. e \in i .. n /\ \A k \in i .. e : s[k] \in Payload
      BY <1>1, <1>3, <2>1, <2>3 DEF Ends
    <2>5. e # n
      <3> SUFFICES ASSUME e = n PROVE FALSE
        OBVIOUS
      <3>1. s[n] \in Payload /\ s[n] \in Delimiter
        BY <1>3, <2>1, <2>4 DEF Boundary
      <3>2. s[n] \in Byte
        BY <1>3, <2>1, ElementOfSeq
      <3> QED BY <3>1, <3>2, Bytes
    <2>6. s[e + 1] \in Delimiter
      <3>1. e + 1 \in 1 .. n
        BY <1>3, <2>1, <2>4, <2>5
      <3>2. p[e + 1] \in Delimiter
        BY <1>1, <2>3, <2>5 DEF Ends
      <3> QED BY <1>1, <3>1, <3>2
    <2>7. Ends(s, i, e)
      <3>1. e \in i .. Len(s)
        BY <1>3, <2>1, <2>4
      <3> QED BY <2>4, <2>6, <3>1 DEF Ends
    <2>8. e = RunEnd(s, i)
      BY <2>1, <2>7, RunEnds
    <2>9. SubSeq(p, i, e) = SubSeq(s, i, e)
      <3>1. /\ 1 \in Nat /\ n \in Nat /\ 1 <= 1 /\ n <= Len(s) /\ 1 <= n + 1
            /\ i \in Nat /\ e \in Nat /\ 1 <= i /\ e <= n - 1 + 1 /\ i <= e + 1
            /\ 1 + i - 1 = i /\ 1 + e - 1 = e
        BY <1>3, <2>1, <2>4
      <3>2. SubSeq(SubSeq(s, 1, n), i, e) = SubSeq(s, 1 + i - 1, 1 + e - 1)
        BY <3>1, CutOfCut
      <3> QED BY <1>p, <3>1, <3>2
    <2> QED BY <2>2, <2>8, <2>9 DEF e
  <1>7. ASSUME NEW k \in 1 .. Cardinality(Starts(p)) PROVE Runs(s)[k] = Runs(p)[k]
    <2>1. PICK i \in Starts(p) : Cardinality({j \in Starts(p) : j <= i}) = k
      BY <1>1, RunAt
    <2>2. Runs(p)[k] = SubSeq(p, i, RunEnd(p, i))
      BY <1>1, <2>1, RunAt
    <2>3. i \in Starts(s)
      BY <1>2
    <2>4. Cardinality({j \in Starts(s) : j <= i}) = k
      BY <1>6, <2>1
    <2>5. Runs(s)[k] = SubSeq(s, i, RunEnd(s, i))
      BY <2>3, <2>4, RunAt
    <2> QED BY <1>6, <2>2, <2>5
  <1>8. Len(Runs(p)) = Cardinality(Starts(p)) /\ Len(Runs(s)) = Cardinality(Starts(s))
    BY <1>1, RunAt
  <1> QED BY <1>5, <1>7, <1>8 DEF p

\* Delimiters alone add no run.
LEMMA RunsSame ==
  ASSUME NEW s \in Seq(Byte), NEW n \in 0 .. Len(s), Boundary(s, n),
         \A k \in n + 1 .. Len(s) : s[k] \in Delimiter
  PROVE  Runs(s) = Runs(Prefix(s, n))
  <1> DEFINE p == Prefix(s, n)
  <1>1. p \in Seq(Byte)
    BY PrefixIs
  <1>2. Starts(p) = {i \in Starts(s) : i <= n}
    BY StartsOfPrefix
  <1>3. \A i \in Starts(s) : i <= n
    <2> SUFFICES ASSUME NEW i \in Starts(s), ~ (i <= n) PROVE FALSE
      OBVIOUS
    <2>1. i \in 1 .. Len(s) /\ s[i] \in Payload
      BY DEF Starts
    <2>2. i \in n + 1 .. Len(s)
      BY <2>1
    <2>3. s[i] \in Byte
      BY <2>1, ElementOfSeq
    <2> QED BY <2>1, <2>2, <2>3, Bytes
  <1>4. Starts(p) = Starts(s)
    BY <1>2, <1>3
  <1>5. Len(Runs(p)) = Len(Runs(s)) /\ Runs(p) \in Seq(Seq(Byte)) /\ Runs(s) \in Seq(Seq(Byte))
    BY <1>1, <1>4, RunAt
  <1>6. \A k \in 1 .. Len(Runs(p)) : Runs(s)[k] = Runs(p)[k]
    BY RunsPrefix
  <1> HIDE DEF p
  <1> DEFINE a == Runs(s)
  <1> DEFINE b == Runs(p)
  <1>7. a \in Seq(Seq(Byte)) /\ b \in Seq(Seq(Byte)) /\ Len(a) = Len(b)
        /\ \A k \in 1 .. Len(a) : a[k] = b[k]
    BY <1>5, <1>6
  <1> HIDE DEF a, b
  <1>8. a = b
    BY <1>7, SeqEqual
  <1> QED BY <1>8 DEF a, b, p

\* Payload after a boundary is the next run, up to where it ends.
LEMMA RunsNext ==
  ASSUME NEW s \in Seq(Byte), NEW n \in 0 .. Len(s), Boundary(s, n),
         NEW m \in n + 1 .. Len(s), \A k \in n + 1 .. m : s[k] \in Payload,
         m = Len(s) \/ s[m + 1] \in Delimiter
  PROVE  /\ Len(Runs(Prefix(s, n))) + 1 <= Len(Runs(s))
         /\ Runs(s)[Len(Runs(Prefix(s, n))) + 1] = SubSeq(s, n + 1, m)
  <1> DEFINE p == Prefix(s, n)
  <1> DEFINE i == n + 1
  <1>1. p \in Seq(Byte)
    BY PrefixIs
  <1>2. Starts(p) = {j \in Starts(s) : j <= n}
    BY StartsOfPrefix
  <1>3. Len(s) \in Nat /\ n \in Nat /\ n <= Len(s) /\ m \in Nat /\ m <= Len(s) /\ n + 1 <= m
    OBVIOUS
  <1> HIDE DEF p
  <1>4. Starts(s) \in SUBSET Nat /\ IsFiniteSet(Starts(p)) /\ Cardinality(Starts(p)) \in Nat
    BY <1>1, StartsFinite
  <1>5. i \in Starts(s)
    <2>1. i \in 1 .. Len(s) /\ s[i] \in Payload /\ i - 1 = n
      BY <1>3
    <2> QED BY <1>3, <2>1 DEF Starts, Boundary
  <1>6. {j \in Starts(s) : j <= i} = Starts(p) \cup {i}
    <2>1. \A j \in Nat : j <= i <=> (j <= n \/ j = i)
      BY <1>3
    <2> QED BY <1>2, <1>4, <1>5, <2>1
  <1>7. Cardinality({j \in Starts(s) : j <= i}) = Cardinality(Starts(p)) + 1
    <2>1. i \notin Starts(p)
      BY <1>2, <1>3
    <2> HIDE DEF i
    <2> QED BY <1>4, <1>6, <2>1, FS_AddElement
  <1>8. Ends(s, i, m)
    BY <1>3 DEF Ends
  <1> HIDE DEF i
  <1>9. m = RunEnd(s, i)
    BY <1>5, <1>8, RunEnds
  <1> DEFINE r == Cardinality({j \in Starts(s) : j <= i})
  <1>10. r \in 1 .. Cardinality(Starts(s)) /\ Runs(s)[r] = SubSeq(s, i, RunEnd(s, i))
    BY <1>5, RunAt
  <1>11. Len(Runs(p)) = Cardinality(Starts(p)) /\ Len(Runs(s)) = Cardinality(Starts(s))
    BY <1>1, RunAt
  <1>12. r = Len(Runs(p)) + 1
    BY <1>7, <1>11
  <1> HIDE DEF r
  <1>13. Cardinality(Starts(s)) \in Nat
    BY StartsFinite
  <1> QED BY <1>9, <1>10, <1>11, <1>12, <1>13, SMTT(40) DEF p, i

\* A line and the delimiters after it add one run.
LEMMA RunsAppend ==
  ASSUME NEW s \in Seq(Byte), NEW n \in 0 .. Len(s), Boundary(s, n),
         NEW m \in n + 1 .. Len(s), \A k \in n + 1 .. m : s[k] \in Payload,
         \A k \in m + 1 .. Len(s) : s[k] \in Delimiter
  PROVE  Runs(s) = Append(Runs(Prefix(s, n)), SubSeq(s, n + 1, m))
  <1> DEFINE p == Prefix(s, n)
  <1>1. p \in Seq(Byte)
    BY PrefixIs
  <1>2. Starts(p) = {j \in Starts(s) : j <= n}
    BY StartsOfPrefix
  <1>3. Len(s) \in Nat /\ n \in Nat /\ n <= Len(s) /\ m \in Nat /\ m <= Len(s) /\ n + 1 <= m
    OBVIOUS
  <1>4. m = Len(s) \/ s[m + 1] \in Delimiter
    BY <1>3
  <1>5. /\ Len(Runs(p)) + 1 <= Len(Runs(s))
        /\ Runs(s)[Len(Runs(p)) + 1] = SubSeq(s, n + 1, m)
    BY <1>4, RunsNext
  <1>6. \A k \in 1 .. Len(Runs(p)) : Runs(s)[k] = Runs(p)[k]
    BY RunsPrefix
  <1> HIDE DEF p
  <1>7. Starts(s) \in SUBSET (Starts(p) \cup {n + 1})
    <2> SUFFICES ASSUME NEW i \in Starts(s), ~ (i <= n), i # n + 1 PROVE FALSE
      BY <1>2
    <2>1. i \in 1 .. Len(s) /\ s[i] \in Payload /\ (i = 1 \/ s[i - 1] \in Delimiter)
      BY DEF Starts
    <2>2. i - 1 \in n + 1 .. Len(s) /\ i - 1 \in 1 .. Len(s) /\ i # 1
      BY <1>3, <2>1
    <2>3. s[i] \in Byte /\ s[i - 1] \in Byte
      BY <2>1, <2>2, ElementOfSeq
    <2>4. CASE i <= m
      <3>1. s[i - 1] \in Payload
        BY <1>3, <2>1, <2>2, <2>4
      <3> QED BY <2>1, <2>2, <2>3, <3>1, Bytes
    <2>5. CASE ~ (i <= m)
      <3>1. s[i] \in Delimiter
        BY <1>3, <2>1, <2>5
      <3> QED BY <2>1, <2>3, <3>1, Bytes
    <2> QED BY <2>4, <2>5
  <1>8. Cardinality(Starts(s)) <= Cardinality(Starts(p)) + 1
    <2>1. IsFiniteSet(Starts(p)) /\ Cardinality(Starts(p)) \in Nat /\ Cardinality(Starts(s)) \in Nat
      BY <1>1, StartsFinite
    <2> DEFINE U == Starts(p) \cup {n + 1}
    <2>2. IsFiniteSet(U) /\ Cardinality(U) <= Cardinality(Starts(p)) + 1 /\ Cardinality(U) \in Nat
      <3>1. IsFiniteSet(U) /\ Cardinality(U) = IF n + 1 \in Starts(p) THEN Cardinality(Starts(p)) ELSE Cardinality(Starts(p)) + 1
        BY <2>1, FS_AddElement
      <3> QED BY <2>1, <3>1
    <2> HIDE DEF U
    <2>3. Starts(s) \in SUBSET U
      BY <1>7 DEF U
    <2>4. Cardinality(Starts(s)) <= Cardinality(U)
      BY <2>2, <2>3, FS_Subset
    <2> QED BY <2>1, <2>2, <2>4
  <1> DEFINE a == Runs(s)
  <1> DEFINE b == Runs(p)
  <1> DEFINE x == SubSeq(s, n + 1, m)
  <1>9. /\ a \in Seq(Seq(Byte)) /\ b \in Seq(Seq(Byte))
        /\ Len(a) = Cardinality(Starts(s)) /\ Len(b) = Cardinality(Starts(p))
    BY <1>1, RunAt
  <1>10. x \in Seq(Byte)
    BY <1>3, Cut
  <1>11. /\ \A k \in 1 .. Len(b) : a[k] = b[k]
         /\ Len(b) + 1 <= Len(a) /\ a[Len(b) + 1] = x /\ Len(a) <= Len(b) + 1
    BY <1>5, <1>6, <1>8, <1>9
  <1> HIDE DEF a, b, x
  <1>12. Len(a) = Len(b) + 1
    BY <1>9, <1>11
  <1> DEFINE c == Append(b, x)
  <1>13. /\ c \in Seq(Seq(Byte)) /\ Len(c) = Len(b) + 1 /\ c[Len(b) + 1] = x
         /\ \A k \in 1 .. Len(b) : c[k] = b[k]
    BY <1>9, <1>10, AppendProperties
  <1> HIDE DEF c
  <1>14. \A k \in 1 .. Len(a) : a[k] = c[k]
    <2> TAKE k \in 1 .. Len(a)
    <2>1. k \in 1 .. Len(b) \/ k = Len(b) + 1
      BY <1>9, <1>12
    <2>2. CASE k \in 1 .. Len(b)
      BY <1>11, <1>13, <2>2, Zenon
    <2>3. CASE k = Len(b) + 1
      BY <1>11, <1>13, <2>3, Zenon
    <2> QED BY <2>1, <2>2, <2>3
  <1>15. a = c
    BY <1>9, <1>12, <1>13, <1>14, SeqEqual
  <1> QED BY <1>15 DEF a, b, c, x, p

\* Payload at the end of a sequence is part of a run that no boundary before it has ended.
LEMMA RunsMore ==
  ASSUME NEW s \in Seq(Byte), NEW n \in 0 .. Len(s), Boundary(s, n),
         s # <<>>, s[Len(s)] \in Payload
  PROVE  Len(Runs(Prefix(s, n))) < Len(Runs(s))
  <1> DEFINE p == Prefix(s, n)
  <1> DEFINE T == {i \in n + 1 .. Len(s) : \A k \in i .. Len(s) : s[k] \in Payload}
  <1>0. Len(s) \in Nat /\ n \in Nat /\ n <= Len(s) /\ Len(s) # 0
        /\ \A k \in 1 .. Len(s) : s[k] \in Byte
    BY EmptySeq, ElementOfSeq
  <1>1. n # Len(s)
    <2> SUFFICES ASSUME n = Len(s) PROVE FALSE
      OBVIOUS
    <2>1. s[n] \in Delimiter /\ s[n] \in Payload /\ s[n] \in Byte
      BY <1>0 DEF Boundary
    <2> QED BY <2>1, Bytes
  <1>2. T \in SUBSET Nat /\ T # {}
    <2>1. \A k \in Len(s) .. Len(s) : k = Len(s)
      BY <1>0
    <2>2. Len(s) \in n + 1 .. Len(s)
      BY <1>0, <1>1
    <2>3. Len(s) \in T
      BY <2>1, <2>2
    <2>4. T \in SUBSET Nat
      BY <1>0
    <2> QED BY <2>3, <2>4, Zenon
  <1>3. PICK i \in T : \A j \in T : i <= j
    BY <1>2, LeastNumber
  <1>4. i \in n + 1 .. Len(s) /\ \A k \in i .. Len(s) : s[k] \in Payload
    BY <1>3
  <1>5. i \in Starts(s)
    <2>1. s[i] \in Payload /\ i \in 1 .. Len(s)
      BY <1>0, <1>4
    <2>2. CASE i = n + 1
      <3>1. i - 1 = n
        BY <1>0, <2>2
      <3> QED BY <2>1, <2>2, <3>1 DEF Starts, Boundary
    <2>3. CASE i # n + 1
      <3>1. i - 1 \in n + 1 .. Len(s) /\ i - 1 \in 1 .. Len(s) /\ ~ (i <= i - 1)
        BY <1>0, <1>4, <2>3
      <3>2. i - 1 \notin T
        BY <1>3, <3>1, Zenon
      <3>3. PICK k \in i - 1 .. Len(s) : s[k] \notin Payload
        BY <3>1, <3>2
      <3>4. k = i - 1
        <4>1. k \notin i .. Len(s)
          BY <1>4, <3>3, Zenon
        <4> QED BY <1>0, <1>4, <3>3, <4>1
      <3>5. s[i - 1] \in Delimiter
        BY <1>0, <3>1, <3>3, <3>4, Bytes
      <3> QED BY <2>1, <3>5 DEF Starts
    <2> QED BY <2>2, <2>3
  <1>6. p \in Seq(Byte) /\ Starts(p) = {j \in Starts(s) : j <= n}
    BY PrefixIs, StartsOfPrefix
  <1> HIDE DEF p
  <1>7. i \notin Starts(p)
    BY <1>0, <1>4, <1>6
  <1>8. /\ Starts(p) \in SUBSET Starts(s) /\ IsFiniteSet(Starts(s))
        /\ Cardinality(Starts(s)) \in Nat /\ Cardinality(Starts(p)) \in Nat
    BY <1>6, StartsFinite
  <1>9. Cardinality(Starts(p)) < Cardinality(Starts(s))
    <2>1. /\ Cardinality(Starts(p)) <= Cardinality(Starts(s))
          /\ Cardinality(Starts(s)) = Cardinality(Starts(p)) => Starts(s) = Starts(p)
      BY <1>8, FS_Subset
    <2>2. Starts(s) # Starts(p)
      BY <1>5, <1>7
    <2> QED BY <1>8, <2>1, <2>2
  <1>10. Len(Runs(p)) = Cardinality(Starts(p)) /\ Len(Runs(s)) = Cardinality(Starts(s))
    BY <1>6, RunAt
  <1> QED BY <1>9, <1>10 DEF p
-----------------------------------------------------------------------------
(***************************************************************************)
(* Lines, and what one call of decode does to them.                        *)
(***************************************************************************)
\* A prefix of a prefix is a prefix, with the same boundaries.
LEMMA PrefixOfPrefix ==
  ASSUME NEW s \in Seq(Byte), NEW t \in 0 .. Len(s), NEW n \in 0 .. t
  PROVE  /\ Prefix(Prefix(s, t), n) = Prefix(s, n)
         /\ Boundary(s, n) <=> Boundary(Prefix(s, t), n)
         /\ n \in 0 .. Len(Prefix(s, t)) /\ n \in 0 .. Len(s)
  <1>1. Len(Prefix(s, t)) = t /\ \A i \in 1 .. t : Prefix(s, t)[i] = s[i]
    BY PrefixIs
  <1>2. /\ 1 \in Nat /\ t \in Nat /\ 1 <= 1 /\ t <= Len(s) /\ 1 <= t + 1 /\ Len(s) \in Nat
        /\ n \in Nat /\ n <= t - 1 + 1 /\ 1 <= n + 1 /\ 1 + 1 - 1 = 1 /\ 1 + n - 1 = n
        /\ n <= Len(s) /\ n <= t
    OBVIOUS
  <1>3. SubSeq(SubSeq(s, 1, t), 1, n) = SubSeq(s, 1 + 1 - 1, 1 + n - 1)
    BY <1>2, CutOfCut
  <1>4. Prefix(Prefix(s, t), n) = Prefix(s, n)
    BY <1>2, <1>3 DEF Prefix
  <1>5. n = 0 \/ n \in 1 .. t
    BY <1>2
  <1>6. Boundary(s, n) <=> Boundary(Prefix(s, t), n)
    BY <1>1, <1>5 DEF Boundary
  <1> QED BY <1>1, <1>2, <1>4, <1>6

\* The runs before a boundary are the first of the lines.
LEMMA LinesExtend ==
  ASSUME NEW s \in Seq(Byte), NEW n \in 0 .. Len(s), Boundary(s, n)
  PROVE  IsPrefix(Runs(Prefix(s, n)), Lines(s))
  <1> DEFINE f == Runs(Prefix(s, n))
  <1> DEFINE g == Runs(s)
  <1>1. /\ f \in Seq(Seq(Byte)) /\ g \in Seq(Seq(Byte))
        /\ Len(f) <= Len(g) /\ \A k \in 1 .. Len(f) : g[k] = f[k]
    BY PrefixIs, RunAt, RunsPrefix
  <1>2. s # <<>> /\ s[Len(s)] \in Payload => Len(f) < Len(g)
    BY RunsMore
  <1>3. Lines(s) = IF s # <<>> /\ s[Len(s)] \in Payload THEN SubSeq(g, 1, Len(g) - 1) ELSE g
    BY DEF Lines, Front
  <1> HIDE DEF f, g
  <1>4. PICK m \in Nat : Len(f) <= m /\ m <= Len(g) /\ Lines(s) = SubSeq(g, 1, m)
    <2>1. SubSeq(g, 1, Len(g)) = g
      BY <1>1, SubSeqFull
    <2>2. CASE s # <<>> /\ s[Len(s)] \in Payload
      <3>1. Len(g) - 1 \in Nat /\ Len(f) <= Len(g) - 1 /\ Len(g) - 1 <= Len(g)
        BY <1>1, <1>2, <2>2
      <3> QED BY <1>3, <2>2, <3>1
    <2>3. CASE ~ (s # <<>> /\ s[Len(s)] \in Payload)
      <3>1. Len(g) \in Nat /\ Len(g) <= Len(g)
        BY <1>1
      <3> QED BY <1>1, <1>3, <2>1, <2>3, <3>1
    <2> QED BY <2>2, <2>3
  <1> DEFINE l == SubSeq(g, 1, m)
  <1>5. Len(f) \in Nat /\ Len(g) \in Nat /\ 1 <= Len(f) + 1 /\ 1 <= m + 1
    BY <1>1, <1>4
  <1>6. l \in Seq(Seq(Byte)) /\ Len(l) = m /\ \A i \in 1 .. m : l[i] = g[i]
    <2>1. /\ SubSeq(g, 1, m) \in Seq(Seq(Byte))
          /\ Len(SubSeq(g, 1, m)) = m - 1 + 1
          /\ \A i \in 1 .. m - 1 + 1 : SubSeq(g, 1, m)[i] = g[1 + i - 1]
      BY <1>1, <1>4, <1>5, Cut
    <2>2. m - 1 + 1 = m /\ \A i \in 1 .. m : 1 + i - 1 = i
      BY <1>4
    <2> QED BY <2>1, <2>2
  <1> HIDE DEF l
  <1> DEFINE h == SubSeq(l, 1, Len(f))
  <1>7. h \in Seq(Seq(Byte)) /\ Len(h) = Len(f) /\ \A i \in 1 .. Len(f) : h[i] = l[i]
    <2>1. /\ SubSeq(l, 1, Len(f)) \in Seq(Seq(Byte))
          /\ Len(SubSeq(l, 1, Len(f))) = Len(f) - 1 + 1
          /\ \A i \in 1 .. Len(f) - 1 + 1 : SubSeq(l, 1, Len(f))[i] = l[1 + i - 1]
      BY <1>4, <1>5, <1>6, Cut
    <2>2. Len(f) - 1 + 1 = Len(f) /\ \A i \in 1 .. Len(f) : 1 + i - 1 = i
      BY <1>5
    <2> QED BY <2>1, <2>2
  <1> HIDE DEF h
  <1>8. \A i \in 1 .. Len(h) : h[i] = f[i]
    <2> TAKE i \in 1 .. Len(h)
    <2>1. i \in 1 .. Len(f) /\ i \in 1 .. m
      BY <1>4, <1>5, <1>7
    <2> QED BY <1>1, <1>6, <1>7, <2>1
  <1>9. h = f
    BY <1>1, <1>7, <1>8, SeqEqual
  <1>10. SubSeq(f, 1, Len(f)) = f
    BY <1>1, SubSeqFull
  <1>11. Len(f) <= Len(l) /\ SubSeq(f, 1, Len(f)) = SubSeq(l, 1, Len(f))
    BY <1>4, <1>6, <1>9, <1>10 DEF h
  <1> QED BY <1>4, <1>11 DEF IsPrefix, f, l

\* When nothing but an unfinished line follows a boundary, the lines are the runs before it.
LEMMA LinesAt ==
  ASSUME NEW s \in Seq(Byte), NEW n \in 0 .. Len(s), Boundary(s, n),
         \A k \in n + 1 .. Len(s) : s[k] \in Payload
  PROVE  /\ Lines(s) = Runs(Prefix(s, n))
         /\ n = Len(s) => Runs(s) = Runs(Prefix(s, n))
         /\ n # Len(s) => Runs(s) = Append(Runs(Prefix(s, n)), SubSeq(s, n + 1, Len(s)))
  <1>0. Len(s) \in Nat /\ n \in Nat /\ n <= Len(s) /\ \A k \in 1 .. Len(s) : s[k] \in Byte
    BY ElementOfSeq
  <1>1. CASE n = Len(s)
    <2>1. Prefix(s, n) = s
      BY <1>1, SubSeqFull DEF Prefix
    <2>2. ~ (s # <<>> /\ s[Len(s)] \in Payload)
      <3> SUFFICES ASSUME s # <<>>, s[Len(s)] \in Payload PROVE FALSE
        OBVIOUS
      <3>1. Len(s) # 0
        BY EmptySeq
      <3>2. s[Len(s)] \in Delimiter /\ s[Len(s)] \in Byte
        BY <1>0, <1>1, <3>1 DEF Boundary
      <3> QED BY <3>2, Bytes
    <2>3. Lines(s) = Runs(s)
      BY <2>2 DEF Lines
    <2> QED BY <1>1, <2>1, <2>3
  <1>2. CASE n # Len(s)
    <2> DEFINE f == Runs(Prefix(s, n))
    <2> DEFINE x == SubSeq(s, n + 1, Len(s))
    <2>1. Len(s) \in n + 1 .. Len(s) /\ \A k \in Len(s) + 1 .. Len(s) : s[k] \in Delimiter
      BY <1>0, <1>2
    <2>2. Runs(s) = Append(f, x)
      BY <2>1, RunsAppend
    <2>3. f \in Seq(Seq(Byte)) /\ x \in Seq(Byte)
      <3>1. n + 1 \in Nat /\ 1 <= n + 1 /\ n + 1 <= Len(s) + 1
        BY <1>0
      <3> QED BY <1>0, <3>1, PrefixIs, RunAt, Cut
    <2>4. s # <<>> /\ s[Len(s)] \in Payload
      BY <1>0, <2>1
    <2> HIDE DEF f, x
    <2>5. Front(Append(f, x)) = f
      BY <2>3 DEF Front
    <2>6. Lines(s) = f
      BY <2>2, <2>4, <2>5 DEF Lines
    <2> QED BY <1>2, <2>2, <2>6 DEF f, x
  <1> QED BY <1>1, <1>2
\* discard_delimiters on what is left of a stream moves on to the next payload byte.
LEMMA Skip ==
  ASSUME NEW s \in Seq(Byte), NEW t \in 0 .. Len(s), NEW n \in 0 .. t
  PROVE  \E a \in n .. t :
           /\ discard_delimiters(SubSeq(s, n + 1, t)) = SubSeq(s, a + 1, t)
           /\ \A k \in n + 1 .. a : s[k] \in Delimiter
           /\ a = t \/ s[a + 1] \in Payload
  <1> DEFINE b == SubSeq(s, n + 1, t)
  <1>0. /\ Len(s) \in Nat /\ t \in Nat /\ n \in Nat /\ t <= Len(s) /\ n <= t
        /\ n + 1 \in Nat /\ 1 <= n + 1 /\ n + 1 <= t + 1 /\ t - (n + 1) + 1 = t - n
    OBVIOUS
  <1>1. b \in Seq(Byte) /\ Len(b) = t - n /\ \A i \in 1 .. t - n : b[i] = s[n + i]
    <2>1. /\ b \in Seq(Byte) /\ Len(b) = t - (n + 1) + 1
          /\ \A i \in 1 .. t - (n + 1) + 1 : b[i] = s[n + 1 + i - 1]
      BY <1>0, Cut
    <2>2. \A i \in 1 .. t - n : n + 1 + i - 1 = n + i
      BY <1>0
    <2> QED BY <1>0, <2>1, <2>2
  <1> HIDE DEF b
  <1>2. PICK x \in 0 .. Len(b) :
           /\ discard_delimiters(b) = SubSeq(b, x + 1, Len(b))
           /\ \A j \in 1 .. x : b[j] \in Delimiter
           /\ x = Len(b) \/ b[x + 1] \in Payload
    BY <1>1, Discarded
  <1> DEFINE a == n + x
  <1>3. x \in Nat /\ x <= t - n /\ a \in n .. t
    BY <1>0, <1>1, <1>2
  <1>4. SubSeq(b, x + 1, Len(b)) = SubSeq(s, a + 1, t)
    <2>1. /\ x + 1 \in Nat /\ t - n \in Nat /\ 1 <= x + 1 /\ t - n <= t - (n + 1) + 1 /\ x + 1 <= t - n + 1
          /\ n + 1 + (x + 1) - 1 = a + 1 /\ n + 1 + (t - n) - 1 = t
      BY <1>0, <1>3
    <2>2. SubSeq(SubSeq(s, n + 1, t), x + 1, t - n) = SubSeq(s, n + 1 + (x + 1) - 1, n + 1 + (t - n) - 1)
      BY <1>0, <2>1, CutOfCut
    <2> QED BY <1>1, <2>1, <2>2 DEF b
  <1>5. \A k \in n + 1 .. a : s[k] \in Delimiter
    <2> TAKE k \in n + 1 .. a
    <2>1. k - n \in 1 .. x /\ k - n \in 1 .. t - n /\ n + (k - n) = k
      BY <1>0, <1>3
    <2> QED BY <1>1, <1>2, <2>1
  <1>6. a = t \/ s[a + 1] \in Payload
    <2>1. CASE x = Len(b)
      BY <1>0, <1>1, <1>3, <2>1
    <2>2. CASE x # Len(b)
      <3>1. x + 1 \in 1 .. t - n /\ n + (x + 1) = a + 1
        BY <1>0, <1>1, <1>3, <2>2
      <3> QED BY <1>1, <1>2, <2>2, <3>1
    <2> QED BY <2>1, <2>2
  <1> QED BY <1>2, <1>3, <1>4, <1>5, <1>6 DEF b

\* Skipping delimiters from a boundary reaches a boundary and passes no run.
LEMMA SkippedRuns ==
  ASSUME NEW s \in Seq(Byte), NEW n \in 0 .. Len(s), Boundary(s, n),
         NEW a \in n .. Len(s), \A k \in n + 1 .. a : s[k] \in Delimiter
  PROVE  Boundary(s, a) /\ Runs(Prefix(s, a)) = Runs(Prefix(s, n))
  <1> DEFINE p == Prefix(s, a)
  <1>0. Len(s) \in Nat /\ n \in Nat /\ a \in Nat /\ n <= a /\ a <= Len(s) /\ a \in 0 .. Len(s) /\ n \in 0 .. a
    OBVIOUS
  <1>1. Boundary(s, a)
    BY <1>0 DEF Boundary
  <1>2. p \in Seq(Byte) /\ Len(p) = a /\ \A i \in 1 .. a : p[i] = s[i]
    BY <1>0, PrefixIs
  <1>3. Prefix(p, n) = Prefix(s, n) /\ Boundary(p, n) /\ n \in 0 .. Len(p)
    BY <1>0, PrefixOfPrefix
  <1> HIDE DEF p
  <1>4. \A k \in n + 1 .. Len(p) : p[k] \in Delimiter
    BY <1>0, <1>2
  <1>5. Runs(p) = Runs(Prefix(p, n))
    BY <1>2, <1>3, <1>4, RunsSame
  <1> QED BY <1>1, <1>3, <1>5 DEF p

\* One call of decode on the bytes between a boundary n and t.  A frame is the next run; nothing
\* means that no run has ended; an error, that the next run is too long.
LEMMA DecodeIs ==
  ASSUME NEW s \in Seq(Byte), NEW t \in 0 .. Len(s), NEW n \in 0 .. t, Boundary(s, n)
  PROVE  LET r == decode(SubSeq(s, n + 1, t))
             f == Runs(Prefix(s, n))
             g == Runs(Prefix(s, t))
         IN  \/ /\ r.tag = "some" /\ r.frame \in Seq(Byte) /\ Len(r.frame) \in 1 .. max_frame_bytes
                /\ \E c \in n .. t : /\ r.source = SubSeq(s, c + 1, t) /\ Boundary(s, c)
                                     /\ Runs(Prefix(s, c)) = Append(f, r.frame)
             \/ /\ r.tag = "none"
                /\ \E c \in n .. t : /\ r.source = SubSeq(s, c + 1, t) /\ Boundary(s, c)
                                     /\ Runs(Prefix(s, c)) = f
                                     /\ \A k \in c + 1 .. t : s[k] \in Payload
                                     /\ t - c <= max_frame_bytes
             \/ /\ r.tag = "error"
                /\ Len(f) + 1 <= Len(g) /\ Len(g[Len(f) + 1]) > max_frame_bytes
  <1> DEFINE b == SubSeq(s, n + 1, t)
  <1> DEFINE r == decode(b)
  <1> DEFINE f == Runs(Prefix(s, n))
  <1> DEFINE g == Runs(Prefix(s, t))
  <1>0. /\ Len(s) \in Nat /\ t \in Nat /\ n \in Nat /\ t <= Len(s) /\ n <= t /\ n \in 0 .. Len(s)
        /\ max_frame_bytes \in Nat \ {0} /\ \A k \in 1 .. Len(s) : s[k] \in Byte
    BY FrameCodecAssumption, ElementOfSeq
  <1>1. PICK a \in n .. t :
           /\ discard_delimiters(b) = SubSeq(s, a + 1, t)
           /\ \A k \in n + 1 .. a : s[k] \in Delimiter
           /\ a = t \/ s[a + 1] \in Payload
    BY Skip
  <1>2. Boundary(s, a) /\ Runs(Prefix(s, a)) = f
    <2>1. a \in n .. Len(s)
      BY <1>0
    <2> QED BY <1>0, <1>1, <2>1, SkippedRuns
  <1>3. a \in Nat /\ n <= a /\ a <= t /\ a \in 0 .. t /\ a \in 0 .. Len(s)
    BY <1>0
  <1> DEFINE src == SubSeq(s, a + 1, t)
  <1>4. src \in Seq(Byte) /\ Len(src) = t - a /\ \A i \in 1 .. t - a : src[i] = s[a + i]
    <2>1. a + 1 \in Nat /\ 1 <= a + 1 /\ a + 1 <= t + 1 /\ t - (a + 1) + 1 = t - a
      BY <1>0, <1>3
    <2>2. /\ src \in Seq(Byte) /\ Len(src) = t - (a + 1) + 1
          /\ \A i \in 1 .. t - (a + 1) + 1 : src[i] = s[a + 1 + i - 1]
      BY <1>0, <2>1, Cut
    <2>3. \A i \in 1 .. t - a : a + 1 + i - 1 = a + i
      BY <1>0, <1>3
    <2> QED BY <2>1, <2>2, <2>3
  <1> DEFINE idx == delimiter_index(src)
  <1> DEFINE rest == discard_delimiters(advance(src, idx))
  <1>5. r = IF HasDelimiter(src)
            THEN IF TooLong(idx) THEN Decoded("error", rest, <<>>)
                 ELSE Decoded("some", rest, split_to(src, idx))
            ELSE IF TooLong(Len(src)) THEN Decoded("error", <<>>, <<>>)
            ELSE Decoded("none", src, <<>>)
    BY <1>1 DEF decode
  \* The run that starts at a + 1, when it goes on to m.
  <1>6. ASSUME NEW m \in a + 1 .. t, \A k \in a + 1 .. m : s[k] \in Payload,
               m = t \/ s[m + 1] \in Delimiter
        PROVE  /\ Len(f) + 1 <= Len(g)
               /\ Len(g[Len(f) + 1]) = m - a
    <2> DEFINE p == Prefix(s, t)
    <2>1. p \in Seq(Byte) /\ Len(p) = t /\ \A i \in 1 .. t : p[i] = s[i]
      BY PrefixIs
    <2>2. Prefix(p, a) = Prefix(s, a) /\ Boundary(p, a) /\ a \in 0 .. Len(p)
      BY <1>2, <1>3, PrefixOfPrefix
    <2> HIDE DEF p
    <2>3. /\ m \in a + 1 .. Len(p) /\ \A k \in a + 1 .. m : p[k] \in Payload
          /\ m = Len(p) \/ p[m + 1] \in Delimiter
      BY <1>0, <1>3, <1>6, <2>1
    <2>4. /\ Len(Runs(Prefix(p, a))) + 1 <= Len(Runs(p))
          /\ Runs(p)[Len(Runs(Prefix(p, a))) + 1] = SubSeq(p, a + 1, m)
      BY <2>1, <2>2, <2>3, RunsNext
    <2>5. Len(SubSeq(p, a + 1, m)) = m - a
      <3>1. /\ a + 1 \in Nat /\ m \in Nat /\ 1 <= a + 1 /\ m <= Len(p) /\ a + 1 <= m + 1
            /\ m - (a + 1) + 1 = m - a
        BY <1>0, <1>3, <2>1
      <3> QED BY <2>1, <3>1, Cut
    <2> QED BY <1>2, <2>2, <2>4, <2>5 DEF p
  <1>7. CASE HasDelimiter(src)
    <2> DEFINE m == a + idx
    <2>1. idx \in 0 .. Len(src) - 1 /\ src[idx + 1] \in Delimiter /\ \A j \in 1 .. idx : src[j] \in Payload
      BY <1>4, <1>7, FirstDelimiter
    <2>2. idx \in Nat /\ idx <= t - a - 1
      BY <1>0, <1>3, <1>4, <2>1
    <2> HIDE DEF idx
    <2>3. s[m + 1] \in Delimiter /\ m + 1 \in 1 .. Len(s) /\ m + 1 <= t
      <3>1. idx + 1 \in 1 .. t - a /\ a + (idx + 1) = m + 1
        BY <1>0, <1>3, <2>2
      <3>2. m + 1 \in 1 .. Len(s) /\ m + 1 <= t
        BY <1>0, <1>3, <2>2
      <3> QED BY <1>4, <2>1, <3>1, <3>2
    <2>4. idx # 0
      <3> SUFFICES ASSUME idx = 0 PROVE FALSE
        OBVIOUS
      <3>1. s[a + 1] \in Delimiter /\ a + 1 \in 1 .. Len(s) /\ a # t
        BY <1>0, <1>3, <2>3
      <3>2. s[a + 1] \in Payload
        BY <1>1, <3>1
      <3> QED BY <1>0, <3>1, <3>2, Bytes
    <2>5. m \in a + 1 .. t /\ \A k \in a + 1 .. m : s[k] \in Payload
      <3>1. m \in a + 1 .. t
        BY <1>0, <1>3, <2>2, <2>4
      <3>2. ASSUME NEW k \in a + 1 .. m PROVE s[k] \in Payload
        <4>1. k - a \in 1 .. idx /\ k - a \in 1 .. t - a /\ a + (k - a) = k
          BY <1>0, <1>3, <2>2
        <4> QED BY <1>4, <2>1, <4>1
      <3> QED BY <3>1, <3>2
    <2>6. advance(src, idx) = SubSeq(s, m + 1, t)
      <3> DEFINE from == a + 1
      <3> DEFINE drop == idx + 1
      <3> DEFINE w == Len(src)
      <3>1. /\ from \in Nat /\ 1 <= from /\ from <= t + 1
            /\ drop \in Nat /\ 1 <= drop /\ drop <= w + 1
            /\ w \in Nat /\ w <= t - from + 1
            /\ from + drop - 1 = m + 1 /\ from + w - 1 = t
        BY <1>0, <1>3, <1>4, <2>2
      <3> HIDE DEF from, drop, w
      <3>2. SubSeq(SubSeq(s, from, t), drop, w) = SubSeq(s, from + drop - 1, from + w - 1)
        BY <1>0, <3>1, CutOfCut
      <3> QED BY <3>1, <3>2 DEF advance, from, drop, w
    <2>7. PICK c \in m .. t :
             /\ rest = SubSeq(s, c + 1, t)
             /\ \A k \in m + 1 .. c : s[k] \in Delimiter
             /\ c = t \/ s[c + 1] \in Payload
      <3>1. m \in 0 .. t
        BY <1>0, <1>3, <2>5
      <3> HIDE DEF m
      <3> QED BY <2>6, <3>1, Skip
    <2>8. c # m
      <3> SUFFICES ASSUME c = m PROVE FALSE
        OBVIOUS
      <3>1. s[m + 1] \in Payload
        BY <1>0, <1>3, <2>2, <2>3, <2>7
      <3> QED BY <1>0, <2>3, <3>1, Bytes
    <2>9. c \in Nat /\ m + 1 <= c /\ c <= t /\ c \in n .. t /\ c \in 0 .. Len(s) /\ m \in Nat /\ a \in 0 .. c
      BY <1>0, <1>3, <2>2, <2>8
    <2>10. CASE TooLong(idx)
      <3>1. r.tag = "error"
        BY <1>5, <1>7, <2>10 DEF Decoded
      <3>2. m = t \/ s[m + 1] \in Delimiter
        BY <2>3
      <3>3. Len(f) + 1 <= Len(g) /\ Len(g[Len(f) + 1]) = m - a
        <4> HIDE DEF m
        <4> QED BY <1>6, <2>5, <3>2
      <3>4. m - a > max_frame_bytes
        BY <1>0, <1>3, <2>2, <2>10 DEF TooLong
      <3> QED BY <3>1, <3>3, <3>4
    <2>11. CASE ~ TooLong(idx)
      <3> DEFINE x == split_to(src, idx)
      <3> DEFINE p == Prefix(s, c)
      <3>1. r.tag = "some" /\ r.source = rest /\ r.frame = x
        BY <1>5, <1>7, <2>11 DEF Decoded
      <3>2. x = SubSeq(s, a + 1, m)
        <4>1. /\ a + 1 \in Nat /\ 1 <= a + 1 /\ a + 1 <= t + 1 /\ 1 \in Nat
              /\ idx \in Nat /\ 1 <= 1 /\ idx <= t - (a + 1) + 1 /\ 1 <= idx + 1
              /\ a + 1 + 1 - 1 = a + 1 /\ a + 1 + idx - 1 = m
          BY <1>0, <1>3, <2>2
        <4>2. SubSeq(SubSeq(s, a + 1, t), 1, idx) = SubSeq(s, a + 1 + 1 - 1, a + 1 + idx - 1)
          BY <1>0, <4>1, CutOfCut
        <4> QED BY <4>1, <4>2 DEF split_to
      <3>3. x \in Seq(Byte) /\ Len(x) = idx
        <4>1. /\ a + 1 \in Nat /\ m \in Nat /\ 1 <= a + 1 /\ m <= Len(s) /\ a + 1 <= m + 1
              /\ m - (a + 1) + 1 = idx
          BY <1>0, <1>3, <2>2
        <4> HIDE DEF m, x
        <4> QED BY <3>2, <4>1, Cut
      <3>4. idx \in 1 .. max_frame_bytes
        BY <1>0, <2>2, <2>4, <2>11 DEF TooLong
      <3>5. p \in Seq(Byte) /\ Len(p) = c /\ \A i \in 1 .. c : p[i] = s[i]
        BY <2>9, PrefixIs
      <3>6. Prefix(p, a) = Prefix(s, a) /\ Boundary(p, a) /\ a \in 0 .. Len(p)
        BY <1>2, <2>9, PrefixOfPrefix
      <3>7. p = SubSeq(s, 1, c)
        BY DEF Prefix
      <3> HIDE DEF p, x
      <3>8. /\ m \in a + 1 .. Len(p) /\ \A k \in a + 1 .. m : p[k] \in Payload
            /\ \A k \in m + 1 .. Len(p) : p[k] \in Delimiter
        <4>1. m \in a + 1 .. Len(p)
          BY <1>3, <2>5, <2>9, <3>5
        <4>2. \A k \in a + 1 .. m : k \in 1 .. c
          BY <1>3, <2>9
        <4>3. \A k \in m + 1 .. Len(p) : k \in 1 .. c /\ k \in m + 1 .. c
          BY <2>9, <3>5
        <4> QED BY <2>5, <2>7, <3>5, <4>1, <4>2, <4>3
      <3>9. Runs(p) = Append(Runs(Prefix(p, a)), SubSeq(p, a + 1, m))
        <4> HIDE DEF m
        <4> QED BY <3>5, <3>6, <3>8, RunsAppend
      <3>10. SubSeq(p, a + 1, m) = SubSeq(s, a + 1, m)
        <4>1. /\ 1 \in Nat /\ 1 <= 1 /\ c <= Len(s) /\ 1 <= c + 1
              /\ a + 1 \in Nat /\ 1 <= a + 1 /\ m <= c - 1 + 1 /\ a + 1 <= m + 1
              /\ 1 + (a + 1) - 1 = a + 1 /\ 1 + m - 1 = m
          BY <1>0, <1>3, <2>2, <2>9
        <4>2. SubSeq(SubSeq(s, 1, c), a + 1, m) = SubSeq(s, 1 + (a + 1) - 1, 1 + m - 1)
          BY <2>9, <4>1, CutOfCut
        <4> QED BY <3>7, <4>1, <4>2
      <3>11. Boundary(s, c)
        <4>1. c \in m + 1 .. c /\ c # 0
          BY <1>3, <2>2, <2>9
        <4> QED BY <2>7, <4>1 DEF Boundary
      <3>12. Runs(Prefix(s, c)) = Append(f, x)
        BY <1>2, <3>2, <3>6, <3>9, <3>10 DEF p
      <3> QED BY <2>7, <2>9, <3>1, <3>3, <3>4, <3>11, <3>12
    <2> QED BY <2>10, <2>11
  <1>8. CASE ~ HasDelimiter(src)
    <2>1. ASSUME NEW k \in a + 1 .. t PROVE s[k] \in Payload
      <3>1. k - a \in 1 .. t - a /\ a + (k - a) = k /\ k \in 1 .. Len(s)
        BY <1>0, <1>3
      <3>2. s[k] \notin Delimiter
        BY <1>4, <1>8, <3>1 DEF HasDelimiter
      <3> QED BY <1>0, <3>1, <3>2, Bytes
    <2>2. CASE TooLong(Len(src))
      <3>1. r.tag = "error"
        BY <1>5, <1>8, <2>2 DEF Decoded
      <3>2. t - a > max_frame_bytes
        BY <1>4, <2>2 DEF TooLong
      <3>3. t \in a + 1 .. t
        BY <1>0, <1>3, <3>2
      <3>4. Len(f) + 1 <= Len(g) /\ Len(g[Len(f) + 1]) = t - a
        BY <1>6, <2>1, <3>3
      <3> QED BY <3>1, <3>2, <3>4
    <2>3. CASE ~ TooLong(Len(src))
      <3>1. r.tag = "none" /\ r.source = src
        BY <1>5, <1>8, <2>3 DEF Decoded
      <3>2. t - a <= max_frame_bytes
        BY <1>0, <1>3, <1>4, <2>3 DEF TooLong
      <3> QED BY <1>2, <1>3, <2>1, <3>1, <3>2
    <2> QED BY <2>2, <2>3
  <1> QED BY <1>7, <1>8
-----------------------------------------------------------------------------
(***************************************************************************)
(* The inductive invariant.                                                *)
(***************************************************************************)
FrameType ==
  /\ peer \in {"codec", "foreign", "done"}
  /\ stream \in Seq(Byte)
  /\ taken \in 0 .. Len(stream)
  /\ frames \in Seq(Seq(Byte))
  /\ reader \in {"reading", "decoding", "eof", "closed", "failed"}

\* What has been handed on is within the limit.
WithinLimit == \A k \in 1 .. Len(frames) : Len(frames[k]) \in 1 .. max_frame_bytes

\* The buffer holds the bytes from some boundary of the stream on, and the frames are the
\* runs before it; between two reads all that is buffered is one unfinished line.
InStep ==
  \E n \in 0 .. taken :
    /\ buffer = SubSeq(stream, n + 1, taken)
    /\ Boundary(stream, n)
    /\ frames = Runs(Prefix(stream, n))
    /\ reader = "reading" => /\ \A k \in n + 1 .. taken : stream[k] \in Payload
                             /\ taken - n <= max_frame_bytes
    /\ reader = "closed" => n = taken

\* A reader that gave up has met a run that is too long, or the end of the stream in the
\* middle of one.
Refused ==
  /\ IsPrefix(frames, Lines(Received))
  /\ Len(frames) + 1 <= Len(Runs(Received))
  /\ \/ Len(Runs(Received)[Len(frames) + 1]) > max_frame_bytes
     \/ peer = "done" /\ taken = Len(stream) /\ stream[taken] \in Payload

FrameInv ==
  /\ FrameType
  /\ WithinLimit
  /\ reader # "failed" => InStep
  /\ reader = "failed" => Refused
  /\ reader \in {"eof", "closed"} => peer = "done" /\ taken = Len(stream)

\* What a codec peer has written: the runs of the stream are its frames, and all are finished
\* and within the limit.
SentInv ==
  /\ written \in Seq(Seq(Byte))
  /\ peer = "foreign" => written = <<>>
  /\ peer = "codec" \/ written # <<>> =>
       /\ Runs(stream) = NonEmpty(written)
       /\ Boundary(stream, Len(stream))
       /\ \A k \in 1 .. Len(Runs(stream)) : Len(Runs(stream)[k]) <= max_frame_bytes
-----------------------------------------------------------------------------
\* Bytes added to the end of a stream change nothing before them.
LEMMA Grown ==
  ASSUME NEW s \in Seq(Byte), NEW u \in Seq(Byte), Len(s) <= Len(u),
         \A i \in 1 .. Len(s) : u[i] = s[i],
         NEW n \in 0 .. Len(s), NEW t \in n .. Len(s)
  PROVE  /\ SubSeq(u, n + 1, t) = SubSeq(s, n + 1, t)
         /\ Prefix(u, n) = Prefix(s, n) /\ Prefix(u, t) = Prefix(s, t)
         /\ Boundary(u, n) <=> Boundary(s, n)
  <1>0. /\ Len(s) \in Nat /\ Len(u) \in Nat /\ n \in Nat /\ t \in Nat /\ n <= t /\ t <= Len(s)
        /\ t <= Len(u) /\ n + 1 \in Nat /\ 1 <= n + 1 /\ n + 1 <= t + 1 /\ n <= Len(s) /\ n <= Len(u)
    OBVIOUS
  <1>1. ASSUME NEW a \in Nat, NEW b \in Nat, 1 <= a, b <= Len(s), a <= b + 1
        PROVE  SubSeq(u, a, b) = SubSeq(s, a, b)
    <2> DEFINE x == SubSeq(u, a, b)
    <2> DEFINE y == SubSeq(s, a, b)
    <2>1. b <= Len(u)
      BY <1>0, <1>1
    <2>2. x \in Seq(Byte) /\ Len(x) = b - a + 1 /\ \A i \in 1 .. b - a + 1 : x[i] = u[a + i - 1]
      BY <1>1, <2>1, Cut
    <2>3. y \in Seq(Byte) /\ Len(y) = b - a + 1 /\ \A i \in 1 .. b - a + 1 : y[i] = s[a + i - 1]
      BY <1>1, Cut
    <2> HIDE DEF x, y
    <2>4. \A i \in 1 .. Len(x) : x[i] = y[i]
      <3> TAKE i \in 1 .. Len(x)
      <3>1. i \in 1 .. b - a + 1 /\ a + i - 1 \in 1 .. Len(s)
        BY <1>0, <1>1, <2>2
      <3> QED BY <2>2, <2>3, <3>1
    <2>5. x = y
      BY <2>2, <2>3, <2>4, SeqEqual
    <2> QED BY <2>5 DEF x, y
  <1>2. SubSeq(u, n + 1, t) = SubSeq(s, n + 1, t)
    BY <1>0, <1>1
  <1>3. Prefix(u, n) = Prefix(s, n) /\ Prefix(u, t) = Prefix(s, t)
    BY <1>0, <1>1 DEF Prefix
  <1>4. Boundary(u, n) <=> Boundary(s, n)
    <2>1. n = 0 \/ n \in 1 .. Len(s)
      BY <1>0
    <2> QED BY <2>1 DEF Boundary
  <1> QED BY <1>2, <1>3, <1>4

\* A peer that writes or hangs up leaves the reader as it was.
LEMMA PeerStep ==
  ASSUME FrameInv, UNCHANGED <<taken, buffer, frames, reader>>,
         stream' \in Seq(Byte), Len(stream) <= Len(stream'),
         \A i \in 1 .. Len(stream) : stream'[i] = stream[i],
         peer' \in {"codec", "foreign", "done"},
         peer = "done" => peer' = "done" /\ stream' = stream
  PROVE  FrameInv'
  <1>0. Len(stream) \in Nat /\ taken \in Nat /\ taken <= Len(stream) /\ Len(stream') \in Nat
    BY DEF FrameInv, FrameType
  <1>1. FrameType'
    BY <1>0 DEF FrameInv, FrameType
  <1>2. WithinLimit'
    BY DEF FrameInv, WithinLimit
  <1>3. ASSUME reader # "failed" PROVE InStep'
    <2>1. PICK n \in 0 .. taken :
            /\ buffer = SubSeq(stream, n + 1, taken)
            /\ Boundary(stream, n)
            /\ frames = Runs(Prefix(stream, n))
            /\ reader = "reading" => /\ \A k \in n + 1 .. taken : stream[k] \in Payload
                                     /\ taken - n <= max_frame_bytes
            /\ reader = "closed" => n = taken
      BY <1>3 DEF FrameInv, InStep
    <2>2. n \in 0 .. Len(stream) /\ taken \in n .. Len(stream)
      BY <1>0
    <2>3. /\ SubSeq(stream', n + 1, taken) = SubSeq(stream, n + 1, taken)
          /\ Prefix(stream', n) = Prefix(stream, n)
          /\ Boundary(stream', n)
      BY <2>1, <2>2, Grown DEF FrameInv, FrameType
    <2>4. \A k \in n + 1 .. taken : stream'[k] = stream[k]
      BY <1>0, <2>2
    <2> QED BY <2>1, <2>3, <2>4 DEF InStep
  <1>4. ASSUME reader = "failed" PROVE Refused'
    <2>1. Received' = Received
      <3>1. 0 \in 0 .. Len(stream) /\ taken \in 0 .. Len(stream)
        BY <1>0
      <3>2. Prefix(stream', taken) = Prefix(stream, taken)
        BY <3>1, Grown DEF FrameInv, FrameType
      <3> QED BY <3>2 DEF Received, Prefix
    <2> QED BY <1>4, <2>1 DEF FrameInv, Refused
  <1>5. (reader \in {"eof", "closed"} => peer = "done" /\ taken = Len(stream))'
    BY DEF FrameInv
  <1> QED BY <1>1, <1>2, <1>3, <1>4, <1>5 DEF FrameInv

\* A read adds the bytes that follow to the buffer.
LEMMA ReadStep ==
  ASSUME FrameInv, NEW n \in Nat, read(n)
  PROVE  FrameInv'
  <1>0. /\ Len(stream) \in Nat /\ taken \in Nat /\ taken <= Len(stream) /\ stream \in Seq(Byte)
        /\ reader = "reading" /\ n \in 1 .. Len(stream) - taken
        /\ taken' = taken + n /\ reader' = "decoding" /\ UNCHANGED <<peer, written, stream, frames>>
        /\ buffer' = buffer \o SubSeq(stream, taken + 1, taken + n)
    BY DEF FrameInv, FrameType, read
  <1>1. FrameType' /\ WithinLimit'
    BY <1>0 DEF FrameInv, FrameType, WithinLimit
  <1>2. PICK m \in 0 .. taken :
          /\ buffer = SubSeq(stream, m + 1, taken)
          /\ Boundary(stream, m)
          /\ frames = Runs(Prefix(stream, m))
    BY <1>0 DEF FrameInv, InStep
  <1>3. /\ m + 1 \in 1 .. Len(stream) + 1 /\ taken \in m + 1 - 1 .. Len(stream)
        /\ taken + n \in taken .. Len(stream) /\ m \in 0 .. taken + n
    BY <1>0
  <1>4. SubSeq(stream, m + 1, taken) \o SubSeq(stream, taken + 1, taken + n)
          = SubSeq(stream, m + 1, taken + n)
    BY <1>0, <1>3, ConcatAdjacentSubSeq, SMTT(40)
  <1>5. InStep'
    <2>1. /\ buffer' = SubSeq(stream', m + 1, taken') /\ Boundary(stream', m)
          /\ frames' = Runs(Prefix(stream', m)) /\ m \in 0 .. taken'
      BY <1>0, <1>2, <1>3, <1>4
    <2> QED BY <1>0, <2>1 DEF InStep
  <1> QED BY <1>0, <1>1, <1>5 DEF FrameInv

\* One call of decode keeps the reader in step with the stream, or refuses for a reason.
LEMMA NextStep ==
  ASSUME FrameInv, next
  PROVE  FrameInv'
  <1> DEFINE r == decode(buffer)
  <1>0. /\ Len(stream) \in Nat /\ taken \in 0 .. Len(stream) /\ stream \in Seq(Byte)
        /\ frames \in Seq(Seq(Byte)) /\ peer \in {"codec", "foreign", "done"}
        /\ max_frame_bytes \in Nat \ {0}
    BY FrameCodecAssumption DEF FrameInv, FrameType
  <1>1. /\ reader \in {"decoding", "eof"} /\ buffer' = r.source
        /\ UNCHANGED <<peer, written, stream, taken>>
        /\ \/ r.tag = "some" /\ frames' = Append(frames, r.frame) /\ reader' = reader
           \/ r.tag = "error" /\ reader' = "failed" /\ frames' = frames
           \/ r.tag = "none" /\ reader = "decoding" /\ reader' = "reading" /\ frames' = frames
           \/ /\ r.tag = "none" /\ reader = "eof" /\ frames' = frames
              /\ reader' = IF r.source = <<>> THEN "closed" ELSE "failed"
    BY DEF next
  <1>2. PICK n \in 0 .. taken :
          /\ buffer = SubSeq(stream, n + 1, taken)
          /\ Boundary(stream, n)
          /\ frames = Runs(Prefix(stream, n))
    BY <1>1 DEF FrameInv, InStep
  <1> DEFINE g == Runs(Prefix(stream, taken))
  <1>3. \/ /\ r.tag = "some" /\ r.frame \in Seq(Byte) /\ Len(r.frame) \in 1 .. max_frame_bytes
           /\ \E c \in n .. taken : /\ r.source = SubSeq(stream, c + 1, taken) /\ Boundary(stream, c)
                                    /\ Runs(Prefix(stream, c)) = Append(frames, r.frame)
        \/ /\ r.tag = "none"
           /\ \E c \in n .. taken : /\ r.source = SubSeq(stream, c + 1, taken) /\ Boundary(stream, c)
                                    /\ Runs(Prefix(stream, c)) = frames
                                    /\ \A k \in c + 1 .. taken : stream[k] \in Payload
                                    /\ taken - c <= max_frame_bytes
        \/ /\ r.tag = "error"
           /\ Len(frames) + 1 <= Len(g) /\ Len(g[Len(frames) + 1]) > max_frame_bytes
    BY <1>0, <1>2, DecodeIs
  <1>4. IsPrefix(frames, Lines(Prefix(stream, taken)))
    <2> DEFINE p == Prefix(stream, taken)
    <2>1. p \in Seq(Byte)
      BY <1>0, PrefixIs
    <2>2. Prefix(p, n) = Prefix(stream, n) /\ Boundary(p, n) /\ n \in 0 .. Len(p)
      BY <1>0, <1>2, PrefixOfPrefix
    <2> HIDE DEF p
    <2>3. IsPrefix(Runs(Prefix(p, n)), Lines(p))
      BY <2>1, <2>2, LinesExtend
    <2> QED BY <1>2, <2>2, <2>3 DEF p
  <1>5. Received = Prefix(stream, taken) /\ Received' = Prefix(stream, taken)
    BY <1>1 DEF Received, Prefix
  <1>6. (reader \in {"eof", "closed"} => peer = "done" /\ taken = Len(stream))'
    BY <1>1 DEF FrameInv
  <1> HIDE DEF r
  <1>7. CASE r.tag = "some"
    <2>1. PICK c \in n .. taken : /\ r.source = SubSeq(stream, c + 1, taken) /\ Boundary(stream, c)
                                  /\ Runs(Prefix(stream, c)) = Append(frames, r.frame)
      BY <1>3, <1>7
    <2>2. r.frame \in Seq(Byte) /\ Len(r.frame) \in 1 .. max_frame_bytes
      BY <1>3, <1>7
    <2>3. frames' = Append(frames, r.frame) /\ reader' = reader /\ c \in 0 .. taken
      BY <1>0, <1>1, <1>7
    <2>4. FrameType'
      BY <1>0, <1>1, <2>2, <2>3 DEF FrameType
    <2>5. WithinLimit'
      <3> DEFINE F == Append(frames, r.frame)
      <3>1. /\ Len(F) = Len(frames) + 1 /\ F[Len(frames) + 1] = r.frame /\ Len(frames) \in Nat
            /\ \A k \in 1 .. Len(frames) : F[k] = frames[k]
        BY <1>0, <2>2, AppendProperties
      <3> HIDE DEF F
      <3>2. \A k \in 1 .. Len(F) : Len(F[k]) \in 1 .. max_frame_bytes
        <4> TAKE k \in 1 .. Len(F)
        <4>1. k \in 1 .. Len(frames) \/ k = Len(frames) + 1
          BY <3>1
        <4> QED BY <2>2, <3>1, <4>1 DEF FrameInv, WithinLimit
      <3> QED BY <2>3, <3>2 DEF WithinLimit, F
    <2>6. InStep'
      BY <1>1, <2>1, <2>3 DEF InStep
    <2> QED BY <1>1, <1>6, <2>3, <2>4, <2>5, <2>6 DEF FrameInv
  <1>8. CASE r.tag = "error"
    <2>1. reader' = "failed" /\ frames' = frames
      BY <1>1, <1>8
    <2>2. Len(frames) + 1 <= Len(g) /\ Len(g[Len(frames) + 1]) > max_frame_bytes
      BY <1>3, <1>8
    <2>3. Refused'
      BY <1>4, <1>5, <2>1, <2>2 DEF Refused
    <2>4. FrameType' /\ WithinLimit'
      BY <1>0, <1>1, <2>1 DEF FrameInv, FrameType, WithinLimit
    <2> QED BY <2>1, <2>3, <2>4 DEF FrameInv
  <1>9. CASE r.tag = "none"
    <2>1. PICK c \in n .. taken : /\ r.source = SubSeq(stream, c + 1, taken) /\ Boundary(stream, c)
                                  /\ Runs(Prefix(stream, c)) = frames
                                  /\ \A k \in c + 1 .. taken : stream[k] \in Payload
                                  /\ taken - c <= max_frame_bytes
      BY <1>3, <1>9
    <2>2. frames' = frames /\ c \in 0 .. taken /\ c \in Nat /\ c <= taken /\ taken \in Nat
      BY <1>0, <1>1, <1>9
    <2>3. Len(r.source) = taken - c
      <3>1. /\ c + 1 \in Nat /\ 1 <= c + 1 /\ taken <= Len(stream) /\ c + 1 <= taken + 1
            /\ taken - (c + 1) + 1 = taken - c
        BY <1>0, <2>2
      <3> QED BY <1>0, <2>1, <2>2, <3>1, Cut
    <2>4. reader' \in {"reading", "closed", "failed"}
      BY <1>1, <1>9
    <2>5. FrameType' /\ WithinLimit'
      BY <1>0, <1>1, <2>2, <2>4 DEF FrameInv, FrameType, WithinLimit
    <2>6. ASSUME reader' # "failed" PROVE InStep'
      <3>1. reader' = "closed" => c = taken
        <4> SUFFICES ASSUME reader' = "closed" PROVE c = taken
          OBVIOUS
        <4>1. r.source = <<>>
          BY <1>1, <1>9
        <4>2. Len(r.source) = 0
          BY <4>1, EmptySeq
        <4> QED BY <2>2, <2>3, <4>2
      <3> QED BY <1>1, <2>1, <2>2, <3>1 DEF InStep
    <2>7. ASSUME reader' = "failed" PROVE Refused'
      <3>1. reader = "eof" /\ r.source # <<>>
        BY <1>1, <1>9, <2>7
      <3>2. c # taken
        <4> SUFFICES ASSUME c = taken PROVE FALSE
          OBVIOUS
        <4>1. SubSeq(stream, c + 1, taken) = <<>>
          BY <2>2, SubSeqEmpty
        <4> QED BY <2>1, <3>1, <4>1
      <3>3. stream[taken] \in Payload
        BY <2>1, <2>2, <3>2
      <3>4. peer = "done" /\ taken = Len(stream)
        BY <3>1 DEF FrameInv
      <3>5. Len(frames) + 1 <= Len(g)
        <4>1. Prefix(stream, taken) = stream
          BY <1>0, <3>4, SubSeqFull DEF Prefix
        <4>2. stream # <<>>
          BY <2>2, <3>2, <3>4, EmptySeq
        <4>3. Len(Runs(Prefix(stream, c))) < Len(Runs(stream))
          BY <1>0, <2>1, <2>2, <3>3, <3>4, <4>2, RunsMore
        <4>4. Len(frames) \in Nat /\ Len(Runs(stream)) \in Nat
          BY <1>0, RunAt
        <4> QED BY <2>1, <4>1, <4>3, <4>4
      <3> QED BY <1>1, <1>4, <1>5, <2>2, <3>3, <3>4, <3>5 DEF Refused
    <2> QED BY <1>6, <2>5, <2>6, <2>7 DEF FrameInv
  <1> QED BY <1>3, <1>7, <1>8, <1>9
-----------------------------------------------------------------------------
(***************************************************************************)
(* What NonEmpty computes, by the least-number principle.                  *)
(***************************************************************************)
\* F is the recursive function of NonEmpty on the first n frames of w.
KeptTo(w, n, F) ==
  F = [k \in 0 .. n |-> IF k = 0 THEN <<>>
                        ELSE IF w[k] = <<>> THEN F[k - 1] ELSE Append(F[k - 1], w[k])]

\* That function exists.
LEMMA KeptExists ==
  ASSUME NEW w, NEW len \in Nat
  PROVE  \E F : KeptTo(w, len, F)
  <1> DEFINE T == {n \in Nat : ~ \E F : KeptTo(w, n, F)}
  <1> SUFFICES ASSUME T # {} PROVE FALSE
    OBVIOUS
  <1>1. PICK n \in T : \A j \in T : n <= j
    BY LeastNumber
  <1>2. n \in Nat /\ ~ \E F : KeptTo(w, n, F)
    BY <1>1
  <1>3. n # 0
    <2> SUFFICES ASSUME n = 0 PROVE FALSE
      OBVIOUS
    <2> DEFINE F == [k \in 0 .. 0 |-> <<>>]
    <2>1. \A k \in 0 .. 0 : k = 0
      OBVIOUS
    <2>2. KeptTo(w, 0, F)
      BY <2>1 DEF KeptTo
    <2> QED BY <1>2, <2>2
  <1>4. PICK F : KeptTo(w, n - 1, F)
    <2>1. n - 1 \in Nat /\ ~ (n <= n - 1)
      BY <1>2, <1>3
    <2>2. n - 1 \notin T
      BY <1>1, <2>1, Zenon
    <2> QED BY <2>1, <2>2
  <1> DEFINE last == IF w[n] = <<>> THEN F[n - 1] ELSE Append(F[n - 1], w[n])
  <1> DEFINE G == [k \in 0 .. n |-> IF k = n THEN last ELSE F[k]]
  <1> DEFINE H == [k \in 0 .. n |-> IF k = 0 THEN <<>>
                                    ELSE IF w[k] = <<>> THEN G[k - 1] ELSE Append(G[k - 1], w[k])]
  <1>5. \A k \in 0 .. n : G[k] = IF k = n THEN last ELSE F[k]
    OBVIOUS
  <1>6. \A k \in 0 .. n - 1 :
          F[k] = IF k = 0 THEN <<>> ELSE IF w[k] = <<>> THEN F[k - 1] ELSE Append(F[k - 1], w[k])
    BY <1>4 DEF KeptTo
  <1>7. DOMAIN G = 0 .. n /\ G = [k \in 0 .. n |-> G[k]]
    OBVIOUS
  <1> HIDE DEF G, last
  <1>8. ASSUME NEW k \in 0 .. n
        PROVE  G[k] = IF k = 0 THEN <<>>
                      ELSE IF w[k] = <<>> THEN G[k - 1] ELSE Append(G[k - 1], w[k])
    <2>1. CASE k = n
      <3>1. n - 1 \in 0 .. n /\ n - 1 # n /\ k # 0
        BY <1>2, <1>3, <2>1
      <3>2. G[n - 1] = F[n - 1]
        BY <1>5, <3>1
      <3> QED BY <1>5, <2>1, <3>1, <3>2 DEF last
    <2>2. CASE k # n
      <3>1. k \in 0 .. n - 1
        BY <1>2, <2>2
      <3>2. k # 0 => k - 1 \in 0 .. n /\ k - 1 # n
        BY <1>2, <3>1
      <3>3. G[k] = F[k] /\ (k # 0 => G[k - 1] = F[k - 1])
        BY <1>5, <2>2, <3>2
      <3> QED BY <1>6, <3>1, <3>3
    <2> QED BY <2>1, <2>2
  <1>9. KeptTo(w, n, G)
    BY <1>7, <1>8 DEF KeptTo
  <1> QED BY <1>2, <1>9

\* NonEmpty(w) is its last value.
LEMMA NonEmptyIs ==
  ASSUME NEW w, Len(w) \in Nat
  PROVE  \E F : KeptTo(w, Len(w), F) /\ NonEmpty(w) = F[Len(w)]
  <1> DEFINE F == CHOOSE F : KeptTo(w, Len(w), F)
  <1>1. \E F0 : KeptTo(w, Len(w), F0)
    BY KeptExists
  <1>2. KeptTo(w, Len(w), F)
    BY <1>1, Zenon
  <1>3. NonEmpty(w) = F[Len(w)]
    BY DEF NonEmpty, KeptTo
  <1> QED BY <1>2, <1>3

\* A frame at the end is kept unless it is empty.
LEMMA NonEmptyAppend ==
  ASSUME NEW S, NEW w \in Seq(S), NEW f \in S
  PROVE  NonEmpty(Append(w, f)) = IF f = <<>> THEN NonEmpty(w) ELSE Append(NonEmpty(w), f)
  <1> DEFINE v == Append(w, f)
  <1> DEFINE n == Len(w)
  <1>1. /\ n \in Nat /\ Len(v) = n + 1 /\ v[n + 1] = f /\ n + 1 \in Nat /\ n + 1 - 1 = n /\ n + 1 # 0
        /\ \A k \in 1 .. n : v[k] = w[k]
    BY AppendProperties
  <1> HIDE DEF v, n
  <1>2. PICK F : KeptTo(w, n, F) /\ NonEmpty(w) = F[n]
    BY <1>1, NonEmptyIs DEF n
  <1>3. PICK G : KeptTo(v, n + 1, G) /\ NonEmpty(v) = G[n + 1]
    BY <1>1, NonEmptyIs
  <1>4. \A k \in 0 .. n :
          F[k] = IF k = 0 THEN <<>> ELSE IF w[k] = <<>> THEN F[k - 1] ELSE Append(F[k - 1], w[k])
    BY <1>2 DEF KeptTo
  <1>5. \A k \in 0 .. n + 1 :
          G[k] = IF k = 0 THEN <<>> ELSE IF v[k] = <<>> THEN G[k - 1] ELSE Append(G[k - 1], v[k])
    BY <1>3 DEF KeptTo
  <1>6. \A k \in 0 .. n : G[k] = F[k]
    <2> DEFINE T == {k \in 0 .. n : G[k] # F[k]}
    <2> SUFFICES ASSUME T # {} PROVE FALSE
      OBVIOUS
    <2>1. T \in SUBSET Nat
      BY <1>1
    <2>2. PICK k \in T : \A j \in T : k <= j
      BY <2>1, LeastNumber
    <2>3. k \in 0 .. n /\ G[k] # F[k] /\ k \in 0 .. n + 1
      BY <1>1, <2>2
    <2>4. k # 0
      BY <1>4, <1>5, <2>3
    <2>5. k \in 1 .. n /\ k - 1 \in 0 .. n /\ ~ (k <= k - 1)
      BY <1>1, <2>3, <2>4
    <2>6. k - 1 \notin T
      BY <2>2, <2>5, Zenon
    <2>7. G[k - 1] = F[k - 1] /\ v[k] = w[k]
      BY <1>1, <2>5, <2>6
    <2> QED BY <1>4, <1>5, <2>3, <2>4, <2>7
  <1>7. G[n] = F[n]
    BY <1>1, <1>6
  <1>8. G[n + 1] = IF f = <<>> THEN G[n] ELSE Append(G[n], f)
    <2>1. n + 1 \in 0 .. n + 1
      BY <1>1
    <2> QED BY <1>1, <1>5, <2>1
  <1> QED BY <1>2, <1>3, <1>7, <1>8 DEF v

\* Nothing is kept of nothing.
LEMMA NonEmptyNothing ==
  NonEmpty(<<>>) = <<>>
  <1>1. Len(<<>>) = 0
    BY EmptySeq
  <1>2. PICK F : KeptTo(<<>>, 0, F) /\ NonEmpty(<<>>) = F[0]
    BY <1>1, NonEmptyIs
  <1>3. F[0] = <<>>
    BY <1>2 DEF KeptTo
  <1> QED BY <1>2, <1>3
-----------------------------------------------------------------------------
(***************************************************************************)
(* The writing side.                                                       *)
(***************************************************************************)
\* A run only grows when bytes are added.
LEMMA RunsGrow ==
  ASSUME NEW s \in Seq(Byte), NEW t \in 0 .. Len(s),
         NEW k \in 1 .. Len(Runs(Prefix(s, t)))
  PROVE  k \in 1 .. Len(Runs(s)) /\ Len(Runs(Prefix(s, t))[k]) <= Len(Runs(s)[k])
  <1> DEFINE p == Prefix(s, t)
  <1>0. Len(s) \in Nat /\ t \in Nat /\ t <= Len(s)
    OBVIOUS
  <1>1. p \in Seq(Byte) /\ Len(p) = t /\ \A i \in 1 .. t : p[i] = s[i]
    BY PrefixIs
  <1>2. Starts(p) = {i \in Starts(s) : i <= t}
    BY StartsOfPrefix
  <1>3. k \in 1 .. Cardinality(Starts(p))
    BY <1>1, RunAt
  <1> HIDE DEF p
  <1>4. PICK i \in Starts(p) : Cardinality({j \in Starts(p) : j <= i}) = k
    BY <1>1, <1>3, RunAt
  <1>5. i \in Starts(s) /\ i \in Nat /\ 1 <= i /\ i <= t
    BY <1>0, <1>1, <1>2 DEF Starts
  <1>6. {j \in Starts(p) : j <= i} = {j \in Starts(s) : j <= i}
    <2>1. Starts(s) \in SUBSET Nat
      BY StartsFinite
    <2> QED BY <1>0, <1>2, <1>5, <2>1
  <1>7. Runs(p)[k] = SubSeq(p, i, RunEnd(p, i))
    BY <1>1, <1>4, RunAt
  <1>8. k \in 1 .. Cardinality(Starts(s)) /\ Runs(s)[k] = SubSeq(s, i, RunEnd(s, i))
    BY <1>4, <1>5, <1>6, RunAt
  <1> DEFINE e == RunEnd(p, i)
  <1> DEFINE h == RunEnd(s, i)
  <1>9. Ends(p, i, e) /\ Ends(s, i, h)
    BY <1>1, <1>5, RunEnds
  <1> HIDE DEF e, h
  <1>10. e \in Nat /\ h \in Nat /\ i <= e /\ e <= t /\ i <= h /\ h <= Len(s)
    BY <1>0, <1>1, <1>5, <1>9 DEF Ends
  <1>11. e <= h
    <2> SUFFICES ASSUME ~ (e <= h) PROVE FALSE
      OBVIOUS
    <2>1. h + 1 \in i .. e /\ h + 1 \in 1 .. t /\ h # Len(s) /\ h + 1 \in 1 .. Len(s)
      BY <1>0, <1>5, <1>10
    <2>2. s[h + 1] \in Delimiter /\ p[h + 1] \in Payload /\ p[h + 1] = s[h + 1]
      BY <1>1, <1>9, <2>1 DEF Ends
    <2>3. s[h + 1] \in Byte
      BY <2>1, ElementOfSeq
    <2> QED BY <2>2, <2>3, Bytes
  <1>12. Len(SubSeq(p, i, e)) = e - i + 1
    <2>1. i <= e + 1 /\ e <= Len(p)
      BY <1>1, <1>5, <1>10
    <2> QED BY <1>1, <1>5, <1>10, <2>1, Cut
  <1>13. Len(SubSeq(s, i, h)) = h - i + 1
    <2>1. i <= h + 1
      BY <1>5, <1>10
    <2> QED BY <1>5, <1>10, <2>1, Cut
  <1>14. Len(Runs(p)[k]) <= Len(Runs(s)[k])
    BY <1>5, <1>7, <1>8, <1>10, <1>11, <1>12, <1>13 DEF e, h
  <1> QED BY <1>8, <1>14, RunAt DEF p

\* A frame with its delimiters is one more run, or none if it is empty.
LEMMA FrameWritten ==
  ASSUME NEW s \in Seq(Byte), Boundary(s, Len(s)), NEW f \in Seq(Byte), ~ HasDelimiter(f)
  PROVE  LET u == s \o f \o <<CR, LF>>
         IN  /\ u \in Seq(Byte) /\ Len(s) <= Len(u) /\ \A i \in 1 .. Len(s) : u[i] = s[i]
             /\ Boundary(u, Len(u))
             /\ Runs(u) = IF f = <<>> THEN Runs(s) ELSE Append(Runs(s), f)
  <1> DEFINE u == s \o f \o <<CR, LF>>
  <1> DEFINE n == Len(s)
  <1> DEFINE m == n + Len(f)
  <1>1. n \in Nat /\ Len(f) \in Nat /\ m \in Nat /\ n <= m
    OBVIOUS
  <1>2. <<CR, LF>> \in Seq(Byte) /\ Len(<<CR, LF>>) = 2 /\ <<CR, LF>>[1] \in Delimiter /\ <<CR, LF>>[2] \in Delimiter
    BY DEF Byte, Delimiter
  <1>3. /\ u \in Seq(Byte) /\ Len(u) = m + 2
        /\ \A i \in 1 .. n : u[i] = s[i]
        /\ \A i \in 1 .. Len(f) : u[n + i] = f[i]
        /\ u[m + 1] \in Delimiter /\ u[m + 2] \in Delimiter
    <2> DEFINE v == s \o f
    <2> DEFINE d == <<CR, LF>>
    <2>1. v \in Seq(Byte) /\ Len(v) = m
          /\ \A i \in 1 .. m : v[i] = IF i <= n THEN s[i] ELSE f[i - n]
      BY ConcatProperties
    <2>2. d \in Seq(Byte) /\ Len(d) = 2 /\ d[1] \in Delimiter /\ d[2] \in Delimiter
      BY <1>2
    <2> HIDE DEF v, d, m
    <2>3. v \o d \in Seq(Byte) /\ Len(v \o d) = m + 2
          /\ \A i \in 1 .. m + 2 : (v \o d)[i] = IF i <= m THEN v[i] ELSE d[i - m]
      <3>1. v \o d \in Seq(Byte) /\ Len(v \o d) = Len(v) + Len(d)
            /\ \A i \in 1 .. Len(v) + Len(d) : (v \o d)[i] = IF i <= Len(v) THEN v[i] ELSE d[i - Len(v)]
        <4>1. v \in Seq(Byte) /\ d \in Seq(Byte)
          BY <2>1, <2>2
        <4> QED BY <4>1, ConcatProperties, Zenon
      <3>2. Len(v) = m /\ Len(d) = 2
        BY <2>1, <2>2
      <3> QED BY <3>1, <3>2, Zenon
    <2> DEFINE z == v \o d
    <2>4. u = z
      BY DEF v, d
    <2> HIDE DEF z, u
    <2>5. z \in Seq(Byte) /\ Len(z) = m + 2 /\ \A i \in 1 .. m + 2 : z[i] = IF i <= m THEN v[i] ELSE d[i - m]
      BY <2>3 DEF z
    <2>6. \A i \in 1 .. n : z[i] = s[i]
      <3> TAKE i \in 1 .. n
      <3>1. i \in 1 .. m /\ i \in 1 .. m + 2 /\ i <= m /\ i <= n
        BY <1>1
      <3> QED BY <2>1, <2>5, <3>1
    <2>7. \A i \in 1 .. Len(f) : z[n + i] = f[i]
      <3> TAKE i \in 1 .. Len(f)
      <3>1. n + i \in 1 .. m /\ n + i \in 1 .. m + 2 /\ n + i <= m /\ ~ (n + i <= n) /\ n + i - n = i
        BY <1>1 DEF m
      <3> QED BY <2>1, <2>5, <3>1
    <2>8. z[m + 1] = d[1] /\ z[m + 2] = d[2]
      <3>1. \A i \in 1 .. m + 2 : ~ (i <= m) => z[i] = d[i - m]
        BY <2>5
      <3>2. ASSUME NEW i, NEW j, i = m + j, j \in 1 .. 2 PROVE z[i] = d[j]
        <4>1. i \in 1 .. m + 2 /\ ~ (i <= m) /\ i - m = j
          BY <1>1, <3>2
        <4>2. z[i] = d[i - m]
          BY <3>1, <4>1, Zenon
        <4> QED BY <4>1, <4>2
      <3> QED BY <3>2
    <2> QED BY <2>2, <2>4, <2>5, <2>6, <2>7, <2>8
  <1> HIDE DEF u
  <1>4. n <= Len(u) /\ n \in 0 .. Len(u) /\ Len(u) \in Nat
    BY <1>1, <1>3
  <1>5. Prefix(u, n) = s /\ Boundary(u, n)
    <2>1. n \in 0 .. Len(s) /\ n \in n .. Len(s)
      BY <1>1
    <2>2. Prefix(u, n) = Prefix(s, n) /\ (Boundary(u, n) <=> Boundary(s, n))
      BY <1>3, <1>4, <2>1, Grown
    <2>3. Prefix(s, n) = s
      BY SubSeqFull DEF Prefix
    <2> QED BY <2>2, <2>3
  <1>6. Boundary(u, Len(u))
    BY <1>3 DEF Boundary
  <1>7. \A k \in m + 1 .. Len(u) : u[k] \in Delimiter
    <2> TAKE k \in m + 1 .. Len(u)
    <2>1. k = m + 1 \/ k = m + 2
      <3>1. m \in Nat /\ Len(u) = m + 2
        BY <1>1, <1>3
      <3> HIDE DEF m
      <3> QED BY <3>1
    <2> QED BY <1>3, <2>1
  <1>8. CASE f = <<>>
    <2>1. m = n
      BY <1>1, <1>8, EmptySeq
    <2>2. \A k \in n + 1 .. Len(u) : u[k] \in Delimiter
      BY <1>7, <2>1
    <2>3. Runs(u) = Runs(Prefix(u, n))
      BY <1>3, <1>4, <1>5, <2>2, RunsSame
    <2> QED BY <1>3, <1>4, <1>5, <1>6, <1>8, <2>3 DEF u
  <1>9. CASE f # <<>>
    <2>1. Len(f) # 0
      BY <1>9, EmptySeq
    <2>2. m \in n + 1 .. Len(u)
      BY <1>1, <1>3, <2>1
    <2>3. \A k \in n + 1 .. m : u[k] \in Payload
      <3> TAKE k \in n + 1 .. m
      <3>1. k - n \in 1 .. Len(f) /\ n + (k - n) = k
        BY <1>1
      <3>2. u[k] = f[k - n] /\ f[k - n] \in Byte /\ f[k - n] \notin Delimiter
        BY <1>3, <3>1, ElementOfSeq DEF HasDelimiter
      <3> QED BY <3>2, Bytes
    <2>4. Runs(u) = Append(Runs(Prefix(u, n)), SubSeq(u, n + 1, m))
      <3> HIDE DEF m
      <3> QED BY <1>3, <1>4, <1>5, <1>7, <2>2, <2>3, RunsAppend
    <2>5. SubSeq(u, n + 1, m) = f
      <3> DEFINE x == SubSeq(u, n + 1, m)
      <3>1. n + 1 \in Nat /\ 1 <= n + 1 /\ m <= Len(u) /\ n + 1 <= m + 1 /\ m - (n + 1) + 1 = Len(f)
        BY <1>1, <1>3
      <3>2. /\ x \in Seq(Byte) /\ Len(x) = m - (n + 1) + 1
            /\ \A i \in 1 .. m - (n + 1) + 1 : x[i] = u[n + 1 + i - 1]
        BY <1>1, <1>3, <3>1, Cut
      <3> HIDE DEF x
      <3>3. \A i \in 1 .. Len(x) : x[i] = f[i]
        <4> TAKE i \in 1 .. Len(x)
        <4>1. i \in 1 .. Len(f) /\ n + 1 + i - 1 = n + i
          BY <1>1, <3>1, <3>2
        <4> QED BY <1>3, <3>1, <3>2, <4>1
      <3>4. x = f
        BY <3>1, <3>2, <3>3, SeqEqual
      <3> QED BY <3>4 DEF x
    <2> QED BY <1>3, <1>4, <1>5, <1>6, <1>9, <2>4, <2>5 DEF u
  <1> QED BY <1>8, <1>9

\* The steps of the writing side keep what it promises.
LEMMA EncodeStep ==
  ASSUME FrameInv, SentInv, NEW frame \in Seq(Byte), encode(frame)
  PROVE  FrameInv' /\ SentInv'
  <1>0. /\ stream \in Seq(Byte) /\ peer = "codec" /\ written \in Seq(Seq(Byte))
        /\ UNCHANGED <<taken, buffer, frames, reader>>
        /\ max_frame_bytes \in Nat
    BY FrameCodecAssumption DEF FrameInv, FrameType, SentInv, encode
  <1>1. /\ Runs(stream) = NonEmpty(written) /\ Boundary(stream, Len(stream))
        /\ \A k \in 1 .. Len(Runs(stream)) : Len(Runs(stream)[k]) <= max_frame_bytes
    BY <1>0 DEF SentInv
  <1>2. CASE /\ Encodable(frame)
             /\ stream' = stream \o frame \o <<CR, LF>>
             /\ written' = Append(written, frame)
             /\ UNCHANGED peer
    <2>1. /\ stream' \in Seq(Byte) /\ Len(stream) <= Len(stream')
          /\ \A i \in 1 .. Len(stream) : stream'[i] = stream[i]
          /\ Boundary(stream', Len(stream'))
          /\ Runs(stream') = IF frame = <<>> THEN Runs(stream) ELSE Append(Runs(stream), frame)
      BY <1>0, <1>1, <1>2, FrameWritten DEF Encodable
    <2>2. FrameInv'
      BY <1>0, <1>2, <2>1, PeerStep
    <2>3. written' \in Seq(Seq(Byte)) /\ Runs(stream') = NonEmpty(written')
      <3>1. NonEmpty(Append(written, frame))
              = IF frame = <<>> THEN NonEmpty(written) ELSE Append(NonEmpty(written), frame)
        BY <1>0, NonEmptyAppend
      <3>2. Append(written, frame) \in Seq(Seq(Byte))
        BY <1>0, AppendProperties
      <3> QED BY <1>1, <1>2, <2>1, <3>1, <3>2
    <2>4. \A k \in 1 .. Len(Runs(stream')) : Len(Runs(stream')[k]) <= max_frame_bytes
      <3>1. CASE frame = <<>>
        BY <1>1, <2>1, <3>1
      <3>2. CASE frame # <<>>
        <4> DEFINE R == Runs(stream)
        <4> DEFINE Q == Append(R, frame)
        <4>1. R \in Seq(Seq(Byte)) /\ Len(R) \in Nat
          BY <1>0, RunAt
        <4> HIDE DEF R
        <4>2. /\ Len(Q) = Len(R) + 1 /\ Q[Len(R) + 1] = frame
              /\ \A k \in 1 .. Len(R) : Q[k] = R[k]
          BY <4>1, AppendProperties
        <4>3. Len(frame) <= max_frame_bytes
          BY <1>0, <1>2 DEF Encodable, TooLong
        <4> HIDE DEF Q
        <4>4. \A k \in 1 .. Len(Q) : Len(Q[k]) <= max_frame_bytes
          <5> TAKE k \in 1 .. Len(Q)
          <5>1. k \in 1 .. Len(R) \/ k = Len(R) + 1
            BY <4>1, <4>2
          <5> QED BY <1>1, <4>2, <4>3, <5>1 DEF R
        <4> QED BY <2>1, <3>2, <4>4 DEF Q, R
      <3> QED BY <3>1, <3>2
    <2>5. SentInv'
      BY <1>0, <1>2, <2>1, <2>3, <2>4 DEF SentInv
    <2> QED BY <2>2, <2>5
  <1>3. CASE peer' = "done" /\ UNCHANGED <<stream, written>>
    <2>1. FrameInv'
      BY <1>0, <1>3, PeerStep DEF FrameInv, FrameType
    <2>2. SentInv'
      BY <1>0, <1>1, <1>3 DEF SentInv
    <2> QED BY <2>1, <2>2
  <1> QED BY <1>2, <1>3 DEF encode

\* Every step keeps the invariant.
LEMMA FrameStep ==
  ASSUME FrameInv, SentInv, [Next]_vars
  PROVE  FrameInv' /\ SentInv'
  <1>0. Len(stream) \in Nat /\ stream \in Seq(Byte) /\ peer \in {"codec", "foreign", "done"}
    BY DEF FrameInv, FrameType
  <1>1. CASE \E frame \in SeqOf(Byte, MaxFrame) : encode(frame)
    <2>1. PICK frame \in SeqOf(Byte, MaxFrame) : encode(frame)
      BY <1>1
    <2>2. PICK m \in 0 .. MaxFrame : frame \in [1 .. m -> Byte]
      BY DEF SeqOf
    <2>3. frame \in Seq(Byte)
      BY <2>2, FrameCodecAssumption
    <2> QED BY <2>1, <2>3, EncodeStep
  <1>2. CASE \E b \in Byte : send_byte(b)
    <2>1. PICK b \in Byte : send_byte(b)
      BY <1>2
    <2>2. /\ stream' = Append(stream, b) /\ peer = "foreign"
          /\ UNCHANGED <<peer, written, taken, buffer, frames, reader>>
      BY <2>1 DEF send_byte
    <2>3. /\ stream' \in Seq(Byte) /\ Len(stream') = Len(stream) + 1
          /\ \A i \in 1 .. Len(stream) : stream'[i] = stream[i]
      BY <1>0, <2>2, AppendProperties
    <2>4. FrameInv'
      BY <1>0, <2>2, <2>3, PeerStep
    <2>5. SentInv'
      BY <2>2 DEF SentInv
    <2> QED BY <2>4, <2>5
  <1>3. CASE hang_up
    <2>1. peer' = "done" /\ UNCHANGED <<written, stream, taken, buffer, frames, reader>> /\ peer # "done"
      BY <1>3 DEF hang_up
    <2>2. FrameInv'
      BY <1>0, <2>1, PeerStep
    <2>3. SentInv'
      BY <2>1 DEF SentInv
    <2> QED BY <2>2, <2>3
  <1>4. CASE \E n \in 1 .. MaxStream : read(n)
    <2>1. PICK n \in 1 .. MaxStream : read(n)
      BY <1>4
    <2>2. FrameInv'
      BY <2>1, ReadStep, FrameCodecAssumption
    <2>3. SentInv'
      BY <2>1 DEF SentInv, read
    <2> QED BY <2>2, <2>3
  <1>5. CASE read_eof
    <2>1. /\ reader = "reading" /\ peer = "done" /\ taken = Len(stream) /\ reader' = "eof"
          /\ UNCHANGED <<peer, written, stream, taken, buffer, frames>>
      BY <1>5 DEF read_eof
    <2>2. FrameType' /\ WithinLimit'
      BY <2>1 DEF FrameInv, FrameType, WithinLimit
    <2>3. InStep'
      BY <2>1 DEF FrameInv, InStep
    <2> QED BY <2>1, <2>2, <2>3 DEF FrameInv, SentInv
  <1>6. CASE next
    <2>1. FrameInv'
      BY <1>6, NextStep
    <2>2. SentInv'
      BY <1>6 DEF SentInv, next
    <2> QED BY <2>1, <2>2
  <1>7. CASE UNCHANGED vars
    BY <1>7 DEF vars, FrameInv, FrameType, WithinLimit, InStep, Refused, Received, SentInv
  <1>8. CASE over
    BY <1>7, <1>8 DEF over
  <1> QED BY <1>1, <1>2, <1>3, <1>4, <1>5, <1>6, <1>7, <1>8 DEF Next
-----------------------------------------------------------------------------
(***************************************************************************)
(* Theorems.                                                               *)
(***************************************************************************)
\* The inductive invariant of both ends: the buffer starts at a boundary of the stream, the frames
\* are the runs before it, and a codec peer's runs are its frames.
THEOREM FrameInvHolds == Spec => [](FrameInv /\ SentInv)
  <1>1. Init => FrameInv /\ SentInv
    <2> SUFFICES ASSUME Init PROVE FrameInv /\ SentInv
      OBVIOUS
    <2>1. /\ stream = <<>> /\ taken = 0 /\ buffer = <<>> /\ frames = <<>> /\ reader = "reading"
          /\ written = <<>> /\ peer \in {"codec", "foreign"}
      BY DEF Init
    <2>2. <<>> \in Seq(Byte) /\ <<>> \in Seq(Seq(Byte)) /\ Len(<<>>) = 0
      BY EmptySeq
    <2>3. Runs(<<>>) = <<>>
      <3>1. Starts(<<>>) = {}
        BY <2>2 DEF Starts
      <3>2. Len(Runs(<<>>)) = 0 /\ Runs(<<>>) \in Seq(Seq(Byte))
        BY <2>2, <3>1, RunAt, FS_EmptySet
      <3> QED BY <3>2, EmptySeq
    <2>4. Prefix(<<>>, 0) = <<>> /\ SubSeq(<<>>, 0 + 1, 0) = <<>>
      BY SubSeqEmpty DEF Prefix
    <2>5. FrameType /\ WithinLimit
      BY <2>1, <2>2 DEF FrameType, WithinLimit
    <2>6. InStep
      <3>1. /\ 0 \in 0 .. taken /\ buffer = SubSeq(stream, 0 + 1, taken) /\ Boundary(stream, 0)
            /\ frames = Runs(Prefix(stream, 0))
            /\ \A k \in 0 + 1 .. taken : stream[k] \in Payload
            /\ taken - 0 <= max_frame_bytes
        BY <2>1, <2>3, <2>4, FrameCodecAssumption DEF Boundary
      <3> QED BY <2>1, <3>1 DEF InStep
    <2>7. SentInv
      BY <2>1, <2>2, <2>3, NonEmptyNothing DEF SentInv, Boundary
    <2> QED BY <2>1, <2>5, <2>6, <2>7 DEF FrameInv
  <1>2. FrameInv /\ SentInv /\ [Next]_vars => (FrameInv /\ SentInv)'
    BY FrameStep
  <1> QED BY <1>1, <1>2, PTL DEF Spec

\* What the reader has been handed are the lines of what it has read, in order and byte for
\* byte, for every stream and however the reads cut it.
THEOREM FramesHold == Spec => []FramesAreLines
  <1>1. FrameInv => FramesAreLines
    <2> SUFFICES ASSUME FrameInv PROVE FramesAreLines
      OBVIOUS
    <2>0. stream \in Seq(Byte) /\ taken \in 0 .. Len(stream) /\ Len(stream) \in Nat /\ taken \in Nat
      BY DEF FrameInv, FrameType
    <2> DEFINE p == Prefix(stream, taken)
    <2>1. Received = p
      BY DEF Received, Prefix
    <2>2. p \in Seq(Byte) /\ Len(p) = taken /\ \A i \in 1 .. taken : p[i] = stream[i]
      BY <2>0, PrefixIs
    <2>3. CASE reader = "failed"
      BY <2>3 DEF FrameInv, Refused, FramesAreLines
    <2>4. CASE reader # "failed"
      <3>1. PICK n \in 0 .. taken :
              /\ Boundary(stream, n)
              /\ frames = Runs(Prefix(stream, n))
              /\ reader = "reading" => \A k \in n + 1 .. taken : stream[k] \in Payload
              /\ reader = "closed" => n = taken
        BY <2>4 DEF FrameInv, InStep
      <3>2. Prefix(p, n) = Prefix(stream, n) /\ Boundary(p, n) /\ n \in 0 .. Len(p)
        BY <2>0, <3>1, PrefixOfPrefix
      <3> HIDE DEF p
      <3>3. IsPrefix(frames, Lines(p))
        BY <2>2, <3>1, <3>2, LinesExtend
      <3>4. ASSUME reader \in {"reading", "closed"} PROVE frames = Lines(p)
        <4>1. \A k \in n + 1 .. Len(p) : p[k] \in Payload
          <5> TAKE k \in n + 1 .. Len(p)
          <5>1. k \in n + 1 .. taken /\ k \in 1 .. taken /\ n # taken
            BY <2>0, <2>2
          <5> QED BY <2>2, <3>1, <3>4, <5>1
        <4> QED BY <2>2, <3>1, <3>2, <4>1, LinesAt
      <3> QED BY <2>1, <3>3, <3>4 DEF FramesAreLines
    <2> QED BY <2>3, <2>4
  <1> QED BY <1>1, FrameInvHolds, PTL

\* A frame is refused if and only if it is longer than the limit, finished or not, for every
\* limit and however its bytes arrive.
THEOREM LimitHolds == Spec => []LimitIsExact
  <1>1. FrameInv => LimitIsExact
    <2> SUFFICES ASSUME FrameInv PROVE LimitIsExact
      OBVIOUS
    <2>0. /\ stream \in Seq(Byte) /\ taken \in 0 .. Len(stream) /\ Len(stream) \in Nat /\ taken \in Nat
          /\ frames \in Seq(Seq(Byte)) /\ max_frame_bytes \in Nat
      BY FrameCodecAssumption DEF FrameInv, FrameType
    <2> DEFINE p == Prefix(stream, taken)
    <2>1. Received = p
      BY DEF Received, Prefix
    <2>2. p \in Seq(Byte) /\ Len(p) = taken /\ \A i \in 1 .. taken : p[i] = stream[i]
      BY <2>0, PrefixIs
    <2>3. ASSUME reader = "failed"
          PROVE  /\ Len(Runs(p)) > Len(frames)
                 /\ \/ Len(Runs(p)[Len(frames) + 1]) > max_frame_bytes
                    \/ peer = "done" /\ taken = Len(stream) /\ stream[taken] \in Payload
      <3>1. Refused
        BY <2>3 DEF FrameInv
      <3>2. Len(Runs(p)) \in Nat /\ Len(frames) \in Nat
        BY <2>0, <2>2, RunAt
      <3> HIDE DEF p
      <3> QED BY <2>1, <3>1, <3>2 DEF Refused
    <2>4. ASSUME reader = "reading"
          PROVE  \A run \in Range(Runs(p)) : Len(run) <= max_frame_bytes
      <3>1. PICK n \in 0 .. taken :
              /\ buffer = SubSeq(stream, n + 1, taken)
              /\ Boundary(stream, n)
              /\ frames = Runs(Prefix(stream, n))
              /\ \A k \in n + 1 .. taken : stream[k] \in Payload
              /\ taken - n <= max_frame_bytes
        BY <2>4 DEF FrameInv, InStep
      <3>2. Prefix(p, n) = Prefix(stream, n) /\ Boundary(p, n) /\ n \in 0 .. Len(p)
        BY <2>0, <3>1, PrefixOfPrefix
      <3>3. n \in Nat /\ n <= taken
        BY <2>0
      <3> HIDE DEF p
      <3>4. \A k \in n + 1 .. Len(p) : p[k] \in Payload
        BY <2>2, <3>1, <3>3
      <3>5. /\ n = Len(p) => Runs(p) = frames
            /\ n # Len(p) => Runs(p) = Append(frames, SubSeq(p, n + 1, Len(p)))
        BY <2>2, <3>1, <3>2, <3>4, LinesAt
      <3>6. \A k \in 1 .. Len(frames) : Len(frames[k]) <= max_frame_bytes
        BY <2>0 DEF FrameInv, WithinLimit
      <3>7. CASE n = Len(p)
        <4>1. Range(Runs(p)) = {frames[k] : k \in 1 .. Len(frames)}
          BY <2>0, <3>5, <3>7, LenProperties DEF Range
        <4> QED BY <3>6, <4>1
      <3>8. CASE n # Len(p)
        <4> DEFINE x == SubSeq(p, n + 1, Len(p))
        <4> DEFINE F == Append(frames, x)
        <4>1. x \in Seq(Byte) /\ Len(x) = taken - n
          <5>1. /\ n + 1 \in Nat /\ 1 <= n + 1 /\ n + 1 <= taken + 1 /\ taken <= Len(p)
                /\ taken - (n + 1) + 1 = taken - n
            BY <2>0, <2>2, <3>3
          <5> QED BY <2>0, <2>2, <5>1, Cut
        <4> HIDE DEF x
        <4>2. /\ F \in Seq(Seq(Byte)) /\ Len(F) = Len(frames) + 1 /\ F[Len(frames) + 1] = x
              /\ \A k \in 1 .. Len(frames) : F[k] = frames[k]
          BY <2>0, <4>1, AppendProperties
        <4> HIDE DEF F
        <4>3. \A k \in 1 .. Len(F) : Len(F[k]) <= max_frame_bytes
          <5> TAKE k \in 1 .. Len(F)
          <5>1. k \in 1 .. Len(frames) \/ k = Len(frames) + 1
            BY <2>0, <4>2
          <5> QED BY <3>1, <3>6, <4>1, <4>2, <5>1
        <4>4. Range(F) = {F[k] : k \in 1 .. Len(F)}
          BY <4>2, LenProperties DEF Range
        <4>5. Runs(p) = F
          BY <3>5, <3>8 DEF F, x
        <4> QED BY <4>3, <4>4, <4>5
      <3> QED BY <3>7, <3>8
    <2> HIDE DEF p
    <2> QED BY <2>1, <2>3, <2>4 DEF LimitIsExact, FrameInv, WithinLimit
  <1> QED BY <1>1, FrameInvHolds, PTL

\* Between two reads the buffer never holds more than one frame of the limit.
THEOREM BufferHolds == Spec => []BufferBounded
  <1>1. FrameInv => BufferBounded
    <2> SUFFICES ASSUME FrameInv, reader = "reading" PROVE Len(buffer) <= max_frame_bytes
      BY DEF BufferBounded
    <2>1. stream \in Seq(Byte) /\ taken \in 0 .. Len(stream) /\ Len(stream) \in Nat
      BY DEF FrameInv, FrameType
    <2>2. PICK n \in 0 .. taken : buffer = SubSeq(stream, n + 1, taken) /\ taken - n <= max_frame_bytes
      BY DEF FrameInv, InStep
    <2>3. /\ n + 1 \in Nat /\ 1 <= n + 1 /\ taken \in Nat /\ taken <= Len(stream) /\ n + 1 <= taken + 1
          /\ taken - (n + 1) + 1 = taken - n
      BY <2>1
    <2> QED BY <2>1, <2>2, <2>3, Cut
  <1> QED BY <1>1, FrameInvHolds, PTL

\* Two ends of this codec understand each other, whatever frames are encoded.
THEOREM RoundTripHolds == Spec => []RoundTrip
  <1>1. FrameInv /\ SentInv => RoundTrip
    <2> SUFFICES ASSUME FrameInv, SentInv, written # <<>>
                 PROVE  /\ IsPrefix(frames, NonEmpty(written))
                        /\ reader # "failed"
                        /\ reader = "closed" => frames = NonEmpty(written)
      BY DEF RoundTrip
    <2>0. /\ stream \in Seq(Byte) /\ taken \in 0 .. Len(stream) /\ Len(stream) \in Nat /\ taken \in Nat
          /\ frames \in Seq(Seq(Byte)) /\ max_frame_bytes \in Nat
      BY FrameCodecAssumption DEF FrameInv, FrameType
    <2>1. /\ Runs(stream) = NonEmpty(written)
          /\ Boundary(stream, Len(stream))
          /\ \A k \in 1 .. Len(Runs(stream)) : Len(Runs(stream)[k]) <= max_frame_bytes
      BY DEF SentInv
    <2>2. ASSUME reader = "failed" PROVE FALSE
      <3> DEFINE p == Prefix(stream, taken)
      <3> DEFINE k == Len(frames) + 1
      <3>1. Received = p /\ Refused
        BY <2>2 DEF FrameInv, Received, Prefix
      <3>2. p \in Seq(Byte) /\ Len(p) = taken
        BY <2>0, PrefixIs
      <3>3. /\ k <= Len(Runs(p))
            /\ \/ Len(Runs(p)[k]) > max_frame_bytes
               \/ taken = Len(stream) /\ stream[taken] \in Payload
        BY <3>1 DEF Refused
      <3>4. Runs(p) \in Seq(Seq(Byte)) /\ Len(frames) \in Nat /\ Len(Runs(p)) \in Nat
        BY <2>0, <3>2, RunAt
      <3>5. k \in 1 .. Len(Runs(p))
        BY <3>3, <3>4
      <3>6. CASE Len(Runs(p)[k]) > max_frame_bytes
        <4> HIDE DEF k
        <4>1. k \in 1 .. Len(Runs(stream)) /\ Len(Runs(p)[k]) <= Len(Runs(stream)[k])
          BY <2>0, <3>5, RunsGrow
        <4>2. Runs(p)[k] \in Seq(Byte) /\ Runs(stream)[k] \in Seq(Byte)
          BY <2>0, <3>4, <3>5, <4>1, RunAt, ElementOfSeq
        <4>3. Len(Runs(p)[k]) \in Nat /\ Len(Runs(stream)[k]) \in Nat
          BY <4>2, LenProperties
        <4>4. Len(Runs(stream)[k]) <= max_frame_bytes
          BY <2>1, <4>1
        <4> QED BY <2>0, <3>6, <4>1, <4>3, <4>4
      <3>7. CASE taken = Len(stream) /\ stream[taken] \in Payload
        <4>1. taken # 0
          <5> SUFFICES ASSUME taken = 0 PROVE FALSE
            OBVIOUS
          <5>1. Starts(p) = {}
            BY <3>2 DEF Starts
          <5>2. Len(Runs(p)) = 0
            BY <3>2, <5>1, RunAt, FS_EmptySet
          <5> QED BY <3>4, <3>3, <5>2
        <4>2. stream[taken] \in Delimiter /\ stream[taken] \in Byte
          BY <2>0, <2>1, <3>7, <4>1, ElementOfSeq DEF Boundary
        <4> QED BY <3>7, <4>2, Bytes
      <3> QED BY <3>3, <3>6, <3>7
    <2>3. PICK n \in 0 .. taken :
            /\ Boundary(stream, n)
            /\ frames = Runs(Prefix(stream, n))
            /\ reader = "closed" => n = taken
      BY <2>2 DEF FrameInv, InStep
    <2>4. n \in 0 .. Len(stream)
      BY <2>0
    <2>5. Lines(stream) = Runs(stream)
      <3>1. Len(stream) \in 0 .. Len(stream) /\ \A k \in Len(stream) + 1 .. Len(stream) : stream[k] \in Payload
        BY <2>0
      <3> QED BY <2>0, <2>1, <3>1, LinesAt
    <2>6. IsPrefix(frames, NonEmpty(written))
      BY <2>0, <2>1, <2>3, <2>4, <2>5, LinesExtend
    <2>7. ASSUME reader = "closed" PROVE frames = NonEmpty(written)
      <3>1. n = Len(stream)
        BY <2>3, <2>7 DEF FrameInv
      <3>2. Prefix(stream, n) = stream
        BY <2>0, <3>1, SubSeqFull DEF Prefix
      <3> QED BY <2>1, <2>3, <3>2
    <2> QED BY <2>2, <2>6, <2>7
  <1> QED BY <1>1, FrameInvHolds, PTL
=============================================================================
