---------------------------- MODULE FrameProofs ----------------------------
(***************************************************************************)
(* What the proofs about the packet classifier rest on, from the bytes up:   *)
(*   - the one's complement sums: a checksum that the switch calculates is   *)
(*     right for the bytes it covers, but where KnownWrong says so           *)
(*     (ChecksumsVerify);                                                    *)
(*   - where the pieces of a frame start;                                    *)
(*   - the tables: which types there are, their offsets and transitions;     *)
(*   - the parser: the type it finds describes the frame it is found in      *)
(*     (ParseMatches), and is the same for two frames with the same headers  *)
(*     (ParseSame);                                                          *)
(*   - frames that are cut and joined, and stay complete.                    *)
(***************************************************************************)
EXTENDS Classifier, SequenceTheorems, FiniteSetTheorems, WellFoundedInduction, TLAPS

-----------------------------------------------------------------------------
(* Induction and recursion over the natural numbers *)

\* A set of numbers with zero and the successor of each of its members has them all.
LEMMA Induction ==
    ASSUME NEW S \in SUBSET Nat, 0 \in S, \A n \in S : n + 1 \in S
    PROVE  S = Nat
<1> SUFFICES ASSUME Nat \ S # {}  PROVE FALSE
  OBVIOUS
<1> DEFINE less == {ss \in Nat \X Nat : ss[1] < ss[2]}
<1>1. IsWellFoundedOn(less, Nat)
  BY NatLessThanWellFounded, Zenon DEF OpToRel
<1>2. \A m, n \in Nat : <<m, n>> \in less <=> m < n
  OBVIOUS
<1>3. Nat \ S \in SUBSET Nat
  OBVIOUS
<1> HIDE DEF less
<1>4. \E n \in Nat \ S : \A m \in Nat \ S : ~(<<m, n>> \in less)
  BY <1>1, <1>3, WFMin, ZenonT(30)
<1>5. PICK n \in Nat \ S : \A m \in Nat \ S : ~(m < n)
  BY <1>2, <1>4
<1>6. n # 0 /\ n - 1 \in Nat /\ n - 1 < n
  BY <1>5
<1>7. n - 1 \in S
  BY <1>5, <1>6
<1>8. (n - 1) + 1 \in S
  BY <1>7
<1> QED
  BY <1>5, <1>8

\* g goes from start in m steps of S.
RunOf(g, S, start, step, m) ==
    g \in [0..m -> S] /\ g[0] = start /\ \A i \in 1..m : g[i] = step[<<i, g[i - 1]>>]

\* Every step of a recursion over the first m numbers can be taken.
LEMMA Recursion ==
    ASSUME NEW S, NEW start \in S, NEW step \in [Nat \X S -> S], NEW m \in Nat
    PROVE  \E g : RunOf(g, S, start, step, m)
<1> DEFINE Runs(n, g) == g[0] = start /\ \A i \in 1..n : g[i] = step[<<i, g[i - 1]>>]
<1> DEFINE Reached == {n \in Nat : \E g \in [0..n -> S] : Runs(n, g)}
<1>1. 0 \in Reached
  <2> DEFINE g == [i \in 0..0 |-> start]
  <2>1. g \in [0..0 -> S] /\ Runs(0, g)
    OBVIOUS
  <2> QED
    BY <2>1
<1>2. \A n \in Reached : n + 1 \in Reached
  <2> TAKE n \in Reached
  <2>1. PICK g \in [0..n -> S] : Runs(n, g)
    OBVIOUS
  <2> DEFINE h == [i \in 0..(n + 1) |-> IF i = n + 1 THEN step[<<n + 1, g[n]>>] ELSE g[i]]
  <2>2. n \in Nat /\ g[n] \in S /\ <<n + 1, g[n]>> \in Nat \X S
    BY <2>1
  <2>3. step[<<n + 1, g[n]>>] \in S
    BY <2>2
  <2>4. h \in [0..(n + 1) -> S]
    BY <2>2, <2>3
  <2>5. h[0] = start
    BY <2>1, <2>2
  <2>6. ASSUME NEW i \in 1..(n + 1)  PROVE h[i] = step[<<i, h[i - 1]>>]
    <3>1. CASE i = n + 1
      <4>1. i - 1 = n /\ i - 1 \in 0..(n + 1) /\ i - 1 # n + 1
        BY <3>1, <2>2
      <4>2. h[i - 1] = g[n]
        BY <4>1
      <4>3. h[i] = step[<<n + 1, g[n]>>]
        BY <3>1
      <4> QED
        BY <3>1, <4>2, <4>3
    <3>2. CASE i # n + 1
      <4>1. i \in 1..n /\ i - 1 \in 0..(n + 1) /\ i - 1 # n + 1
        BY <3>2, <2>2
      <4>2. h[i - 1] = g[i - 1] /\ h[i] = g[i]
        BY <4>1
      <4>3. g[i] = step[<<i, g[i - 1]>>]
        BY <2>1, <4>1
      <4> QED
        BY <4>2, <4>3
    <3> QED
      BY <3>1, <3>2
  <2>7. Runs(n + 1, h)
    BY <2>5, <2>6
  <2> QED
    BY <2>2, <2>4, <2>7
<1>3. Reached \in SUBSET Nat
  OBVIOUS
<1> HIDE DEF Reached
<1>4. Reached = Nat
  BY <1>1, <1>2, <1>3, Induction
<1> QED
  BY <1>4 DEF Reached, RunOf

-----------------------------------------------------------------------------
(* The checksums *)

Bytestrings == Seq(0..(ByteSize - 1))
\* The value of the i-th word of s.
WordAt(s, i) == s[2 * i - 1] + s[2 * i] * ByteSize

\* Words have at least four values.
LEMMA ByteFacts == ByteSize \in Nat /\ ByteSize > 1 /\ Word \in Nat /\ Word > 3 /\ Word - 1 > 0
<1>1. ByteSize \in Nat /\ ByteSize > 1
  BY ByteAssumption
<1>2. ByteSize * ByteSize >= 2 * ByteSize
  BY <1>1
<1> QED
  BY <1>1, <1>2 DEF Word

\* An even number and the rest.
LEMMA Halves ==
    ASSUME NEW n \in Nat
    PROVE  /\ n \div 2 \in Nat /\ (n % 2) \in 0..1 /\ n = 2 * (n \div 2) + (n % 2)
OBVIOUS

\* Words are numbers.
LEMMA WordNat ==
    ASSUME NEW s \in Bytestrings, NEW i \in 1..(Len(s) \div 2)
    PROVE  /\ WordAt(s, i) \in Nat
           /\ \A a \in Nat : a + s[2 * i - 1] + s[2 * i] * ByteSize = a + WordAt(s, i)
<1>1. Len(s) \in Nat /\ 2 * i - 1 \in 1..Len(s) /\ 2 * i \in 1..Len(s)
  BY LenProperties, Halves DEF Bytestrings
<1>2. s[2 * i - 1] \in 0..(ByteSize - 1) /\ s[2 * i] \in 0..(ByteSize - 1)
  BY <1>1, ElementOfSeq DEF Bytestrings
<1>3. \A x \in 0..(ByteSize - 1) : x \in Nat /\ x * ByteSize \in Nat
  BY ByteFacts
<1>4. s[2 * i - 1] \in Nat /\ s[2 * i] * ByteSize \in Nat
  BY <1>2, <1>3
<1> QED
  BY <1>4 DEF WordAt

\* A sum of words is reached by adding one word after the other.
LEMMA SumOfWords ==
    ASSUME NEW s \in Bytestrings
    PROVE  \E sum \in [0..(Len(s) \div 2) -> Nat] :
             /\ sum[0] = 0 /\ SumWords(s) = sum[Len(s) \div 2]
             /\ \A i \in 1..(Len(s) \div 2) : sum[i] = sum[i - 1] + WordAt(s, i)
<1> DEFINE m == Len(s) \div 2
<1> DEFINE IsSum(g) == g = [i \in 0..m |-> IF i = 0 THEN 0 ELSE g[i - 1] + s[2 * i - 1] + s[2 * i] * ByteSize]
<1>1. m \in Nat
  BY LenProperties, Halves DEF Bytestrings
<1>2. \A i \in 1..m : /\ WordAt(s, i) \in Nat
                      /\ \A a \in Nat : a + s[2 * i - 1] + s[2 * i] * ByteSize = a + WordAt(s, i)
  BY WordNat
<1>3. \E g : IsSum(g)
  <2> HIDE DEF m
  <2> DEFINE Following(x) == IF x[1] \in 1..m THEN x[2] + WordAt(s, x[1]) ELSE 0
  <2> DEFINE step == [x \in Nat \X Nat |-> Following(x)]
  <2>1. \A x \in Nat \X Nat : Following(x) \in Nat
    <3> SUFFICES ASSUME NEW a \in Nat, NEW c \in Nat  PROVE Following(<<a, c>>) \in Nat
      OBVIOUS
    <3>1. a \in 1..m => c + WordAt(s, a) \in Nat
      BY <1>2
    <3> QED
      BY <3>1
  <2>2. \A i \in 1..m, a \in Nat : step[<<i, a>>] = a + WordAt(s, i)
    BY <1>1
  <2>3. step \in [Nat \X Nat -> Nat]
    <3> HIDE DEF Following
    <3> QED
      BY <2>1
  <2> HIDE DEF step
  <2>4. \E g : RunOf(g, Nat, 0, step, m)
    BY <1>1, <2>3, Recursion
  <2>5. PICK g : g \in [0..m -> Nat] /\ g[0] = 0 /\ \A i \in 1..m : g[i] = step[<<i, g[i - 1]>>]
    BY <2>4 DEF RunOf
  <2>8. ASSUME NEW i \in 1..m  PROVE g[i] = g[i - 1] + s[2 * i - 1] + s[2 * i] * ByteSize
    <3>1. i - 1 \in 0..m /\ g[i - 1] \in Nat
      BY <1>1, <2>5
    <3> QED
      BY <1>2, <2>2, <2>5, <3>1
  <2>6. g = [i \in 0..m |-> IF i = 0 THEN 0 ELSE g[i - 1] + s[2 * i - 1] + s[2 * i] * ByteSize]
    BY <1>1, <2>5, <2>8
  <2> QED
    BY <2>6
<1> DEFINE sum == CHOOSE g : IsSum(g)
<1>4. SumWords(s) = sum[m]
  BY DEF SumWords
<1>5. IsSum(sum)
  <2> HIDE DEF IsSum
  <2> QED
    BY <1>3
<1> HIDE DEF sum, m
<1>6. sum = [i \in 0..m |-> IF i = 0 THEN 0 ELSE sum[i - 1] + s[2 * i - 1] + s[2 * i] * ByteSize]
  BY <1>5
<1>7. sum[0] = 0
  BY <1>1, <1>6
<1>8. ASSUME NEW i \in 1..m, sum[i - 1] \in Nat
      PROVE  sum[i] = sum[i - 1] + WordAt(s, i) /\ sum[i] \in Nat
  <2>1. sum[i] = sum[i - 1] + s[2 * i - 1] + s[2 * i] * ByteSize
    BY <1>1, <1>6
  <2> QED
    BY <1>2, <1>8, <2>1
<1> DEFINE Reached == {i \in Nat : i <= m => sum[i] \in Nat}
<1>9. Reached = Nat
  <2>1. 0 \in Reached
    BY <1>7
  <2>2. \A i \in Reached : i + 1 \in Reached
    <3> SUFFICES ASSUME NEW i \in Reached, i + 1 <= m  PROVE sum[i + 1] \in Nat
      OBVIOUS
    <3>1. i + 1 \in 1..m /\ (i + 1) - 1 = i /\ sum[i] \in Nat
      BY <1>1
    <3> QED
      BY <3>1, <1>8
  <2>3. Reached \in SUBSET Nat
    OBVIOUS
  <2> HIDE DEF Reached
  <2> QED
    BY <2>1, <2>2, <2>3, Induction
<1>10. \A i \in 0..m : sum[i] \in Nat
  BY <1>1, <1>9
<1>11. sum \in [0..m -> Nat]
  <2>1. sum = [i \in 0..m |-> sum[i]]
    BY <1>6
  <2> QED
    BY <1>10, <2>1
<1>12. \A i \in 1..m : sum[i] = sum[i - 1] + WordAt(s, i)
  <2> TAKE i \in 1..m
  <2>1. i - 1 \in 0..m
    BY <1>1
  <2> QED
    BY <2>1, <1>8, <1>10
<1> QED
  BY <1>4, <1>7, <1>11, <1>12 DEF m

\* Words that are added behind s count, and nothing else.
LEMMA SumExtends ==
    ASSUME NEW s \in Bytestrings, NEW t \in Bytestrings, NEW r \in Nat,
           Len(s) \div 2 <= Len(t) \div 2,
           \A i \in 1..(Len(s) \div 2) : WordAt(t, i) = WordAt(s, i),
           \A i \in (Len(s) \div 2 + 1)..(Len(t) \div 2) :
             WordAt(t, i) = IF i = Len(s) \div 2 + 1 THEN r ELSE 0
    PROVE  SumWords(t) = SumWords(s) + (IF Len(t) \div 2 = Len(s) \div 2 THEN 0 ELSE r)
<1> DEFINE m == Len(s) \div 2
<1> DEFINE k == Len(t) \div 2
<1>1. m \in Nat /\ k \in Nat
  BY LenProperties, Halves DEF Bytestrings
<1>2. PICK f \in [0..m -> Nat] :
         f[0] = 0 /\ SumWords(s) = f[m] /\ \A i \in 1..m : f[i] = f[i - 1] + WordAt(s, i)
  BY SumOfWords
<1>3. PICK g \in [0..k -> Nat] :
         g[0] = 0 /\ SumWords(t) = g[k] /\ \A i \in 1..k : g[i] = g[i - 1] + WordAt(t, i)
  BY SumOfWords
<1>4. m <= k
  OBVIOUS
<1>5. \A i \in 1..m : WordAt(t, i) = WordAt(s, i)
  OBVIOUS
<1>6. \A i \in (m + 1)..k : WordAt(t, i) = IF i = m + 1 THEN r ELSE 0
  OBVIOUS
<1> HIDE DEF m, k
<1> DEFINE Agrees(i) == g[i] = IF i <= m THEN f[i] ELSE f[m] + r
<1> DEFINE Reached == {i \in Nat : i <= k => Agrees(i)}
<1>7. Reached = Nat
  <2>1. 0 \in Reached
    BY <1>1, <1>2, <1>3
  <2>2. \A i \in Reached : i + 1 \in Reached
    <3> SUFFICES ASSUME NEW i \in Reached, i + 1 <= k  PROVE Agrees(i + 1)
      OBVIOUS
    <3>1. i \in Nat /\ i + 1 \in 1..k /\ (i + 1) - 1 = i /\ Agrees(i)
      BY <1>1
    <3>2. g[i + 1] = g[i] + WordAt(t, i + 1)
      BY <1>3, <3>1
    <3>3. CASE i + 1 <= m
      <4>1. f[i + 1] = f[i] + WordAt(s, i + 1)
        BY <1>1, <1>2, <3>1, <3>3
      <4>2. WordAt(t, i + 1) = WordAt(s, i + 1)
        BY <1>1, <1>5, <3>1, <3>3
      <4>3. g[i] = f[i]
        BY <1>1, <3>1, <3>3
      <4> QED
        BY <3>2, <3>3, <4>1, <4>2, <4>3
    <3>4. CASE ~(i + 1 <= m)
      <4>1. WordAt(t, i + 1) = IF i + 1 = m + 1 THEN r ELSE 0
        BY <1>1, <1>6, <3>1, <3>4
      <4>2. f[m] \in Nat /\ g[i] \in Nat
        BY <1>1, <1>2, <1>3, <3>1
      <4>3. g[i + 1] = f[m] + r
        <5>1. CASE i = m
          BY <1>1, <3>1, <3>2, <4>1, <4>2, <5>1
        <5>2. CASE i # m
          BY <1>1, <3>1, <3>2, <3>4, <4>1, <4>2, <5>2
        <5> QED
          BY <5>1, <5>2
      <4> QED
        BY <3>4, <4>3
    <3> QED
      BY <3>3, <3>4
  <2>3. Reached \in SUBSET Nat
    OBVIOUS
  <2> HIDE DEF Reached
  <2> QED
    BY <2>1, <2>2, <2>3, Induction
<1>8. g[k] = IF k <= m THEN f[k] ELSE f[m] + r
  <2>1. k \in Reached
    <3> HIDE DEF Reached
    <3> QED
      BY <1>1, <1>7
  <2> QED
    BY <2>1
<1>9. f[m] \in Nat
  BY <1>1, <1>2
<1> QED
  BY <1>1, <1>2, <1>3, <1>4, <1>8, <1>9 DEF m, k

\* A remainder does not see multiples of what it is taken by.
LEMMA Multiples ==
    ASSUME NEW w \in Nat, w > 0, NEW a \in Nat, NEW q \in Nat
    PROVE  (a + q * w) % w = a % w /\ (q * w) % w = 0
<1> DEFINE d == a \div w
<1> DEFINE r == a % w
<1>1. d \in Nat /\ r \in Nat /\ r < w /\ a = w * d + r
  OBVIOUS
<1> HIDE DEF d, r
<1>2. \A x, y \in Nat : y < w => (x * w + y) % w = y
  OBVIOUS
<1>3. d + q \in Nat /\ a + q * w = (d + q) * w + r /\ a = d * w + r
  BY <1>1
<1>4. (a + q * w) % w = r /\ a % w = r
  BY <1>1, <1>2, <1>3
<1>5. (q * w) % w = 0
  OBVIOUS
<1> QED
  BY <1>4, <1>5

\* A carry that is added again takes a multiple of Word - 1 off a sum, and makes it less.
LEMMA Carry ==
    ASSUME NEW s \in Nat
    PROVE  /\ FoldOnce(s) \in Nat /\ s \div Word \in Nat
           /\ s = FoldOnce(s) + (s \div Word) * (Word - 1)
           /\ s >= Word => FoldOnce(s) < s
           /\ s > 0 => FoldOnce(s) > 0
           /\ FoldOnce(s) >= Word => s >= Word
<1>1. Word \in Nat /\ Word > 3
  BY ByteFacts
<1> DEFINE d == s \div Word
<1> DEFINE r == s % Word
<1>2. d \in Nat /\ r \in Nat /\ r < Word /\ s = Word * d + r
  BY <1>1
<1>3. FoldOnce(s) = r + d
  BY DEF FoldOnce
<1> HIDE DEF d, r
<1>4. d * (Word - 1) = Word * d - d
  BY <1>1, <1>2
<1>5. s = FoldOnce(s) + d * (Word - 1) /\ FoldOnce(s) \in Nat
  BY <1>1, <1>2, <1>3, <1>4
<1>6. s >= Word => d > 0
  BY <1>1, <1>2
<1>7. d > 0 => d * (Word - 1) > 0
  BY <1>1, <1>2
<1>8. s >= Word => FoldOnce(s) < s
  <2> DEFINE z == d * (Word - 1)
  <2>1. z \in Nat /\ s = FoldOnce(s) + z /\ FoldOnce(s) \in Nat /\ (s >= Word => z > 0)
    BY <1>1, <1>2, <1>4, <1>5, <1>6, <1>7
  <2> HIDE DEF z
  <2> QED
    BY <2>1
<1>9. s > 0 => FoldOnce(s) > 0
  BY <1>1, <1>2, <1>3
<1>10. s < Word => d = 0
  BY <1>1, <1>2
<1>11. FoldOnce(s) >= Word => s >= Word
  BY <1>1, <1>2, <1>3, <1>10
<1> QED
  BY <1>2, <1>5, <1>8, <1>9, <1>11 DEF d

\* The loop that folds a sum ends with a word that is the sum modulo Word - 1.
LEMMA Folded ==
    ASSUME NEW s \in Nat
    PROVE  FoldAll[s] \in 0..(Word - 1) /\ \E q \in Nat : s = FoldAll[s] + q * (Word - 1)
<1>1. Word \in Nat /\ Word > 3 /\ Word - 1 \in Nat /\ Word - 1 > 0
  BY ByteFacts
<1> DEFINE IsFold(g) == g = [x \in Nat |-> IF FoldOnce(x) < Word THEN FoldOnce(x) ELSE g[FoldOnce(x)]]
<1>2. \E g : IsFold(g)
  <2> DEFINE G(x) == IF x = 0 THEN 0 ELSE ((x - 1) % (Word - 1)) + 1
  <2>1. ASSUME NEW x \in Nat
        PROVE  G(x) = IF FoldOnce(x) < Word THEN FoldOnce(x) ELSE G(FoldOnce(x))
    <3>1. /\ FoldOnce(x) \in Nat /\ x \div Word \in Nat
          /\ x = FoldOnce(x) + (x \div Word) * (Word - 1)
          /\ x > 0 => FoldOnce(x) > 0
      BY Carry
    <3>2. CASE x = 0
      <4>1. FoldOnce(0) = 0
        BY <3>1, <3>2, <1>1 DEF FoldOnce
      <4> QED
        BY <3>2, <4>1, <1>1
    <3>3. CASE x > 0
      <4> DEFINE f == FoldOnce(x)
      <4> DEFINE q == x \div Word
      <4>1. f \in Nat /\ f > 0 /\ q \in Nat /\ x = f + q * (Word - 1)
        BY <3>1, <3>3
      <4> HIDE DEF f, q
      <4> DEFINE w == Word - 1
      <4>2. w \in Nat /\ w > 0
        BY <1>1
      <4>3. q * w \in Nat
        BY <4>1, <4>2
      <4> HIDE DEF w
      <4>4. f - 1 \in Nat /\ x - 1 = (f - 1) + q * w
        BY <4>1, <4>3 DEF w
      <4>5. (x - 1) % w = (f - 1) % w
        <5>1. ((f - 1) + q * w) % w = (f - 1) % w
          BY <4>1, <4>2, <4>4, Multiples
        <5> QED
          BY <4>4, <5>1, Zenon
      <4>6. f < Word => (f - 1) % w = f - 1
        BY <1>1, <4>1 DEF w
      <4>7. G(x) = ((f - 1) % w) + 1
        BY <3>3, <4>5 DEF w
      <4>8. G(f) = ((f - 1) % w) + 1
        BY <4>1 DEF w
      <4>9. G(x) = IF f < Word THEN f ELSE G(f)
        <5>1. CASE f < Word
          BY <5>1, <4>1, <4>6, <4>7
        <5>2. CASE ~(f < Word)
          BY <5>2, <4>7, <4>8
        <5> QED
          BY <5>1, <5>2
      <4> QED
        BY <4>9 DEF f
    <3> QED
      BY <3>2, <3>3
  <2> DEFINE g == [x \in Nat |-> G(x)]
  <2>2. \A x \in Nat : g[x] = IF FoldOnce(x) < Word THEN FoldOnce(x) ELSE g[FoldOnce(x)]
    <3> TAKE x \in Nat
    <3>1. FoldOnce(x) \in Nat
      BY Carry
    <3> HIDE DEF G
    <3> QED
      BY <3>1, <2>1
  <2>3. IsFold(g)
    <3>1. g = [x \in Nat |-> g[x]]
      OBVIOUS
    <3> HIDE DEF g
    <3> QED
      BY <2>2, <3>1
  <2> QED
    BY <2>3
<1>3. IsFold(FoldAll)
  <2>1. FoldAll = CHOOSE g : IsFold(g)
    BY DEF FoldAll
  <2> HIDE DEF IsFold
  <2> QED
    BY <1>2, <2>1
<1>4. \A x \in Nat : FoldAll[x] = IF FoldOnce(x) < Word THEN FoldOnce(x) ELSE FoldAll[FoldOnce(x)]
  BY <1>3
<1> DEFINE Ends(x) == FoldAll[x] \in 0..(Word - 1) /\ \E q \in Nat : x = FoldAll[x] + q * (Word - 1)
<1>5. ASSUME NEW x \in Nat, \A y \in Nat : y < x => Ends(y)
      PROVE  Ends(x)
  <2> DEFINE f == FoldOnce(x)
  <2> DEFINE d == x \div Word
  <2>1. /\ f \in Nat /\ d \in Nat /\ x = f + d * (Word - 1)
        /\ x >= Word => f < x
        /\ f >= Word => x >= Word
    BY Carry
  <2>2. FoldAll[x] = IF f < Word THEN f ELSE FoldAll[f]
    BY <1>4
  <2> HIDE DEF f, d
  <2>3. CASE f < Word
    BY <1>1, <2>1, <2>2, <2>3
  <2>4. CASE ~(f < Word)
    <3>1. f < x /\ FoldAll[x] = FoldAll[f]
      BY <1>1, <2>1, <2>2, <2>4
    <3>2. Ends(f)
      BY <1>5, <2>1, <3>1
    <3>3. PICK q \in Nat : f = FoldAll[f] + q * (Word - 1)
      BY <3>2
    <3>4. q + d \in Nat /\ q * (Word - 1) + d * (Word - 1) = (q + d) * (Word - 1)
      BY <1>1, <2>1
    <3>5. q * (Word - 1) \in Nat /\ d * (Word - 1) \in Nat /\ (q + d) * (Word - 1) \in Nat
      BY <1>1, <2>1, <3>4
    <3>6. FoldAll[f] \in Nat
      BY <1>1, <3>2
    <3>7. x = FoldAll[f] + (q + d) * (Word - 1)
      BY <2>1, <3>3, <3>4, <3>5, <3>6
    <3> QED
      BY <3>1, <3>2, <3>4, <3>7
  <2> QED
    BY <2>3, <2>4
<1> DEFINE Reached == {n \in Nat : \A y \in Nat : y < n => Ends(y)}
<1>6. Reached = Nat
  <2> HIDE DEF Ends
  <2>1. 0 \in Reached
    OBVIOUS
  <2>2. \A n \in Reached : n + 1 \in Reached
    <3> SUFFICES ASSUME NEW n \in Reached, NEW y \in Nat, y < n + 1  PROVE Ends(y)
      OBVIOUS
    <3>1. y < n \/ y = n
      OBVIOUS
    <3> QED
      BY <1>5, <3>1
  <2>3. Reached \in SUBSET Nat
    OBVIOUS
  <2> HIDE DEF Reached
  <2> QED
    BY <2>1, <2>2, <2>3, Induction
<1>7. Ends(s)
  <2>1. s + 1 \in Reached
    <3> HIDE DEF Reached
    <3> QED
      BY <1>6
  <2> HIDE DEF Ends
  <2> QED
    BY <2>1
<1> QED
  BY <1>7

\* Sums of words are numbers.
LEMMA SumsNat ==
    ASSUME NEW s \in Bytestrings
    PROVE  SumWords(s) \in Nat /\ LastByte(s) \in Nat /\ Len(s) \in Nat
<1>1. Len(s) \in Nat /\ Len(s) \div 2 \in Nat
  BY LenProperties, Halves DEF Bytestrings
<1>2. PICK f \in [0..(Len(s) \div 2) -> Nat] : SumWords(s) = f[Len(s) \div 2]
  BY SumOfWords
<1>3. SumWords(s) \in Nat
  BY <1>1, <1>2
<1>4. CASE Len(s) % 2 = 1
  <2>1. Len(s) \in 1..Len(s)
    BY <1>1, <1>4
  <2>2. s[Len(s)] \in 0..(ByteSize - 1)
    BY <2>1, ElementOfSeq DEF Bytestrings
  <2> QED
    BY <1>1, <1>3, <1>4, <2>2, ByteFacts DEF LastByte
<1>5. CASE Len(s) % 2 # 1
  BY <1>1, <1>3, <1>5 DEF LastByte
<1> QED
  BY <1>4, <1>5

\* get_pkt_len reaches into the zero bytes that fill the frame.
LEMMA FilledFrame ==
    ASSUME NEW b \in Body
    PROVE  LET s == ToEndOfFrame(b) IN
           /\ b.bytes \in Bytestrings /\ s \in Bytestrings
           /\ Len(s) = Len(b.bytes) + b.pad
           /\ \A i \in 1..Len(s) : s[i] = IF i <= Len(b.bytes) THEN b.bytes[i] ELSE 0
           /\ b.pad = 0 => s = b.bytes
<1>1. b.bytes \in Bytestrings /\ b.pad \in Nat
  BY DEF Body, Bytestrings
<1>2. 0 \in 0..(ByteSize - 1)
  BY ByteFacts
<1> DEFINE z == Zeros(b.pad)
<1>3. z \in Bytestrings /\ Len(z) = b.pad /\ \A i \in 1..b.pad : z[i] = 0
  <2>1. z \in [1..b.pad -> 0..(ByteSize - 1)]
    BY <1>2 DEF Zeros
  <2>2. z \in Bytestrings
    BY <1>1, <2>1, SeqDef DEF Bytestrings
  <2>3. DOMAIN z = 1..b.pad /\ DOMAIN z = 1..Len(z) /\ Len(z) \in Nat
    BY <2>1, <2>2, LenProperties DEF Bytestrings
  <2>4. Len(z) = b.pad
    BY <1>1, <2>3
  <2>5. \A i \in 1..b.pad : z[i] = 0
    BY DEF Zeros
  <2> QED
    BY <2>2, <2>4, <2>5
<1> HIDE DEF z
<1>4. Len(b.bytes) \in Nat
  BY <1>1, LenProperties DEF Bytestrings
<1> DEFINE s == b.bytes \o z
<1>5. /\ s \in Bytestrings /\ Len(s) = Len(b.bytes) + Len(z)
      /\ \A i \in 1..(Len(b.bytes) + Len(z)) : s[i] = IF i <= Len(b.bytes) THEN b.bytes[i] ELSE z[i - Len(b.bytes)]
  BY <1>1, <1>3, ConcatProperties DEF Bytestrings
<1> HIDE DEF s
<1>6. \A i \in 1..Len(s) : s[i] = IF i <= Len(b.bytes) THEN b.bytes[i] ELSE 0
  <2> TAKE i \in 1..Len(s)
  <2>1. CASE i <= Len(b.bytes)
    BY <1>3, <1>4, <1>5, <2>1
  <2>2. CASE ~(i <= Len(b.bytes))
    <3>1. i - Len(b.bytes) \in 1..b.pad
      BY <1>1, <1>3, <1>4, <1>5, <2>2
    <3> QED
      BY <1>3, <1>5, <2>2, <3>1
  <2> QED
    BY <2>1, <2>2
<1>7. b.pad = 0 => s = b.bytes
  <2> SUFFICES ASSUME b.pad = 0  PROVE s = b.bytes
    OBVIOUS
  <2>1. Len(s) = Len(b.bytes)
    BY <1>3, <1>4, <1>5
  <2>2. \A i \in 1..Len(s) : s[i] = b.bytes[i]
    BY <1>4, <1>6, <2>1
  <2> QED
    BY <1>1, <1>5, <2>1, <2>2, SeqEqual DEF Bytestrings
<1>8. ToEndOfFrame(b) = s
  BY DEF ToEndOfFrame, s, z
<1>9. Len(s) = Len(b.bytes) + b.pad
  BY <1>3, <1>5
<1> QED
  BY <1>1, <1>5, <1>6, <1>7, <1>8, <1>9

\* The bytes that fill a frame do not change its sum.
LEMMA FillAddsNothing ==
    ASSUME NEW b \in Body
    PROVE  SumWords(ToEndOfFrame(b)) + LastByte(ToEndOfFrame(b)) = SumWords(b.bytes) + LastByte(b.bytes)
<1> DEFINE s == b.bytes
<1> DEFINE t == ToEndOfFrame(b)
<1> DEFINE m == Len(s) \div 2
<1> DEFINE k == Len(t) \div 2
<1>1. /\ s \in Bytestrings /\ t \in Bytestrings /\ Len(t) = Len(s) + b.pad
      /\ \A i \in 1..Len(t) : t[i] = IF i <= Len(s) THEN s[i] ELSE 0
  BY FilledFrame
<1>2. b.pad \in Nat
  BY DEF Body
<1>3. /\ Len(s) \in Nat /\ Len(t) \in Nat
      /\ SumWords(s) \in Nat /\ LastByte(s) \in Nat /\ SumWords(t) \in Nat /\ LastByte(t) \in Nat
  BY <1>1, SumsNat
<1> HIDE DEF s, t
<1> DEFINE odd(u) == Len(u) % 2
<1>4. /\ m \in Nat /\ odd(s) \in 0..1 /\ Len(s) = 2 * m + odd(s)
      /\ k \in Nat /\ odd(t) \in 0..1 /\ Len(t) = 2 * k + odd(t)
  BY <1>3, Halves
<1>13. \A u : LastByte(u) = IF odd(u) = 1 THEN u[Len(u)] ELSE 0
  BY DEF LastByte
<1> HIDE DEF m, k, odd
<1>5. m <= k
  <2>1. Len(t) = Len(s) + b.pad
    BY <1>1
  <2>2. Len(s) <= Len(t)
    BY <1>2, <1>3, <2>1
  <2> QED
    BY <1>4, <2>2
<1>6. \A i \in 1..m : WordAt(t, i) = WordAt(s, i)
  <2> TAKE i \in 1..m
  <2>1. 2 * i \in 1..Len(t) /\ 2 * i - 1 \in 1..Len(t) /\ 2 * i <= Len(s) /\ 2 * i - 1 <= Len(s)
    <3>1. i \in Nat /\ i >= 1 /\ i <= m
      BY <1>4
    <3>2. 2 * i <= Len(s) /\ 2 * i - 1 <= Len(s)
      BY <1>3, <1>4, <3>1
    <3>3. Len(t) = Len(s) + b.pad
      BY <1>1
    <3>4. Len(s) <= Len(t)
      BY <1>2, <1>3, <3>3
    <3> QED
      BY <1>3, <3>1, <3>2, <3>4
  <2> QED
    BY <1>1, <2>1 DEF WordAt
<1>7. LastByte(s) = IF Len(s) = 2 * m THEN 0 ELSE s[2 * m + 1]
  BY <1>3, <1>4, <1>13
<1>8. LastByte(t) = IF Len(t) = 2 * k THEN 0 ELSE t[2 * k + 1]
  BY <1>3, <1>4, <1>13
<1>9. 0 * ByteSize = 0
  BY ByteFacts
<1>10. \A i \in (m + 1)..k : WordAt(t, i) = IF i = m + 1 THEN LastByte(s) ELSE 0
  <2> TAKE i \in (m + 1)..k
  <2>1. 2 * i \in 1..Len(t) /\ 2 * i - 1 \in 1..Len(t) /\ 2 * i > Len(s) /\ i >= m + 1 /\ i \in Nat
    BY <1>3, <1>4
  <2>2. t[2 * i] = 0
    BY <1>1, <1>3, <2>1
  <2>3. t[2 * i - 1] \in Nat
    BY <1>1, <2>1, ElementOfSeq, ByteFacts DEF Bytestrings
  <2>4. WordAt(t, i) = t[2 * i - 1]
    BY <1>9, <2>2, <2>3 DEF WordAt
  <2>5. t[2 * i - 1] = IF i = m + 1 THEN LastByte(s) ELSE 0
    <3>1. CASE i = m + 1
      <4>1. 2 * i - 1 = 2 * m + 1 /\ (Len(s) = 2 * m \/ Len(s) = 2 * m + 1)
        BY <1>3, <1>4, <3>1
      <4> QED
        <5>1. CASE Len(s) = 2 * m
          BY <1>1, <1>3, <1>4, <1>7, <2>1, <3>1, <4>1, <5>1
        <5>2. CASE Len(s) = 2 * m + 1
          <6>1. t[2 * i - 1] = s[2 * i - 1]
            BY <1>1, <1>3, <1>4, <2>1, <4>1, <5>2
          <6> QED
            BY <1>4, <1>7, <3>1, <4>1, <5>2, <6>1
        <5> QED
          BY <4>1, <5>1, <5>2
    <3>2. CASE i # m + 1
      <4>1. 2 * i - 1 > Len(s)
        BY <1>3, <1>4, <2>1, <3>2
      <4> QED
        BY <1>1, <1>3, <2>1, <3>2, <4>1
    <3> QED
      BY <3>1, <3>2
  <2> QED
    BY <2>4, <2>5
<1>11. SumWords(t) = SumWords(s) + (IF k = m THEN 0 ELSE LastByte(s))
  BY <1>1, <1>3, <1>5, <1>6, <1>10, SumExtends DEF m, k
<1>12. LastByte(t) = IF k = m THEN LastByte(s) ELSE 0
  <2>1. CASE k = m
    <3>1. CASE Len(t) = Len(s)
      <4>1. Len(s) # 2 * m => 2 * m + 1 \in 1..Len(t) /\ 2 * m + 1 <= Len(s)
        BY <1>3, <1>4, <3>1
      <4> QED
        BY <1>1, <1>7, <1>8, <2>1, <3>1, <4>1
    <3>2. CASE Len(t) # Len(s)
      <4>1. Len(t) = 2 * m + 1 /\ Len(s) = 2 * m
        BY <1>1, <1>2, <1>3, <1>4, <2>1, <3>2
      <4>2. t[2 * m + 1] = 0
        BY <1>1, <1>3, <1>4, <4>1
      <4> QED
        BY <1>4, <1>7, <1>8, <2>1, <4>1, <4>2
    <3> QED
      BY <3>1, <3>2
  <2>2. CASE k # m
    <3>1. 2 * k + 1 > Len(s)
      BY <1>3, <1>4, <1>5, <2>2
    <3>2. Len(t) # 2 * k => 2 * k + 1 \in 1..Len(t)
      BY <1>3, <1>4
    <3>3. Len(t) # 2 * k => t[2 * k + 1] = 0
      BY <1>1, <1>3, <1>4, <3>1, <3>2
    <3> QED
      BY <1>8, <2>2, <3>3
  <2> QED
    BY <2>1, <2>2
<1> QED
  BY <1>3, <1>11, <1>12 DEF s, t

\* The words of a body are those of its even part.
LEMMA EvenSum ==
    ASSUME NEW b \in Body
    PROVE  SumWords(EvenPart(b).bytes) = SumWords(b.bytes) /\ LastByte(EvenPart(b).bytes) = 0
<1> DEFINE s == b.bytes
<1> DEFINE m == Len(s) \div 2
<1> DEFINE t == SubSeq(s, 1, 2 * m)
<1>1. EvenPart(b).bytes = t
  BY DEF EvenPart, Body
<1>2. s \in Bytestrings /\ Len(s) \in Nat
  BY SumsNat DEF Body, Bytestrings
<1>3. m \in Nat /\ 2 * m <= Len(s)
  <2> HIDE DEF s
  <2>1. m \in Nat /\ (Len(s) % 2) \in 0..1 /\ Len(s) = 2 * m + (Len(s) % 2)
    BY <1>2, Halves
  <2> HIDE DEF m
  <2> QED
    BY <1>2, <2>1
<1> HIDE DEF m, s
<1>4. \A i \in 1..(2 * m) : s[i] \in 0..(ByteSize - 1)
  <2> TAKE i \in 1..(2 * m)
  <2>1. i \in 1..Len(s)
    BY <1>2, <1>3
  <2> QED
    BY <1>2, <2>1, ElementOfSeq DEF Bytestrings
<1>5. t \in Bytestrings /\ Len(t) = (IF 1 <= 2 * m THEN 2 * m - 1 + 1 ELSE 0) /\ \A i \in 1..(2 * m - 1 + 1) : t[i] = s[1 + i - 1]
  BY <1>3, <1>4, SubSeqProperties DEF Bytestrings
<1> HIDE DEF t
<1>6. Len(t) = 2 * m /\ \A i \in 1..(2 * m) : t[i] = s[i]
  BY <1>3, <1>5
<1>7. Len(t) \div 2 = m /\ Len(t) % 2 = 0
  BY <1>3, <1>6
<1>8. \A i \in 1..m : WordAt(t, i) = WordAt(s, i)
  BY <1>3, <1>6 DEF WordAt
<1>9. SumWords(t) = SumWords(s)
  <2>1. SumWords(s) = SumWords(t) + (IF m = m THEN 0 ELSE 0)
    <3>1. Len(t) \div 2 <= Len(s) \div 2 /\ Len(s) \div 2 = m
      BY <1>3, <1>7 DEF m
    <3>2. \A i \in 1..(Len(t) \div 2) : WordAt(s, i) = WordAt(t, i)
      BY <1>7, <1>8
    <3>3. \A i \in (Len(t) \div 2 + 1)..(Len(s) \div 2) :
             WordAt(s, i) = IF i = Len(t) \div 2 + 1 THEN 0 ELSE 0
      BY <1>3, <1>7, <3>1
    <3>4. SumWords(s) = SumWords(t) + (IF Len(s) \div 2 = Len(t) \div 2 THEN 0 ELSE 0)
      BY <1>2, <1>5, <3>1, <3>2, <3>3, SumExtends
    <3> QED
      BY <3>4
  <2>2. SumWords(t) \in Nat
    BY <1>5, SumsNat
  <2> QED
    BY <2>1, <2>2
<1>10. LastByte(t) = 0
  BY <1>7 DEF LastByte
<1> QED
  BY <1>1, <1>9, <1>10 DEF s

\* A sum and the complement of its fold are zero in one's complement.
LEMMA Complements ==
    ASSUME NEW s \in Nat
    PROVE  /\ (Complement(FoldAll[s]) + s) % (Word - 1) = 0
           /\ FoldOnce(s) < Word => (Complement(FoldOnce(s) % Word) + s) % (Word - 1) = 0
<1> DEFINE w == Word - 1
<1>1. Word \in Nat /\ Word > 3 /\ w \in Nat /\ w > 0
  BY ByteFacts
<1>2. ASSUME NEW x \in 0..w, NEW q \in Nat, s = x + q * w
      PROVE  (Complement(x) + s) % w = 0
  <2> HIDE DEF w
  <2>1. q * w \in Nat /\ (q + 1) * w = q * w + w /\ q + 1 \in Nat
    BY <1>1
  <2>2. Complement(x) = w - x
    BY DEF Complement, w
  <2>3. Complement(x) + s = (q + 1) * w
    BY <1>1, <1>2, <2>1, <2>2
  <2>4. ((q + 1) * w) % w = 0
    BY <1>1, <2>1, Multiples
  <2> QED
    BY <2>3, <2>4
<1>3. (Complement(FoldAll[s]) + s) % w = 0
  <2>1. FoldAll[s] \in 0..w /\ \E q \in Nat : s = FoldAll[s] + q * w
    BY Folded
  <2> HIDE DEF w
  <2> QED
    BY <1>2, <2>1
<1>4. FoldOnce(s) < Word => (Complement(FoldOnce(s) % Word) + s) % w = 0
  <2> SUFFICES ASSUME FoldOnce(s) < Word  PROVE (Complement(FoldOnce(s) % Word) + s) % w = 0
    OBVIOUS
  <2>1. FoldOnce(s) \in Nat /\ s \div Word \in Nat /\ s = FoldOnce(s) + (s \div Word) * w
    BY Carry
  <2>2. FoldOnce(s) \in 0..w
    BY <1>1, <2>1
  <2>3. FoldOnce(s) % Word = FoldOnce(s)
    <3>1. \A x \in Nat : x < Word => x % Word = x
      BY <1>1
    <3> QED
      BY <2>1, <3>1
  <2> HIDE DEF w
  <2>4. (Complement(FoldOnce(s)) + s) % w = 0
    BY <1>2, <2>1, <2>2
  <2> QED
    BY <2>3, <2>4
<1> QED
  BY <1>3, <1>4

\* A checksum that is calculated verifies, but for the cases the code is known to get wrong.
THEOREM ChecksumsVerify ==
    \A h \in Checksummed, b \in Body, ipv6 \in BOOLEAN : Right(h, b, ipv6) \/ KnownWrong(h, b)
<1> SUFFICES ASSUME NEW h \in Checksummed, NEW b \in Body, NEW ipv6 \in BOOLEAN, ~KnownWrong(h, b)
             PROVE  Right(h, b, ipv6)
  OBVIOUS
<1> DEFINE s == b.bytes
<1> DEFINE t == ToEndOfFrame(b)
<1>1. b.pseudo \in Nat /\ b.pad \in Nat
  BY DEF Body
<1>2. s \in Bytestrings /\ t \in Bytestrings /\ (b.pad = 0 => t = s)
  BY FilledFrame
<1>3. /\ SumWords(s) \in Nat /\ LastByte(s) \in Nat /\ Len(s) \in Nat
      /\ SumWords(t) \in Nat /\ LastByte(t) \in Nat /\ Len(t) \in Nat
  BY <1>2, SumsNat
<1>4. SumWords(t) + LastByte(t) = SumWords(s) + LastByte(s)
  BY FillAddsNothing
<1>5. \A c, p \in Int : Verifies(c, p, b) <=> (c + p + SumWords(s) + LastByte(s)) % (Word - 1) = 0
  BY DEF Verifies
<1>6. \A x \in Nat : Complement(x) \in Int /\ Complement(FoldAll[x]) \in Int
  <2> TAKE x \in Nat
  <2>1. FoldAll[x] \in 0..(Word - 1) /\ Word \in Nat
    BY Folded, ByteFacts
  <2> QED
    BY <2>1 DEF Complement
<1> HIDE DEF s, t
<1>7. CASE h = "IPV4"
  <2>1. FoldOnce(SumWords(s)) < Word
    <3>1. ~(FoldOnce(SumWords(s)) >= Word)
      BY <1>7 DEF KnownWrong, s
    <3>2. FoldOnce(SumWords(s)) \in Nat /\ Word \in Nat
      BY <1>3, Carry, ByteFacts
    <3> QED
      BY <3>1, <3>2
  <2> DEFINE c == Complement(FoldOnce(SumWords(s)) % Word)
  <2>2. c \in Int
    <3>1. FoldOnce(SumWords(s)) \in Nat /\ Word \in Nat /\ Word > 3
      BY <1>3, Carry, ByteFacts, Zenon
    <3>2. FoldOnce(SumWords(s)) % Word \in Nat
      BY <3>1
    <3> QED
      BY <1>6, <3>2
  <2>3. (c + SumWords(s)) % (Word - 1) = 0
    BY <1>3, <2>1, Complements
  <2>4. SumWords(EvenPart(b).bytes) = SumWords(s) /\ LastByte(EvenPart(b).bytes) = 0
    BY EvenSum DEF s
  <2>5. ipv4_calc_checksum(b) = c
    BY DEF ipv4_calc_checksum, s
  <2> HIDE DEF c
  <2>6. c + 0 + SumWords(s) + 0 = c + SumWords(s)
    BY <1>3, <2>2
  <2>7. Verifies(c, 0, EvenPart(b))
    BY <2>3, <2>4, <2>6 DEF Verifies
  <2> QED
    BY <1>7, <2>5, <2>7 DEF Right
<1>8. CASE h = "ICMPV4"
  <2>1. FoldOnce(SumWords(t)) < Word /\ LastByte(t) = 0
    <3>1. ~(FoldOnce(SumWords(t)) >= Word \/ LastByte(t) # 0)
      BY <1>8 DEF KnownWrong, t
    <3>2. FoldOnce(SumWords(t)) \in Nat /\ Word \in Nat
      BY <1>3, Carry, ByteFacts
    <3> QED
      BY <3>1, <3>2
  <2> DEFINE c == Complement(FoldOnce(SumWords(t)) % Word)
  <2>2. c \in Int
    <3>1. FoldOnce(SumWords(t)) \in Nat /\ Word \in Nat /\ Word > 3
      BY <1>3, Carry, ByteFacts, Zenon
    <3>2. FoldOnce(SumWords(t)) % Word \in Nat
      BY <3>1
    <3> QED
      BY <1>6, <3>2
  <2>3. (c + SumWords(t)) % (Word - 1) = 0
    BY <1>3, <2>1, Complements
  <2>4. icmpv4_calc_checksum(b) = c
    BY DEF icmpv4_calc_checksum, t
  <2> HIDE DEF c
  <2>5. c + 0 + SumWords(s) + LastByte(s) = c + SumWords(t)
    BY <1>3, <1>4, <2>1, <2>2
  <2>6. Verifies(c, 0, b)
    BY <1>5, <2>2, <2>3, <2>5
  <2> QED
    BY <1>8, <2>4, <2>6 DEF Right
<1>9. b.pad = 0 => Verifies(tcp_calc_checksum(b), WithLength(b), b)
  <2> SUFFICES ASSUME b.pad = 0  PROVE Verifies(tcp_calc_checksum(b), WithLength(b), b)
    OBVIOUS
  <2> DEFINE sum == b.pseudo + Len(s) + SumWords(s) + LastByte(s)
  <2> DEFINE c == Complement(FoldAll[sum])
  <2>1. tcp_calc_checksum(b) = c
    BY <1>2 DEF tcp_calc_checksum, s, t
  <2>2. sum \in Nat
    BY <1>1, <1>3
  <2>3. c \in Int /\ (c + sum) % (Word - 1) = 0
    <3> HIDE DEF sum
    <3> QED
      BY <1>6, <2>2, Complements
  <2> HIDE DEF c
  <2>4. WithLength(b) = b.pseudo + Len(s) /\ WithLength(b) \in Int
    BY <1>1, <1>3 DEF WithLength, s
  <2>5. c + WithLength(b) + SumWords(s) + LastByte(s) = c + sum
    BY <1>1, <1>3, <2>3, <2>4
  <2>6. Verifies(c, WithLength(b), b)
    BY <1>5, <2>3, <2>4, <2>5
  <2> QED
    BY <2>1, <2>6
<1>10. h \in {"TCP", "ICMPV6", "SCTP", "UDP"} => b.pad = 0
  BY <1>1 DEF KnownWrong
<1>11. CASE h = "TCP" \/ h = "ICMPV6"
  <2>1. Verifies(tcp_calc_checksum(b), WithLength(b), b)
    BY <1>9, <1>10, <1>11
  <2> QED
    BY <1>11, <2>1 DEF Right, icmpv6_calc_checksum
<1>12. CASE h = "UDP"
  <2>1. Verifies(udp_calc_checksum(b), WithLength(b), b)
    BY <1>9, <1>10, <1>12 DEF udp_calc_checksum
  <2>2. udp_calc_checksum(b) # 0
    BY <1>12 DEF KnownWrong
  <2> QED
    BY <1>12, <2>1, <2>2 DEF Right
<1>13. CASE h = "GRE"
  <2> DEFINE sum == SumWords(t) + LastByte(t)
  <2> DEFINE c == Complement(FoldAll[sum])
  <2>1. gre_calc_checksum(b) = c
    BY DEF gre_calc_checksum, t
  <2>2. sum \in Nat
    BY <1>3
  <2>3. c \in Int /\ (c + sum) % (Word - 1) = 0
    <3> HIDE DEF sum
    <3> QED
      BY <1>6, <2>2, Complements
  <2> HIDE DEF c
  <2>4. c + 0 + SumWords(s) + LastByte(s) = c + sum
    BY <1>3, <1>4, <2>3
  <2>5. Verifies(c, 0, b)
    BY <1>5, <2>3, <2>4
  <2> QED
    BY <1>13, <2>1, <2>5 DEF Right
<1>14. CASE h = "SCTP"
  <2>1. ToEndOfFrame(b) = b.bytes
    BY <1>2, <1>10, <1>14 DEF s, t
  <2> QED
    BY <1>14, <2>1 DEF Right, sctp_calc_checksum
<1> QED
  BY <1>7, <1>8, <1>11, <1>12, <1>13, <1>14 DEF Checksummed

-----------------------------------------------------------------------------
(* Where the pieces of a frame start *)

Frames == Seq(Pieces)

\* A frame is a function on the indices of its pieces.
LEMMA FrameFacts ==
    ASSUME NEW f \in Frames
    PROVE  Len(f) \in Nat /\ DOMAIN f = 1..Len(f) /\ \A i \in 1..Len(f) : f[i] \in Pieces
BY LenProperties, ElementOfSeq DEF Frames

\* Every piece has at least one byte.
LEMMA PieceLenFacts ==
    ASSUME NEW p \in Pieces
    PROVE  PieceLen(p) \in Nat /\ PieceLen(p) > 0 /\ PieceLen(p) = HdrLen(p.h) + 4 * p.n
<1>1. HdrLen(p.h) \in 2..46
  BY DEF HdrLen
<1>2. p.n \in Nat
  BY DEF Pieces
<1> QED
  BY <1>1, <1>2 DEF PieceLen

\* The first piece starts at byte zero, and each one where the one before it ends.
LEMMA StartFacts ==
    ASSUME NEW f \in Frames
    PROVE  /\ Start(f, 1) = 0
           /\ \A i \in 1..(Len(f) + 1) : Start(f, i) \in Nat
           /\ \A i \in 1..Len(f) : Start(f, i + 1) = Start(f, i) + PieceLen(f[i])
<1> DEFINE m == Len(f)
<1> DEFINE IsStart(g) == g = [j \in 1..(m + 1) |-> IF j = 1 THEN 0 ELSE g[j - 1] + PieceLen(f[j - 1])]
<1>1. m \in Nat
  BY FrameFacts
<1>2. \A i \in 1..m : PieceLen(f[i]) \in Nat
  BY FrameFacts, PieceLenFacts
<1>3. \E g : IsStart(g)
  <2> HIDE DEF m
  <2> DEFINE Add2(x) == IF x[1] \in 1..m THEN x[2] + PieceLen(f[x[1]]) ELSE 0
  <2> DEFINE step == [x \in Nat \X Nat |-> Add2(x)]
  <2>1. \A x \in Nat \X Nat : Add2(x) \in Nat
    <3> SUFFICES ASSUME NEW a \in Nat, NEW c \in Nat  PROVE Add2(<<a, c>>) \in Nat
      OBVIOUS
    <3>1. a \in 1..m => c + PieceLen(f[a]) \in Nat
      BY <1>2
    <3> QED
      BY <3>1
  <2>2. \A i \in 1..m, a \in Nat : step[<<i, a>>] = a + PieceLen(f[i])
    BY <1>1
  <2>3. step \in [Nat \X Nat -> Nat]
    <3> HIDE DEF Add2
    <3> QED
      BY <2>1
  <2> HIDE DEF step
  <2>4. \E g : RunOf(g, Nat, 0, step, m)
    BY <1>1, <2>3, Recursion
  <2>5. PICK g : g \in [0..m -> Nat] /\ g[0] = 0 /\ \A i \in 1..m : g[i] = step[<<i, g[i - 1]>>]
    BY <2>4 DEF RunOf
  <2> DEFINE h == [j \in 1..(m + 1) |-> g[j - 1]]
  <2>6. ASSUME NEW j \in 1..(m + 1), j # 1  PROVE h[j] = h[j - 1] + PieceLen(f[j - 1])
    <3>1. j - 1 \in 1..m /\ j - 1 \in 1..(m + 1) /\ (j - 1) - 1 \in 0..m /\ g[(j - 1) - 1] \in Nat
      BY <1>1, <2>5, <2>6
    <3>2. g[j - 1] = g[(j - 1) - 1] + PieceLen(f[j - 1])
      BY <2>2, <2>5, <3>1
    <3> QED
      BY <3>1, <3>2
  <2>7. h[1] = 0
    BY <1>1, <2>5
  <2>8. h = [j \in 1..(m + 1) |-> IF j = 1 THEN 0 ELSE h[j - 1] + PieceLen(f[j - 1])]
    <3>1. h = [j \in 1..(m + 1) |-> h[j]]
      OBVIOUS
    <3> HIDE DEF h
    <3> QED
      BY <2>6, <2>7, <3>1
  <2> QED
    BY <2>8
<1> DEFINE at == CHOOSE g : IsStart(g)
<1>4. \A i : Start(f, i) = at[i]
  BY DEF Start
<1>5. IsStart(at)
  <2> HIDE DEF IsStart
  <2> QED
    BY <1>3
<1> HIDE DEF at, m
<1>6. at = [j \in 1..(m + 1) |-> IF j = 1 THEN 0 ELSE at[j - 1] + PieceLen(f[j - 1])]
  BY <1>5
<1>7. at[1] = 0
  BY <1>1, <1>6
<1>8. \A i \in 1..m : at[i + 1] = at[i] + PieceLen(f[i])
  <2> TAKE i \in 1..m
  <2>1. i + 1 \in 1..(m + 1) /\ i + 1 # 1 /\ (i + 1) - 1 = i
    BY <1>1
  <2>2. at[i + 1] = at[(i + 1) - 1] + PieceLen(f[(i + 1) - 1])
    BY <1>6, <2>1
  <2> QED
    BY <2>1, <2>2
<1> DEFINE Reached == {i \in Nat : i <= m => at[i + 1] \in Nat}
<1>9. Reached = Nat
  <2>1. 0 \in Reached
    BY <1>7
  <2>2. \A i \in Reached : i + 1 \in Reached
    <3> SUFFICES ASSUME NEW i \in Reached, i + 1 <= m  PROVE at[(i + 1) + 1] \in Nat
      OBVIOUS
    <3>1. i + 1 \in 1..m /\ at[i + 1] \in Nat
      BY <1>1
    <3>2. at[(i + 1) + 1] = at[i + 1] + PieceLen(f[i + 1])
      BY <1>8, <3>1
    <3> QED
      BY <1>2, <3>1, <3>2
  <2>3. Reached \in SUBSET Nat
    OBVIOUS
  <2> HIDE DEF Reached
  <2> QED
    BY <2>1, <2>2, <2>3, Induction
<1>10. \A i \in 1..(m + 1) : at[i] \in Nat
  <2> TAKE i \in 1..(m + 1)
  <2>1. i - 1 \in Nat /\ i - 1 <= m /\ (i - 1) + 1 = i
    BY <1>1
  <2>2. i - 1 \in Reached
    <3> HIDE DEF Reached
    <3> QED
      BY <1>9, <2>1
  <2> QED
    BY <2>1, <2>2
<1> QED
  BY <1>4, <1>7, <1>8, <1>10 DEF m

\* A later piece starts later.
LEMMA StartIncreases ==
    ASSUME NEW f \in Frames, NEW i \in 1..(Len(f) + 1), NEW j \in 1..(Len(f) + 1), i < j
    PROVE  Start(f, i) < Start(f, j)
<1> DEFINE m == Len(f)
<1> DEFINE Reached == {k \in Nat : i + 1 + k <= m + 1 => Start(f, i) < Start(f, i + 1 + k)}
<1>1. m \in Nat /\ i \in Nat /\ j \in Nat
  BY FrameFacts
<1>2. /\ \A x \in 1..(m + 1) : Start(f, x) \in Nat
      /\ \A x \in 1..m : Start(f, x + 1) = Start(f, x) + PieceLen(f[x])
  BY StartFacts
<1>3. \A x \in 1..m : PieceLen(f[x]) \in Nat /\ PieceLen(f[x]) > 0
  BY FrameFacts, PieceLenFacts
<1>4. \A x \in 1..m : Start(f, x) < Start(f, x + 1)
  <2> TAKE x \in 1..m
  <2>1. x \in 1..(m + 1)
    BY <1>1
  <2> QED
    BY <1>2, <1>3, <2>1
<1> HIDE DEF m
<1>5. Reached = Nat
  <2>1. 0 \in Reached
    <3>1. i + 1 + 0 <= m + 1 => i \in 1..m /\ i + 1 + 0 = i + 1
      BY <1>1
    <3> QED
      BY <1>4, <3>1
  <2>2. \A k \in Reached : k + 1 \in Reached
    <3> SUFFICES ASSUME NEW k \in Reached, i + 1 + (k + 1) <= m + 1
                 PROVE  Start(f, i) < Start(f, i + 1 + (k + 1))
      OBVIOUS
    <3>1. /\ k \in Nat /\ i + 1 + k <= m + 1 /\ i + 1 + k \in 1..m /\ i + 1 + k \in 1..(m + 1)
          /\ i + 1 + (k + 1) = (i + 1 + k) + 1
          /\ (i + 1 + k) + 1 \in 1..(m + 1) /\ i \in 1..(m + 1)
      BY <1>1
    <3>2. Start(f, i) < Start(f, i + 1 + k)
      BY <3>1
    <3>3. Start(f, i + 1 + k) < Start(f, (i + 1 + k) + 1)
      BY <1>4, <3>1
    <3>4. Start(f, i) \in Nat /\ Start(f, i + 1 + k) \in Nat /\ Start(f, (i + 1 + k) + 1) \in Nat
      BY <1>2, <3>1
    <3>5. Start(f, i) < Start(f, (i + 1 + k) + 1)
      BY <3>2, <3>3, <3>4
    <3> QED
      BY <3>1, <3>5
  <2>3. Reached \in SUBSET Nat
    OBVIOUS
  <2> HIDE DEF Reached
  <2> QED
    BY <2>1, <2>2, <2>3, Induction
<1>6. j - i - 1 \in Nat /\ i + 1 + (j - i - 1) = j /\ j <= m + 1
  BY <1>1 DEF m
<1>7. j - i - 1 \in Reached
  <2> HIDE DEF Reached
  <2> QED
    BY <1>5, <1>6
<1> QED
  BY <1>6, <1>7

\* No two pieces start at the same byte.
LEMMA StartInjective ==
    ASSUME NEW f \in Frames, NEW i \in 1..(Len(f) + 1), NEW j \in 1..(Len(f) + 1), Start(f, i) = Start(f, j)
    PROVE  i = j
<1>1. i \in Nat /\ j \in Nat
  BY FrameFacts
<1>2. Start(f, i) \in Nat
  BY StartFacts
<1>3. ~(i < j)
  <2> SUFFICES ASSUME i < j  PROVE FALSE
    OBVIOUS
  <2>1. Start(f, i) < Start(f, j)
    BY StartIncreases
  <2> QED
    BY <1>2, <2>1
<1>4. ~(j < i)
  <2> SUFFICES ASSUME j < i  PROVE FALSE
    OBVIOUS
  <2>1. Start(f, j) < Start(f, i)
    BY StartIncreases
  <2> QED
    BY <1>2, <2>1
<1> QED
  BY <1>1, <1>3, <1>4

\* What the classifier sees of a piece, and of the pieces from i on.
Alike(p, q) == p.h = q.h /\ p.n = q.n /\ p.next = q.next
SameTail(f, i, g, j) ==
    Len(f) - i = Len(g) - j /\ \A d \in 0..(Len(f) - i) : Alike(f[i + d], g[j + d])

\* Pieces of the same lengths take the same bytes.
LEMMA TailStarts ==
    ASSUME NEW f \in Frames, NEW g \in Frames, NEW i \in 1..(Len(f) + 1), NEW j \in 1..(Len(g) + 1),
           SameTail(f, i, g, j)
    PROVE  \A k \in 0..(Len(f) + 1 - i) : Start(f, i + k) - Start(f, i) = Start(g, j + k) - Start(g, j)
<1> DEFINE m == Len(f) + 1 - i
<1>1. Len(f) \in Nat /\ Len(g) \in Nat /\ i \in Nat /\ j \in Nat /\ m \in Nat
  BY FrameFacts
<1>2. m = Len(g) + 1 - j
  BY <1>1 DEF SameTail
<1>3. \A d \in 0..(m - 1) : f[i + d].h = g[j + d].h /\ f[i + d].n = g[j + d].n
  BY <1>1 DEF SameTail, Alike
<1>4. \A d \in 0..(m - 1) : i + d \in 1..Len(f) /\ j + d \in 1..Len(g)
  BY <1>1, <1>2
<1>5. \A d \in 0..m : i + d \in 1..(Len(f) + 1) /\ j + d \in 1..(Len(g) + 1)
  BY <1>1, <1>2
<1> HIDE DEF m
<1> DEFINE Reached == {k \in Nat : k <= m => Start(f, i + k) - Start(f, i) = Start(g, j + k) - Start(g, j)}
<1>6. \A d \in 0..m : Start(f, i + d) \in Nat /\ Start(g, j + d) \in Nat
  BY <1>5, StartFacts
<1>7. Start(f, i) \in Nat /\ Start(g, j) \in Nat
  BY StartFacts
<1>8. Reached = Nat
  <2>1. 0 \in Reached
    <3>1. i + 0 = i /\ j + 0 = j
      BY <1>1
    <3>2. Start(f, i + 0) - Start(f, i) = 0 /\ Start(g, j + 0) - Start(g, j) = 0
      BY <1>7, <3>1
    <3> QED
      BY <3>2
  <2>2. \A k \in Reached : k + 1 \in Reached
    <3> SUFFICES ASSUME NEW k \in Reached, k + 1 <= m
                 PROVE  Start(f, i + (k + 1)) - Start(f, i) = Start(g, j + (k + 1)) - Start(g, j)
      OBVIOUS
    <3>1. k \in 0..(m - 1) /\ k \in 0..m /\ k <= m /\ i + (k + 1) = (i + k) + 1 /\ j + (k + 1) = (j + k) + 1
      BY <1>1
    <3>2. Start(f, i + k) - Start(f, i) = Start(g, j + k) - Start(g, j)
      BY <3>1
    <3>3. PieceLen(f[i + k]) = PieceLen(g[j + k]) /\ PieceLen(f[i + k]) \in Nat
      <4>1. f[i + k] \in Pieces /\ g[j + k] \in Pieces
        BY <1>4, <3>1, FrameFacts
      <4>2. f[i + k].h = g[j + k].h /\ f[i + k].n = g[j + k].n
        BY <1>3, <3>1
      <4>3. PieceLen(f[i + k]) = PieceLen(g[j + k])
        BY <4>2 DEF PieceLen
      <4> QED
        BY <4>1, <4>3, PieceLenFacts
    <3>4. /\ Start(f, (i + k) + 1) = Start(f, i + k) + PieceLen(f[i + k])
          /\ Start(g, (j + k) + 1) = Start(g, j + k) + PieceLen(g[j + k])
      BY <1>4, <3>1, StartFacts
    <3>5. Start(f, i + k) \in Nat /\ Start(g, j + k) \in Nat
      BY <1>6, <3>1
    <3>6. Start(f, (i + k) + 1) - Start(f, i) = Start(g, (j + k) + 1) - Start(g, j)
      <4> DEFINE a == Start(f, i + k)
      <4> DEFINE b == Start(f, i)
      <4> DEFINE c == Start(g, j + k)
      <4> DEFINE d == Start(g, j)
      <4> DEFINE p == PieceLen(f[i + k])
      <4>1. a \in Nat /\ b \in Nat /\ c \in Nat /\ d \in Nat /\ p \in Nat
        BY <1>7, <3>3, <3>5
      <4>2. a - b = c - d
        BY <3>2
      <4>3. Start(f, (i + k) + 1) = a + p /\ Start(g, (j + k) + 1) = c + p
        BY <3>3, <3>4
      <4> HIDE DEF a, b, c, d, p
      <4>4. (a + p) - b = (c + p) - d
        BY <4>1, <4>2
      <4> QED
        BY <4>3, <4>4 DEF b, d
    <3> QED
      BY <3>1, <3>6
  <2>3. Reached \in SUBSET Nat
    OBVIOUS
  <2> HIDE DEF Reached
  <2> QED
    BY <2>1, <2>2, <2>3, Induction
<1>9. \A k \in 0..m : k \in Reached
  <2> HIDE DEF Reached
  <2> QED
    BY <1>8
<1>10. \A k \in 0..m : Start(f, i + k) - Start(f, i) = Start(g, j + k) - Start(g, j)
  BY <1>9
<1> QED
  BY <1>10 DEF m

\* The bytes from piece i on are a matter of these pieces alone.
LEMMA TailBytes ==
    ASSUME NEW f \in Frames, NEW g \in Frames, NEW i \in 1..(Len(f) + 1), NEW j \in 1..(Len(g) + 1),
           SameTail(f, i, g, j)
    PROVE  Bytes(f) - Start(f, i) = Bytes(g) - Start(g, j)
<1> DEFINE k == Len(f) + 1 - i
<1>1. Len(f) \in Nat /\ Len(g) \in Nat /\ i \in Nat /\ j \in Nat
  BY FrameFacts
<1>2. k \in 0..(Len(f) + 1 - i) /\ i + k = Len(f) + 1 /\ j + k = Len(g) + 1
  BY <1>1 DEF SameTail
<1>3. Start(f, i + k) - Start(f, i) = Start(g, j + k) - Start(g, j)
  BY <1>2, TailStarts
<1> QED
  BY <1>2, <1>3 DEF Bytes

\* In frames of the same shape the pieces start at the same bytes.
LEMMA SameStarts ==
    ASSUME NEW f \in Frames, NEW g \in Frames, SameTail(f, 1, g, 1)
    PROVE  Len(f) = Len(g) /\ \A i \in 1..(Len(f) + 1) : Start(f, i) = Start(g, i)
<1>1. Len(f) \in Nat /\ Len(g) \in Nat
  BY FrameFacts
<1>2. Len(f) = Len(g)
  BY <1>1 DEF SameTail
<1>3. ASSUME NEW i \in 1..(Len(f) + 1)
      PROVE  Start(f, i) = Start(g, i)
  <2>1. i - 1 \in 0..(Len(f) + 1 - 1) /\ 1 + (i - 1) = i
    BY <1>1
  <2>2. 1 \in 1..(Len(f) + 1) /\ 1 \in 1..(Len(g) + 1)
    BY <1>1
  <2>3. Start(f, i) - Start(f, 1) = Start(g, i) - Start(g, 1)
    BY <2>1, <2>2, TailStarts
  <2>4. Start(f, i) \in Nat /\ Start(g, i) \in Nat /\ Start(f, 1) = 0 /\ Start(g, 1) = 0
    BY <1>2, StartFacts
  <2> QED
    BY <2>3, <2>4
<1> QED
  BY <1>2, <1>3

-----------------------------------------------------------------------------
(* The tables *)

\* What Append makes of short stacks of headers.
LEMMA Appended ==
    \A a, b, c, d :
      /\ Append(<<>>, a) = <<a>>
      /\ Append(<<a>>, b) = <<a, b>>
      /\ Append(<<a, b>>, c) = <<a, b, c>>
      /\ Append(<<a, b, c>>, d) = <<a, b, c, d>>
<1> TAKE a, b, c, d
<1> DEFINE S == {a, b, c, d}
<1>1. <<>> \in Seq(S) /\ <<a>> \in Seq(S) /\ <<a, b>> \in Seq(S) /\ <<a, b, c>> \in Seq(S) /\ <<a, b, c, d>> \in Seq(S)
  OBVIOUS
<1>2. a \in S /\ b \in S /\ c \in S /\ d \in S
  OBVIOUS
<1> HIDE DEF S
<1>3. Append(<<>>, a) = <<a>>
  <2> DEFINE s == Append(<<>>, a)
  <2>1. s \in Seq(S) /\ Len(s) = 1 /\ s[1] = a
    BY <1>1, <1>2
  <2> HIDE DEF s
  <2>2. \A i \in 1..Len(s) : s[i] = <<a>>[i]
    BY <2>1
  <2>3. s = <<a>>
    BY <1>1, <2>1, <2>2, SeqEqual
  <2> QED
    BY <2>3 DEF s
<1>4. Append(<<a>>, b) = <<a, b>>
  <2> DEFINE s == Append(<<a>>, b)
  <2>1. s \in Seq(S) /\ Len(s) = 2 /\ s[1] = a /\ s[2] = b
    BY <1>1, <1>2
  <2> HIDE DEF s
  <2>2. \A i \in 1..Len(s) : s[i] = <<a, b>>[i]
    BY <2>1
  <2>3. s = <<a, b>>
    BY <1>1, <2>1, <2>2, SeqEqual
  <2> QED
    BY <2>3 DEF s
<1>5. Append(<<a, b>>, c) = <<a, b, c>>
  <2> DEFINE s == Append(<<a, b>>, c)
  <2>1. s \in Seq(S) /\ Len(s) = 3 /\ s[1] = a /\ s[2] = b /\ s[3] = c
    BY <1>1, <1>2
  <2> HIDE DEF s
  <2>2. \A i \in 1..Len(s) : s[i] = <<a, b, c>>[i]
    BY <2>1
  <2>3. s = <<a, b, c>>
    BY <1>1, <2>1, <2>2, SeqEqual
  <2> QED
    BY <2>3 DEF s
<1>6. Append(<<a, b, c>>, d) = <<a, b, c, d>>
  <2> DEFINE s == Append(<<a, b, c>>, d)
  <2>1. s \in Seq(S) /\ Len(s) = 4 /\ s[1] = a /\ s[2] = b /\ s[3] = c /\ s[4] = d
    BY <1>1, <1>2
  <2> HIDE DEF s
  <2>2. \A i \in 1..Len(s) : s[i] = <<a, b, c, d>>[i]
    BY <2>1
  <2>3. s = <<a, b, c, d>>
    BY <1>1, <2>1, <2>2, SeqEqual
  <2> QED
    BY <2>3 DEF s
<1> QED
  BY <1>3, <1>4, <1>5, <1>6

\* What SubSeq makes of short stacks of headers.
LEMMA Prefixes ==
    \A a, b, c :
      /\ SubSeq(<<a>>, 1, 1) = <<a>>
      /\ SubSeq(<<a, b>>, 1, 1) = <<a>>
      /\ SubSeq(<<a, b>>, 1, 2) = <<a, b>>
      /\ SubSeq(<<a, b, c>>, 1, 2) = <<a, b>>
      /\ SubSeq(<<a, b, c>>, 1, 3) = <<a, b, c>>
<1> TAKE a, b, c
<1> DEFINE S == {a, b, c}
<1>1. <<a>> \in Seq(S) /\ <<a, b>> \in Seq(S) /\ <<a, b, c>> \in Seq(S)
  OBVIOUS
<1> HIDE DEF S
<1>2. SubSeq(<<a>>, 1, 1) = <<a>> /\ SubSeq(<<a, b>>, 1, 2) = <<a, b>> /\ SubSeq(<<a, b, c>>, 1, 3) = <<a, b, c>>
  <2>1. Len(<<a>>) = 1 /\ Len(<<a, b>>) = 2 /\ Len(<<a, b, c>>) = 3
    OBVIOUS
  <2>2. SubSeq(<<a>>, 1, Len(<<a>>)) = <<a>>
    BY <1>1, SubSeqFull
  <2>3. SubSeq(<<a, b>>, 1, Len(<<a, b>>)) = <<a, b>>
    BY <1>1, SubSeqFull
  <2>4. SubSeq(<<a, b, c>>, 1, Len(<<a, b, c>>)) = <<a, b, c>>
    BY <1>1, SubSeqFull
  <2> QED
    BY <2>1, <2>2, <2>3, <2>4
<1>3. SubSeq(<<a, b>>, 1, 1) = <<a>>
  <2> DEFINE s == SubSeq(<<a, b>>, 1, 1)
  <2>1. s \in Seq(S) /\ Len(s) = 1 /\ s[1] = a
    BY <1>1
  <2> HIDE DEF s
  <2>2. \A i \in 1..Len(s) : s[i] = <<a>>[i]
    BY <2>1
  <2>3. s = <<a>>
    BY <1>1, <2>1, <2>2, SeqEqual
  <2> QED
    BY <2>3 DEF s
<1>4. SubSeq(<<a, b, c>>, 1, 2) = <<a, b>>
  <2> DEFINE s == SubSeq(<<a, b, c>>, 1, 2)
  <2>1. s \in Seq(S) /\ Len(s) = 2 /\ s[1] = a /\ s[2] = b
    BY <1>1
  <2> HIDE DEF s
  <2>2. \A i \in 1..Len(s) : s[i] = <<a, b>>[i]
    BY <2>1
  <2>3. s = <<a, b>>
    BY <1>1, <2>1, <2>2, SeqEqual
  <2> QED
    BY <2>3 DEF s
<1> QED
  BY <1>2, <1>3, <1>4

-----------------------------------------------------------------------------
(* The types of the tables and the push and pop tables *)

Ipv4Stacks ==
    {<<"IPV4">>, <<"IPV4", "ICMPV4">>, <<"IPV4", "TCP">>, <<"IPV4", "UDP">>, <<"IPV4", "UDP", "GTPU4">>,
     <<"IPV4", "SCTP">>, <<"IPV4", "GRE4">>}

Ipv6Stacks ==
    {<<"IPV6">>, <<"IPV6", "ICMPV6">>, <<"IPV6", "TCP">>, <<"IPV6", "UDP">>, <<"IPV6", "UDP", "GTPU6">>,
     <<"IPV6", "SCTP">>, <<"IPV6", "GRE6">>}

NeighbourStacks ==
    {<<"IPV6", "ICMPV6", m>> : m \in NeighbourMsgs}
    \cup {<<"IPV6", "ICMPV6", m, NeighbourOption[m]>> : m \in NeighbourMsgs}

\* The headers above layer 2 that the classifier finds, and what n counts with them.
Found(up, n) ==
    \/ up \in {<<>>, <<"PPPOE">>, <<"PPPOE", "PPP">>, <<"ARPV4">>} /\ n = 0
    \/ up = <<"MPLS">> /\ n \in 1..MaxLabels
    \/ up \in Ipv4Stacks /\ n \in 0..MaxOptions
    \/ up \in Ipv6Stacks \cup NeighbourStacks /\ n = 0

\* The neighbour discovery messages and their options.
LEMMA Neighbours ==
    /\ NeighbourMsgs = {"ICMPV6_RTR_SOL", "ICMPV6_RTR_ADV", "ICMPV6_NEIGH_SOL", "ICMPV6_NEIGH_ADV"}
    /\ NeighbourOption["ICMPV6_RTR_SOL"] = "ICMPV6_RTR_SOL_OPTS_LLADR_SRC"
    /\ NeighbourOption["ICMPV6_RTR_ADV"] = "ICMPV6_RTR_ADV_OPTS_LLADR_SRC"
    /\ NeighbourOption["ICMPV6_NEIGH_SOL"] = "ICMPV6_NEIGH_SOL_OPTS_LLADR_SRC"
    /\ NeighbourOption["ICMPV6_NEIGH_ADV"] = "ICMPV6_NEIGH_ADV_OPTS_LLADR_TGT"
BY DEF NeighbourMsgs, NeighbourOption

\* The tables have a row for what the classifier finds behind every layer 2 prefix.
LEMMA FoundAreTypes ==
    ASSUME NEW l2 \in L2, NEW up, NEW n, Found(up, n)
    PROVE  Type(l2, up, n) \in Types
<1>1. \A u, c : n \in c /\ u = up => Type(l2, up, n) \in Rows(u, c)
  BY DEF Rows
<1>2. ASSUME up \in Ipv4Stacks, n \in 0..MaxOptions  PROVE Type(l2, up, n) \in Types
  BY <1>1, <1>2 DEF Types, Ipv4Stacks, ipv4_types, icmpv4_types, ipv4_tcp_types, ipv4_udp_types,
     gtpu4_types, ipv4_sctp_types, gre4_types
<1>3. ASSUME up = <<"MPLS">>, n \in 1..MaxLabels  PROVE Type(l2, up, n) \in Types
  BY <1>1, <1>3 DEF Types, mpls_types
<1>4. ASSUME up \in {<<>>, <<"PPPOE">>, <<"PPPOE", "PPP">>, <<"ARPV4">>}, n = 0  PROVE Type(l2, up, n) \in Types
  BY <1>1, <1>4 DEF Types, plain_types, pppoe_types, arpv4_types
<1>5. ASSUME up \in Ipv6Stacks \cup NeighbourStacks, n = 0  PROVE Type(l2, up, n) \in Types
  <2>1. Type(l2, up, n) \in Rows(up, {0})
    BY <1>1, <1>5
  <2>2. Rows(up, {0}) \subseteq ipv6_types
    BY <1>5 DEF ipv6_types, Ipv6Stacks, NeighbourStacks
  <2> QED
    BY <2>1, <2>2 DEF Types
<1> QED
  BY <1>2, <1>3, <1>4, <1>5 DEF Found

\* What a type may be after the frame was classified or edited.
Seen(t) ==
    /\ t = Type(t.l2, t.up, t.n) /\ t.l2 \in L2 /\ Found(t.up, t.n)
    /\ Backbone(t) => t.up = <<>>

\* Which layer 2 prefixes have an I-SID, and which have no tag.
LEMMA Prefix ==
    ASSUME NEW l2 \in L2, NEW up, NEW n
    PROVE  /\ Backbone(Type(l2, up, n)) <=> l2 \in {<<"ETHERNET", "ISID">>, <<"ETHERNET", "VLAN", "ISID">>}
           /\ Untagged(Type(l2, up, n)) <=> l2 \in {<<"ETHERNET">>, <<"8023">>}
BY DEF Backbone, Untagged, Type, L2

\* The topmost header and the block of rows of every type that is found.
LEMMA Tops ==
    ASSUME NEW l2, NEW up, NEW n, Found(up, n)
    PROVE  LET t == Type(l2, up, n) IN
           /\ up = <<>> => Top(t) = "L2" /\ Block(t) = "L2"
           /\ up = <<"PPPOE">> => Top(t) = "PPPOE" /\ Block(t) = "PPPOE"
           /\ up = <<"PPPOE", "PPP">> => Top(t) = "PPP" /\ Block(t) = "PPPOE"
           /\ up = <<"ARPV4">> => Block(t) = "ARPV4"
           /\ up = <<"MPLS">> => Block(t) = "MPLS"
           /\ up = <<"IPV4">> => Top(t) = "IPV4" /\ Block(t) = "IPV4"
           /\ up = <<"IPV4", "ICMPV4">> => Top(t) = "ICMPV4" /\ Block(t) = "ICMPV4"
           /\ up = <<"IPV4", "TCP">> => Top(t) = "TCP" /\ Block(t) = "TCP"
           /\ up = <<"IPV4", "UDP">> => Top(t) = "UDP" /\ Block(t) = "UDP"
           /\ up = <<"IPV4", "UDP", "GTPU4">> => Top(t) = "GTPU4" /\ Block(t) = "GTPU4"
           /\ up = <<"IPV4", "SCTP">> => Top(t) = "SCTP" /\ Block(t) = "SCTP"
           /\ up = <<"IPV4", "GRE4">> => Top(t) = "GRE4" /\ Block(t) = "GRE4"
           /\ up \in Ipv6Stacks \cup NeighbourStacks => Block(t) = "IPV6"
           /\ up = <<"IPV6">> => Top(t) = "IPV6"
           /\ up = <<"IPV6", "UDP">> => Top(t) = "UDP"
           /\ up = <<"IPV6", "ICMPV6">> => Top(t) = "ICMPV6"
           /\ up = <<"IPV6", "UDP", "GTPU6">> => Top(t) = "GTPU6"
           /\ up = <<"IPV6", "GRE6">> => Top(t) = "GRE6"
           /\ up \in {<<"IPV6", "TCP">>, <<"IPV6", "SCTP">>} => Top(t) \in {"TCP", "SCTP"}
           /\ \A m \in NeighbourMsgs :
                /\ up = <<"IPV6", "ICMPV6", m>> => Top(t) = m
                /\ up = <<"IPV6", "ICMPV6", m, NeighbourOption[m]>> => Top(t) = NeighbourOption[m]
<1>1. Type(l2, up, n).up = up
  BY DEF Type
<1>2. up # <<>> => Top(Type(l2, up, n)) = up[Len(up)]
  BY <1>1 DEF Top
<1>3. \A m \in NeighbourMsgs :
        /\ up = <<"IPV6", "ICMPV6", m>> => Top(Type(l2, up, n)) = m
        /\ up = <<"IPV6", "ICMPV6", m, NeighbourOption[m]>> => Top(Type(l2, up, n)) = NeighbourOption[m]
  BY <1>1 DEF Top
<1>4. up \in Ipv6Stacks => up # <<>> /\ up[1] = "IPV6" /\ Top(Type(l2, up, n)) # "PPP"
  BY <1>2 DEF Ipv6Stacks
<1>5. up \in NeighbourStacks => up # <<>> /\ up[1] = "IPV6" /\ Top(Type(l2, up, n)) # "PPP"
  BY <1>2, <1>3, Neighbours DEF NeighbourStacks
<1>6. up \in Ipv6Stacks \cup NeighbourStacks => Block(Type(l2, up, n)) = "IPV6"
  <2> SUFFICES ASSUME up \in Ipv6Stacks \cup NeighbourStacks  PROVE Block(Type(l2, up, n)) = "IPV6"
    OBVIOUS
  <2>1. up # <<>> /\ up[1] = "IPV6" /\ Top(Type(l2, up, n)) # "PPP"
    BY <1>4, <1>5
  <2> QED
    BY <1>1, <2>1 DEF Block
<1>7. /\ up = <<>> => Top(Type(l2, up, n)) = "L2" /\ Block(Type(l2, up, n)) = "L2"
      /\ up = <<"PPPOE">> => Top(Type(l2, up, n)) = "PPPOE" /\ Block(Type(l2, up, n)) = "PPPOE"
      /\ up = <<"PPPOE", "PPP">> => Top(Type(l2, up, n)) = "PPP" /\ Block(Type(l2, up, n)) = "PPPOE"
      /\ up = <<"ARPV4">> => Block(Type(l2, up, n)) = "ARPV4"
      /\ up = <<"MPLS">> => Block(Type(l2, up, n)) = "MPLS"
  BY <1>1, <1>2 DEF Top, Block
<1>8. /\ up = <<"IPV4">> => Top(Type(l2, up, n)) = "IPV4"
      /\ up = <<"IPV4", "ICMPV4">> => Top(Type(l2, up, n)) = "ICMPV4"
      /\ up = <<"IPV4", "TCP">> => Top(Type(l2, up, n)) = "TCP"
      /\ up = <<"IPV4", "UDP">> => Top(Type(l2, up, n)) = "UDP"
      /\ up = <<"IPV4", "UDP", "GTPU4">> => Top(Type(l2, up, n)) = "GTPU4"
      /\ up = <<"IPV4", "SCTP">> => Top(Type(l2, up, n)) = "SCTP"
      /\ up = <<"IPV4", "GRE4">> => Top(Type(l2, up, n)) = "GRE4"
  <2> DEFINE top == Top(Type(l2, up, n))
  <2>1. up # <<>> => top = up[Len(up)]
    BY <1>2
  <2> HIDE DEF top
  <2>2. up = <<"IPV4">> => top = "IPV4"
    BY <2>1
  <2>3. up = <<"IPV4", "UDP", "GTPU4">> => top = "GTPU4"
    BY <2>1
  <2>4. \A h : up = <<"IPV4", h>> => top = h
    BY <2>1
  <2> QED
    BY <2>2, <2>3, <2>4 DEF top
<1>10. up \in Ipv4Stacks => Block(Type(l2, up, n)) = Top(Type(l2, up, n))
  <2> SUFFICES ASSUME up \in Ipv4Stacks  PROVE Block(Type(l2, up, n)) = Top(Type(l2, up, n))
    OBVIOUS
  <2>1. up # <<>> /\ up[1] # "IPV6"
    BY DEF Ipv4Stacks
  <2>2. Top(Type(l2, up, n)) # "PPP"
    BY <1>8 DEF Ipv4Stacks
  <2> QED
    BY <1>1, <2>1, <2>2 DEF Block
<1>11. \A u : u \in {<<"IPV4">>, <<"IPV4", "ICMPV4">>, <<"IPV4", "TCP">>, <<"IPV4", "UDP">>,
                     <<"IPV4", "UDP", "GTPU4">>, <<"IPV4", "SCTP">>, <<"IPV4", "GRE4">>} => u \in Ipv4Stacks
  BY DEF Ipv4Stacks
<1>9. /\ up = <<"IPV6">> => Top(Type(l2, up, n)) = "IPV6"
      /\ up = <<"IPV6", "UDP">> => Top(Type(l2, up, n)) = "UDP"
      /\ up = <<"IPV6", "ICMPV6">> => Top(Type(l2, up, n)) = "ICMPV6"
      /\ up = <<"IPV6", "UDP", "GTPU6">> => Top(Type(l2, up, n)) = "GTPU6"
      /\ up = <<"IPV6", "GRE6">> => Top(Type(l2, up, n)) = "GRE6"
      /\ up \in {<<"IPV6", "TCP">>, <<"IPV6", "SCTP">>} => Top(Type(l2, up, n)) \in {"TCP", "SCTP"}
  BY <1>2
<1> QED
  BY <1>3, <1>6, <1>7, <1>8, <1>9, <1>10, <1>11

TypeFacts(t, l2, up, n) == l2 \in L2 /\ Found(up, n) /\ t = Type(l2, up, n)

\* Every type is in one of the blocks of rows.
LEMMA UpIs ==
    ASSUME NEW up, NEW n, Found(up, n)
    PROVE  \/ up = <<>> \/ up = <<"MPLS">> \/ up = <<"PPPOE">> \/ up = <<"PPPOE", "PPP">> \/ up = <<"ARPV4">>
           \/ up = <<"IPV4">> \/ up = <<"IPV4", "ICMPV4">> \/ up = <<"IPV4", "TCP">> \/ up = <<"IPV4", "UDP">>
           \/ up = <<"IPV4", "UDP", "GTPU4">> \/ up = <<"IPV4", "SCTP">> \/ up = <<"IPV4", "GRE4">>
           \/ up \in Ipv6Stacks \cup NeighbourStacks
BY DEF Found, Ipv4Stacks

\* What is pushed on a type is pushed on its layer 2 prefix, but for the second and later labels.
LEMMA PushCases ==
    ASSUME NEW t, NEW l2, NEW up, NEW n, TypeFacts(t, l2, up, n),
           NEW h \in {"VLAN", "ISID", "MPLS", "PPPOE", "GRE4", "GRE6"}, push_transitions(t, h) # Invalid
    PROVE  /\ ~Backbone(t)
           /\ IF h = "MPLS" /\ up = <<"MPLS">>
              THEN n <= 30 /\ push_transitions(t, h) = [t EXCEPT !.n = @ + 1]
              ELSE push_transitions(t, h) = plain_push(t, h)
<1>1. ~Backbone(t)
  BY DEF push_transitions
<1>2. t.l2 = l2 /\ t.up = up /\ t.n = n /\ Found(up, n)
  BY DEF TypeFacts, Type
<1> DEFINE P == push_transitions(t, h)
<1>3. ip_push(t, h) = plain_push(t, h)
  BY DEF ip_push
<1>4. gre_push(t, h) = Invalid \/ gre_push(t, h) = plain_push(t, h)
  BY <1>3 DEF gre_push
<1>5. P # Invalid
  OBVIOUS
<1>6. CASE up = <<>>
  <2>1. Block(t) = "L2"
    BY <1>6, Tops DEF TypeFacts
  <2>2. P = plain_push(t, h)
    BY <1>1, <2>1 DEF push_transitions
  <2> QED
    BY <1>1, <1>6, <2>2
<1>7. CASE up = <<"MPLS">>
  <2>1. Block(t) = "MPLS"
    BY <1>7, Tops DEF TypeFacts
  <2>2. P = mpls_push(t, h)
    BY <1>1, <2>1 DEF push_transitions
  <2>3. CASE h = "MPLS"
    <3>1. mpls_push(t, h) = IF t.n <= 30 THEN [t EXCEPT !.n = @ + 1] ELSE Invalid
      BY <2>3 DEF mpls_push
    <3> QED
      BY <1>1, <1>2, <1>5, <1>7, <2>2, <2>3, <3>1
  <2>4. CASE h # "MPLS"
    <3>1. mpls_push(t, h) = Invalid \/ mpls_push(t, h) = plain_push(t, h)
      BY <2>4 DEF mpls_push
    <3> QED
      BY <1>1, <1>5, <2>2, <2>4, <3>1
  <2> QED
    BY <2>3, <2>4
<1>8. CASE up = <<"PPPOE">> \/ up = <<"PPPOE", "PPP">>
  <2>1. Block(t) = "PPPOE"
    BY <1>8, Tops DEF TypeFacts
  <2>2. P = pppoe_push(t, h)
    BY <1>1, <2>1 DEF push_transitions
  <2>3. pppoe_push(t, h) = Invalid \/ pppoe_push(t, h) = plain_push(t, h)
    BY DEF pppoe_push
  <2> QED
    BY <1>1, <1>5, <1>8, <2>2, <2>3
<1>9. CASE up = <<"ARPV4">>
  <2>1. Block(t) = "ARPV4"
    BY <1>9, Tops DEF TypeFacts
  <2>2. P = plain_push(t, h)
    BY <1>1, <2>1 DEF push_transitions, arpv4_push
  <2> QED
    BY <1>1, <1>9, <2>2
<1>10. CASE up \in Ipv4Stacks
  <2>1. Block(t) \in {"IPV4", "ICMPV4", "TCP", "UDP", "GTPU4", "SCTP", "GRE4"}
    BY <1>10, Tops DEF TypeFacts, Ipv4Stacks
  <2>2. Block(t) \in {"IPV4", "ICMPV4", "TCP", "UDP", "SCTP"} => P = ip_push(t, h)
    BY <1>1 DEF push_transitions, ipv4_push, icmpv4_push, ipv4_tcp_push, ipv4_udp_push, ipv4_sctp_push
  <2>3. Block(t) = "GTPU4" => P = plain_push(t, h)
    BY <1>1 DEF push_transitions, gtpu4_push
  <2>4. Block(t) = "GRE4" => P = gre_push(t, h)
    BY <1>1 DEF push_transitions, gre4_push
  <2>5. P = plain_push(t, h)
    BY <1>3, <1>4, <1>5, <2>1, <2>2, <2>3, <2>4
  <2>6. up # <<"MPLS">>
    BY <1>10 DEF Ipv4Stacks
  <2> QED
    BY <1>1, <2>5, <2>6
<1>11. CASE up \in Ipv6Stacks \cup NeighbourStacks
  <2>1. Block(t) = "IPV6"
    BY <1>11, Tops DEF TypeFacts
  <2>2. P = ipv6_push(t, h)
    BY <1>1, <2>1 DEF push_transitions
  <2>3. ipv6_push(t, h) \in {plain_push(t, h), gre_push(t, h), ip_push(t, h)}
    BY DEF ipv6_push
  <2>4. P = plain_push(t, h)
    BY <1>3, <1>4, <1>5, <2>2, <2>3
  <2>5. up # <<"MPLS">>
    BY <1>11 DEF Ipv6Stacks, NeighbourStacks
  <2> QED
    BY <1>1, <2>4, <2>5
<1>12. up \in Ipv4Stacks \cup Ipv6Stacks \cup NeighbourStacks \cup {<<>>, <<"MPLS">>, <<"PPPOE">>, <<"PPPOE", "PPP">>, <<"ARPV4">>}
  BY <1>2 DEF Found
<1> QED
  BY <1>6, <1>7, <1>8, <1>9, <1>10, <1>11, <1>12

\* All types have one of the layer 2 prefixes.
LEMMA TypesL2 ==
    ASSUME NEW t \in Types
    PROVE  t.l2 \in L2
<1>1. \A u, c : \A x \in Rows(u, c) : x.l2 \in L2
  BY DEF Rows, Type
<1>2. \A x \in ipv6_types : x.l2 \in L2
  BY <1>1 DEF ipv6_types
<1> QED
  BY <1>1, <1>2 DEF Types, plain_types, mpls_types, pppoe_types, arpv4_types, ipv4_types, icmpv4_types,
     ipv4_tcp_types, ipv4_udp_types, gtpu4_types, ipv4_sctp_types, gre4_types

\* A tag is pushed on at most one tag, and becomes the last one.
LEMMA PushVlan ==
    ASSUME NEW t, NEW l2, NEW up, NEW n, TypeFacts(t, l2, up, n), push_transitions(t, "VLAN") # Invalid
    PROVE  /\ ~Backbone(t)
           /\ l2 \in {<<"ETHERNET">>, <<"8023">>, <<"ETHERNET", "VLAN">>, <<"8023", "VLAN">>}
           /\ push_transitions(t, "VLAN") = Type(Append(l2, "VLAN"), up, n)
           /\ Append(l2, "VLAN") \in L2
<1>1. ~Backbone(t) /\ push_transitions(t, "VLAN") = plain_push(t, "VLAN")
  BY PushCases
<1> DEFINE u == [t EXCEPT !.l2 = Append(@, "VLAN")]
<1>2. plain_push(t, "VLAN") = ValidType(u)
  BY DEF plain_push
<1>3. u \in Types /\ push_transitions(t, "VLAN") = u
  BY <1>1, <1>2 DEF ValidType
<1>4. u = Type(Append(l2, "VLAN"), up, n)
  BY DEF TypeFacts, Type
<1>5. Append(l2, "VLAN") \in L2
  <2>1. u.l2 \in L2
    BY <1>3, TypesL2
  <2> QED
    BY <1>4, <2>1 DEF Type
<1>6. l2 \in L2 /\ l2 \notin {<<"ETHERNET", "ISID">>, <<"ETHERNET", "VLAN", "ISID">>}
  BY <1>1, Prefix DEF TypeFacts
<1>7. l2 # <<"ETHERNET", "VLAN", "VLAN">> /\ l2 # <<"8023", "VLAN", "VLAN">>
  <2>1. \A a : <<a, "VLAN", "VLAN", "VLAN">> \notin L2
    BY DEF L2
  <2>2. \A a : Append(<<a, "VLAN", "VLAN">>, "VLAN") = <<a, "VLAN", "VLAN", "VLAN">>
    BY Appended
  <2> QED
    BY <1>5, <2>1, <2>2
<1>8. l2 \in {<<"ETHERNET">>, <<"8023">>, <<"ETHERNET", "VLAN">>, <<"8023", "VLAN">>}
  BY <1>6, <1>7 DEF L2
<1> QED
  BY <1>1, <1>3, <1>4, <1>5, <1>8

\* A label is counted, up to 31.
LEMMA PushMpls ==
    ASSUME NEW t, NEW l2, NEW up, NEW n, TypeFacts(t, l2, up, n), push_transitions(t, "MPLS") # Invalid
    PROVE  /\ ~Backbone(t)
           /\ up = <<"MPLS">> => n <= 30 /\ push_transitions(t, "MPLS") = Type(l2, <<"MPLS">>, n + 1)
           /\ up # <<"MPLS">> => push_transitions(t, "MPLS") = Type(l2, <<"MPLS">>, 1)
<1>1. ~Backbone(t)
  BY PushCases
<1>2. t.l2 = l2 /\ t = Type(l2, up, n)
  BY DEF TypeFacts, Type
<1>3. CASE up = <<"MPLS">>
  <2>1. n <= 30 /\ push_transitions(t, "MPLS") = [t EXCEPT !.n = @ + 1]
    BY <1>3, PushCases
  <2>2. [t EXCEPT !.n = @ + 1] = Type(l2, up, n + 1)
    BY <1>2 DEF Type
  <2> QED
    BY <1>1, <1>3, <2>1, <2>2
<1>4. CASE up # <<"MPLS">>
  <2>1. push_transitions(t, "MPLS") = plain_push(t, "MPLS")
    BY <1>4, PushCases
  <2> QED
    BY <1>1, <1>2, <1>4, <2>1 DEF plain_push
<1> QED
  BY <1>3, <1>4

\* PPPoE hides what is above layer 2.
LEMMA PushPppoe ==
    ASSUME NEW t, NEW l2, NEW up, NEW n, TypeFacts(t, l2, up, n), push_transitions(t, "PPPOE") # Invalid
    PROVE  /\ ~Backbone(t)
           /\ push_transitions(t, "PPPOE") = Type(l2, <<"PPPOE">>, 0)
           /\ push_transitions(Type(l2, <<"PPPOE">>, 0), "PPP") = Type(l2, <<"PPPOE", "PPP">>, 0)
<1>1. ~Backbone(t) /\ push_transitions(t, "PPPOE") = plain_push(t, "PPPOE")
  BY PushCases
<1>2. t.l2 = l2 /\ t = Type(l2, up, n) /\ l2 \in L2
  BY DEF TypeFacts, Type
<1>3. push_transitions(t, "PPPOE") = Type(l2, <<"PPPOE">>, 0)
  BY <1>1, <1>2 DEF plain_push
<1> DEFINE u == Type(l2, <<"PPPOE">>, 0)
<1>4. Found(<<"PPPOE">>, 0)
  BY DEF Found
<1>5. Block(u) = "PPPOE" /\ Top(u) = "PPPOE"
  BY <1>4, Tops
<1>6. ~Backbone(u)
  BY <1>1, <1>2, Prefix
<1>7. push_transitions(u, "PPP") = pppoe_push(u, "PPP")
  BY <1>5, <1>6 DEF push_transitions
<1>8. pppoe_push(u, "PPP") = [u EXCEPT !.up = <<"PPPOE", "PPP">>]
  BY <1>5 DEF pppoe_push
<1>9. [u EXCEPT !.up = <<"PPPOE", "PPP">>] = Type(l2, <<"PPPOE", "PPP">>, 0)
  BY DEF Type
<1> QED
  BY <1>1, <1>3, <1>7, <1>8, <1>9

\* An I-SID and a GRE tunnel bring an Ethernet header of their own.
LEMMA PushFrame ==
    ASSUME NEW t, NEW l2, NEW up, NEW n, TypeFacts(t, l2, up, n)
    PROVE  /\ push_transitions(t, "ISID") # Invalid =>
                ~Backbone(t) /\ push_transitions(t, "ISID") = Type(<<"ETHERNET", "ISID">>, <<>>, 0)
           /\ push_transitions(t, "GRE4") # Invalid =>
                ~Backbone(t) /\ push_transitions(t, "GRE4") = Type(<<"ETHERNET">>, <<"IPV4", "GRE4">>, 0)
           /\ push_transitions(t, "GRE6") # Invalid =>
                ~Backbone(t) /\ push_transitions(t, "GRE6") = Type(<<"ETHERNET">>, <<"IPV6", "GRE6">>, 0)
<1>1. \A h \in {"ISID", "GRE4", "GRE6"} :
        push_transitions(t, h) # Invalid => ~Backbone(t) /\ push_transitions(t, h) = plain_push(t, h)
  BY PushCases
<1> QED
  BY <1>1 DEF plain_push

\* A GTP tunnel is only pushed behind an untagged Ethernet header.
LEMMA PushTunnel ==
    ASSUME NEW t, NEW l2, NEW up, NEW n, TypeFacts(t, l2, up, n),
           NEW g \in {"GTPU4", "GTPU6"}, push_transitions(t, g) # Invalid
    PROVE  /\ l2 \in {<<"ETHERNET">>, <<"8023">>} /\ ~Backbone(t)
           /\ push_transitions(t, g) = Type(l2, IF g = "GTPU4" THEN <<"IPV4", "UDP", g>> ELSE <<"IPV6", "UDP", g>>, 0)
<1>1. ~Backbone(t)
  BY DEF push_transitions
<1>2. t.l2 = l2 /\ t.up = up /\ t.n = n /\ Found(up, n) /\ l2 \in L2 /\ t = Type(l2, up, n)
  BY DEF TypeFacts, Type
<1> DEFINE P == push_transitions(t, g)
<1>3. P # Invalid
  OBVIOUS
<1>4. plain_push(t, g) = Invalid
  BY DEF plain_push
<1>5. \/ ip_push(t, g) = Invalid
      \/ Untagged(t) /\ ip_push(t, g) = Type(t.l2, IF g = "GTPU4" THEN <<"IPV4", "UDP", g>> ELSE <<"IPV6", "UDP", g>>, 0)
  BY <1>4 DEF ip_push
<1>6. gre_push(t, g) = ip_push(t, g)
  BY DEF gre_push
<1>7. P \in {plain_push(t, g), ip_push(t, g)}
  <2>1. CASE up = <<>>
    <3>1. Block(t) = "L2"
      BY <2>1, Tops DEF TypeFacts
    <3> QED
      BY <1>1, <3>1 DEF push_transitions
  <2>2. CASE up = <<"MPLS">>
    <3>1. Block(t) = "MPLS"
      BY <2>2, Tops DEF TypeFacts
    <3> QED
      BY <1>1, <3>1 DEF push_transitions, mpls_push
  <2>3. CASE up = <<"PPPOE">> \/ up = <<"PPPOE", "PPP">>
    <3>1. Block(t) = "PPPOE"
      BY <2>3, Tops DEF TypeFacts
    <3> QED
      BY <1>1, <3>1 DEF push_transitions, pppoe_push
  <2>4. CASE up = <<"ARPV4">>
    <3>1. Block(t) = "ARPV4"
      BY <2>4, Tops DEF TypeFacts
    <3> QED
      BY <1>1, <3>1 DEF push_transitions, arpv4_push
  <2>5. CASE up \in Ipv4Stacks
    <3>1. Block(t) \in {"IPV4", "ICMPV4", "TCP", "UDP", "GTPU4", "SCTP", "GRE4"}
      BY <2>5, Tops DEF TypeFacts, Ipv4Stacks
    <3>2. Block(t) \in {"IPV4", "ICMPV4", "TCP", "UDP", "SCTP"} => P = ip_push(t, g)
      BY <1>1 DEF push_transitions, ipv4_push, icmpv4_push, ipv4_tcp_push, ipv4_udp_push, ipv4_sctp_push
    <3>3. Block(t) = "GTPU4" => P = plain_push(t, g)
      BY <1>1 DEF push_transitions, gtpu4_push
    <3>4. Block(t) = "GRE4" => P = gre_push(t, g)
      BY <1>1 DEF push_transitions, gre4_push
    <3> QED
      BY <1>6, <3>1, <3>2, <3>3, <3>4
  <2>6. CASE up \in Ipv6Stacks \cup NeighbourStacks
    <3>1. Block(t) = "IPV6"
      BY <2>6, Tops DEF TypeFacts
    <3>2. P = ipv6_push(t, g)
      BY <1>1, <3>1 DEF push_transitions
    <3>3. ipv6_push(t, g) \in {plain_push(t, g), gre_push(t, g), ip_push(t, g)}
      BY DEF ipv6_push
    <3> QED
      BY <1>6, <3>2, <3>3
  <2>7. up \in Ipv4Stacks \cup Ipv6Stacks \cup NeighbourStacks \cup {<<>>, <<"MPLS">>, <<"PPPOE">>, <<"PPPOE", "PPP">>, <<"ARPV4">>}
    BY <1>2 DEF Found
  <2> QED
    BY <2>1, <2>2, <2>3, <2>4, <2>5, <2>6, <2>7
<1>8. Untagged(t) /\ P = Type(l2, IF g = "GTPU4" THEN <<"IPV4", "UDP", g>> ELSE <<"IPV6", "UDP", g>>, 0)
  BY <1>2, <1>3, <1>4, <1>5, <1>7
<1>9. l2 \in {<<"ETHERNET">>, <<"8023">>}
  BY <1>2, <1>8, Prefix
<1> QED
  BY <1>1, <1>8, <1>9

\* Tags and I-SIDs are popped whatever the headers behind them are.
LEMMA PopCases ==
    ASSUME NEW t, NEW l2, NEW up, NEW n, TypeFacts(t, l2, up, n), NEW h \in {"VLAN", "ISID", "MPLS"}
    PROVE  IF h = "MPLS" /\ up = <<"MPLS">> THEN pop_transitions(t, h) = mpls_pop(t, h)
           ELSE pop_transitions(t, h) = plain_pop(t, h)
<1>1. t.up = up /\ Found(up, n) /\ t = Type(l2, up, n)
  BY DEF TypeFacts, Type
<1> DEFINE P == pop_transitions(t, h)
<1>2. CASE up = <<>>
  <2>1. Block(t) = "L2"
    BY <1>2, Tops DEF TypeFacts
  <2> QED
    BY <1>2, <2>1 DEF pop_transitions
<1>3. CASE up = <<"MPLS">>
  <2>1. Block(t) = "MPLS"
    BY <1>3, Tops DEF TypeFacts
  <2>2. P = mpls_pop(t, h)
    BY <2>1 DEF pop_transitions
  <2>3. h # "MPLS" => mpls_pop(t, h) = plain_pop(t, h)
    BY DEF mpls_pop
  <2> QED
    BY <1>3, <2>2, <2>3
<1>4. CASE up = <<"PPPOE">> \/ up = <<"PPPOE", "PPP">>
  <2>1. Block(t) = "PPPOE"
    BY <1>4, Tops DEF TypeFacts
  <2>2. P = pppoe_pop(t, h)
    BY <2>1 DEF pop_transitions
  <2>3. pppoe_pop(t, h) = plain_pop(t, h)
    BY DEF pppoe_pop
  <2> QED
    BY <1>4, <2>2, <2>3
<1>5. CASE up = <<"ARPV4">>
  <2>1. Block(t) = "ARPV4"
    BY <1>5, Tops DEF TypeFacts
  <2> QED
    BY <1>5, <2>1 DEF pop_transitions, arpv4_pop
<1>6. CASE up \in Ipv4Stacks
  <2>1. Block(t) \in {"IPV4", "ICMPV4", "TCP", "UDP", "GTPU4", "SCTP", "GRE4"} /\ Top(t) = Block(t)
    BY <1>6, Tops DEF TypeFacts, Ipv4Stacks
  <2>2. tunnel_pop(t, h) = plain_pop(t, h)
    BY <2>1 DEF tunnel_pop
  <2>3. P = plain_pop(t, h)
    BY <2>1, <2>2 DEF pop_transitions, ipv4_pop, icmpv4_pop, ipv4_tcp_pop, ipv4_udp_pop, ipv4_sctp_pop, gtpu4_pop, gre4_pop
  <2>4. up # <<"MPLS">>
    BY <1>6 DEF Ipv4Stacks
  <2> QED
    BY <2>3, <2>4
<1>7. CASE up \in Ipv6Stacks \cup NeighbourStacks
  <2>1. Block(t) = "IPV6"
    BY <1>7, Tops DEF TypeFacts
  <2>2. P = ipv6_pop(t, h)
    BY <2>1 DEF pop_transitions
  <2>3. ipv6_pop(t, h) = plain_pop(t, h)
    BY DEF ipv6_pop, tunnel_pop
  <2>4. up # <<"MPLS">>
    BY <1>7 DEF Ipv6Stacks, NeighbourStacks
  <2> QED
    BY <2>2, <2>3, <2>4
<1>8. up \in Ipv4Stacks \cup Ipv6Stacks \cup NeighbourStacks \cup {<<>>, <<"MPLS">>, <<"PPPOE">>, <<"PPPOE", "PPP">>, <<"ARPV4">>}
  BY <1>1 DEF Found
<1> QED
  BY <1>2, <1>3, <1>4, <1>5, <1>6, <1>7, <1>8

\* A popped tag is the last one.
LEMMA PopVlan ==
    ASSUME NEW t, NEW l2, NEW up, NEW n, TypeFacts(t, l2, up, n), pop_transitions(t, "VLAN") # Invalid
    PROVE  \E a \in Link :
             \/ l2 = <<a, "VLAN">> /\ pop_transitions(t, "VLAN") = Type(<<a>>, up, n)
             \/ l2 = <<a, "VLAN", "VLAN">> /\ pop_transitions(t, "VLAN") = Type(<<a, "VLAN">>, up, n)
<1>1. pop_transitions(t, "VLAN") = plain_pop(t, "VLAN")
  BY PopCases
<1>2. t.l2 = l2 /\ t = Type(l2, up, n) /\ l2 \in L2
  BY DEF TypeFacts, Type
<1>3. /\ Len(l2) > 1 /\ ~Backbone(t)
      /\ pop_transitions(t, "VLAN") = [t EXCEPT !.l2 = SubSeq(@, 1, Len(@) - 1)]
  BY <1>1, <1>2 DEF plain_pop
<1>4. pop_transitions(t, "VLAN") = Type(SubSeq(l2, 1, Len(l2) - 1), up, n)
  BY <1>2, <1>3 DEF Type
<1>5. l2 \notin {<<"ETHERNET", "ISID">>, <<"ETHERNET", "VLAN", "ISID">>, <<"ETHERNET">>, <<"8023">>}
  BY <1>2, <1>3, Prefix
<1>6. \E a \in Link : l2 = <<a, "VLAN">> \/ l2 = <<a, "VLAN", "VLAN">>
  BY <1>2, <1>5 DEF L2, Link
<1>7. PICK a \in Link : l2 = <<a, "VLAN">> \/ l2 = <<a, "VLAN", "VLAN">>
  BY <1>6
<1>8. CASE l2 = <<a, "VLAN">>
  <2>1. Len(l2) - 1 = 1
    BY <1>8
  <2>2. SubSeq(l2, 1, Len(l2) - 1) = <<a>>
    BY <1>8, <2>1, Prefixes
  <2> QED
    BY <1>4, <1>8, <2>2
<1>9. CASE l2 = <<a, "VLAN", "VLAN">>
  <2>1. Len(l2) - 1 = 2
    BY <1>9
  <2>2. SubSeq(l2, 1, Len(l2) - 1) = <<a, "VLAN">>
    BY <1>9, <2>1, Prefixes
  <2> QED
    BY <1>4, <1>9, <2>2
<1> QED
  BY <1>7, <1>8, <1>9

\* A label is only popped off labels, an I-SID only right behind the Ethernet header.
LEMMA PopOthers ==
    ASSUME NEW t, NEW l2, NEW up, NEW n, TypeFacts(t, l2, up, n)
    PROVE  /\ pop_transitions(t, "MPLS") # Invalid => up = <<"MPLS">>
           /\ pop_transitions(t, "ISID") # Invalid => l2 = <<"ETHERNET", "ISID">>
<1>1. t.l2 = l2
  BY DEF TypeFacts, Type
<1>2. pop_transitions(t, "ISID") = plain_pop(t, "ISID")
  BY PopCases
<1>3. up # <<"MPLS">> => pop_transitions(t, "MPLS") = plain_pop(t, "MPLS")
  BY PopCases
<1> QED
  BY <1>1, <1>2, <1>3 DEF plain_pop

\* A tunnel is only popped when there is no tag in front of it.
LEMMA PopTunnel ==
    ASSUME NEW t, NEW l2, NEW up, NEW n, TypeFacts(t, l2, up, n)
    PROVE  \A h : up \in {<<"IPV4", "UDP", h>>, <<"IPV6", "UDP", h>>, <<"IPV4", h>>, <<"IPV6", h>>}
                    /\ h \in {"GTPU4", "GTPU6", "GRE4", "GRE6"} /\ pop_transitions(t, h) # Invalid
                  => l2 \in {<<"ETHERNET">>, <<"8023">>}
<1> SUFFICES ASSUME NEW h \in {"GTPU4", "GTPU6", "GRE4", "GRE6"}, pop_transitions(t, h) # Invalid,
                    up \in {<<"IPV4", "UDP", h>>, <<"IPV6", "UDP", h>>, <<"IPV4", h>>, <<"IPV6", h>>}
             PROVE  l2 \in {<<"ETHERNET">>, <<"8023">>}
  OBVIOUS
<1>1. t.up = up /\ Found(up, n) /\ t = Type(l2, up, n) /\ l2 \in L2
  BY DEF TypeFacts, Type
<1>2. up \in {<<"IPV4", "UDP", "GTPU4">>, <<"IPV4", "GRE4">>, <<"IPV6", "UDP", "GTPU6">>, <<"IPV6", "GRE6">>}
  <2>1. up \in Ipv4Stacks \cup Ipv6Stacks
    <3>1. \A x \in NeighbourStacks : x[2] = "ICMPV6"
      BY DEF NeighbourStacks
    <3>2. up[2] \in {"UDP", h} /\ Len(up) > 1
      OBVIOUS
    <3>3. up \notin NeighbourStacks
      BY <3>1, <3>2
    <3>4. up \notin {<<>>, <<"PPPOE">>, <<"PPPOE", "PPP">>, <<"ARPV4">>} /\ up # <<"MPLS">>
      BY <3>2
    <3> QED
      BY <1>1, <3>3, <3>4 DEF Found
  <2> QED
    BY <2>1 DEF Ipv4Stacks, Ipv6Stacks
<1>3. Top(t) = h /\ (Block(t) = h \/ Block(t) = "IPV6") /\ (h \in {"GTPU6", "GRE6"} <=> Block(t) = "IPV6")
  BY <1>2, Tops DEF TypeFacts, Ipv6Stacks
<1>4. pop_transitions(t, h) = tunnel_pop(t, h)
  <2>1. CASE Block(t) = "IPV6"
    BY <1>3, <2>1 DEF pop_transitions, ipv6_pop
  <2>2. CASE Block(t) = h
    BY <1>3, <2>2 DEF pop_transitions, gtpu4_pop, gre4_pop
  <2> QED
    BY <1>3, <2>1, <2>2
<1>5. Untagged(t)
  BY <1>3, <1>4 DEF tunnel_pop
<1> QED
  BY <1>1, <1>5, Prefix

-----------------------------------------------------------------------------
(* The offset table *)

L2Names == {"ETHERNET", "8023", "VLAN", "ISID"}

\* The lengths of the layer 2 prefixes.
LEMMA Lengths ==
    /\ L2Len(<<"ETHERNET">>) = 14 /\ L2Len(<<"8023">>) = 22
    /\ L2Len(<<"ETHERNET", "ISID">>) = 18 /\ L2Len(<<"ETHERNET", "VLAN", "ISID">>) = 22
    /\ L2Len(<<"ETHERNET", "VLAN">>) = 18 /\ L2Len(<<"ETHERNET", "VLAN", "VLAN">>) = 22
    /\ L2Len(<<"8023", "VLAN">>) = 26 /\ L2Len(<<"8023", "VLAN", "VLAN">>) = 30
BY DEF L2Len

\* Layer 2 prefixes have one to three headers.
LEMMA L2Elements ==
    ASSUME NEW l2 \in L2
    PROVE  {l2[i] : i \in DOMAIN l2} \subseteq L2Names /\ Len(l2) \in 1..3 /\ DOMAIN l2 = 1..Len(l2)
BY DEF L2, L2Names

\* No layer 2 header is found above layer 2.
LEMMA UpElements ==
    ASSUME NEW up, NEW n, Found(up, n)
    PROVE  /\ {up[i] : i \in DOMAIN up} \cap L2Names = {}
           /\ Len(up) \in 0..4 /\ DOMAIN up = 1..Len(up)
<1> DEFINE Ok == {up[i] : i \in DOMAIN up} \cap L2Names = {} /\ Len(up) \in 0..4 /\ DOMAIN up = 1..Len(up)
<1>1. CASE up \in {<<>>, <<"PPPOE">>, <<"PPPOE", "PPP">>, <<"ARPV4">>}
  BY <1>1 DEF L2Names
<1>2. CASE up = <<"MPLS">>
  BY <1>2 DEF L2Names
<1>3. CASE up \in Ipv4Stacks
  BY <1>3 DEF L2Names, Ipv4Stacks
<1>4. CASE up \in Ipv6Stacks
  BY <1>4 DEF L2Names, Ipv6Stacks
<1>5. CASE up \in NeighbourStacks
  BY <1>5, Neighbours DEF L2Names, NeighbourStacks
<1> QED
  BY <1>1, <1>2, <1>3, <1>4, <1>5 DEF Found

\* Where the tables have the headers of layer 2.
LEMMA OffsetsL2 ==
    ASSUME NEW l2 \in L2, NEW up, NEW n, Found(up, n)
    PROVE  LET t == Type(l2, up, n) IN
           /\ protocol_offsets_bt(t, l2[1]) = 0
           /\ Len(l2) > 1 => protocol_offsets_bt(t, l2[2]) = L2Len(<<l2[1]>>)
           /\ Len(l2) > 2 /\ l2[3] # l2[2] => protocol_offsets_bt(t, l2[3]) = L2Len(<<l2[1]>>) + 4
<1> DEFINE t == Type(l2, up, n)
<1>1. t.l2 = l2
  BY DEF Type
<1>2. \A i \in DOMAIN l2 : protocol_offsets_bt(t, l2[i]) = plain_offsets(t, l2[i])
  <2> TAKE i \in DOMAIN l2
  <2> DEFINE h == l2[i]
  <2>1. h \in {t.l2[k] : k \in DOMAIN t.l2}
    BY <1>1
  <2>2. h \in HeadersOf(t)
    BY <2>1 DEF HeadersOf
  <2>3. h \notin {t.up[k] : k \in DOMAIN t.up}
    BY L2Elements, UpElements DEF Type
  <2> HIDE DEF h, t
  <2>4. protocol_offsets_bt(t, h) = plain_offsets(t, h)
    BY <2>1, <2>2, <2>3 DEF protocol_offsets_bt
  <2> QED
    BY <2>4 DEF h
<1>3. DOMAIN l2 = 1..Len(l2) /\ Len(l2) \in 1..3
  BY L2Elements
<1>4. /\ Len(l2) > 1 => l2[2] # l2[1]
      /\ Len(l2) > 2 => l2[3] # l2[1]
  BY DEF L2
<1> HIDE DEF t
<1>5. plain_offsets(t, l2[1]) = 0
  BY <1>1 DEF plain_offsets
<1>6. Len(l2) > 1 => plain_offsets(t, l2[2]) = L2Len(<<l2[1]>>)
  BY <1>1, <1>4 DEF plain_offsets
<1>7. Len(l2) > 2 /\ l2[3] # l2[2] => plain_offsets(t, l2[3]) = L2Len(<<l2[1]>>) + 4
  BY <1>1, <1>4 DEF plain_offsets
<1> QED
  BY <1>2, <1>3, <1>5, <1>6, <1>7 DEF t

\* Where they have the headers above layer 2.
LEMMA OffsetOfUpper ==
    ASSUME NEW l2 \in L2, NEW up, NEW n, NEW h, h \in {up[i] : i \in DOMAIN up}, h \notin L2Names
    PROVE  LET t == Type(l2, up, n) IN
           /\ Block(t) = "IPV6" => protocol_offsets_bt(t, h) = ipv6_offsets(t, h)
           /\ Block(t) # "IPV6" => protocol_offsets_bt(t, h) = upper_offsets(t, h)
<1> DEFINE t == Type(l2, up, n)
<1>1. t.l2 = l2 /\ t.up = up
  BY DEF Type
<1>2. h \in HeadersOf(t) /\ h \in {t.up[i] : i \in DOMAIN t.up} /\ h \notin {t.l2[i] : i \in DOMAIN t.l2}
  BY <1>1, L2Elements DEF HeadersOf
<1> HIDE DEF t
<1> QED
  BY <1>2 DEF protocol_offsets_bt, t

\* The headers that come right behind layer 2, and PPP.
LEMMA OffsetsPlain ==
    ASSUME NEW l2 \in L2, NEW n
    PROVE  LET e == L2Len(l2) IN
           /\ Found(<<"MPLS">>, n) => protocol_offsets_bt(Type(l2, <<"MPLS">>, n), "MPLS") = e
           /\ Found(<<"PPPOE">>, n) => protocol_offsets_bt(Type(l2, <<"PPPOE">>, n), "PPPOE") = e
           /\ Found(<<"PPPOE", "PPP">>, n) =>
                /\ protocol_offsets_bt(Type(l2, <<"PPPOE", "PPP">>, n), "PPPOE") = e
                /\ protocol_offsets_bt(Type(l2, <<"PPPOE", "PPP">>, n), "PPP") = e + 6
           /\ Found(<<"ARPV4">>, n) => protocol_offsets_bt(Type(l2, <<"ARPV4">>, n), "ARPV4") = e
<1>1. \A u : Type(l2, u, n).l2 = l2
  BY DEF Type
<1>2. Found(<<"MPLS">>, n) => protocol_offsets_bt(Type(l2, <<"MPLS">>, n), "MPLS") = L2Len(l2)
  <2>1. Found(<<"MPLS">>, n) => Block(Type(l2, <<"MPLS">>, n)) # "IPV6"
    BY Tops
  <2>2. "MPLS" \in {<<"MPLS">>[i] : i \in DOMAIN <<"MPLS">>} /\ "MPLS" \notin L2Names
    BY DEF L2Names
  <2> QED
    BY <1>1, <2>1, <2>2, OffsetOfUpper DEF upper_offsets, mpls_offsets
<1>3. Found(<<"PPPOE">>, n) => protocol_offsets_bt(Type(l2, <<"PPPOE">>, n), "PPPOE") = L2Len(l2)
  <2>1. Found(<<"PPPOE">>, n) => Block(Type(l2, <<"PPPOE">>, n)) # "IPV6"
    BY Tops
  <2>2. "PPPOE" \in {<<"PPPOE">>[i] : i \in DOMAIN <<"PPPOE">>} /\ "PPPOE" \notin L2Names
    BY DEF L2Names
  <2> QED
    BY <1>1, <2>1, <2>2, OffsetOfUpper DEF upper_offsets, pppoe_offsets
<1>4. Found(<<"ARPV4">>, n) => protocol_offsets_bt(Type(l2, <<"ARPV4">>, n), "ARPV4") = L2Len(l2)
  <2>1. Found(<<"ARPV4">>, n) => Block(Type(l2, <<"ARPV4">>, n)) # "IPV6"
    BY Tops
  <2>2. "ARPV4" \in {<<"ARPV4">>[i] : i \in DOMAIN <<"ARPV4">>} /\ "ARPV4" \notin L2Names
    BY DEF L2Names
  <2> QED
    BY <1>1, <2>1, <2>2, OffsetOfUpper DEF upper_offsets, arpv4_offsets
<1>5. Found(<<"PPPOE", "PPP">>, n) =>
        /\ protocol_offsets_bt(Type(l2, <<"PPPOE", "PPP">>, n), "PPPOE") = L2Len(l2)
        /\ protocol_offsets_bt(Type(l2, <<"PPPOE", "PPP">>, n), "PPP") = L2Len(l2) + 6
  <2> DEFINE u == <<"PPPOE", "PPP">>
  <2>1. Found(u, n) => Block(Type(l2, u, n)) # "IPV6"
    BY Tops
  <2>2. \A h \in {"PPPOE", "PPP"} : h \in {u[i] : i \in DOMAIN u} /\ h \notin L2Names
    BY DEF L2Names
  <2> HIDE DEF u
  <2>3. Found(u, n) => \A h \in {"PPPOE", "PPP"} : protocol_offsets_bt(Type(l2, u, n), h) = upper_offsets(Type(l2, u, n), h)
    BY <2>1, <2>2, OffsetOfUpper
  <2>4. /\ upper_offsets(Type(l2, u, n), "PPPOE") = L2Len(l2)
        /\ upper_offsets(Type(l2, u, n), "PPP") = L2Len(l2) + 6
    BY <1>1 DEF upper_offsets, pppoe_offsets
  <2> QED
    BY <2>3, <2>4 DEF u
<1> QED
  BY <1>2, <1>3, <1>4, <1>5

\* The headers of an IPv4 packet are behind its options.
LEMMA OffsetsIpv4 ==
    ASSUME NEW l2 \in L2, NEW up \in Ipv4Stacks, NEW n \in 0..MaxOptions
    PROVE  LET t == Type(l2, up, n)  e == L2Len(l2) IN
           /\ protocol_offsets_bt(t, "IPV4") = e
           /\ Len(up) > 1 => protocol_offsets_bt(t, up[2]) = e + 20 + 4 * n
           /\ Len(up) > 2 => protocol_offsets_bt(t, up[3]) = e + 20 + 4 * n + 8
<1> DEFINE t == Type(l2, up, n)
<1>1. t.l2 = l2 /\ t.n = n
  BY DEF Type
<1>2. Found(up, n)
  BY DEF Found
<1>3. Block(t) # "IPV6"
  BY <1>2, Tops DEF Ipv4Stacks
<1>4. /\ Len(up) \in 1..3 /\ DOMAIN up = 1..Len(up)
      /\ up[1] = "IPV4"
      /\ Len(up) > 1 => up[2] \in {"ICMPV4", "TCP", "UDP", "SCTP", "GRE4"}
      /\ Len(up) > 2 => up[3] = "GTPU4"
  BY DEF Ipv4Stacks
<1>5. \A i \in 1..Len(up) : up[i] \in {up[k] : k \in DOMAIN up} /\ up[i] \notin L2Names
  BY <1>4 DEF L2Names
<1>6. \A i \in 1..Len(up) : protocol_offsets_bt(t, up[i]) = upper_offsets(t, up[i])
  BY <1>3, <1>5, OffsetOfUpper
<1> HIDE DEF t
<1>7. upper_offsets(t, "IPV4") = L2Len(l2)
  BY <1>1 DEF upper_offsets, ipv4_offsets
<1>8. \A h \in {"ICMPV4", "TCP", "UDP", "SCTP", "GRE4"} : upper_offsets(t, h) = L2Len(l2) + 20 + 4 * n
  BY <1>1 DEF upper_offsets, Ipv4End, icmpv4_offsets, ipv4_tcp_offsets, ipv4_udp_offsets, ipv4_sctp_offsets, gre4_offsets
<1>9. upper_offsets(t, "GTPU4") = L2Len(l2) + 20 + 4 * n + 8
  BY <1>1 DEF upper_offsets, gtpu4_offsets, Ipv4End
<1> QED
  BY <1>4, <1>6, <1>7, <1>8, <1>9 DEF t

\* The headers of an IPv6 packet are behind its 40 bytes.
LEMMA OffsetsIpv6 ==
    ASSUME NEW l2 \in L2, NEW up \in Ipv6Stacks \cup NeighbourStacks
    PROVE  LET t == Type(l2, up, 0)  e == L2Len(l2) IN
           /\ protocol_offsets_bt(t, "IPV6") = e
           /\ Len(up) > 1 => protocol_offsets_bt(t, up[2]) = e + 40
           /\ Len(up) > 2 => protocol_offsets_bt(t, up[3]) = e + (IF up[2] = "UDP" THEN 48 ELSE 44)
           /\ Len(up) > 3 => protocol_offsets_bt(t, up[4]) = e + 40 + MsgLen[up[3]]
<1> DEFINE t == Type(l2, up, 0)
<1>1. t.l2 = l2
  BY DEF Type
<1>2. Block(t) = "IPV6"
  BY Tops DEF Found
<1>3. /\ Len(up) \in 1..4 /\ DOMAIN up = 1..Len(up)
      /\ up[1] = "IPV6"
      /\ Len(up) > 1 => up[2] \in {"ICMPV6", "TCP", "UDP", "SCTP", "GRE6"}
      /\ Len(up) > 2 => (up[2] = "UDP" /\ up[3] = "GTPU6") \/ (up[2] = "ICMPV6" /\ up[3] \in NeighbourMsgs)
      /\ Len(up) > 3 => up[3] \in NeighbourMsgs /\ up[4] = NeighbourOption[up[3]]
  <2>1. CASE up \in Ipv6Stacks
    BY <2>1 DEF Ipv6Stacks
  <2>2. CASE up \in NeighbourStacks
    BY <2>2 DEF NeighbourStacks
  <2> QED
    BY <2>1, <2>2
<1>4. \A i \in 1..Len(up) : up[i] \in {up[k] : k \in DOMAIN up} /\ up[i] \notin L2Names
  BY <1>3, Neighbours DEF L2Names
<1>5. \A i \in 1..Len(up) : protocol_offsets_bt(t, up[i]) = ipv6_offsets(t, up[i])
  BY <1>2, <1>4, OffsetOfUpper
<1> HIDE DEF t
<1>6. ipv6_offsets(t, "IPV6") = L2Len(l2)
  BY <1>1, Neighbours DEF ipv6_offsets, Icmpv6Options
<1>7. \A h \in {"ICMPV6", "TCP", "UDP", "SCTP", "GRE6"} : ipv6_offsets(t, h) = L2Len(l2) + 40
  BY <1>1, Neighbours DEF ipv6_offsets, Icmpv6Options
<1>8. ipv6_offsets(t, "GTPU6") = L2Len(l2) + 48
  BY <1>1, Neighbours DEF ipv6_offsets, Icmpv6Options
<1>9. \A m \in NeighbourMsgs : ipv6_offsets(t, m) = L2Len(l2) + 44
  BY <1>1, Neighbours DEF ipv6_offsets, Icmpv6Options
<1>10. \A m \in NeighbourMsgs : ipv6_offsets(t, NeighbourOption[m]) = L2Len(l2) + 40 + MsgLen[m]
  <2> TAKE m \in NeighbourMsgs
  <2>1. \A k \in NeighbourMsgs : NeighbourOption[k] = NeighbourOption[m] => k = m
    BY Neighbours
  <2>2. (CHOOSE k \in NeighbourMsgs : NeighbourOption[k] = NeighbourOption[m]) = m
    BY <2>1, Zenon
  <2>3. /\ NeighbourOption[m] \notin NeighbourMsgs \cup Icmpv6Options
        /\ NeighbourOption[m] \notin {"IPV6", "ICMPV6", "TCP", "UDP", "SCTP", "GRE6", "GTPU6"}
    BY Neighbours DEF Icmpv6Options
  <2> DEFINE h == NeighbourOption[m]
  <2> HIDE DEF h
  <2>4. h \notin NeighbourMsgs \cup Icmpv6Options /\ h \notin {"IPV6", "ICMPV6", "TCP", "UDP", "SCTP", "GRE6", "GTPU6"}
        /\ (CHOOSE k \in NeighbourMsgs : NeighbourOption[k] = h) = m
    BY <2>2, <2>3 DEF h
  <2>5. ipv6_offsets(t, h) = L2Len(l2) + 40 + MsgLen[CHOOSE k \in NeighbourMsgs : NeighbourOption[k] = h]
    BY <1>1, <2>4 DEF ipv6_offsets
  <2> QED
    BY <2>4, <2>5 DEF h
<1> QED
  BY <1>3, <1>5, <1>6, <1>7, <1>8, <1>9, <1>10 DEF t

-----------------------------------------------------------------------------
(* What the classifier makes of a frame *)

\* A type with a layer 2 prefix is not PT_INVALID.
LEMMA NotInvalid ==
    ASSUME NEW l2 \in L2, NEW up, NEW n
    PROVE  Type(l2, up, n) # Invalid
<1>1. l2 # <<>>
  BY DEF L2
<1> QED
  BY <1>1 DEF Type, Invalid

\* One more header above layer 2.
LEMMA Extended ==
    \A l2, up, n, h, next :
      Extend(Type(l2, up, n), h, next) = IF h \in next THEN Type(l2, Append(up, h), n) ELSE Invalid
BY DEF Extend, Type

\* The first header above layer 2, or one more layer 2 header.
LEMMA AddsPlain ==
    ASSUME NEW l2 \in L2
    PROVE  /\ \A h \in {"PPPOE", "ARPV4", "IPV6"} : Add(Type(l2, <<>>, 0), h) = Type(l2, <<h>>, 0)
           /\ Add(Type(l2, <<>>, 0), "MPLS") = Type(l2, <<"MPLS">>, 1)
           /\ \A n \in 0..MaxOptions : parse_transitions(Type(l2, <<>>, 0), "IPV4", n) = Type(l2, <<"IPV4">>, n)
           /\ \A h \in {"VLAN", "ISID"} :
                Add(Type(l2, <<>>, 0), h) = IF Append(l2, h) \in L2 THEN Type(Append(l2, h), <<>>, 0) ELSE Type(l2, <<>>, 0)
<1> DEFINE t == Type(l2, <<>>, 0)
<1>1. Block(t) = "L2"
  BY Tops DEF Found
<1>2. \A h, n : parse_transitions(t, h, n) = plain_parse(t, h, n)
  BY <1>1 DEF parse_transitions
<1>3. t.l2 = l2 /\ t.up = <<>> /\ t.n = 0
  BY DEF Type
<1>4. \A h \in {"PPPOE", "ARPV4", "IPV6"} : plain_parse(t, h, 0) = Type(l2, <<h>>, 0)
  <2> TAKE h \in {"PPPOE", "ARPV4", "IPV6"}
  <2>1. plain_parse(t, h, 0) = Extend(t, h, {"PPPOE", "ARPV4", "IPV6"})
    BY DEF plain_parse
  <2> DEFINE none == <<>>
  <2> HIDE DEF none
  <2>3. Extend(Type(l2, none, 0), h, {"PPPOE", "ARPV4", "IPV6"}) =
          IF h \in {"PPPOE", "ARPV4", "IPV6"} THEN Type(l2, Append(none, h), 0) ELSE Invalid
    BY Extended
  <2>2. Extend(t, h, {"PPPOE", "ARPV4", "IPV6"}) = Type(l2, Append(<<>>, h), 0)
    BY <2>3 DEF none
  <2> QED
    BY <2>1, <2>2, Appended
<1>5. plain_parse(t, "MPLS", 0) = Type(l2, <<"MPLS">>, 1)
  BY <1>3 DEF plain_parse
<1>6. \A n \in 0..MaxOptions : plain_parse(t, "IPV4", n) = Type(l2, <<"IPV4">>, n)
  <2> TAKE n \in 0..MaxOptions
  <2>1. plain_parse(t, "IPV4", n) = ValidType([t EXCEPT !.up = <<"IPV4">>, !.n = n])
    BY DEF plain_parse
  <2>4. \A x, c : [t EXCEPT !.up = x, !.n = c] = Type(l2, x, c)
    <3> TAKE x, c
    <3>1. [t EXCEPT !.up = x] = [l2 |-> l2, up |-> x, n |-> 0]
      BY DEF Type
    <3>2. [[l2 |-> l2, up |-> x, n |-> 0] EXCEPT !.n = c] = [l2 |-> l2, up |-> x, n |-> c]
      OBVIOUS
    <3> HIDE DEF t
    <3>3. [[t EXCEPT !.up = x] EXCEPT !.n = c] = Type(l2, x, c)
      BY <3>1, <3>2 DEF Type
    <3> QED
      BY <3>3
  <2>2. [t EXCEPT !.up = <<"IPV4">>, !.n = n] = Type(l2, <<"IPV4">>, n)
    BY <2>4
  <2>3. Type(l2, <<"IPV4">>, n) \in Types
    BY FoundAreTypes DEF Found, Ipv4Stacks
  <2> QED
    BY <2>1, <2>2, <2>3 DEF ValidType
<1>7. \A h \in {"VLAN", "ISID"} :
        plain_parse(t, h, 0) = IF Append(l2, h) \in L2 THEN Type(Append(l2, h), <<>>, 0) ELSE Invalid
  <2> TAKE h \in {"VLAN", "ISID"}
  <2>1. plain_parse(t, h, 0) = IF Append(t.l2, h) \in L2 THEN [t EXCEPT !.l2 = Append(@, h)] ELSE Invalid
    BY DEF plain_parse
  <2>2. \A x : [t EXCEPT !.l2 = x] = Type(x, <<>>, 0)
    BY DEF Type
  <2>3. [t EXCEPT !.l2 = Append(@, h)] = Type(Append(l2, h), <<>>, 0)
    BY <1>3, <2>2
  <2> HIDE DEF t
  <2> QED
    BY <1>3, <2>1, <2>3
<1>8. \A x, u, n : x \in L2 => Type(x, u, n) # Invalid
  BY NotInvalid
<1> HIDE DEF t
<1>9. /\ \A h \in {"PPPOE", "ARPV4", "IPV6"} : Add(t, h) = Type(l2, <<h>>, 0)
      /\ Add(t, "MPLS") = Type(l2, <<"MPLS">>, 1)
  BY <1>2, <1>4, <1>5, <1>8 DEF Add
<1>10. \A h \in {"VLAN", "ISID"} : Add(t, h) = IF Append(l2, h) \in L2 THEN Type(Append(l2, h), <<>>, 0) ELSE t
  BY <1>2, <1>7, <1>8 DEF Add
<1> QED
  BY <1>2, <1>6, <1>9, <1>10 DEF t

\* One more label, and PPP behind PPPoE.
LEMMA AddsMore ==
    ASSUME NEW l2 \in L2
    PROVE  /\ \A n \in 1..MaxLabels :
                Add(Type(l2, <<"MPLS">>, n), "MPLS") = Type(l2, <<"MPLS">>, IF n < MaxLabels THEN n + 1 ELSE n)
           /\ Add(Type(l2, <<"PPPOE">>, 0), "PPP") = Type(l2, <<"PPPOE", "PPP">>, 0)
<1>0. \A x, u, n : x \in L2 => Type(x, u, n) # Invalid
  BY NotInvalid
<1>1. ASSUME NEW n \in 1..MaxLabels
      PROVE  Add(Type(l2, <<"MPLS">>, n), "MPLS") = Type(l2, <<"MPLS">>, IF n < MaxLabels THEN n + 1 ELSE n)
  <2> DEFINE t == Type(l2, <<"MPLS">>, n)
  <2>1. Block(t) = "MPLS" /\ t.n = n
    BY Tops DEF Found, Type
  <2>2. parse_transitions(t, "MPLS", 0) = mpls_parse(t, "MPLS")
    BY <2>1 DEF parse_transitions
  <2>3. mpls_parse(t, "MPLS") = IF n < MaxLabels THEN Type(l2, <<"MPLS">>, n + 1) ELSE Invalid
    BY DEF mpls_parse, Type
  <2> HIDE DEF t
  <2>4. Add(t, "MPLS") = IF n < MaxLabels THEN Type(l2, <<"MPLS">>, n + 1) ELSE t
    BY <1>0, <2>2, <2>3 DEF Add
  <2> QED
    BY <2>4 DEF t
<1>2. Add(Type(l2, <<"PPPOE">>, 0), "PPP") = Type(l2, <<"PPPOE", "PPP">>, 0)
  <2> DEFINE t == Type(l2, <<"PPPOE">>, 0)
  <2>1. Block(t) = "PPPOE" /\ Top(t) = "PPPOE"
    BY Tops DEF Found
  <2>2. parse_transitions(t, "PPP", 0) = pppoe_parse(t, "PPP")
    BY <2>1 DEF parse_transitions
  <2>3. pppoe_parse(t, "PPP") = Extend(t, "PPP", {"PPP"})
    BY <2>1 DEF pppoe_parse
  <2>4. Extend(t, "PPP", {"PPP"}) = Type(l2, <<"PPPOE", "PPP">>, 0)
    <3>1. Extend(Type(l2, <<"PPPOE">>, 0), "PPP", {"PPP"}) =
            IF "PPP" \in {"PPP"} THEN Type(l2, Append(<<"PPPOE">>, "PPP"), 0) ELSE Invalid
      BY Extended
    <3> QED
      BY <3>1, Appended
  <2> HIDE DEF t
  <2> QED
    BY <1>0, <2>2, <2>3, <2>4 DEF Add, t
<1> QED
  BY <1>1, <1>2

\* The headers that are looked for behind an IPv4 header.
LEMMA AddsIpv4 ==
    ASSUME NEW l2 \in L2, NEW n \in 0..MaxOptions
    PROVE  /\ \A h \in {"ICMPV4", "TCP", "UDP", "SCTP", "GRE4"} :
                Add(Type(l2, <<"IPV4">>, n), h) = Type(l2, <<"IPV4", h>>, n)
           /\ Add(Type(l2, <<"IPV4", "UDP">>, n), "GTPU4") = Type(l2, <<"IPV4", "UDP", "GTPU4">>, n)
<1>0. \A x, u, c : x \in L2 => Type(x, u, c) # Invalid
  BY NotInvalid
<1>1. \A h \in {"ICMPV4", "TCP", "UDP", "SCTP", "GRE4"} : Add(Type(l2, <<"IPV4">>, n), h) = Type(l2, <<"IPV4", h>>, n)
  <2> TAKE h \in {"ICMPV4", "TCP", "UDP", "SCTP", "GRE4"}
  <2> DEFINE t == Type(l2, <<"IPV4">>, n)
  <2>1. Block(t) = "IPV4"
    BY Tops DEF Found, Ipv4Stacks
  <2>2. parse_transitions(t, h, 0) = ipv4_parse(t, h)
    BY <2>1 DEF parse_transitions
  <2>3. ipv4_parse(t, h) = Type(l2, Append(<<"IPV4">>, h), n)
    BY Extended DEF ipv4_parse
  <2>4. Append(<<"IPV4">>, h) = <<"IPV4", h>>
    BY Appended
  <2> HIDE DEF t
  <2>5. parse_transitions(t, h, 0) = Type(l2, <<"IPV4", h>>, n)
    BY <2>2, <2>3, <2>4
  <2>6. Type(l2, <<"IPV4", h>>, n) # Invalid
    BY <1>0
  <2>7. Add(t, h) = Type(l2, <<"IPV4", h>>, n)
    BY <2>5, <2>6 DEF Add
  <2> QED
    BY <2>7 DEF t
<1>2. Add(Type(l2, <<"IPV4", "UDP">>, n), "GTPU4") = Type(l2, <<"IPV4", "UDP", "GTPU4">>, n)
  <2> DEFINE t == Type(l2, <<"IPV4", "UDP">>, n)
  <2>1. Block(t) = "UDP"
    BY Tops DEF Found, Ipv4Stacks
  <2>2. parse_transitions(t, "GTPU4", 0) = ipv4_udp_parse(t, "GTPU4")
    BY <2>1 DEF parse_transitions
  <2>3. ipv4_udp_parse(t, "GTPU4") = Type(l2, Append(<<"IPV4", "UDP">>, "GTPU4"), n)
    BY Extended DEF ipv4_udp_parse
  <2>4. Append(<<"IPV4", "UDP">>, "GTPU4") = <<"IPV4", "UDP", "GTPU4">>
    BY Appended
  <2> HIDE DEF t
  <2>5. parse_transitions(t, "GTPU4", 0) = Type(l2, <<"IPV4", "UDP", "GTPU4">>, n)
    BY <2>2, <2>3, <2>4
  <2>6. Type(l2, <<"IPV4", "UDP", "GTPU4">>, n) # Invalid
    BY <1>0
  <2>7. Add(t, "GTPU4") = Type(l2, <<"IPV4", "UDP", "GTPU4">>, n)
    BY <2>5, <2>6 DEF Add
  <2> QED
    BY <2>7 DEF t
<1> QED
  BY <1>1, <1>2

\* The headers that are looked for behind an IPv6 header.
LEMMA AddsIpv6 ==
    ASSUME NEW l2 \in L2
    PROVE  /\ \A h \in {"ICMPV6", "TCP", "UDP", "SCTP", "GRE6"} :
                Add(Type(l2, <<"IPV6">>, 0), h) = Type(l2, <<"IPV6", h>>, 0)
           /\ Add(Type(l2, <<"IPV6", "UDP">>, 0), "GTPU6") = Type(l2, <<"IPV6", "UDP", "GTPU6">>, 0)
           /\ \A m \in NeighbourMsgs :
                /\ Add(Type(l2, <<"IPV6", "ICMPV6">>, 0), m) = Type(l2, <<"IPV6", "ICMPV6", m>>, 0)
                /\ Add(Type(l2, <<"IPV6", "ICMPV6", m>>, 0), NeighbourOption[m]) =
                     Type(l2, <<"IPV6", "ICMPV6", m, NeighbourOption[m]>>, 0)
<1>0. \A x, u, c : x \in L2 => Type(x, u, c) # Invalid
  BY NotInvalid
<1>1. ASSUME NEW up \in Ipv6Stacks \cup NeighbourStacks, NEW h, NEW v,
             v = Append(up, h), ipv6_parse(Type(l2, up, 0), h) = Type(l2, v, 0)
      PROVE  Add(Type(l2, up, 0), h) = Type(l2, v, 0)
  <2> DEFINE t == Type(l2, up, 0)
  <2>1. Block(t) = "IPV6"
    BY Tops DEF Found
  <2>2. parse_transitions(t, h, 0) = ipv6_parse(t, h)
    BY <2>1 DEF parse_transitions
  <2>3. ipv6_parse(t, h) = Type(l2, v, 0)
    BY <1>1
  <2> HIDE DEF t
  <2> QED
    BY <1>0, <2>2, <2>3 DEF Add, t
<1>2. ASSUME NEW h \in {"ICMPV6", "TCP", "UDP", "SCTP", "GRE6"}
      PROVE  Add(Type(l2, <<"IPV6">>, 0), h) = Type(l2, <<"IPV6", h>>, 0)
  <2>1. <<"IPV6">> \in Ipv6Stacks
    BY DEF Ipv6Stacks
  <2>2. Top(Type(l2, <<"IPV6">>, 0)) = "IPV6"
    BY <2>1, Tops DEF Found
  <2>3. ipv6_parse(Type(l2, <<"IPV6">>, 0), h) = Extend(Type(l2, <<"IPV6">>, 0), h, {"ICMPV6", "TCP", "UDP", "SCTP", "GRE6"})
    BY <2>2, Neighbours DEF ipv6_parse
  <2>4. ipv6_parse(Type(l2, <<"IPV6">>, 0), h) = Type(l2, Append(<<"IPV6">>, h), 0)
    BY <2>3, Extended
  <2>5. Append(<<"IPV6">>, h) = <<"IPV6", h>>
    BY Appended
  <2> DEFINE up == <<"IPV6">>
  <2> HIDE DEF up
  <2>6. Add(Type(l2, up, 0), h) = Type(l2, Append(up, h), 0)
    BY <1>1, <2>1, <2>4 DEF up
  <2> QED
    BY <2>5, <2>6 DEF up
<1>3. Add(Type(l2, <<"IPV6", "UDP">>, 0), "GTPU6") = Type(l2, <<"IPV6", "UDP", "GTPU6">>, 0)
  <2>1. <<"IPV6", "UDP">> \in Ipv6Stacks
    BY DEF Ipv6Stacks
  <2>2. Top(Type(l2, <<"IPV6", "UDP">>, 0)) = "UDP"
    BY <2>1, Tops DEF Found
  <2>3. ipv6_parse(Type(l2, <<"IPV6", "UDP">>, 0), "GTPU6") = Extend(Type(l2, <<"IPV6", "UDP">>, 0), "GTPU6", {"GTPU6"})
    BY <2>2, Neighbours DEF ipv6_parse
  <2>4. ipv6_parse(Type(l2, <<"IPV6", "UDP">>, 0), "GTPU6") = Type(l2, Append(<<"IPV6", "UDP">>, "GTPU6"), 0)
    BY <2>3, Extended
  <2>5. Append(<<"IPV6", "UDP">>, "GTPU6") = <<"IPV6", "UDP", "GTPU6">>
    BY Appended
  <2> DEFINE up == <<"IPV6", "UDP">>
  <2> HIDE DEF up
  <2>6. Add(Type(l2, up, 0), "GTPU6") = Type(l2, Append(up, "GTPU6"), 0)
    BY <1>1, <2>1, <2>4 DEF up
  <2> QED
    BY <2>5, <2>6 DEF up
<1>4. ASSUME NEW m \in NeighbourMsgs
      PROVE  Add(Type(l2, <<"IPV6", "ICMPV6">>, 0), m) = Type(l2, <<"IPV6", "ICMPV6", m>>, 0)
  <2>1. <<"IPV6", "ICMPV6">> \in Ipv6Stacks
    BY DEF Ipv6Stacks
  <2>2. Top(Type(l2, <<"IPV6", "ICMPV6">>, 0)) = "ICMPV6"
    BY <2>1, Tops DEF Found
  <2>3. ipv6_parse(Type(l2, <<"IPV6", "ICMPV6">>, 0), m) = Extend(Type(l2, <<"IPV6", "ICMPV6">>, 0), m, NeighbourMsgs \cup Icmpv6Options)
    BY <2>2, Neighbours DEF ipv6_parse
  <2>4. ipv6_parse(Type(l2, <<"IPV6", "ICMPV6">>, 0), m) = Type(l2, Append(<<"IPV6", "ICMPV6">>, m), 0)
    BY <2>3, Extended
  <2>5. Append(<<"IPV6", "ICMPV6">>, m) = <<"IPV6", "ICMPV6", m>>
    BY Appended
  <2> DEFINE up == <<"IPV6", "ICMPV6">>
  <2> HIDE DEF up
  <2>6. Add(Type(l2, up, 0), m) = Type(l2, Append(up, m), 0)
    BY <1>1, <2>1, <2>4 DEF up
  <2> QED
    BY <2>5, <2>6 DEF up
<1>5. ASSUME NEW m \in NeighbourMsgs
      PROVE  Add(Type(l2, <<"IPV6", "ICMPV6", m>>, 0), NeighbourOption[m]) = Type(l2, <<"IPV6", "ICMPV6", m, NeighbourOption[m]>>, 0)
  <2> DEFINE up == <<"IPV6", "ICMPV6", m>>
  <2>1. up \in NeighbourStacks
    BY DEF NeighbourStacks
  <2>2. Top(Type(l2, up, 0)) = m
    BY <2>1, Tops DEF Found
  <2>3. Append(up, NeighbourOption[m]) = <<"IPV6", "ICMPV6", m, NeighbourOption[m]>>
    BY Appended
  <2> HIDE DEF up
  <2>4. ipv6_parse(Type(l2, up, 0), NeighbourOption[m]) = Extend(Type(l2, up, 0), NeighbourOption[m], {NeighbourOption[m]})
    BY <2>2, Neighbours DEF ipv6_parse
  <2>6. ipv6_parse(Type(l2, up, 0), NeighbourOption[m]) = Type(l2, Append(up, NeighbourOption[m]), 0)
    BY <2>4, Extended
  <2>5. Add(Type(l2, up, 0), NeighbourOption[m]) = Type(l2, Append(up, NeighbourOption[m]), 0)
    BY <1>1, <2>1, <2>6
  <2> QED
    BY <2>3, <2>5 DEF up
<1> QED
  BY <1>2, <1>3, <1>4, <1>5

-----------------------------------------------------------------------------
(* Labels *)

\* From piece i on there are m labels, as far as the classifier looks.
LabelRun(f, i, m) ==
    /\ \A j \in i..(i + m - 2) : f[j].next = "MPLS"
    /\ m = MaxLabels \/ f[i + m - 1].next # "MPLS"

Labels(f, i) == CHOOSE m \in 1..MaxLabels : LabelRun(f, i, m)

\* The run of labels has a length.
LEMMA LabelsExist ==
    ASSUME NEW f, NEW i \in Nat
    PROVE  Labels(f, i) \in 1..MaxLabels /\ LabelRun(f, i, Labels(f, i))
<1> DEFINE All(k) == \A j \in i..(i + k - 1) : f[j].next = "MPLS"
<1> DEFINE Some == \E m \in 1..MaxLabels : LabelRun(f, i, m)
<1> DEFINE Reached == {k \in Nat : k < MaxLabels => All(k) \/ Some}
<1>0. MaxLabels = 32
  BY DEF MaxLabels
<1>1. 0 \in Reached
  OBVIOUS
<1>2. \A k \in Reached : k + 1 \in Reached
  <2> SUFFICES ASSUME NEW k \in Reached, k + 1 < MaxLabels, ~Some  PROVE All(k + 1)
    OBVIOUS
  <2>1. k \in Nat /\ All(k)
    BY <1>0
  <2>2. f[i + k].next = "MPLS"
    <3> SUFFICES ASSUME f[i + k].next # "MPLS"  PROVE FALSE
      OBVIOUS
    <3>1. k + 1 \in 1..MaxLabels /\ i + (k + 1) - 1 = i + k /\ i + (k + 1) - 2 = i + k - 1
      BY <1>0, <2>1
    <3>2. LabelRun(f, i, k + 1)
      BY <2>1, <3>1 DEF LabelRun
    <3> QED
      BY <3>1, <3>2
  <2> SUFFICES ASSUME NEW j \in i..(i + (k + 1) - 1)  PROVE f[j].next = "MPLS"
    OBVIOUS
  <2>3. j = i + k \/ j \in i..(i + k - 1)
    BY <2>1
  <2> QED
    BY <2>1, <2>2, <2>3
<1>3. Reached \in SUBSET Nat
  OBVIOUS
<1>4. Reached = Nat
  <2> HIDE DEF Reached
  <2> QED
    BY <1>1, <1>2, <1>3, Induction
<1>5. 31 \in Reached
  <2> HIDE DEF Reached
  <2> QED
    BY <1>4
<1>6. All(31) => LabelRun(f, i, 32)
  <2>1. i + 31 - 1 = i + 32 - 2
    OBVIOUS
  <2> QED
    BY <1>0, <2>1 DEF LabelRun
<1>7. \E m \in 1..MaxLabels : LabelRun(f, i, m)
  BY <1>0, <1>5, <1>6
<1> DEFINE Is(m) == m \in 1..MaxLabels /\ LabelRun(f, i, m)
<1>8. \E m : Is(m)
  BY <1>7
<1>9. Labels(f, i) = CHOOSE m : Is(m)
  BY DEF Labels
<1>10. Is(CHOOSE m : Is(m))
  <2> HIDE DEF Is
  <2> QED
    BY <1>8
<1> QED
  BY <1>9, <1>10

\* The run of labels has one length only.
LEMMA LabelsUnique ==
    ASSUME NEW f, NEW i \in Nat, NEW m \in 1..MaxLabels, LabelRun(f, i, m)
    PROVE  Labels(f, i) = m
<1>1. ASSUME NEW a \in 1..MaxLabels, NEW b \in 1..MaxLabels, LabelRun(f, i, a), LabelRun(f, i, b), a < b
      PROVE  FALSE
  <2>1. MaxLabels = 32
    BY DEF MaxLabels
  <2>2. i + a - 1 \in i..(i + b - 2) /\ a # MaxLabels
    BY <1>1, <2>1
  <2> QED
    BY <1>1, <2>2 DEF LabelRun
<1> DEFINE c == Labels(f, i)
<1>2. c \in 1..MaxLabels /\ LabelRun(f, i, c)
  BY LabelsExist
<1> HIDE DEF c
<1>3. ~(c < m) /\ ~(m < c)
  BY <1>1, <1>2
<1>4. c = m
  BY <1>2, <1>3
<1> QED
  BY <1>4 DEF c

\* The loop over the labels counts them.
LEMMA ParseMpls ==
    ASSUME NEW f, NEW i \in Nat, NEW l2 \in L2
    PROVE  parse_mpls(f, i, Type(l2, <<>>, 0)) = Type(l2, <<"MPLS">>, Labels(f, i))
<1> DEFINE t == Type(l2, <<>>, 0)
<1> DEFINE m == Labels(f, i)
<1> DEFINE Min(k) == IF k <= m THEN k ELSE m
<1> DEFINE val(k) == IF k = 0 THEN t ELSE Type(l2, <<"MPLS">>, Min(k))
<1> DEFINE End(k) == \E j \in i..(i + k - 2) : f[j].next # "MPLS"
<1> DEFINE IsRun(g) == g = [k \in 0..(MaxLabels + 1) |->
                              IF k = 0 THEN t ELSE IF End(k) THEN g[k - 1] ELSE Add(g[k - 1], "MPLS")]
<1>0. MaxLabels = 32
  BY DEF MaxLabels
<1>1. m \in 1..32 /\ (\A j \in i..(i + m - 2) : f[j].next = "MPLS") /\ (m = 32 \/ f[i + m - 1].next # "MPLS")
  BY <1>0, LabelsExist DEF LabelRun
<1> HIDE DEF m
<1>2. ASSUME NEW k \in 1..33
      PROVE  val(k) = IF End(k) THEN val(k - 1) ELSE Add(val(k - 1), "MPLS")
  <2>1. CASE k = 1
    <3>1. ~End(k)
      BY <2>1
    <3>2. val(1) = Type(l2, <<"MPLS">>, 1) /\ val(1 - 1) = t
      BY <1>1
    <3>3. Add(t, "MPLS") = Type(l2, <<"MPLS">>, 1)
      BY AddsPlain
    <3> QED
      BY <2>1, <3>1, <3>2, <3>3
  <2>2. CASE k > 1 /\ k <= m
    <3>1. i..(i + k - 2) \subseteq i..(i + m - 2)
      BY <1>1, <2>2
    <3>2. ~End(k)
      BY <1>1, <3>1
    <3>3. val(k) = Type(l2, <<"MPLS">>, k) /\ val(k - 1) = Type(l2, <<"MPLS">>, k - 1)
      BY <1>1, <2>2
    <3>4. k - 1 \in 1..MaxLabels /\ k - 1 < MaxLabels /\ (k - 1) + 1 = k
      BY <1>0, <1>1, <2>2
    <3>5. Add(Type(l2, <<"MPLS">>, k - 1), "MPLS") = Type(l2, <<"MPLS">>, k)
      BY <3>4, AddsMore
    <3> QED
      BY <3>2, <3>3, <3>5
  <2>3. CASE k > 1 /\ k > m
    <3>1. val(k) = Type(l2, <<"MPLS">>, m) /\ val(k - 1) = Type(l2, <<"MPLS">>, m)
      <4>1. Min(k) = m /\ Min(k - 1) = m
        BY <1>1, <2>3
      <4> QED
        BY <4>1, <2>3
    <3>2. CASE m = 32
      <4>1. Add(Type(l2, <<"MPLS">>, m), "MPLS") = Type(l2, <<"MPLS">>, m)
        BY <1>0, <3>2, AddsMore
      <4> QED
        BY <3>1, <4>1
    <3>3. CASE f[i + m - 1].next # "MPLS"
      <4>1. i + m - 1 \in i..(i + k - 2)
        BY <1>1, <2>3
      <4>2. End(k)
        BY <3>3, <4>1
      <4> QED
        BY <3>1, <4>2
    <3> QED
      BY <1>1, <3>2, <3>3
  <2> QED
    BY <1>1, <2>1, <2>2, <2>3
<1> HIDE DEF val, End
<1>3. val(0) = t
  BY DEF val
<1>4. \E g : IsRun(g)
  <2> DEFINE g == [k \in 0..33 |-> val(k)]
  <2>1. \A k \in 1..33 : g[k] = val(k) /\ g[k - 1] = val(k - 1)
    OBVIOUS
  <2>2. g = [k \in 0..33 |-> IF k = 0 THEN t ELSE IF End(k) THEN g[k - 1] ELSE Add(g[k - 1], "MPLS")]
    <3>1. \A k \in 0..33 : val(k) = IF k = 0 THEN t ELSE IF End(k) THEN g[k - 1] ELSE Add(g[k - 1], "MPLS")
      <4> TAKE k \in 0..33
      <4> HIDE DEF g, t
      <4>1. CASE k = 0
        BY <1>3, <4>1
      <4>2. CASE k # 0
        <5>1. k \in 1..33
          BY <4>2
        <5> QED
          BY <1>2, <2>1, <4>2, <5>1
      <4> QED
        BY <4>1, <4>2
    <3> QED
      BY <3>1
  <2>3. MaxLabels + 1 = 33
    BY <1>0
  <2>4. IsRun(g)
    BY <2>2, <2>3
  <2> QED
    BY <2>4
<1> DEFINE labelled == CHOOSE g : IsRun(g)
<1>5. IsRun(labelled)
  <2> HIDE DEF IsRun
  <2> QED
    BY <1>4
<1>6. parse_mpls(f, i, t) = labelled[33]
  <2>1. MaxLabels + 1 = 33
    BY <1>0
  <2> QED
    BY <2>1 DEF parse_mpls, End
<1> HIDE DEF labelled
<1>7. /\ labelled[0] = t
      /\ \A k \in 1..33 : labelled[k] = IF End(k) THEN labelled[k - 1] ELSE Add(labelled[k - 1], "MPLS")
  <2>1. MaxLabels + 1 = 33
    BY <1>0
  <2>2. labelled = [k \in 0..33 |-> IF k = 0 THEN t ELSE IF End(k) THEN labelled[k - 1] ELSE Add(labelled[k - 1], "MPLS")]
    BY <1>5, <2>1
  <2>3. \A k \in 0..33 : labelled[k] = IF k = 0 THEN t ELSE IF End(k) THEN labelled[k - 1] ELSE Add(labelled[k - 1], "MPLS")
    BY <2>2
  <2> QED
    BY <2>3
<1> DEFINE Reached == {k \in Nat : k <= 33 => labelled[k] = val(k)}
<1>8. 0 \in Reached
  BY <1>3, <1>7
<1>9. \A k \in Reached : k + 1 \in Reached
  <2> SUFFICES ASSUME NEW k \in Reached, k + 1 <= 33  PROVE labelled[k + 1] = val(k + 1)
    OBVIOUS
  <2>1. k + 1 \in 1..33 /\ (k + 1) - 1 = k /\ labelled[k] = val(k)
    OBVIOUS
  <2>2. val(k + 1) = IF End(k + 1) THEN val(k) ELSE Add(val(k), "MPLS")
    BY <1>2, <2>1
  <2>3. labelled[k + 1] = IF End(k + 1) THEN labelled[k] ELSE Add(labelled[k], "MPLS")
    BY <1>7, <2>1
  <2> QED
    BY <2>1, <2>2, <2>3
<1>10. Reached \in SUBSET Nat
  OBVIOUS
<1>11. 33 \in Reached
  <2> HIDE DEF Reached
  <2> QED
    BY <1>8, <1>9, <1>10, Induction
<1>12. labelled[33] = val(33)
  BY <1>11
<1>13. val(33) = Type(l2, <<"MPLS">>, m)
  BY <1>1 DEF val
<1> QED
  BY <1>6, <1>12, <1>13 DEF m

\* The headers that the classifier finds from piece i on, behind the ethertype `next'.
Tunnelled(f, i) == f[i].next = "GTPU" /\ ~(Bytes(f) - Start(f, i + 1) < 12)
Ipv4Up(f, i) ==
    CASE f[i].next = "FRAGMENT" -> <<>>
      [] f[i].next \in {"ICMPV4", "TCP", "SCTP"} -> <<"IPV4", f[i].next>>
      [] f[i].next = "UDP" -> IF Tunnelled(f, i + 1) THEN <<"IPV4", "UDP", "GTPU4">> ELSE <<"IPV4", "UDP">>
      [] f[i].next = "GRE" -> <<"IPV4", "GRE4">>
      [] OTHER -> <<"IPV4">>

Icmpv6Up(f, i) ==
    IF f[i].next \notin NeighbourMsgs THEN <<"IPV6", "ICMPV6">>
    ELSE IF f[i + 1].next = NeighbourOption[f[i].next]
         THEN <<"IPV6", "ICMPV6", f[i].next, NeighbourOption[f[i].next]>>
         ELSE <<"IPV6", "ICMPV6", f[i].next>>

Ipv6Up(f, i) ==
    CASE f[i].next \in {"TCP", "SCTP"} -> <<"IPV6", f[i].next>>
      [] f[i].next = "ICMPV6" -> Icmpv6Up(f, i + 1)
      [] f[i].next = "UDP" -> IF Tunnelled(f, i + 1) THEN <<"IPV6", "UDP", "GTPU6">> ELSE <<"IPV6", "UDP">>
      [] f[i].next = "GRE" -> <<"IPV6", "GRE6">>
      [] OTHER -> <<"IPV6">>

PppoeUp(f, i) == IF f[i].next = "PPP" THEN <<"PPPOE", "PPP">> ELSE <<"PPPOE">>
UpperUp(f, i, next) ==
    CASE next = "ARPV4" -> <<"ARPV4">>
      [] next = "MPLS" -> <<"MPLS">>
      [] next = "PPPOE" -> PppoeUp(f, i)
      [] next = "IPV4" -> Ipv4Up(f, i)
      [] next = "IPV6" -> Ipv6Up(f, i)
      [] OTHER -> <<>>

UpperN(f, i, next) ==
    CASE next = "MPLS" -> Labels(f, i)
      [] next = "IPV4" /\ f[i].next # "FRAGMENT" -> f[i].n
      [] OTHER -> 0

\* A tunnel gets the name of the IP version it is on.
LEMMA HasIpv4 ==
    ASSUME NEW l2 \in L2, NEW n
    PROVE  /\ \A up \in Ipv4Stacks : "IPV4" \in HeadersOf(Type(l2, up, n))
           /\ \A up \in Ipv6Stacks : "IPV4" \notin HeadersOf(Type(l2, up, n))
<1>1. "IPV4" \notin {l2[i] : i \in DOMAIN l2}
  BY L2Elements DEF L2Names
<1>2. ASSUME NEW up \in Ipv4Stacks  PROVE "IPV4" \in {up[i] : i \in DOMAIN up}
  BY DEF Ipv4Stacks
<1>3. ASSUME NEW up \in Ipv6Stacks  PROVE "IPV4" \notin {up[i] : i \in DOMAIN up}
  BY DEF Ipv6Stacks
<1>4. \A up : HeadersOf(Type(l2, up, n)) = {l2[i] : i \in DOMAIN l2} \cup {up[i] : i \in DOMAIN up}
  BY DEF HeadersOf, Type
<1> QED
  BY <1>1, <1>2, <1>3, <1>4

\* What is found behind an IPv4 ethertype is a stack of the tables.
LEMMA Ipv4UpFound ==
    ASSUME NEW f, NEW i
    PROVE  IF f[i].next = "FRAGMENT" THEN Ipv4Up(f, i) = <<>> ELSE Ipv4Up(f, i) \in Ipv4Stacks
BY DEF Ipv4Up, Ipv4Stacks

\* What is found behind an IPv6 ethertype is a stack of the tables.
LEMMA Ipv6UpFound ==
    ASSUME NEW f, NEW i
    PROVE  Ipv6Up(f, i) \in Ipv6Stacks \cup NeighbourStacks
<1>1. Icmpv6Up(f, i + 1) \in {<<"IPV6", "ICMPV6">>} \cup NeighbourStacks
  BY DEF Icmpv6Up, NeighbourStacks
<1>2. Ipv6Up(f, i) \in Ipv6Stacks \cup {Icmpv6Up(f, i + 1)}
  BY DEF Ipv6Up, Ipv6Stacks
<1>3. <<"IPV6", "ICMPV6">> \in Ipv6Stacks
  BY DEF Ipv6Stacks
<1> QED
  BY <1>1, <1>2, <1>3

\* parse_udp finds UDP, and GTP when there is room for it.
LEMMA ParseUdp ==
    ASSUME NEW f, NEW i, NEW l2 \in L2, NEW n \in 0..MaxOptions
    PROVE  /\ parse_udp(f, i, Type(l2, <<"IPV4">>, n)) =
                Type(l2, IF Tunnelled(f, i) THEN <<"IPV4", "UDP", "GTPU4">> ELSE <<"IPV4", "UDP">>, n)
           /\ parse_udp(f, i, Type(l2, <<"IPV6">>, 0)) =
                Type(l2, IF Tunnelled(f, i) THEN <<"IPV6", "UDP", "GTPU6">> ELSE <<"IPV6", "UDP">>, 0)
<1>1. /\ Add(Type(l2, <<"IPV4">>, n), "UDP") = Type(l2, <<"IPV4", "UDP">>, n)
      /\ Add(Type(l2, <<"IPV4", "UDP">>, n), "GTPU4") = Type(l2, <<"IPV4", "UDP", "GTPU4">>, n)
  BY AddsIpv4
<1>2. /\ Add(Type(l2, <<"IPV6">>, 0), "UDP") = Type(l2, <<"IPV6", "UDP">>, 0)
      /\ Add(Type(l2, <<"IPV6", "UDP">>, 0), "GTPU6") = Type(l2, <<"IPV6", "UDP", "GTPU6">>, 0)
  BY AddsIpv6
<1>3. "IPV4" \in HeadersOf(Type(l2, <<"IPV4", "UDP">>, n))
  <2>1. <<"IPV4", "UDP">> \in Ipv4Stacks
    BY DEF Ipv4Stacks
  <2> QED
    BY <2>1, HasIpv4
<1>4. "IPV4" \notin HeadersOf(Type(l2, <<"IPV6", "UDP">>, 0))
  <2>1. <<"IPV6", "UDP">> \in Ipv6Stacks
    BY DEF Ipv6Stacks
  <2> QED
    BY <2>1, HasIpv4
<1> DEFINE a == Type(l2, <<"IPV4">>, n)
<1> DEFINE b == Type(l2, <<"IPV6">>, 0)
<1> DEFINE c == Type(l2, <<"IPV4", "UDP">>, n)
<1> DEFINE d == Type(l2, <<"IPV6", "UDP">>, 0)
<1> DEFINE x == Type(l2, <<"IPV4", "UDP", "GTPU4">>, n)
<1> DEFINE y == Type(l2, <<"IPV6", "UDP", "GTPU6">>, 0)
<1> HIDE DEF a, b, c, d, x, y
<1>5. Add(a, "UDP") = c /\ Add(c, "GTPU4") = x /\ Add(b, "UDP") = d /\ Add(d, "GTPU6") = y
  BY <1>1, <1>2 DEF a, b, c, d, x, y
<1>6. "IPV4" \in HeadersOf(c) /\ "IPV4" \notin HeadersOf(d)
  BY <1>3, <1>4 DEF c, d
<1>7. parse_udp(f, i, a) = IF Tunnelled(f, i) THEN x ELSE c
  BY <1>5, <1>6 DEF parse_udp, parse_gtp, Tunnelled
<1>8. parse_udp(f, i, b) = IF Tunnelled(f, i) THEN y ELSE d
  BY <1>5, <1>6 DEF parse_udp, parse_gtp, Tunnelled
<1> QED
  BY <1>7, <1>8 DEF a, b, c, d, x, y

\* parse_ipv4 keeps the number of option words; a fragment is not looked into.
LEMMA ParseIpv4 ==
    ASSUME NEW f, NEW i, NEW l2 \in L2, f[i].n \in 0..MaxOptions
    PROVE  parse_ipv4(f, i, Type(l2, <<>>, 0)) =
             Type(l2, Ipv4Up(f, i), IF f[i].next = "FRAGMENT" THEN 0 ELSE f[i].n)
<1> DEFINE t == Type(l2, <<>>, 0)
<1> DEFINE n == f[i].n
<1> DEFINE u == Type(l2, <<"IPV4">>, n)
<1> DEFINE next == f[i].next
<1>1. parse_transitions(t, "IPV4", n) = u
  BY AddsPlain
<1>2. \A h \in {"ICMPV4", "TCP", "SCTP", "GRE4"} : Add(u, h) = Type(l2, <<"IPV4", h>>, n)
  BY AddsIpv4
<1>3. parse_udp(f, i + 1, u) = Type(l2, IF Tunnelled(f, i + 1) THEN <<"IPV4", "UDP", "GTPU4">> ELSE <<"IPV4", "UDP">>, n)
  BY ParseUdp
<1>4. parse_gre(u) = Add(u, "GRE4")
  <2>1. "IPV4" \in HeadersOf(u)
    BY HasIpv4 DEF Ipv4Stacks
  <2> QED
    BY <2>1 DEF parse_gre
<1> HIDE DEF t, u
<1>5. parse_ipv4(f, i, t) =
        CASE next = "FRAGMENT" -> t
          [] next \in {"ICMPV4", "TCP", "SCTP"} -> Add(u, next)
          [] next = "UDP" -> parse_udp(f, i + 1, u)
          [] next = "GRE" -> parse_gre(u)
          [] OTHER -> u
  BY <1>1 DEF parse_ipv4
<1>6. CASE next = "FRAGMENT"
  BY <1>5, <1>6 DEF Ipv4Up, t
<1>7. CASE next \in {"ICMPV4", "TCP", "SCTP"}
  BY <1>2, <1>5, <1>7 DEF Ipv4Up, t
<1>8. CASE next = "UDP"
  BY <1>3, <1>5, <1>8 DEF Ipv4Up, t
<1>9. CASE next = "GRE"
  BY <1>2, <1>4, <1>5, <1>9 DEF Ipv4Up, t
<1>10. CASE next \notin {"FRAGMENT", "ICMPV4", "TCP", "SCTP", "UDP", "GRE"}
  BY <1>5, <1>10 DEF Ipv4Up, t, u
<1> QED
  BY <1>6, <1>7, <1>8, <1>9, <1>10

\* parse_ipv6 and the neighbour discovery messages.
LEMMA ParseIpv6 ==
    ASSUME NEW f, NEW i, NEW l2 \in L2
    PROVE  parse_ipv6(f, i, Type(l2, <<>>, 0)) = Type(l2, Ipv6Up(f, i), 0)
<1> DEFINE t == Type(l2, <<>>, 0)
<1> DEFINE u == Type(l2, <<"IPV6">>, 0)
<1> DEFINE c == Type(l2, <<"IPV6", "ICMPV6">>, 0)
<1> DEFINE next == f[i].next
<1>1. Add(t, "IPV6") = u
  BY AddsPlain
<1>2. \A h \in {"ICMPV6", "TCP", "SCTP", "GRE6"} : Add(u, h) = Type(l2, <<"IPV6", h>>, 0)
  BY AddsIpv6
<1>3. parse_udp(f, i + 1, u) = Type(l2, IF Tunnelled(f, i + 1) THEN <<"IPV6", "UDP", "GTPU6">> ELSE <<"IPV6", "UDP">>, 0)
  <2>1. 0 \in 0..MaxOptions
    BY DEF MaxOptions
  <2> QED
    BY <2>1, ParseUdp
<1>4. parse_gre(u) = Add(u, "GRE6")
  <2>1. "IPV4" \notin HeadersOf(u)
    BY HasIpv4 DEF Ipv6Stacks
  <2> QED
    BY <2>1 DEF parse_gre
<1>5. Add(u, "ICMPV6") = c
  BY <1>2
<1>6. \A m \in NeighbourMsgs :
        /\ Add(c, m) = Type(l2, <<"IPV6", "ICMPV6", m>>, 0)
        /\ Add(Add(c, m), NeighbourOption[m]) = Type(l2, <<"IPV6", "ICMPV6", m, NeighbourOption[m]>>, 0)
  <2> TAKE m \in NeighbourMsgs
  <2>1. Add(c, m) = Type(l2, <<"IPV6", "ICMPV6", m>>, 0)
    BY AddsIpv6
  <2>2. Add(Type(l2, <<"IPV6", "ICMPV6", m>>, 0), NeighbourOption[m]) = Type(l2, <<"IPV6", "ICMPV6", m, NeighbourOption[m]>>, 0)
    BY AddsIpv6
  <2> QED
    BY <2>1, <2>2
<1> HIDE DEF t, u, c
<1>7. parse_icmpv6(f, i + 1, u) = Type(l2, Icmpv6Up(f, i + 1), 0)
  <2> DEFINE m == f[i + 1].next
  <2>1. parse_icmpv6(f, i + 1, u) =
          IF m \notin NeighbourMsgs THEN c
          ELSE IF f[(i + 1) + 1].next = NeighbourOption[m] THEN Add(Add(c, m), NeighbourOption[m]) ELSE Add(c, m)
    BY <1>5 DEF parse_icmpv6
  <2>2. CASE m \notin NeighbourMsgs
    BY <2>1, <2>2 DEF Icmpv6Up, c
  <2>3. CASE m \in NeighbourMsgs
    <3> DEFINE two == <<"IPV6", "ICMPV6", m>>
    <3> DEFINE three == <<"IPV6", "ICMPV6", m, NeighbourOption[m]>>
    <3>1. Icmpv6Up(f, i + 1) = IF f[(i + 1) + 1].next = NeighbourOption[m] THEN three ELSE two
      BY <2>3 DEF Icmpv6Up
    <3>2. Add(c, m) = Type(l2, two, 0) /\ Add(Add(c, m), NeighbourOption[m]) = Type(l2, three, 0)
      BY <1>6, <2>3
    <3> HIDE DEF two, three
    <3> QED
      BY <2>1, <2>3, <3>1, <3>2
  <2> QED
    BY <2>2, <2>3
<1>8. parse_ipv6(f, i, t) =
        CASE next \in {"TCP", "SCTP"} -> Add(u, next)
          [] next = "ICMPV6" -> parse_icmpv6(f, i + 1, u)
          [] next = "UDP" -> parse_udp(f, i + 1, u)
          [] next = "GRE" -> parse_gre(u)
          [] OTHER -> u
  BY <1>1 DEF parse_ipv6
<1>9. CASE next \in {"TCP", "SCTP"}
  BY <1>2, <1>8, <1>9 DEF Ipv6Up, t
<1>10. CASE next = "ICMPV6"
  BY <1>7, <1>8, <1>10 DEF Ipv6Up, t
<1>11. CASE next = "UDP"
  BY <1>3, <1>8, <1>11 DEF Ipv6Up, t
<1>12. CASE next = "GRE"
  BY <1>2, <1>4, <1>8, <1>12 DEF Ipv6Up, t
<1>13. CASE next \notin {"ICMPV6", "TCP", "SCTP", "UDP", "GRE"}
  BY <1>8, <1>13 DEF Ipv6Up, t, u
<1> QED
  BY <1>9, <1>10, <1>11, <1>12, <1>13

\* The headers above layer 2 do not depend on the tags in front of them.
LEMMA ParseEthertype ==
    ASSUME NEW f, NEW i \in Nat, NEW l2 \in L2, NEW next, next # "ISID",
           next = "IPV4" => f[i].n \in 0..MaxOptions
    PROVE  /\ parse_ethertype(f, i, Type(l2, <<>>, 0), next) = Type(l2, UpperUp(f, i, next), UpperN(f, i, next))
           /\ Found(UpperUp(f, i, next), UpperN(f, i, next))
<1> DEFINE t == Type(l2, <<>>, 0)
<1> DEFINE P == parse_ethertype(f, i, t, next)
<1>1. CASE next = "ARPV4"
  <2>1. P = Type(l2, <<"ARPV4">>, 0)
    BY <1>1, AddsPlain DEF parse_ethertype
  <2> QED
    BY <1>1, <2>1 DEF UpperUp, UpperN, Found
<1>2. CASE next = "MPLS"
  <2>1. P = Type(l2, <<"MPLS">>, Labels(f, i))
    BY <1>2, ParseMpls DEF parse_ethertype
  <2>2. Labels(f, i) \in 1..MaxLabels
    BY LabelsExist
  <2> QED
    BY <1>2, <2>1, <2>2 DEF UpperUp, UpperN, Found
<1>3. CASE next = "PPPOE"
  <2>1. Add(t, "PPPOE") = Type(l2, <<"PPPOE">>, 0) /\ Add(Type(l2, <<"PPPOE">>, 0), "PPP") = Type(l2, <<"PPPOE", "PPP">>, 0)
    BY AddsPlain, AddsMore
  <2>2. P = Type(l2, PppoeUp(f, i), 0)
    <3>1. P = parse_pppoe(f, i, t)
      BY <1>3 DEF parse_ethertype
    <3> HIDE DEF P, t
    <3> QED
      BY <2>1, <3>1 DEF parse_pppoe, PppoeUp
  <2>3. Found(PppoeUp(f, i), 0)
    BY DEF PppoeUp, Found
  <2> QED
    BY <1>3, <2>2, <2>3 DEF UpperUp, UpperN
<1>4. CASE next = "IPV4"
  <2>1. P = Type(l2, Ipv4Up(f, i), IF f[i].next = "FRAGMENT" THEN 0 ELSE f[i].n)
    BY <1>4, ParseIpv4 DEF parse_ethertype
  <2>2. UpperUp(f, i, next) = Ipv4Up(f, i) /\ UpperN(f, i, next) = IF f[i].next = "FRAGMENT" THEN 0 ELSE f[i].n
    BY <1>4 DEF UpperUp, UpperN
  <2>3. Found(Ipv4Up(f, i), IF f[i].next = "FRAGMENT" THEN 0 ELSE f[i].n)
    BY <1>4, Ipv4UpFound DEF Found
  <2> QED
    BY <2>1, <2>2, <2>3
<1>5. CASE next = "IPV6"
  <2>1. P = Type(l2, Ipv6Up(f, i), 0)
    BY <1>5, ParseIpv6 DEF parse_ethertype
  <2>2. UpperUp(f, i, next) = Ipv6Up(f, i) /\ UpperN(f, i, next) = 0
    BY <1>5 DEF UpperUp, UpperN
  <2>3. Found(Ipv6Up(f, i), 0)
    BY Ipv6UpFound DEF Found
  <2> QED
    BY <2>1, <2>2, <2>3
<1>6. CASE next \notin {"ARPV4", "MPLS", "PPPOE", "IPV4", "IPV6"}
  <2>1. P = t
    BY <1>6 DEF parse_ethertype
  <2> QED
    BY <1>6, <2>1 DEF UpperUp, UpperN, Found
<1> QED
  BY <1>1, <1>2, <1>3, <1>4, <1>5, <1>6

-----------------------------------------------------------------------------
(* What the classifier has found is there *)

\* What each header may announce.
LEMMA CarriesFacts ==
    /\ \A h \in Link \cup {"VLAN"} : Carries(h) = Ethertypes
    /\ Carries("MPLS") = {"MPLS"} /\ Carries("PPPOE") = {"PPP"} /\ Carries("UDP") = {"GTPU"}
    /\ Carries("IPV4") = IpProtocols \cup {"ICMPV4"} /\ Carries("IPV6") = IpProtocols \cup {"ICMPV6"}
    /\ Carries("ICMPV6") = NeighbourMsgs
    /\ \A m \in NeighbourMsgs : Carries(m) = {NeighbourOption[m]}
    /\ \A h \in {"ISID", "PPP", "GTPU", "GRE"} : Carries(h) = {}
<1>1. \A h \in {"ISID", "PPP", "GTPU", "GRE"} : Carries(h) = {}
  BY Neighbours DEF Carries, Link
<1>2. \A m \in NeighbourMsgs : Carries(m) = {NeighbourOption[m]}
  BY Neighbours DEF Carries, Link
<1>3. \A h \in Link \cup {"VLAN"} : Carries(h) = Ethertypes
  BY Neighbours DEF Carries, Link
<1> QED
  BY <1>1, <1>2, <1>3, Neighbours DEF Carries, Link

\* What is behind a piece of a complete frame.
LEMMA CompleteFacts ==
    ASSUME NEW f, Complete(f)
    PROVE  /\ f \in Frames /\ Len(f) \in Nat /\ Len(f) > 1 /\ f[1].h \in Link
           /\ \A i \in 1..Len(f) :
                /\ f[i] \in Pieces
                /\ f[i].h \in FixedLength => f[i].n = 0
                /\ f[i].h = "IPV4" => f[i].n \in 0..MaxOptions
                /\ f[i].next \in Carries(f[i].h) => i + 1 \in 1..Len(f) /\ f[i + 1].h = f[i].next
                /\ f[i].h \in Carriers => i + 1 \in 1..Len(f)
                /\ BringsFrame(f[i]) => i + 1 \in 1..Len(f) /\ f[i + 1].h \in Link
<1>1. f \in Frames /\ Len(f) > 0 /\ f[1].h \in Link
  BY DEF Complete, Frames
<1>2. Len(f) \in Nat /\ DOMAIN f = 1..Len(f) /\ \A i \in 1..Len(f) : f[i] \in Pieces
  BY <1>1, FrameFacts
<1>3. \A i \in 1..Len(f) :
         /\ f[i].h \in FixedLength => f[i].n = 0
         /\ f[i].h = "IPV4" => f[i].n <= MaxOptions
         /\ f[i].next \in Carries(f[i].h) => i < Len(f) /\ f[i + 1].h = f[i].next
         /\ f[i].h \in Carriers => i < Len(f)
         /\ BringsFrame(f[i]) => i < Len(f) /\ f[i + 1].h \in Link
  BY <1>2 DEF Complete
<1>4. \A i \in 1..Len(f) : f[i].n \in Nat
  BY <1>2 DEF Pieces
<1>5. \A i \in 1..Len(f) : i < Len(f) => i + 1 \in 1..Len(f)
  BY <1>2
<1>6. ASSUME NEW i \in 1..Len(f), f[i].h = "IPV4" PROVE f[i].n \in 0..MaxOptions
  <2>1. f[i].n <= MaxOptions
    BY <1>3, <1>6
  <2>2. f[i].n \in Nat /\ MaxOptions \in Nat
    BY <1>4 DEF MaxOptions
  <2>3. \A a, b \in Nat : a <= b => a \in 0..b
    OBVIOUS
  <2>. QED  BY <2>1, <2>2, <2>3
<1>7. 1 \in 1..Len(f) /\ 1 < Len(f)
  BY <1>1, <1>2, <1>3 DEF Carriers
<1> QED
  BY <1>1, <1>2, <1>3, <1>5, <1>6, <1>7

\* The piece under a header's name in the tables.
Raw(h) == IF h \in {"GTPU4", "GTPU6"} THEN "GTPU" ELSE IF h \in {"GRE4", "GRE6"} THEN "GRE" ELSE h
UpMatches(f, b, up, n) ==
    /\ b + Len(up) <= Len(f)
    /\ \A i \in 1..Len(up) : f[b + i].h = Raw(up[i])
    /\ up # <<>> => f[b].next = up[1]
    /\ up # <<>> /\ up[1] = "IPV4" => f[b + 1].n = n

L2Matches(f, l2) ==
    /\ Len(l2) < Len(f)
    /\ \A i \in 1..Len(l2) : f[i].h = l2[i]
    /\ \A i \in 1..(Len(l2) - 1) : f[i].next = l2[i + 1]

Matches(f, t) == Seen(t) /\ L2Matches(f, t.l2) /\ UpMatches(f, Len(t.l2), t.up, t.n)

\* One header above layer 2 is there.
LEMMA Up1 ==
    ASSUME NEW f \in Frames, NEW b \in Nat, NEW x, NEW n, NEW h,
           b + 1 \in 1..Len(f), f[b].next = x, f[b + 1].h = h, h = Raw(x), x = "IPV4" => f[b + 1].n = n
    PROVE  UpMatches(f, b, <<x>>, n)
<1>1. Len(<<x>>) = 1 /\ <<x>>[1] = x /\ <<x>> # <<>>
  OBVIOUS
<1> DEFINE up == <<x>>
<1> HIDE DEF up
<1>2. UpMatches(f, b, up, n)
  <2>1. Len(up) = 1 /\ up[1] = x
    BY <1>1 DEF up
  <2>2. \A i \in 1..Len(up) : i = 1
    BY <2>1
  <2> QED
    BY <2>1, <2>2 DEF UpMatches
<1> QED
  BY <1>2 DEF up

\* Two headers above layer 2 are there.
LEMMA Up2 ==
    ASSUME NEW f \in Frames, NEW b \in Nat, NEW x, NEW y, NEW n,
           b + 1 \in 1..Len(f), f[b].next = x, f[b + 1].h = Raw(x), x = "IPV4" => f[b + 1].n = n,
           b + 2 \in 1..Len(f), f[b + 2].h = Raw(y)
    PROVE  UpMatches(f, b, <<x, y>>, n)
<1> DEFINE up == <<x, y>>
<1>1. Len(up) = 2 /\ up[1] = x /\ up[2] = y
  OBVIOUS
<1> HIDE DEF up
<1>2. \A i \in 1..Len(up) : i = 1 \/ i = 2
  BY <1>1
<1>3. UpMatches(f, b, up, n)
  BY <1>1, <1>2 DEF UpMatches
<1> QED
  BY <1>3 DEF up

\* Three headers above layer 2 are there.
LEMMA Up3 ==
    ASSUME NEW f \in Frames, NEW b \in Nat, NEW x, NEW y, NEW z, NEW n,
           b + 1 \in 1..Len(f), f[b].next = x, f[b + 1].h = Raw(x), x = "IPV4" => f[b + 1].n = n,
           b + 2 \in 1..Len(f), f[b + 2].h = Raw(y), b + 3 \in 1..Len(f), f[b + 3].h = Raw(z)
    PROVE  UpMatches(f, b, <<x, y, z>>, n)
<1> DEFINE up == <<x, y, z>>
<1>1. Len(up) = 3 /\ up[1] = x /\ up[2] = y /\ up[3] = z
  OBVIOUS
<1> HIDE DEF up
<1>2. \A i \in 1..Len(up) : i = 1 \/ i = 2 \/ i = 3
  BY <1>1
<1>3. UpMatches(f, b, up, n)
  BY <1>1, <1>2 DEF UpMatches
<1> QED
  BY <1>3 DEF up

\* Four headers above layer 2 are there.
LEMMA Up4 ==
    ASSUME NEW f \in Frames, NEW b \in Nat, NEW x, NEW y, NEW z, NEW w, NEW n,
           b + 1 \in 1..Len(f), f[b].next = x, f[b + 1].h = Raw(x), x = "IPV4" => f[b + 1].n = n,
           b + 2 \in 1..Len(f), f[b + 2].h = Raw(y), b + 3 \in 1..Len(f), f[b + 3].h = Raw(z),
           b + 4 \in 1..Len(f), f[b + 4].h = Raw(w)
    PROVE  UpMatches(f, b, <<x, y, z, w>>, n)
<1> DEFINE up == <<x, y, z, w>>
<1>1. Len(up) = 4 /\ up[1] = x /\ up[2] = y /\ up[3] = z /\ up[4] = w
  OBVIOUS
<1> HIDE DEF up
<1>2. \A i \in 1..Len(up) : i = 1 \/ i = 2 \/ i = 3 \/ i = 4
  BY <1>1
<1>3. UpMatches(f, b, up, n)
  BY <1>1, <1>2 DEF UpMatches
<1> QED
  BY <1>3 DEF up

\* The headers that the classifier finds above layer 2 are there.
LEMMA UpperMatches ==
    ASSUME NEW f, Complete(f), NEW k \in 1..Len(f), f[k].h \in Link \cup {"VLAN"}, f[k].next # "ISID"
    PROVE  UpMatches(f, k, UpperUp(f, k + 1, f[k].next), UpperN(f, k + 1, f[k].next))
<1> DEFINE next == f[k].next
<1> DEFINE up == UpperUp(f, k + 1, next)
<1> DEFINE n == UpperN(f, k + 1, next)
<1>1. f \in Frames /\ k \in Nat /\ Len(f) \in Nat
  BY CompleteFacts
<1>2. next \in Ethertypes => k + 1 \in 1..Len(f) /\ f[k + 1].h = next
  BY CompleteFacts, CarriesFacts
<1>3. \A i \in 1..Len(f) : f[i].next \in Carries(f[i].h) => i + 1 \in 1..Len(f) /\ f[i + 1].h = f[i].next
  BY CompleteFacts
<1>4. (k + 1) + 1 = k + 2 /\ (k + 2) + 1 = k + 3 /\ (k + 3) + 1 = k + 4
  BY <1>1
<1>5. CASE next = "ARPV4"
  <2>1. up = <<"ARPV4">> /\ Raw("ARPV4") = "ARPV4"
    BY <1>5 DEF UpperUp, Raw
  <2> QED
    BY <1>1, <1>2, <1>5, <2>1, Up1 DEF Ethertypes
<1>6. CASE next = "MPLS"
  <2>1. up = <<"MPLS">> /\ Raw("MPLS") = "MPLS"
    BY <1>6 DEF UpperUp, Raw
  <2> QED
    BY <1>1, <1>2, <1>6, <2>1, Up1 DEF Ethertypes
<1>7. CASE next = "PPPOE"
  <2>1. k + 1 \in 1..Len(f) /\ f[k + 1].h = "PPPOE" /\ Raw("PPPOE") = "PPPOE" /\ Raw("PPP") = "PPP"
    BY <1>2, <1>7 DEF Ethertypes, Raw
  <2>2. up = IF f[k + 1].next = "PPP" THEN <<"PPPOE", "PPP">> ELSE <<"PPPOE">>
    BY <1>7 DEF UpperUp, PppoeUp
  <2>3. CASE f[k + 1].next = "PPP"
    <3>1. k + 2 \in 1..Len(f) /\ f[k + 2].h = "PPP"
      BY <1>3, <1>4, <2>1, <2>3, CarriesFacts
    <3> QED
      BY <1>1, <1>7, <2>1, <2>2, <2>3, <3>1, Up2
  <2>4. CASE f[k + 1].next # "PPP"
    BY <1>1, <1>7, <2>1, <2>2, <2>4, Up1
  <2> QED
    BY <2>3, <2>4
<1>8. \A j \in 1..Len(f) : f[j].h = "UDP" /\ Tunnelled(f, j) => j + 1 \in 1..Len(f) /\ f[j + 1].h = "GTPU"
  BY <1>3, CarriesFacts DEF Tunnelled
<1>9. CASE next = "IPV4"
  <2>1. k + 1 \in 1..Len(f) /\ f[k + 1].h = "IPV4" /\ Raw("IPV4") = "IPV4"
    BY <1>2, <1>9 DEF Ethertypes, Raw
  <2> DEFINE p == f[k + 1].next
  <2>2. up = Ipv4Up(f, k + 1) /\ (p # "FRAGMENT" => n = f[k + 1].n)
    BY <1>9 DEF UpperUp, UpperN
  <2>3. p \in {"ICMPV4", "TCP", "UDP", "SCTP", "GRE"} => k + 2 \in 1..Len(f) /\ f[k + 2].h = p
    BY <1>3, <1>4, <2>1, CarriesFacts DEF IpProtocols
  <2> HIDE DEF n
  <2>4. CASE p = "FRAGMENT"
    <3>1. up = <<>> /\ Len(<<>>) = 0
      BY <2>2, <2>4 DEF Ipv4Up
    <3> QED
      BY <1>1, <3>1 DEF UpMatches, n
  <2>5. CASE p \in {"ICMPV4", "TCP", "SCTP"}
    <3>1. up = <<"IPV4", p>> /\ Raw(p) = p /\ n = f[k + 1].n
      BY <2>2, <2>5 DEF Ipv4Up, Raw
    <3>2. k + 2 \in 1..Len(f) /\ f[k + 2].h = p
      BY <2>3, <2>5
    <3> HIDE DEF up, p
    <3>3. UpMatches(f, k, <<"IPV4", p>>, n)
      BY <1>1, <1>9, <2>1, <3>1, <3>2, Up2
    <3> QED
      BY <3>1, <3>3 DEF up, p, n
  <2>6. CASE p = "UDP"
    <3>1. up = (IF Tunnelled(f, k + 2) THEN <<"IPV4", "UDP", "GTPU4">> ELSE <<"IPV4", "UDP">>) /\ n = f[k + 1].n
      BY <1>4, <2>2, <2>6 DEF Ipv4Up
    <3>2. k + 2 \in 1..Len(f) /\ f[k + 2].h = "UDP" /\ Raw("UDP") = "UDP" /\ Raw("GTPU4") = "GTPU"
      BY <2>3, <2>6 DEF Raw
    <3>3. CASE Tunnelled(f, k + 2)
      <4>1. k + 3 \in 1..Len(f) /\ f[k + 3].h = "GTPU"
        BY <1>4, <1>8, <3>2, <3>3
      <4>2. UpMatches(f, k, <<"IPV4", "UDP", "GTPU4">>, n)
        BY <1>1, <1>9, <2>1, <3>1, <3>2, <4>1, Up3
      <4> QED
        BY <3>1, <3>3, <4>2 DEF n
    <3>4. CASE ~Tunnelled(f, k + 2)
      <4>1. UpMatches(f, k, <<"IPV4", "UDP">>, n)
        BY <1>1, <1>9, <2>1, <3>1, <3>2, Up2
      <4> QED
        BY <3>1, <3>4, <4>1 DEF n
    <3> QED
      BY <3>3, <3>4
  <2>7. CASE p = "GRE"
    <3>1. up = <<"IPV4", "GRE4">> /\ Raw("GRE4") = "GRE" /\ n = f[k + 1].n
      BY <2>2, <2>7 DEF Ipv4Up, Raw
    <3>2. k + 2 \in 1..Len(f) /\ f[k + 2].h = "GRE"
      BY <2>3, <2>7
    <3>3. UpMatches(f, k, <<"IPV4", "GRE4">>, n)
      BY <1>1, <1>9, <2>1, <3>1, <3>2, Up2
    <3> QED
      BY <3>1, <3>3 DEF n
  <2>8. CASE p \notin {"FRAGMENT", "ICMPV4", "TCP", "SCTP", "UDP", "GRE"}
    <3>1. up = <<"IPV4">> /\ n = f[k + 1].n
      BY <2>2, <2>8 DEF Ipv4Up
    <3>2. UpMatches(f, k, <<"IPV4">>, n)
      BY <1>1, <1>9, <2>1, <3>1, Up1
    <3> QED
      BY <3>1, <3>2 DEF n
  <2> QED
    BY <2>4, <2>5, <2>6, <2>7, <2>8
<1>10. CASE next = "IPV6"
  <2>1. k + 1 \in 1..Len(f) /\ f[k + 1].h = "IPV6" /\ Raw("IPV6") = "IPV6"
    BY <1>2, <1>10 DEF Ethertypes, Raw
  <2> DEFINE p == f[k + 1].next
  <2>2. up = Ipv6Up(f, k + 1)
    BY <1>10 DEF UpperUp
  <2>3. p \in {"ICMPV6", "TCP", "UDP", "SCTP", "GRE"} => k + 2 \in 1..Len(f) /\ f[k + 2].h = p
    BY <1>3, <1>4, <2>1, CarriesFacts DEF IpProtocols
  <2> HIDE DEF n
  <2>5. CASE p \in {"TCP", "SCTP"}
    <3>1. up = <<"IPV6", p>> /\ Raw(p) = p
      BY <2>2, <2>5 DEF Ipv6Up, Raw
    <3>2. k + 2 \in 1..Len(f) /\ f[k + 2].h = p
      BY <2>3, <2>5
    <3> HIDE DEF up, p
    <3>3. UpMatches(f, k, <<"IPV6", p>>, n)
      BY <1>1, <1>10, <2>1, <3>1, <3>2, Up2
    <3> QED
      BY <3>1, <3>3 DEF up, p, n
  <2>6. CASE p = "UDP"
    <3>1. up = (IF Tunnelled(f, k + 2) THEN <<"IPV6", "UDP", "GTPU6">> ELSE <<"IPV6", "UDP">>)
      BY <1>4, <2>2, <2>6 DEF Ipv6Up
    <3>2. k + 2 \in 1..Len(f) /\ f[k + 2].h = "UDP" /\ Raw("UDP") = "UDP" /\ Raw("GTPU6") = "GTPU"
      BY <2>3, <2>6 DEF Raw
    <3>3. CASE Tunnelled(f, k + 2)
      <4>1. k + 3 \in 1..Len(f) /\ f[k + 3].h = "GTPU"
        BY <1>4, <1>8, <3>2, <3>3
      <4>2. UpMatches(f, k, <<"IPV6", "UDP", "GTPU6">>, n)
        BY <1>1, <1>10, <2>1, <3>2, <4>1, Up3
      <4> QED
        BY <3>1, <3>3, <4>2 DEF n
    <3>4. CASE ~Tunnelled(f, k + 2)
      <4>1. UpMatches(f, k, <<"IPV6", "UDP">>, n)
        BY <1>1, <1>10, <2>1, <3>2, Up2
      <4> QED
        BY <3>1, <3>4, <4>1 DEF n
    <3> QED
      BY <3>3, <3>4
  <2>7. CASE p = "GRE"
    <3>1. up = <<"IPV6", "GRE6">> /\ Raw("GRE6") = "GRE"
      BY <2>2, <2>7 DEF Ipv6Up, Raw
    <3>2. k + 2 \in 1..Len(f) /\ f[k + 2].h = "GRE"
      BY <2>3, <2>7
    <3>3. UpMatches(f, k, <<"IPV6", "GRE6">>, n)
      BY <1>1, <1>10, <2>1, <3>1, <3>2, Up2
    <3> QED
      BY <3>1, <3>3 DEF n
  <2>8. CASE p = "ICMPV6"
    <3>1. k + 2 \in 1..Len(f) /\ f[k + 2].h = "ICMPV6" /\ Raw("ICMPV6") = "ICMPV6"
      BY <2>3, <2>8 DEF Raw
    <3> DEFINE m == f[k + 2].next
    <3>2. up = IF m \notin NeighbourMsgs THEN <<"IPV6", "ICMPV6">>
               ELSE IF f[k + 3].next = NeighbourOption[m] THEN <<"IPV6", "ICMPV6", m, NeighbourOption[m]>>
               ELSE <<"IPV6", "ICMPV6", m>>
      BY <1>4, <2>2, <2>8 DEF Ipv6Up, Icmpv6Up
    <3>3. CASE m \notin NeighbourMsgs
      <4>1. UpMatches(f, k, <<"IPV6", "ICMPV6">>, n)
        BY <1>1, <1>10, <2>1, <3>1, Up2
      <4> QED
        BY <3>2, <3>3, <4>1 DEF n
    <3>4. CASE m \in NeighbourMsgs
      <4>1. k + 3 \in 1..Len(f) /\ f[k + 3].h = m
        BY <1>3, <1>4, <3>1, <3>4, CarriesFacts
      <4>2. Raw(m) = m /\ Raw(NeighbourOption[m]) = NeighbourOption[m]
        BY <3>4, Neighbours DEF Raw
      <4> DEFINE o == NeighbourOption[m]
      <4>3. f[k + 3].next = o => k + 4 \in 1..Len(f) /\ f[k + 4].h = o
        BY <1>3, <1>4, <3>4, <4>1, CarriesFacts
      <4>4. up = IF f[k + 3].next = o THEN <<"IPV6", "ICMPV6", m, o>> ELSE <<"IPV6", "ICMPV6", m>>
        BY <3>2, <3>4
      <4> HIDE DEF m, o, up
      <4>5. f[k + 3].next = o => UpMatches(f, k, <<"IPV6", "ICMPV6", m, o>>, n)
        BY <1>1, <1>10, <2>1, <3>1, <4>1, <4>2, <4>3, Up4 DEF o
      <4>6. UpMatches(f, k, <<"IPV6", "ICMPV6", m>>, n)
        BY <1>1, <1>10, <2>1, <3>1, <4>1, <4>2, Up3
      <4>7. UpMatches(f, k, up, n)
        BY <4>4, <4>5, <4>6
      <4> QED
        BY <4>7 DEF up, n
    <3> QED
      BY <3>3, <3>4
  <2>9. CASE p \notin {"ICMPV6", "TCP", "SCTP", "UDP", "GRE"}
    <3>1. up = <<"IPV6">>
      BY <2>2, <2>9 DEF Ipv6Up
    <3>2. UpMatches(f, k, <<"IPV6">>, n)
      BY <1>1, <1>10, <2>1, Up1
    <3> QED
      BY <3>1, <3>2 DEF n
  <2> QED
    BY <2>5, <2>6, <2>7, <2>8, <2>9
<1>11. CASE next \notin {"ARPV4", "MPLS", "PPPOE", "IPV4", "IPV6"}
  <2>1. up = <<>> /\ Len(<<>>) = 0
    BY <1>11 DEF UpperUp
  <2> QED
    BY <1>1, <2>1 DEF UpMatches
<1> QED
  BY <1>5, <1>6, <1>7, <1>9, <1>10, <1>11

\* The number of the layer 2 headers, the I-SID apart, and their stack.
Tagged(f) == IF f[1].next # "VLAN" THEN 1 ELSE IF f[2].next # "VLAN" THEN 2 ELSE 3
Stack(a, k) == IF k = 1 THEN <<a>> ELSE IF k = 2 THEN <<a, "VLAN">> ELSE <<a, "VLAN", "VLAN">>
HasIsid(l2) == l2 \in {<<"ETHERNET", "ISID">>, <<"ETHERNET", "VLAN", "ISID">>}

\* Stacks of tags are layer 2 prefixes, and which of them an I-SID may follow.
LEMMA StackFacts ==
    ASSUME NEW a \in Link, NEW k \in 1..3
    PROVE  /\ Stack(a, k) \in L2 /\ Len(Stack(a, k)) = k /\ Stack(a, k)[1] = a
           /\ \A i \in 2..k : Stack(a, k)[i] = "VLAN"
           /\ ~HasIsid(Stack(a, k))
           /\ Append(Stack(a, k), "ISID") \in L2 <=> a = "ETHERNET" /\ k # 3
           /\ a = "ETHERNET" /\ k = 1 => Append(Stack(a, k), "ISID") = <<"ETHERNET", "ISID">>
           /\ a = "ETHERNET" /\ k = 2 => Append(Stack(a, k), "ISID") = <<"ETHERNET", "VLAN", "ISID">>
<1>1. CASE k = 1
  <2>1. Append(<<a>>, "ISID") = <<a, "ISID">>
    BY Appended
  <2>2. Stack(a, k) = <<a>>
    BY <1>1 DEF Stack
  <2>3. <<a>> \in L2 /\ (<<a, "ISID">> \in L2 <=> a = "ETHERNET")
    BY DEF L2, Link
  <2>4. Len(<<a>>) = 1 /\ <<a>>[1] = a
    OBVIOUS
  <2>5. <<a>> \notin {<<"ETHERNET", "ISID">>, <<"ETHERNET", "VLAN", "ISID">>}
    OBVIOUS
  <2> DEFINE s == Stack(a, k)
  <2> HIDE DEF s
  <2>6. s \in L2 /\ Len(s) = k /\ s[1] = a /\ ~HasIsid(s)
    BY <1>1, <2>2, <2>3, <2>4, <2>5 DEF s, HasIsid
  <2>7. \A i \in 2..k : s[i] = "VLAN"
    BY <1>1, <2>2, <2>4 DEF s
  <2>9. k = 1 /\ k # 2 /\ k # 3
    BY <1>1
  <2> DEFINE app == <<a, "ISID">>
  <2> HIDE DEF app
  <2>10. Append(s, "ISID") = app
    BY <2>1, <2>2, Zenon DEF s, app
  <2>11. /\ app \in L2 <=> a = "ETHERNET" /\ k # 3
         /\ a = "ETHERNET" /\ k = 1 => app = <<"ETHERNET", "ISID">>
         /\ a = "ETHERNET" /\ k = 2 => app = <<"ETHERNET", "VLAN", "ISID">>
    BY <2>3, <2>9 DEF app
  <2>8. /\ Append(s, "ISID") \in L2 <=> a = "ETHERNET" /\ k # 3
        /\ a = "ETHERNET" /\ k = 1 => Append(s, "ISID") = <<"ETHERNET", "ISID">>
        /\ a = "ETHERNET" /\ k = 2 => Append(s, "ISID") = <<"ETHERNET", "VLAN", "ISID">>
    BY <2>1, <2>2, <2>3, <2>9, <2>10, <2>11
  <2> QED
    BY <2>6, <2>7, <2>8 DEF s
<1>2. CASE k = 2
  <2>1. Append(<<a, "VLAN">>, "ISID") = <<a, "VLAN", "ISID">>
    BY Appended
  <2>2. Stack(a, k) = <<a, "VLAN">>
    BY <1>2 DEF Stack
  <2>3. <<a, "VLAN">> \in L2 /\ (<<a, "VLAN", "ISID">> \in L2 <=> a = "ETHERNET")
    BY DEF L2, Link
  <2>4. Len(<<a, "VLAN">>) = 2 /\ <<a, "VLAN">>[1] = a /\ <<a, "VLAN">>[2] = "VLAN"
    OBVIOUS
  <2>5. <<a, "VLAN">> \notin {<<"ETHERNET", "ISID">>, <<"ETHERNET", "VLAN", "ISID">>}
    OBVIOUS
  <2> DEFINE s == Stack(a, k)
  <2> HIDE DEF s
  <2>6. s \in L2 /\ Len(s) = k /\ s[1] = a /\ ~HasIsid(s)
    BY <1>2, <2>2, <2>3, <2>4, <2>5 DEF s, HasIsid
  <2>7. \A i \in 2..k : s[i] = "VLAN"
    BY <1>2, <2>2, <2>4 DEF s
  <2>9. k = 2 /\ k # 1 /\ k # 3
    BY <1>2
  <2> DEFINE app == <<a, "VLAN", "ISID">>
  <2> HIDE DEF app
  <2>10. Append(s, "ISID") = app
    BY <2>1, <2>2, Zenon DEF s, app
  <2>11. /\ app \in L2 <=> a = "ETHERNET" /\ k # 3
         /\ a = "ETHERNET" /\ k = 1 => app = <<"ETHERNET", "ISID">>
         /\ a = "ETHERNET" /\ k = 2 => app = <<"ETHERNET", "VLAN", "ISID">>
    BY <2>3, <2>9 DEF app
  <2>8. /\ Append(s, "ISID") \in L2 <=> a = "ETHERNET" /\ k # 3
        /\ a = "ETHERNET" /\ k = 1 => Append(s, "ISID") = <<"ETHERNET", "ISID">>
        /\ a = "ETHERNET" /\ k = 2 => Append(s, "ISID") = <<"ETHERNET", "VLAN", "ISID">>
    BY <2>1, <2>2, <2>3, <2>9, <2>10, <2>11
  <2> QED
    BY <2>6, <2>7, <2>8 DEF s
<1>3. CASE k = 3
  <2>1. Append(<<a, "VLAN", "VLAN">>, "ISID") = <<a, "VLAN", "VLAN", "ISID">>
    BY Appended
  <2>2. Stack(a, k) = <<a, "VLAN", "VLAN">>
    BY <1>3 DEF Stack
  <2>3. <<a, "VLAN", "VLAN">> \in L2 /\ <<a, "VLAN", "VLAN", "ISID">> \notin L2
    BY DEF L2, Link
  <2>4. /\ Len(<<a, "VLAN", "VLAN">>) = 3 /\ <<a, "VLAN", "VLAN">>[1] = a
        /\ <<a, "VLAN", "VLAN">>[2] = "VLAN" /\ <<a, "VLAN", "VLAN">>[3] = "VLAN"
    OBVIOUS
  <2>5. <<a, "VLAN", "VLAN">> \notin {<<"ETHERNET", "ISID">>, <<"ETHERNET", "VLAN", "ISID">>}
    OBVIOUS
  <2> DEFINE s == Stack(a, k)
  <2> HIDE DEF s
  <2>6. s \in L2 /\ Len(s) = k /\ s[1] = a /\ ~HasIsid(s)
    BY <1>3, <2>2, <2>3, <2>4, <2>5 DEF s, HasIsid
  <2>7. \A i \in 2..k : s[i] = "VLAN"
    BY <1>3, <2>2, <2>4 DEF s
  <2>9. k = 3 /\ k # 1 /\ k # 2
    BY <1>3
  <2> DEFINE app == <<a, "VLAN", "VLAN", "ISID">>
  <2> HIDE DEF app
  <2>10. Append(s, "ISID") = app
    BY <2>1, <2>2, Zenon DEF s, app
  <2>11. /\ app \in L2 <=> a = "ETHERNET" /\ k # 3
         /\ a = "ETHERNET" /\ k = 1 => app = <<"ETHERNET", "ISID">>
         /\ a = "ETHERNET" /\ k = 2 => app = <<"ETHERNET", "VLAN", "ISID">>
    BY <2>3, <2>9 DEF app
  <2>8. /\ Append(s, "ISID") \in L2 <=> a = "ETHERNET" /\ k # 3
        /\ a = "ETHERNET" /\ k = 1 => Append(s, "ISID") = <<"ETHERNET", "ISID">>
        /\ a = "ETHERNET" /\ k = 2 => Append(s, "ISID") = <<"ETHERNET", "VLAN", "ISID">>
    BY <2>1, <2>2, <2>3, <2>9, <2>10, <2>11
  <2> QED
    BY <2>6, <2>7, <2>8 DEF s
<1> QED
  BY <1>1, <1>2, <1>3

\* The tags that the classifier finds are there.
LEMMA TagsThere ==
    ASSUME NEW f, Complete(f)
    PROVE  LET k == Tagged(f) IN
           /\ k \in 1..3 /\ k \in 1..Len(f) /\ k + 1 \in 1..Len(f)
           /\ f[1].h \in Link /\ \A i \in 2..k : f[i].h = "VLAN"
           /\ \A i \in 1..(k - 1) : f[i].next = "VLAN"
           /\ f[k].h \in Link \cup {"VLAN"}
           /\ f[k].next \in Ethertypes => f[k + 1].h = f[k].next
           /\ f[k].next = "IPV4" => f[k + 1].n \in 0..MaxOptions
<1> DEFINE k == Tagged(f)
<1>1. f[1].h \in Link /\ 1 \in 1..Len(f) /\ Len(f) \in Nat
  BY CompleteFacts
<1>2. ASSUME NEW i \in 1..Len(f), f[i].h \in Link \cup {"VLAN"}
      PROVE  /\ i + 1 \in 1..Len(f)
             /\ f[i].next \in Ethertypes => f[i + 1].h = f[i].next
             /\ f[i].next = "IPV4" => f[i + 1].n \in 0..MaxOptions
  BY <1>2, CompleteFacts, CarriesFacts DEF Carriers, Ethertypes
<1>3. k \in 1..3
  BY DEF Tagged
<1>4. k > 1 => f[1].next = "VLAN" /\ f[2].h = "VLAN" /\ 2 \in 1..Len(f)
  BY <1>1, <1>2 DEF Tagged, Ethertypes
<1>5. k > 2 => f[2].next = "VLAN" /\ f[3].h = "VLAN" /\ 3 \in 1..Len(f)
  BY <1>2, <1>4 DEF Tagged, Ethertypes
<1> HIDE DEF k
<1>6. k \in 1..Len(f) /\ f[k].h \in Link \cup {"VLAN"}
  BY <1>1, <1>3, <1>4, <1>5
<1>7. \A i \in 2..k : f[i].h = "VLAN"
  BY <1>3, <1>4, <1>5
<1>8. \A i \in 1..(k - 1) : f[i].next = "VLAN"
  BY <1>3, <1>4, <1>5
<1> QED
  BY <1>1, <1>2, <1>3, <1>6, <1>7, <1>8 DEF k

\* What the classifier finds: the tags, and what the last of them announces.
LEMMA ParseEthernet ==
    ASSUME NEW f, Complete(f)
    PROVE  LET k == Tagged(f)
               next == f[k].next
               l2 == Stack(f[1].h, k)
           IN  /\ next = "ISID" => parse_ethernet(f) = IF Append(l2, "ISID") \in L2 THEN Type(Append(l2, "ISID"), <<>>, 0)
                                                       ELSE Type(l2, <<>>, 0)
               /\ next # "ISID" => parse_ethernet(f) = Type(l2, UpperUp(f, k + 1, next), UpperN(f, k + 1, next))
<1> DEFINE k == Tagged(f)
<1> DEFINE next == f[k].next
<1> DEFINE a == f[1].h
<1> DEFINE l2 == Stack(a, k)
<1> DEFINE t == Type(l2, <<>>, 0)
<1>1. k \in 1..3 /\ a \in Link /\ (next = "IPV4" => f[k + 1].n \in 0..MaxOptions)
  BY TagsThere
<1>2. l2 \in L2
  BY <1>1, StackFacts
<1>3. k + 1 \in Nat
  BY <1>1
<1>4. next = "ISID" => parse_ethertype(f, k + 1, t, next) = Add(t, "ISID")
  BY DEF parse_ethertype
<1>5. next # "ISID" => parse_ethertype(f, k + 1, t, next) = Type(l2, UpperUp(f, k + 1, next), UpperN(f, k + 1, next))
  <2> HIDE DEF l2, k
  <2> QED
    BY <1>1, <1>2, <1>3, ParseEthertype
<1>6. Add(t, "ISID") = IF Append(l2, "ISID") \in L2 THEN Type(Append(l2, "ISID"), <<>>, 0) ELSE t
  <2> HIDE DEF l2
  <2> QED
    BY <1>2, AddsPlain
<1>7. ASSUME NEW c \in 1..2
      PROVE  Add(Type(Stack(a, c), <<>>, 0), "VLAN") = Type(Stack(a, c + 1), <<>>, 0)
  <2>1. Append(Stack(a, c), "VLAN") = Stack(a, c + 1)
    <3>1. CASE c = 1
      <4>1. Stack(a, c) = <<a>> /\ Stack(a, c + 1) = <<a, "VLAN">>
        BY <3>1 DEF Stack
      <4>2. Append(<<a>>, "VLAN") = <<a, "VLAN">>
        BY Appended
      <4> QED
        BY <4>1, <4>2
    <3>2. CASE c = 2
      <4>1. Stack(a, c) = <<a, "VLAN">> /\ Stack(a, c + 1) = <<a, "VLAN", "VLAN">>
        BY <3>2 DEF Stack
      <4>2. Append(<<a, "VLAN">>, "VLAN") = <<a, "VLAN", "VLAN">>
        BY Appended
      <4> QED
        BY <4>1, <4>2
    <3> QED
      BY <3>1, <3>2
  <2>2. Stack(a, c) \in L2 /\ Stack(a, c + 1) \in L2
    BY <1>1, StackFacts
  <2> QED
    BY <2>1, <2>2, AddsPlain
<1> DEFINE s == Type(Stack(a, 1), <<>>, 0)
<1> DEFINE u == Type(Stack(a, 2), <<>>, 0)
<1> DEFINE v == Type(Stack(a, 3), <<>>, 0)
<1>8. Add(s, "VLAN") = u /\ Add(u, "VLAN") = v
  <2>1. 1 \in 1..2 /\ 2 \in 1..2 /\ 1 + 1 = 2 /\ 2 + 1 = 3
    OBVIOUS
  <2> QED
    BY <1>7, <2>1
<1>9. Add(v, "VLAN") = v
  <2>1. Append(Stack(a, 3), "VLAN") = <<a, "VLAN", "VLAN", "VLAN">>
    BY Appended DEF Stack
  <2>2. <<a, "VLAN", "VLAN", "VLAN">> \notin L2
    BY DEF L2
  <2>3. Stack(a, 3) \in L2
    BY <1>1, StackFacts
  <2> DEFINE x == Stack(a, 3)
  <2> HIDE DEF x
  <2>4. x \in L2 /\ Append(x, "VLAN") \notin L2
    BY <2>1, <2>2, <2>3 DEF x
  <2>5. Add(Type(x, <<>>, 0), "VLAN") = Type(x, <<>>, 0)
    BY <2>4, AddsPlain
  <2> QED
    BY <2>5 DEF x
<1>10. Type(<<a>>, <<>>, 0) = s
  BY DEF Stack
<1> HIDE DEF s, u, v
<1>11. parse_ethernet(f) =
         IF f[1].next = "VLAN" THEN parse_vlan(f, 2, s) ELSE parse_ethertype(f, 2, s, f[1].next)
  BY <1>10 DEF parse_ethernet
<1>12. parse_vlan(f, 2, s) =
         IF f[2].next # "VLAN" THEN parse_ethertype(f, 2 + 1, u, f[2].next)
         ELSE IF f[2 + 1].next # "VLAN" THEN parse_ethertype(f, 2 + 2, v, f[2 + 1].next)
         ELSE v
  BY <1>8, <1>9 DEF parse_vlan
<1>13. parse_ethernet(f) = parse_ethertype(f, k + 1, t, next)
  <2>1. CASE f[1].next # "VLAN"
    <3>1. k = 1 /\ t = s
      BY <2>1 DEF Tagged, s
    <3> QED
      BY <1>11, <2>1, <3>1
  <2>2. CASE f[1].next = "VLAN" /\ f[2].next # "VLAN"
    <3>1. k = 2 /\ t = u
      BY <2>2 DEF Tagged, u
    <3> QED
      BY <1>11, <1>12, <2>2, <3>1
  <2>3. CASE f[1].next = "VLAN" /\ f[2].next = "VLAN"
    <3>1. k = 3 /\ t = v
      BY <2>3 DEF Tagged, v
    <3>2. CASE f[3].next # "VLAN"
      BY <1>11, <1>12, <2>3, <3>1, <3>2
    <3>3. CASE f[3].next = "VLAN"
      <4>1. parse_ethertype(f, k + 1, t, "VLAN") = t
        BY DEF parse_ethertype
      <4> QED
        BY <1>11, <1>12, <2>3, <3>1, <3>3, <4>1
    <3> QED
      BY <3>2, <3>3
  <2> QED
    BY <2>1, <2>2, <2>3
<1> HIDE DEF l2, k, next
<1>14. next = "ISID" => parse_ethernet(f) = IF Append(l2, "ISID") \in L2 THEN Type(Append(l2, "ISID"), <<>>, 0) ELSE Type(l2, <<>>, 0)
  BY <1>4, <1>6, <1>13
<1>15. next # "ISID" => parse_ethernet(f) = Type(l2, UpperUp(f, k + 1, next), UpperN(f, k + 1, next))
  BY <1>5, <1>13
<1> QED
  BY <1>14, <1>15 DEF l2, k, next

\* The classifier finds types of the tables, and their headers are there.
LEMMA ParseMatches ==
    ASSUME NEW f, Complete(f)
    PROVE  Matches(f, parse_ethernet(f))
<1> DEFINE k == Tagged(f)
<1> DEFINE next == f[k].next
<1> DEFINE a == f[1].h
<1> DEFINE l2 == Stack(a, k)
<1> DEFINE up == UpperUp(f, k + 1, next)
<1> DEFINE n == UpperN(f, k + 1, next)
<1>1. /\ k \in 1..3 /\ k \in 1..Len(f) /\ k + 1 \in 1..Len(f)
      /\ a \in Link /\ (\A i \in 2..k : f[i].h = "VLAN")
      /\ \A i \in 1..(k - 1) : f[i].next = "VLAN"
      /\ f[k].h \in Link \cup {"VLAN"}
      /\ next \in Ethertypes => f[k + 1].h = next
      /\ next = "IPV4" => f[k + 1].n \in 0..MaxOptions
  BY TagsThere
<1>2. Len(f) \in Nat /\ \A i \in 1..Len(f) : f[i].h \in Carriers => i + 1 \in 1..Len(f)
  BY CompleteFacts
<1>3. /\ l2 \in L2 /\ Len(l2) = k /\ l2[1] = a /\ \A i \in 2..k : l2[i] = "VLAN"
      /\ ~HasIsid(l2)
  <2> DEFINE s == Stack(a, k)
  <2>1. k \in 1..3 /\ a \in Link
    BY <1>1
  <2> HIDE DEF k, a
  <2>2. s \in L2 /\ Len(s) = k /\ s[1] = a
    BY <2>1, StackFacts
  <2>3. \A i \in 2..k : s[i] = "VLAN"
    BY <2>1, StackFacts
  <2>4. ~HasIsid(s)
    BY <2>1, StackFacts
  <2> QED
    BY <2>2, <2>3, <2>4
<1>4. /\ next = "ISID" => parse_ethernet(f) = IF Append(l2, "ISID") \in L2 THEN Type(Append(l2, "ISID"), <<>>, 0)
                                              ELSE Type(l2, <<>>, 0)
      /\ next # "ISID" => parse_ethernet(f) = Type(l2, up, n)
  BY ParseEthernet
<1> HIDE DEF k
<1>5. L2Matches(f, l2)
  <2>1. Len(l2) < Len(f)
    BY <1>1, <1>2, <1>3
  <2>2. \A i \in 1..Len(l2) : i = 1 \/ i \in 2..k
    BY <1>1, <1>3
  <2>3. \A i \in 1..Len(l2) : f[i].h = l2[i]
    BY <1>1, <1>3, <2>2
  <2>4. \A i \in 1..(Len(l2) - 1) : i + 1 \in 2..k /\ i \in 1..(k - 1)
    BY <1>1, <1>3
  <2>5. \A i \in 1..(Len(l2) - 1) : f[i].next = l2[i + 1]
    BY <1>1, <1>3, <2>4
  <2> QED
    BY <2>1, <2>3, <2>5 DEF L2Matches
<1>6. ASSUME NEW x \in L2, NEW y, NEW z, Found(y, z), ~HasIsid(x) \/ y = <<>>,
             L2Matches(f, x), UpMatches(f, Len(x), y, z)
      PROVE  Matches(f, Type(x, y, z))
  <2> DEFINE t == Type(x, y, z)
  <2>1. t.l2 = x /\ t.up = y /\ t.n = z
    BY DEF Type
  <2>2. Backbone(t) => y = <<>>
    BY <1>6, Prefix DEF HasIsid
  <2> HIDE DEF t
  <2>3. t = Type(t.l2, t.up, t.n)
    BY <2>1 DEF t
  <2>4. Seen(t)
    BY <1>6, <2>1, <2>2, <2>3 DEF Seen
  <2>5. Matches(f, t)
    BY <1>6, <2>1, <2>4 DEF Matches
  <2> QED
    BY <2>5 DEF t
<1>7. CASE next # "ISID"
  <2>1. UpMatches(f, k, up, n)
    <3> HIDE DEF up, n
    <3>1. UpMatches(f, k, UpperUp(f, k + 1, next), UpperN(f, k + 1, next))
      BY <1>1, <1>7, UpperMatches
    <3> QED
      BY <3>1 DEF up, n
  <2>2. Found(up, n)
    <3>1. k + 1 \in Nat
      BY <1>1
    <3> QED
      BY <1>1, <1>3, <1>7, <3>1, ParseEthertype
  <2> HIDE DEF up, n, l2, next
  <2>3. Matches(f, Type(l2, up, n))
    BY <1>3, <1>5, <1>6, <2>1, <2>2
  <2> QED
    BY <1>4, <1>7, <2>3
<1>8. ASSUME NEW x, L2Matches(f, x)  PROVE UpMatches(f, Len(x), <<>>, 0)
  <2>1. Len(<<>>) = 0
    OBVIOUS
  <2>2. Len(x) < Len(f)
    BY <1>8 DEF L2Matches
  <2> QED
    BY <1>2, <1>8, <2>1 DEF UpMatches, L2Matches
<1>9. Found(<<>>, 0)
  BY DEF Found
<1>10. CASE next = "ISID" /\ Append(l2, "ISID") \notin L2
  <2>1. UpMatches(f, k, <<>>, 0)
    BY <1>3, <1>5, <1>8
  <2> HIDE DEF l2, next
  <2>2. Matches(f, Type(l2, <<>>, 0))
    BY <1>3, <1>5, <1>6, <1>9, <2>1
  <2> QED
    BY <1>4, <1>10, <2>2
<1>11. CASE next = "ISID" /\ Append(l2, "ISID") \in L2
  <2> DEFINE x == Append(l2, "ISID")
  <2>1. a = "ETHERNET" /\ k # 3
    BY <1>1, <1>11, StackFacts
  <2>2. x = IF k = 1 THEN <<"ETHERNET", "ISID">> ELSE <<"ETHERNET", "VLAN", "ISID">>
    BY <1>1, <2>1, StackFacts
  <2>3. f[k + 1].h = "ISID" /\ k + 2 \in 1..Len(f) /\ f[k].next = "ISID"
    <3>1. f[k + 1].h = "ISID"
      BY <1>1, <1>11 DEF Ethertypes
    <3>2. (k + 1) + 1 \in 1..Len(f) /\ (k + 1) + 1 = k + 2
      BY <1>1, <1>2, <3>1 DEF Carriers
    <3> QED
      BY <1>11, <3>1, <3>2
  <2>4. x \in L2
    BY <1>11
  <2> HIDE DEF x, l2, a
  <2>5. L2Matches(f, x)
    <3>1. CASE k = 1
      <4>1. x = <<"ETHERNET", "ISID">>
        BY <2>2, <3>1
      <4>2. Len(x) = 2 /\ x[1] = "ETHERNET" /\ x[2] = "ISID"
        BY <4>1
      <4>3. f[1].h = "ETHERNET" /\ f[2].h = "ISID" /\ f[1].next = "ISID" /\ 3 \in 1..Len(f)
        BY <2>1, <2>3, <3>1 DEF a
      <4> HIDE DEF k
      <4>4. \A i \in 1..Len(x) : i = 1 \/ i = 2
        BY <4>2
      <4>5. \A i \in 1..(Len(x) - 1) : i = 1
        BY <4>2
      <4> QED
        BY <1>2, <4>2, <4>3, <4>4, <4>5 DEF L2Matches
    <3>2. CASE k = 2
      <4>1. x = <<"ETHERNET", "VLAN", "ISID">>
        BY <2>2, <3>2
      <4>2. Len(x) = 3 /\ x[1] = "ETHERNET" /\ x[2] = "VLAN" /\ x[3] = "ISID"
        BY <4>1
      <4>3. /\ f[1].h = "ETHERNET" /\ f[2].h = "VLAN" /\ f[3].h = "ISID"
            /\ f[1].next = "VLAN" /\ f[2].next = "ISID" /\ 4 \in 1..Len(f)
        BY <1>1, <2>1, <2>3, <3>2 DEF a
      <4>4. \A i \in 1..Len(x) : i = 1 \/ i = 2 \/ i = 3
        BY <4>2
      <4>5. \A i \in 1..(Len(x) - 1) : i = 1 \/ i = 2
        BY <4>2
      <4> QED
        BY <1>2, <4>2, <4>3, <4>4, <4>5 DEF L2Matches
    <3> QED
      BY <1>1, <2>1, <3>1, <3>2
  <2>6. UpMatches(f, Len(x), <<>>, 0)
    BY <1>8, <2>5
  <2> HIDE DEF next
  <2>7. Matches(f, Type(x, <<>>, 0))
    BY <1>6, <1>9, <2>4, <2>5, <2>6
  <2> QED
    BY <1>4, <1>11, <2>7 DEF x
<1> QED
  BY <1>7, <1>10, <1>11

-----------------------------------------------------------------------------
(* Frames with the same pieces are classified alike *)

\* Tails of same tails are the same.
LEMMA SameTailFacts ==
    ASSUME NEW f \in Frames, NEW g \in Frames, NEW i \in 1..(Len(f) + 1), NEW j \in 1..(Len(g) + 1),
           SameTail(f, i, g, j), NEW d \in 0..(Len(f) + 1 - i)
    PROVE  /\ i + d \in 1..(Len(f) + 1) /\ j + d \in 1..(Len(g) + 1)
           /\ SameTail(f, i + d, g, j + d)
           /\ i + d \in 1..Len(f) <=> j + d \in 1..Len(g)
           /\ i + d \in 1..Len(f) => Alike(f[i + d], g[j + d])
<1>1. Len(f) \in Nat /\ Len(g) \in Nat
  BY FrameFacts
<1>2. Len(f) - i = Len(g) - j /\ \A e \in 0..(Len(f) - i) : Alike(f[i + e], g[j + e])
  BY DEF SameTail
<1>3. i \in Nat /\ j \in Nat /\ d \in Nat
  BY <1>1
<1>4. Len(f) - (i + d) = Len(g) - (j + d)
  BY <1>1, <1>2, <1>3
<1>5. \A e \in 0..(Len(f) - (i + d)) : d + e \in 0..(Len(f) - i) /\ i + (d + e) = (i + d) + e /\ j + (d + e) = (j + d) + e
  BY <1>1, <1>3
<1>6. SameTail(f, i + d, g, j + d)
  BY <1>2, <1>4, <1>5 DEF SameTail
<1>7. i + d \in 1..(Len(f) + 1) /\ j + d \in 1..(Len(g) + 1)
  BY <1>1, <1>2, <1>3
<1>8. i + d \in 1..Len(f) <=> j + d \in 1..Len(g)
  BY <1>1, <1>2, <1>3
<1>9. i + d \in 1..Len(f) => d \in 0..(Len(f) - i)
  BY <1>1, <1>3
<1> QED
  BY <1>2, <1>6, <1>7, <1>8, <1>9

\* Same tails begin alike.
LEMMA SameHead ==
    ASSUME NEW f \in Frames, NEW g \in Frames, NEW i \in 1..Len(f), NEW j \in 1..Len(g), SameTail(f, i, g, j)
    PROVE  Alike(f[i], g[j])
<1>1. Len(f) \in Nat /\ Len(g) \in Nat
  BY FrameFacts
<1>2. 0 \in 0..(Len(f) - i) /\ i + 0 = i /\ j + 0 = j
  BY <1>1
<1>3. Alike(f[i + 0], g[j + 0])
  BY <1>2 DEF SameTail
<1> QED
  BY <1>2, <1>3

\* GTP is found in both of two same tails or in none: it depends on the bytes that follow.
LEMMA TunnelSame ==
    ASSUME NEW f \in Frames, NEW g \in Frames, NEW i \in 1..Len(f), NEW j \in 1..Len(g), SameTail(f, i, g, j)
    PROVE  Tunnelled(f, i) <=> Tunnelled(g, j)
<1>1. Len(f) \in Nat /\ Len(g) \in Nat
  BY FrameFacts
<1>2. i \in 1..(Len(f) + 1) /\ j \in 1..(Len(g) + 1) /\ 0 \in 0..(Len(f) + 1 - i) /\ 1 \in 0..(Len(f) + 1 - i) /\ i + 0 = i /\ j + 0 = j
  BY <1>1
<1>3. f[i].next = g[j].next
  BY SameHead DEF Alike
<1>4. SameTail(f, i + 1, g, j + 1) /\ i + 1 \in 1..(Len(f) + 1) /\ j + 1 \in 1..(Len(g) + 1)
  BY <1>2, SameTailFacts
<1>5. Bytes(f) - Start(f, i + 1) = Bytes(g) - Start(g, j + 1)
  BY <1>4, TailBytes
<1> QED
  BY <1>3, <1>5 DEF Tunnelled

\* The labels that are counted are there.
LEMMA LabelsThere ==
    ASSUME NEW f, Complete(f), NEW i \in 1..Len(f), f[i].h = "MPLS", NEW m \in Nat \ {0},
           \A j \in i..(i + m - 2) : f[j].next = "MPLS"
    PROVE  \A d \in 0..(m - 1) : i + d \in 1..Len(f) /\ f[i + d].h = "MPLS"
<1> DEFINE There(d) == i + d \in 1..Len(f) /\ f[i + d].h = "MPLS"
<1> DEFINE Reached == {d \in Nat : d < m => There(d)}
<1>1. i \in Nat /\ Len(f) \in Nat
  BY CompleteFacts
<1>2. 0 \in Reached
  BY <1>1
<1>3. \A d \in Reached : d + 1 \in Reached
  <2> SUFFICES ASSUME NEW d \in Reached, d + 1 < m
               PROVE  There(d + 1)
    <3> HIDE DEF There
    <3> QED
      OBVIOUS
  <2>1. d \in Nat /\ i + d \in 1..Len(f) /\ f[i + d].h = "MPLS"
    OBVIOUS
  <2>2. i + d \in i..(i + m - 2) /\ i + (d + 1) = (i + d) + 1
    BY <1>1, <2>1
  <2>3. f[i + d].next = "MPLS"
    BY <2>2
  <2> DEFINE e == i + d
  <2> HIDE DEF e
  <2>4. e + 1 \in 1..Len(f) /\ f[e + 1].h = "MPLS"
    <3>1. e \in 1..Len(f) /\ f[e].h = "MPLS" /\ f[e].next = "MPLS"
      BY <2>1, <2>3 DEF e
    <3> QED
      BY <3>1, CompleteFacts, CarriesFacts
  <2> QED
    BY <2>2, <2>4 DEF e
<1>4. Reached \in SUBSET Nat
  OBVIOUS
<1>5. Reached = Nat
  <2> HIDE DEF Reached
  <2> QED
    BY <1>2, <1>3, <1>4, Induction
<1> TAKE d \in 0..(m - 1)
<1>6. d \in Nat /\ d < m
  OBVIOUS
<1>7. d \in Reached
  <2> HIDE DEF Reached
  <2> QED
    BY <1>5, <1>6
<1> QED
  BY <1>6, <1>7

\* Two same tails have the same run of labels.
LEMMA LabelsSame ==
    ASSUME NEW f, Complete(f), NEW g, Complete(g), NEW i \in 1..Len(f), NEW j \in 1..Len(g),
           SameTail(f, i, g, j), f[i].h = "MPLS"
    PROVE  Labels(f, i) = Labels(g, j)
<1> DEFINE m == Labels(f, i)
<1>1. f \in Frames /\ g \in Frames /\ Len(f) \in Nat /\ Len(g) \in Nat /\ i \in Nat /\ j \in Nat
  BY CompleteFacts
<1>2. m \in 1..MaxLabels /\ LabelRun(f, i, m)
  BY <1>1, LabelsExist
<1> HIDE DEF m
<1>3. m \in Nat \ {0}
  BY <1>2 DEF MaxLabels
<1>4. (\A e \in i..(i + m - 2) : f[e].next = "MPLS") /\ (m = MaxLabels \/ f[i + m - 1].next # "MPLS")
  BY <1>2 DEF LabelRun
<1>5. \A d \in 0..(m - 1) : i + d \in 1..Len(f)
  BY <1>3, <1>4, LabelsThere
<1>6. \A d \in 0..(m - 1) : f[i + d].next = g[j + d].next
  <2> TAKE d \in 0..(m - 1)
  <2>1. i + d \in 1..Len(f)
    BY <1>5
  <2>2. d \in 0..(Len(f) + 1 - i) /\ i \in 1..(Len(f) + 1) /\ j \in 1..(Len(g) + 1)
    BY <1>1, <1>3, <2>1
  <2> QED
    BY <1>1, <2>1, <2>2, SameTailFacts DEF Alike
<1>7. \A e \in j..(j + m - 2) : g[e].next = "MPLS"
  <2> TAKE e \in j..(j + m - 2)
  <2>1. e - j \in 0..(m - 1) /\ j + (e - j) = e /\ i + (e - j) \in i..(i + m - 2)
    BY <1>1, <1>3
  <2> QED
    BY <1>4, <1>6, <2>1
<1>8. m = MaxLabels \/ g[j + m - 1].next # "MPLS"
  <2>1. m - 1 \in 0..(m - 1) /\ j + (m - 1) = j + m - 1 /\ i + (m - 1) = i + m - 1
    BY <1>1, <1>3
  <2> QED
    BY <1>4, <1>6, <2>1
<1>9. LabelRun(g, j, m)
  BY <1>7, <1>8 DEF LabelRun
<1>10. Labels(g, j) = m
  BY <1>1, <1>2, <1>9, LabelsUnique
<1> QED
  BY <1>10 DEF m

\* The same headers are found in two same tails.
LEMMA UpperSame ==
    ASSUME NEW f, Complete(f), NEW g, Complete(g), NEW i \in 1..Len(f), NEW j \in 1..Len(g),
           SameTail(f, i, g, j), NEW next, next \in Ethertypes => f[i].h = next
    PROVE  UpperUp(f, i, next) = UpperUp(g, j, next) /\ UpperN(f, i, next) = UpperN(g, j, next)
<1>1. f \in Frames /\ g \in Frames /\ Len(f) \in Nat /\ Len(g) \in Nat /\ i \in Nat /\ j \in Nat
  BY CompleteFacts
<1>2. \A a \in 1..Len(f), b \in 1..Len(g) : SameTail(f, a, g, b) =>
         /\ f[a].h = g[b].h /\ f[a].next = g[b].next /\ f[a].n = g[b].n
         /\ a + 1 \in 1..Len(f) => b + 1 \in 1..Len(g) /\ SameTail(f, a + 1, g, b + 1)
         /\ Tunnelled(f, a) <=> Tunnelled(g, b)
  <2> SUFFICES ASSUME NEW a \in 1..Len(f), NEW b \in 1..Len(g), SameTail(f, a, g, b)
               PROVE  /\ f[a].h = g[b].h /\ f[a].next = g[b].next /\ f[a].n = g[b].n
                      /\ a + 1 \in 1..Len(f) => b + 1 \in 1..Len(g) /\ SameTail(f, a + 1, g, b + 1)
                      /\ Tunnelled(f, a) <=> Tunnelled(g, b)
    OBVIOUS
  <2>1. a \in 1..(Len(f) + 1) /\ b \in 1..(Len(g) + 1) /\ 0 \in 0..(Len(f) + 1 - a) /\ 1 \in 0..(Len(f) + 1 - a)
        /\ a + 0 = a /\ b + 0 = b
    BY <1>1
  <2>2. Alike(f[a], g[b])
    BY <1>1, SameHead
  <2>3. SameTail(f, a + 1, g, b + 1) /\ (a + 1 \in 1..Len(f) => b + 1 \in 1..Len(g))
    BY <1>1, <2>1, SameTailFacts
  <2>4. Tunnelled(f, a) <=> Tunnelled(g, b)
    BY <1>1, TunnelSame
  <2> QED
    BY <2>2, <2>3, <2>4 DEF Alike
<1>3. f[i].h = g[j].h /\ f[i].next = g[j].next /\ f[i].n = g[j].n
  BY <1>2
<1>4. i + 1 \in 1..Len(f) =>
        /\ j + 1 \in 1..Len(g) /\ f[i + 1].next = g[j + 1].next
        /\ Tunnelled(f, i + 1) <=> Tunnelled(g, j + 1)
        /\ (i + 1) + 1 \in 1..Len(f) => f[(i + 1) + 1].next = g[(j + 1) + 1].next
  BY <1>2
<1>5. \A a \in 1..Len(f) : f[a].next \in Carries(f[a].h) => a + 1 \in 1..Len(f) /\ f[a + 1].h = f[a].next
  BY CompleteFacts
<1>6. next = "IPV4" => Ipv4Up(f, i) = Ipv4Up(g, j)
  <2> SUFFICES ASSUME next = "IPV4"  PROVE Ipv4Up(f, i) = Ipv4Up(g, j)
    OBVIOUS
  <2>1. f[i].h = "IPV4"
    BY DEF Ethertypes
  <2>2. f[i].next = "UDP" => i + 1 \in 1..Len(f)
    BY <1>5, <2>1, CarriesFacts DEF IpProtocols
  <2>3. f[i].next = "UDP" => (Tunnelled(f, i + 1) <=> Tunnelled(g, j + 1))
    BY <1>4, <2>2
  <2> QED
    BY <1>3, <2>3 DEF Ipv4Up
<1>7. next = "IPV6" => Ipv6Up(f, i) = Ipv6Up(g, j)
  <2> SUFFICES ASSUME next = "IPV6"  PROVE Ipv6Up(f, i) = Ipv6Up(g, j)
    OBVIOUS
  <2>1. f[i].h = "IPV6"
    BY DEF Ethertypes
  <2>2. f[i].next \in {"UDP", "ICMPV6"} => i + 1 \in 1..Len(f) /\ f[i + 1].h = f[i].next
    BY <1>5, <2>1, CarriesFacts DEF IpProtocols
  <2>3. f[i].next = "UDP" => (Tunnelled(f, i + 1) <=> Tunnelled(g, j + 1))
    BY <1>4, <2>2
  <2>4. f[i].next = "ICMPV6" => Icmpv6Up(f, i + 1) = Icmpv6Up(g, j + 1)
    <3> SUFFICES ASSUME f[i].next = "ICMPV6"  PROVE Icmpv6Up(f, i + 1) = Icmpv6Up(g, j + 1)
      OBVIOUS
    <3>1. f[i + 1].next = g[j + 1].next /\ i + 1 \in 1..Len(f)
      BY <1>4, <2>2
    <3> DEFINE m == f[i + 1].next
    <3>2. m \in NeighbourMsgs => f[(i + 1) + 1].next = g[(j + 1) + 1].next
      BY <1>4, <1>5, <2>2, CarriesFacts
    <3>3. Icmpv6Up(f, i + 1) =
            IF m \notin NeighbourMsgs THEN <<"IPV6", "ICMPV6">>
            ELSE IF f[(i + 1) + 1].next = NeighbourOption[m] THEN <<"IPV6", "ICMPV6", m, NeighbourOption[m]>>
            ELSE <<"IPV6", "ICMPV6", m>>
      BY DEF Icmpv6Up
    <3>4. Icmpv6Up(g, j + 1) =
            IF m \notin NeighbourMsgs THEN <<"IPV6", "ICMPV6">>
            ELSE IF g[(j + 1) + 1].next = NeighbourOption[m] THEN <<"IPV6", "ICMPV6", m, NeighbourOption[m]>>
            ELSE <<"IPV6", "ICMPV6", m>>
      BY <3>1 DEF Icmpv6Up
    <3> HIDE DEF m
    <3> QED
      BY <3>2, <3>3, <3>4
  <2> QED
    BY <1>3, <2>3, <2>4 DEF Ipv6Up
<1>8. next = "MPLS" => Labels(f, i) = Labels(g, j)
  BY LabelsSame DEF Ethertypes
<1>9. PppoeUp(f, i) = PppoeUp(g, j)
  BY <1>3 DEF PppoeUp
<1>10. UpperUp(f, i, next) = UpperUp(g, j, next)
  BY <1>6, <1>7, <1>9 DEF UpperUp
<1>11. UpperN(f, i, next) = UpperN(g, j, next)
  BY <1>3, <1>8 DEF UpperN
<1> QED
  BY <1>10, <1>11

\* Frames of the same shape have the same type.
LEMMA ParseSame ==
    ASSUME NEW f, Complete(f), NEW g, Complete(g), SameTail(f, 1, g, 1)
    PROVE  parse_ethernet(f) = parse_ethernet(g)
<1>1. f \in Frames /\ g \in Frames /\ Len(f) \in Nat /\ Len(g) \in Nat
  BY CompleteFacts
<1>2. Len(f) = Len(g) /\ \A i \in 1..Len(f) : f[i].h = g[i].h /\ f[i].next = g[i].next
  <2>1. Len(f) = Len(g)
    BY <1>1 DEF SameTail
  <2>2. \A i \in 1..Len(f) : i - 1 \in 0..(Len(f) - 1) /\ 1 + (i - 1) = i
    BY <1>1
  <2> QED
    BY <2>1, <2>2 DEF SameTail, Alike
<1> DEFINE k == Tagged(f)
<1> DEFINE next == f[k].next
<1>3. k \in 1..3 /\ k \in 1..Len(f) /\ k + 1 \in 1..Len(f) /\ (next \in Ethertypes => f[k + 1].h = next)
  BY TagsThere
<1>4. 1 \in 1..Len(f) /\ 2 \in 1..Len(f)
  BY <1>1, CompleteFacts
<1>5. Tagged(g) = k
  BY <1>2, <1>4 DEF Tagged
<1> HIDE DEF k
<1>6. g[k].next = next /\ g[1].h = f[1].h
  BY <1>2, <1>3, <1>4
<1>7. SameTail(f, k + 1, g, k + 1)
  <2>1. 1 \in 1..(Len(f) + 1) /\ 1 \in 1..(Len(g) + 1) /\ k \in 0..(Len(f) + 1 - 1) /\ 1 + k = k + 1
    BY <1>1, <1>3
  <2>2. SameTail(f, 1 + k, g, 1 + k)
    BY <1>1, <2>1, SameTailFacts
  <2> QED
    BY <2>1, <2>2
<1>8. UpperUp(f, k + 1, next) = UpperUp(g, k + 1, next) /\ UpperN(f, k + 1, next) = UpperN(g, k + 1, next)
  <2> HIDE DEF next
  <2> QED
    BY <1>2, <1>3, <1>7, UpperSame
<1> DEFINE l2 == Stack(f[1].h, k)
<1>9. /\ next = "ISID" => parse_ethernet(f) = IF Append(l2, "ISID") \in L2 THEN Type(Append(l2, "ISID"), <<>>, 0)
                                              ELSE Type(l2, <<>>, 0)
      /\ next # "ISID" => parse_ethernet(f) = Type(l2, UpperUp(f, k + 1, next), UpperN(f, k + 1, next))
  BY ParseEthernet DEF k
<1>10. /\ next = "ISID" => parse_ethernet(g) = IF Append(l2, "ISID") \in L2 THEN Type(Append(l2, "ISID"), <<>>, 0)
                                               ELSE Type(l2, <<>>, 0)
       /\ next # "ISID" => parse_ethernet(g) = Type(l2, UpperUp(g, k + 1, next), UpperN(g, k + 1, next))
  <2>1. Stack(g[1].h, Tagged(g)) = l2 /\ g[Tagged(g)].next = next /\ Tagged(g) = k
    BY <1>5, <1>6
  <2> HIDE DEF l2, next
  <2> QED
    BY <2>1, ParseEthernet
<1> HIDE DEF l2, next
<1> QED
  BY <1>8, <1>9, <1>10

\* A stack has as many headers as its name says.
LEMMA StackLength ==
    \A a \in Link, k \in 1..3 : Len(Stack(a, k)) = k
BY StackFacts

\* A frame without tags.
LEMMA ParseUntagged ==
    ASSUME NEW f, Complete(f), f[1].next \notin {"VLAN", "ISID"}
    PROVE  parse_ethernet(f) = Type(<<f[1].h>>, UpperUp(f, 2, f[1].next), UpperN(f, 2, f[1].next))
<1>1. Tagged(f) = 1 /\ 1 + 1 = 2
  BY DEF Tagged
<1>2. Stack(f[1].h, 1) = <<f[1].h>>
  BY DEF Stack
<1>3. f[1].next # "ISID"
  OBVIOUS
<1> DEFINE next == f[Tagged(f)].next
<1> DEFINE l2 == Stack(f[1].h, Tagged(f))
<1>4. next # "ISID" => parse_ethernet(f) = Type(l2, UpperUp(f, Tagged(f) + 1, next), UpperN(f, Tagged(f) + 1, next))
  BY ParseEthernet
<1>5. next = f[1].next /\ l2 = Stack(f[1].h, 1)
  BY <1>1
<1> HIDE DEF next, l2
<1> QED
  BY <1>1, <1>2, <1>3, <1>4, <1>5

\* A frame with an I-SID behind its Ethernet header.
LEMMA ParseBackbone ==
    ASSUME NEW f, Complete(f), f[1].h = "ETHERNET", f[1].next = "ISID"
    PROVE  parse_ethernet(f) = Type(<<"ETHERNET", "ISID">>, <<>>, 0)
<1>1. Tagged(f) = 1
  BY DEF Tagged
<1> DEFINE l2 == Stack(f[1].h, Tagged(f))
<1>2. 1 \in 1..3 /\ "ETHERNET" \in Link
  BY DEF Link
<1>3. Append(l2, "ISID") \in L2
  BY <1>1, <1>2, StackFacts
<1>4. Append(l2, "ISID") = <<"ETHERNET", "ISID">>
  <2>1. Append(Stack("ETHERNET", 1), "ISID") = <<"ETHERNET", "ISID">>
    BY <1>2, StackFacts
  <2> QED
    BY <1>1, <2>1
<1>5. f[Tagged(f)].next = "ISID"
  BY <1>1
<1>6. parse_ethernet(f) = IF Append(l2, "ISID") \in L2 THEN Type(Append(l2, "ISID"), <<>>, 0) ELSE Type(l2, <<>>, 0)
  BY <1>5, ParseEthernet
<1> HIDE DEF l2
<1>7. parse_ethernet(f) = Type(Append(l2, "ISID"), <<>>, 0)
  BY <1>3, <1>6
<1> QED
  BY <1>4, <1>7

\* One more tag behind the Ethernet header does not change what is found behind the tags.
LEMMA ParsePushedVlan ==
    ASSUME NEW f, Complete(f), NEW g, Complete(g), NEW l2, NEW up, NEW n,
           parse_ethernet(f) = Type(l2, up, n), ~HasIsid(l2), Len(l2) < 3,
           f[1].h = "ETHERNET", g[1].h = "ETHERNET", g[1].next = "VLAN", g[2].h = "VLAN", g[2].next = f[1].next,
           SameTail(f, 2, g, 3)
    PROVE  parse_ethernet(g) = Type(Append(l2, "VLAN"), up, n)
<1> DEFINE k == Tagged(f)
<1> DEFINE next == f[k].next
<1> DEFINE x == Stack("ETHERNET", k)
<1> DEFINE y == Stack("ETHERNET", k + 1)
<1>1. f \in Frames /\ g \in Frames /\ Len(f) \in Nat /\ Len(g) \in Nat /\ 2 \in 1..Len(f)
  BY CompleteFacts
<1>2. Len(g) = Len(f) + 1
  BY <1>1 DEF SameTail
<1>3. k \in 1..3 /\ k \in 1..Len(f) /\ k + 1 \in 1..Len(f) /\ (next \in Ethertypes => f[k + 1].h = next)
  BY TagsThere
<1>4. /\ next = "ISID" => parse_ethernet(f) = IF Append(x, "ISID") \in L2 THEN Type(Append(x, "ISID"), <<>>, 0)
                                              ELSE Type(x, <<>>, 0)
      /\ next # "ISID" => parse_ethernet(f) = Type(x, UpperUp(f, k + 1, next), UpperN(f, k + 1, next))
  BY ParseEthernet
<1>5. \A a, b, c, d, e, h : Type(a, b, c) = Type(d, e, h) => a = d /\ b = e /\ c = h
  BY DEF Type
<1> HIDE DEF k, next
<1>6. "ETHERNET" \in Link
  BY DEF Link
<1>7a. Len(x) = k
  BY <1>3, <1>6, StackLength
<1>7b. Append(x, "ISID") \in L2 <=> k # 3
  BY <1>3, <1>6, StackFacts
<1>8. k # 3 => HasIsid(Append(x, "ISID"))
  <2>1. k = 1 => Append(x, "ISID") = <<"ETHERNET", "ISID">>
    BY <1>6, StackFacts
  <2>2. k = 2 => Append(x, "ISID") = <<"ETHERNET", "VLAN", "ISID">>
    BY <1>6, StackFacts
  <2> DEFINE z == Append(x, "ISID")
  <2> HIDE DEF z
  <2>3. (k = 1 => z = <<"ETHERNET", "ISID">>) /\ (k = 2 => z = <<"ETHERNET", "VLAN", "ISID">>)
    BY <2>1, <2>2 DEF z
  <2>4. k # 3 => HasIsid(z)
    BY <1>3, <2>3 DEF HasIsid
  <2> QED
    BY <2>4 DEF z
<1> HIDE DEF x
<1> DEFINE app == Append(x, "ISID")
<1> DEFINE none == <<>>
<1> HIDE DEF none, app
<1>4a. next = "ISID" => Type(l2, up, n) = IF app \in L2 THEN Type(app, none, 0) ELSE Type(x, none, 0)
  BY <1>4 DEF app, none
<1>7c. app \in L2 <=> k # 3
  BY <1>7b DEF app
<1>8a. k # 3 => HasIsid(app)
  BY <1>8 DEF app
<1>9. next # "ISID"
  <2> SUFFICES ASSUME next = "ISID"  PROVE FALSE
    OBVIOUS
  <2>1. CASE k = 3
    <3>1. ~(app \in L2)
      BY <1>7c, <2>1
    <3>2. Type(l2, up, n) = Type(x, none, 0)
      BY <1>4a, <3>1
    <3>3. l2 = x
      BY <1>5, <3>2
    <3>4. Len(l2) = 3
      BY <1>7a, <2>1, <3>3
    <3> QED
      BY <3>4
  <2>2. CASE k # 3
    <3>1. app \in L2
      BY <1>7c, <2>2
    <3>2. Type(l2, up, n) = Type(app, none, 0)
      BY <1>4a, <3>1
    <3>3. l2 = app
      BY <1>5, <3>2
    <3> QED
      BY <1>8a, <2>2, <3>3
  <2> QED
    BY <2>1, <2>2
<1>10. l2 = x /\ up = UpperUp(f, k + 1, next) /\ n = UpperN(f, k + 1, next)
  BY <1>4, <1>5, <1>9
<1>11. k \in 1..2
  BY <1>3, <1>7a, <1>10
<1>12. Append(x, "VLAN") = y
  <2>1. CASE k = 1
    <3>1. x = <<"ETHERNET">> /\ y = <<"ETHERNET", "VLAN">>
      BY <2>1 DEF Stack, x
    <3>2. Append(<<"ETHERNET">>, "VLAN") = <<"ETHERNET", "VLAN">>
      BY Appended
    <3> HIDE DEF y
    <3> QED
      BY <3>1, <3>2
  <2>2. CASE k = 2
    <3>1. x = <<"ETHERNET", "VLAN">> /\ y = <<"ETHERNET", "VLAN", "VLAN">>
      BY <2>2 DEF Stack, x
    <3>2. Append(<<"ETHERNET", "VLAN">>, "VLAN") = <<"ETHERNET", "VLAN", "VLAN">>
      BY Appended
    <3> HIDE DEF y
    <3> QED
      BY <3>1, <3>2
  <2> QED
    BY <1>11, <2>1, <2>2
<1>13. 2 \in 1..(Len(f) + 1) /\ 3 \in 1..(Len(g) + 1)
  BY <1>1, <1>2
<1>14. f[2].next = g[3].next
  <2>1. 3 \in 1..Len(g)
    BY <1>1, <1>2
  <2> QED
    BY <1>1, <2>1, SameHead DEF Alike
<1>15. Tagged(g) = k + 1 /\ g[k + 1].next = next
  <2>1. CASE k = 1
    <3>1. f[1].next # "VLAN"
      BY <2>1 DEF k, Tagged
    <3>2. Tagged(g) = 2
      BY <3>1 DEF Tagged
    <3> QED
      BY <2>1, <3>2 DEF next
  <2>2. CASE k = 2
    <3>1. f[1].next = "VLAN" /\ f[2].next # "VLAN"
      BY <2>2 DEF k, Tagged
    <3>2. Tagged(g) = 3
      BY <3>1 DEF Tagged
    <3> QED
      BY <1>14, <2>2, <3>2 DEF next
  <2> QED
    BY <1>11, <2>1, <2>2
<1>16. SameTail(f, k + 1, g, k + 2) /\ k + 2 \in 1..Len(g)
  <2>1. k - 1 \in 0..(Len(f) + 1 - 2) /\ 2 + (k - 1) = k + 1 /\ 3 + (k - 1) = k + 2 /\ k + 2 \in 1..Len(g)
    BY <1>1, <1>2, <1>3
  <2>2. SameTail(f, 2 + (k - 1), g, 3 + (k - 1))
    BY <1>1, <1>13, <2>1, SameTailFacts
  <2> QED
    BY <2>1, <2>2
<1>17. UpperUp(f, k + 1, next) = UpperUp(g, k + 2, next) /\ UpperN(f, k + 1, next) = UpperN(g, k + 2, next)
  BY <1>3, <1>16, UpperSame
<1>18. parse_ethernet(g) = Type(y, UpperUp(g, k + 2, next), UpperN(g, k + 2, next))
  <2> DEFINE kk == Tagged(g)
  <2> DEFINE nn == g[kk].next
  <2> DEFINE yy == Stack(g[1].h, kk)
  <2>1. nn # "ISID" => parse_ethernet(g) = Type(yy, UpperUp(g, kk + 1, nn), UpperN(g, kk + 1, nn))
    BY ParseEthernet
  <2>2. nn = next /\ yy = y
    BY <1>15
  <2>3. kk + 1 = k + 2
    BY <1>3, <1>15
  <2> HIDE DEF nn, yy, kk, y
  <2> QED
    BY <1>9, <2>1, <2>2, <2>3
<1> HIDE DEF y
<1> QED
  BY <1>10, <1>12, <1>17, <1>18

\* One more label is counted.
LEMMA LabelsPushed ==
    ASSUME NEW f, Complete(f), NEW g, Complete(g), f[2].h = "MPLS", g[2].next = "MPLS",
           SameTail(f, 2, g, 3), Labels(f, 2) < MaxLabels
    PROVE  Labels(g, 2) = Labels(f, 2) + 1
<1> DEFINE m == Labels(f, 2)
<1>0. MaxLabels = 32
  BY DEF MaxLabels
<1>1. f \in Frames /\ g \in Frames /\ Len(f) \in Nat /\ Len(g) \in Nat /\ 2 \in 1..Len(f)
  BY CompleteFacts
<1>2. Len(g) = Len(f) + 1
  BY <1>1 DEF SameTail
<1>3. m \in 1..MaxLabels /\ LabelRun(f, 2, m)
  BY LabelsExist
<1>4. m < MaxLabels
  OBVIOUS
<1> HIDE DEF m
<1>5. m \in Nat \ {0} /\ m + 1 \in 1..MaxLabels
  BY <1>0, <1>3, <1>4
<1>6. (\A j \in 2..(2 + m - 2) : f[j].next = "MPLS") /\ f[2 + m - 1].next # "MPLS"
  BY <1>3, <1>4, <1>0 DEF LabelRun
<1>7. \A d \in 0..(m - 1) : 2 + d \in 1..Len(f)
  BY <1>1, <1>5, <1>6, LabelsThere
<1>8. \A d \in 0..(m - 1) : f[2 + d].next = g[3 + d].next
  <2> TAKE d \in 0..(m - 1)
  <2>1. 2 + d \in 1..Len(f)
    BY <1>7
  <2>2. d \in 0..(Len(f) + 1 - 2) /\ 2 \in 1..(Len(f) + 1) /\ 3 \in 1..(Len(g) + 1)
    BY <1>1, <1>2, <1>5, <2>1
  <2> QED
    BY <1>1, <2>1, <2>2, SameTailFacts DEF Alike
<1>9. \A j \in 2..(2 + (m + 1) - 2) : g[j].next = "MPLS"
  <2> TAKE j \in 2..(2 + (m + 1) - 2)
  <2>1. CASE j = 2
    BY <2>1
  <2>2. CASE j # 2
    <3>1. j - 3 \in 0..(m - 1) /\ 3 + (j - 3) = j /\ 2 + (j - 3) \in 2..(2 + m - 2)
      BY <1>5, <2>2
    <3> QED
      BY <1>6, <1>8, <3>1
  <2> QED
    BY <2>1, <2>2
<1>10. g[2 + (m + 1) - 1].next # "MPLS"
  <2>1. m - 1 \in 0..(m - 1) /\ 3 + (m - 1) = 2 + (m + 1) - 1 /\ 2 + (m - 1) = 2 + m - 1
    BY <1>5
  <2> QED
    BY <1>6, <1>8, <2>1
<1>11. LabelRun(g, 2, m + 1)
  BY <1>9, <1>10 DEF LabelRun
<1>12. Labels(g, 2) = m + 1
  BY <1>5, <1>11, LabelsUnique
<1> QED
  BY <1>12 DEF m

-----------------------------------------------------------------------------
(* Frames that are cut and joined *)

\* Behind its first a pieces, frame g goes on as f does from piece k.
Spliced(g, a, f, k) ==
    /\ g \in Frames /\ a \in Nat /\ k \in 1..(Len(f) + 1)
    /\ Len(g) = a + (Len(f) - k + 1)
    /\ \A d \in 0..(Len(f) - k) : g[a + 1 + d] = f[k + d]
\* What a complete frame has at piece i.
PieceOk(f, i) ==
    /\ f[i].h \in FixedLength => f[i].n = 0
    /\ f[i].h = "IPV4" => f[i].n <= MaxOptions
    /\ f[i].next \in Carries(f[i].h) => i < Len(f) /\ f[i + 1].h = f[i].next
    /\ f[i].h \in Carriers => i < Len(f)
    /\ BringsFrame(f[i]) => i < Len(f) /\ f[i + 1].h \in Link
\* The stale checksums of a frame are of the protocols in S.
StaleIn(f, S) == \A i \in DOMAIN f : f[i].stale => f[i].h \in S

\* A frame is complete when its first header is one of layer 2 and every piece is as it should
\* be.
LEMMA CompletePieces ==
    ASSUME NEW f \in Frames
    PROVE  Complete(f) <=> Len(f) > 0 /\ f[1].h \in Link /\ \A i \in 1..Len(f) : PieceOk(f, i)
<1>1. DOMAIN f = 1..Len(f)
  BY FrameFacts
<1> QED
  BY <1>1 DEF Complete, PieceOk, Frames

\* The frame that was spliced in goes on as before.
LEMMA SpliceTail ==
    ASSUME NEW f \in Frames, NEW g, NEW a, NEW k, Spliced(g, a, f, k)
    PROVE  SameTail(f, k, g, a + 1)
<1>1. Len(f) \in Nat
  BY FrameFacts
<1>2. a \in Nat /\ k \in Nat /\ Len(g) = a + (Len(f) - k + 1) /\ \A d \in 0..(Len(f) - k) : g[a + 1 + d] = f[k + d]
  BY <1>1 DEF Spliced
<1>3. Len(f) - k = Len(g) - (a + 1)
  BY <1>1, <1>2
<1>4. \A d \in 0..(Len(f) - k) : Alike(f[k + d], g[(a + 1) + d])
  BY <1>2 DEF Alike
<1> QED
  BY <1>3, <1>4 DEF SameTail

\* A frame is complete when its tail is one of a complete frame and what is in front is.
LEMMA SpliceComplete ==
    ASSUME NEW f, Complete(f), NEW g \in Frames, NEW a \in Nat, NEW k \in 1..Len(f), SameTail(f, k, g, a + 1),
           g[1].h \in Link, \A j \in 1..a : PieceOk(g, j)
    PROVE  Complete(g)
<1>1. f \in Frames /\ Len(f) \in Nat /\ Len(g) \in Nat /\ \A i \in 1..Len(f) : PieceOk(f, i)
  BY CompleteFacts, CompletePieces, FrameFacts
<1>2. Len(g) = a + (Len(f) - k + 1) /\ \A d \in 0..(Len(f) - k) : Alike(f[k + d], g[(a + 1) + d])
  BY <1>1 DEF SameTail
<1>3. Len(g) > 0
  BY <1>1, <1>2
<1>4. ASSUME NEW i \in (a + 1)..Len(g)  PROVE PieceOk(g, i)
  <2> DEFINE d == i - (a + 1)
  <2>1. d \in 0..(Len(f) - k) /\ (a + 1) + d = i /\ k + d \in 1..Len(f)
    BY <1>1, <1>2
  <2> HIDE DEF d
  <2>2. Alike(f[k + d], g[i])
    BY <1>2, <2>1
  <2>3. i < Len(g) <=> k + d < Len(f)
    BY <1>1, <1>2, <2>1
  <2>4. k + d < Len(f) => f[(k + d) + 1].h = g[i + 1].h
    <3> SUFFICES ASSUME k + d < Len(f)  PROVE f[(k + d) + 1].h = g[i + 1].h
      OBVIOUS
    <3>1. d + 1 \in 0..(Len(f) - k) /\ k + (d + 1) = (k + d) + 1 /\ (a + 1) + (d + 1) = i + 1
      BY <1>1, <2>1
    <3>2. Alike(f[k + (d + 1)], g[(a + 1) + (d + 1)])
      BY <1>2, <3>1
    <3> QED
      BY <3>1, <3>2 DEF Alike
  <2>5. PieceOk(f, k + d)
    BY <1>1, <2>1
  <2> QED
    BY <2>2, <2>3, <2>4, <2>5 DEF PieceOk, Alike, BringsFrame
<1>5. \A i \in 1..Len(g) : i \in 1..a \/ i \in (a + 1)..Len(g)
  BY <1>1
<1>6. \A i \in 1..Len(g) : PieceOk(g, i)
  BY <1>4, <1>5
<1> QED
  BY <1>3, <1>6, CompletePieces

\* Splicing leaves no stale checksums but those of the parts.
LEMMA SpliceStale ==
    ASSUME NEW f \in Frames, NEW g, NEW a, NEW k, Spliced(g, a, f, k), NEW S, StaleIn(f, S),
           \A j \in 1..a : g[j].stale => g[j].h \in S
    PROVE  StaleIn(g, S)
<1>1. Len(f) \in Nat /\ DOMAIN f = 1..Len(f) /\ g \in Frames
  BY FrameFacts DEF Spliced
<1>2. Len(g) \in Nat /\ DOMAIN g = 1..Len(g)
  BY <1>1, FrameFacts
<1>3. a \in Nat /\ k \in 1..(Len(f) + 1) /\ Len(g) = a + (Len(f) - k + 1) /\ \A d \in 0..(Len(f) - k) : g[a + 1 + d] = f[k + d]
  BY DEF Spliced
<1>4. ASSUME NEW i \in (a + 1)..Len(g)  PROVE g[i].stale => g[i].h \in S
  <2> DEFINE d == i - (a + 1)
  <2>1. d \in 0..(Len(f) - k) /\ a + 1 + d = i /\ k + d \in 1..Len(f)
    BY <1>1, <1>3
  <2> HIDE DEF d
  <2>2. g[i] = f[k + d]
    BY <1>3, <2>1
  <2> QED
    BY <1>1, <2>1, <2>2 DEF StaleIn
<1>5. \A i \in 1..Len(g) : i \in 1..a \/ i \in (a + 1)..Len(g)
  BY <1>3
<1> QED
  BY <1>2, <1>4, <1>5 DEF StaleIn

\* The four ways in which the actions change a frame.
LEMMA Joined ==
    ASSUME NEW p \in Frames, NEW f \in Frames, NEW k \in 1..(Len(f) + 1)
    PROVE  Spliced(p \o SubSeq(f, k, Len(f)), Len(p), f, k) /\ \A j \in 1..Len(p) : (p \o SubSeq(f, k, Len(f)))[j] = p[j]
<1>1. Len(f) \in Nat /\ Len(p) \in Nat /\ p \in Seq(Pieces) /\ f \in Seq(Pieces)
  BY FrameFacts DEF Frames
<1> DEFINE q == SubSeq(f, k, Len(f))
<1>2. q \in Seq(Pieces) /\ Len(q) = Len(f) - k + 1 /\ \A d \in 1..(Len(f) - k + 1) : q[d] = f[k + d - 1]
  <2>1. \A i \in k..Len(f) : i \in 1..Len(f)
    BY <1>1
  <2>2. q \in Seq(Pieces)
    BY <1>1, <2>1, SubSeqProperties
  <2>3. Len(q) = IF k <= Len(f) THEN Len(f) - k + 1 ELSE 0
    BY <1>1, <2>1, SubSeqProperties
  <2>4. \A d \in 1..(Len(f) - k + 1) : q[d] = f[k + d - 1]
    BY <1>1, <2>1, SubSeqProperties
  <2> QED
    BY <1>1, <2>2, <2>3, <2>4
<1> HIDE DEF q
<1> DEFINE g == p \o q
<1>3. /\ g \in Seq(Pieces) /\ Len(g) = Len(p) + Len(q)
      /\ \A i \in 1..(Len(p) + Len(q)) : g[i] = IF i <= Len(p) THEN p[i] ELSE q[i - Len(p)]
  BY <1>1, <1>2, ConcatProperties
<1> HIDE DEF g
<1>4. \A j \in 1..Len(p) : g[j] = p[j]
  <2> TAKE j \in 1..Len(p)
  <2>1. j \in 1..(Len(p) + Len(q)) /\ j <= Len(p)
    BY <1>1, <1>2
  <2> QED
    BY <1>3, <2>1
<1>5. \A d \in 0..(Len(f) - k) : g[Len(p) + 1 + d] = f[k + d]
  <2> TAKE d \in 0..(Len(f) - k)
  <2>1. /\ Len(p) + 1 + d \in 1..(Len(p) + Len(q)) /\ ~(Len(p) + 1 + d <= Len(p))
        /\ Len(p) + 1 + d - Len(p) = d + 1 /\ d + 1 \in 1..(Len(f) - k + 1) /\ k + (d + 1) - 1 = k + d
    BY <1>1, <1>2
  <2>2. g[Len(p) + 1 + d] = q[d + 1]
    BY <1>3, <2>1
  <2> QED
    BY <1>2, <2>1, <2>2
<1>6. Spliced(g, Len(p), f, k)
  BY <1>1, <1>2, <1>3, <1>5 DEF Spliced, Frames
<1> QED
  BY <1>4, <1>6 DEF g, q

\* Overwriting the ethertype of a frame changes nothing else.
LEMMA Announced ==
    ASSUME NEW r \in Frames, Len(r) > 0, NEW c \in Names
    PROVE  /\ Announce(r, c) \in Frames /\ Len(Announce(r, c)) = Len(r)
           /\ Announce(r, c)[1] = [r[1] EXCEPT !.next = c]
           /\ \A i \in 2..Len(r) : Announce(r, c)[i] = r[i]
<1> DEFINE n == Len(r)
<1> DEFINE x == [r[1] EXCEPT !.next = c]
<1>1. n \in Nat /\ DOMAIN r = 1..n /\ (\A i \in 1..n : r[i] \in Pieces) /\ 1 \in 1..n /\ r \in Seq(Pieces)
  BY FrameFacts DEF Frames
<1>2. x \in Pieces
  <2>1. r[1] \in [h : Names, n : Nat, next : Names, stale : BOOLEAN]
    BY <1>1 DEF Pieces
  <2>2. x \in [h : Names, n : Nat, next : Names, stale : BOOLEAN]
    BY <2>1
  <2> QED
    BY <2>2 DEF Pieces
<1> HIDE DEF x
<1> DEFINE g == [r EXCEPT ![1] = x]
<1>3. Announce(r, c) = g
  BY DEF Announce, x
<1>4. g \in Seq(Pieces) /\ Len(g) = n
  BY <1>1, <1>2, ExceptSeq
<1>5. g[1] = x /\ \A i \in 2..n : g[i] = r[i]
  BY <1>1
<1> QED
  BY <1>3, <1>4, <1>5 DEF Frames, x

\* Pieces in front of the frame.
LEMMA Prepended ==
    ASSUME NEW p \in Frames, NEW f \in Frames
    PROVE  LET g == p \o SubSeq(f, 0 + 1, Len(f)) IN
           Spliced(g, Len(p), f, 1) /\ \A j \in 1..Len(p) : g[j] = p[j]
<1>1. 1 \in 1..(Len(f) + 1) /\ 0 + 1 = 1
  BY FrameFacts
<1> QED
  BY <1>1, Joined

\* Pieces behind the first one, which announces c.
LEMMA Inserted ==
    ASSUME NEW p \in Frames, NEW f \in Frames, Len(f) > 0, NEW c \in Names
    PROVE  LET g == Announce(SubSeq(f, 1, 1), c) \o p \o SubSeq(f, 1 + 1, Len(f)) IN
           /\ Spliced(g, 1 + Len(p), f, 2)
           /\ g[1] = [f[1] EXCEPT !.next = c] /\ \A j \in 1..Len(p) : g[j + 1] = p[j]
<1> DEFINE q == SubSeq(f, 1, 1)
<1> DEFINE a == Announce(q, c)
<1>1. Len(f) \in Nat /\ Len(p) \in Nat /\ p \in Seq(Pieces) /\ f \in Seq(Pieces) /\ f[1] \in Pieces
  BY FrameFacts DEF Frames
<1>2. q \in Frames /\ Len(q) = 1 /\ q[1] = f[1]
  <2>1. \A i \in 1..1 : f[i] \in Pieces
    BY <1>1
  <2>2. q \in Seq(Pieces) /\ Len(q) = IF 1 <= 1 THEN 1 - 1 + 1 ELSE 0
    BY <2>1, SubSeqProperties
  <2>3. \A i \in 1..(1 - 1 + 1) : q[i] = f[1 + i - 1]
    BY <2>1, SubSeqProperties
  <2> HIDE DEF q
  <2> QED
    BY <2>2, <2>3 DEF Frames
<1> HIDE DEF q
<1>3. a \in Frames /\ Len(a) = 1 /\ a[1] = [f[1] EXCEPT !.next = c]
  BY <1>2, Announced
<1> HIDE DEF a
<1> DEFINE b == a \o p
<1>4. b \in Frames /\ Len(b) = 1 + Len(p) /\ \A i \in 1..(1 + Len(p)) : b[i] = IF i <= 1 THEN a[i] ELSE p[i - 1]
  <2>1. a \in Seq(Pieces) /\ Len(a) = 1
    BY <1>3 DEF Frames
  <2>2. /\ b \in Seq(Pieces) /\ Len(b) = Len(a) + Len(p)
        /\ \A i \in 1..(Len(a) + Len(p)) : b[i] = IF i <= Len(a) THEN a[i] ELSE p[i - Len(a)]
    BY <1>1, <2>1, ConcatProperties
  <2> HIDE DEF b
  <2> QED
    BY <2>1, <2>2 DEF Frames
<1> HIDE DEF b
<1>5. 2 \in 1..(Len(f) + 1) /\ 1 + 1 = 2
  BY <1>1
<1> DEFINE g == b \o SubSeq(f, 2, Len(f))
<1>6. Spliced(g, Len(b), f, 2) /\ \A j \in 1..Len(b) : g[j] = b[j]
  BY <1>4, <1>5, Joined
<1> HIDE DEF g
<1>7. \A j \in 1..Len(p) : g[j + 1] = p[j]
  <2> TAKE j \in 1..Len(p)
  <2>1. j + 1 \in 1..(1 + Len(p)) /\ ~(j + 1 <= 1) /\ (j + 1) - 1 = j
    BY <1>1
  <2> QED
    BY <1>4, <1>6, <2>1
<1>8. g[1] = a[1]
  <2>1. 1 \in 1..(1 + Len(p)) /\ 1 <= 1
    BY <1>1
  <2> QED
    BY <1>4, <1>6, <2>1
<1> QED
  BY <1>3, <1>4, <1>5, <1>6, <1>7, <1>8 DEF a, b, g, q

\* What is left without the pieces from the second one up to k, with c announced by the first.
LEMMA Removed ==
    ASSUME NEW f \in Frames, NEW k \in 2..(Len(f) + 1), NEW c \in Names
    PROVE  LET g == Announce(SubSeq(f, 1, 2 - 1) \o SubSeq(f, k, Len(f)), c) IN
           Spliced(g, 1, f, k) /\ g[1] = [f[1] EXCEPT !.next = c]
<1> DEFINE q == SubSeq(f, 1, 1)
<1>1. Len(f) \in Nat /\ f \in Seq(Pieces) /\ Len(f) > 0 /\ k \in 1..(Len(f) + 1) /\ 2 - 1 = 1
  BY FrameFacts DEF Frames
<1>2. q \in Frames /\ Len(q) = 1 /\ q[1] = f[1]
  <2>1. \A i \in 1..1 : f[i] \in Pieces
    BY <1>1, FrameFacts
  <2>2. q \in Seq(Pieces) /\ Len(q) = IF 1 <= 1 THEN 1 - 1 + 1 ELSE 0
    BY <2>1, SubSeqProperties
  <2>3. \A i \in 1..(1 - 1 + 1) : q[i] = f[1 + i - 1]
    BY <2>1, SubSeqProperties
  <2> HIDE DEF q
  <2> QED
    BY <2>2, <2>3 DEF Frames
<1> HIDE DEF q
<1> DEFINE r == q \o SubSeq(f, k, Len(f))
<1>3. Spliced(r, 1, f, k) /\ r[1] = f[1]
  <2>1. Spliced(r, Len(q), f, k) /\ \A j \in 1..Len(q) : r[j] = q[j]
    BY <1>1, <1>2, Joined
  <2> HIDE DEF r
  <2> QED
    BY <1>2, <2>1
<1> HIDE DEF r
<1>4. r \in Frames /\ Len(r) = 1 + (Len(f) - k + 1) /\ \A d \in 0..(Len(f) - k) : r[1 + 1 + d] = f[k + d]
  BY <1>3 DEF Spliced
<1> DEFINE g == Announce(r, c)
<1>5. Len(r) > 0
  BY <1>1, <1>4
<1>6. g \in Frames /\ Len(g) = Len(r) /\ g[1] = [r[1] EXCEPT !.next = c] /\ \A i \in 2..Len(r) : g[i] = r[i]
  BY <1>4, <1>5, Announced
<1> HIDE DEF g
<1>7. \A d \in 0..(Len(f) - k) : g[1 + 1 + d] = f[k + d]
  <2> TAKE d \in 0..(Len(f) - k)
  <2>1. 1 + 1 + d \in 2..Len(r)
    BY <1>1, <1>4
  <2> QED
    BY <1>4, <1>6, <2>1
<1>8. Spliced(g, 1, f, k)
  BY <1>1, <1>4, <1>6, <1>7 DEF Spliced
<1> QED
  BY <1>1, <1>3, <1>6, <1>8 DEF g, r, q

\* What is left without the pieces up to k.
LEMMA Dropped ==
    ASSUME NEW f \in Frames, NEW k \in 1..(Len(f) + 1)
    PROVE  Spliced(SubSeq(f, 1, 1 - 1) \o SubSeq(f, k, Len(f)), 0, f, k)
<1> DEFINE q == SubSeq(f, 1, 0)
<1>1. f \in Seq(Pieces) /\ 1 - 1 = 0
  BY DEF Frames
<1>2. q \in Frames /\ Len(q) = 0
  <2>1. \A i \in 1..0 : f[i] \in Pieces
    OBVIOUS
  <2>2. q \in Seq(Pieces) /\ Len(q) = IF 1 <= 0 THEN 0 - 1 + 1 ELSE 0
    BY <2>1, SubSeqProperties
  <2> HIDE DEF q
  <2> QED
    BY <2>2 DEF Frames
<1> HIDE DEF q
<1>3. Spliced(q \o SubSeq(f, k, Len(f)), Len(q), f, k)
  BY <1>2, Joined
<1> QED
  BY <1>1, <1>2, <1>3 DEF q

-----------------------------------------------------------------------------
(* Bytes and pieces *)

\* Only an Ethernet header without tags takes 14 bytes.
LEMMA L2Shape ==
    ASSUME NEW l2 \in L2
    PROVE  /\ l2[1] \in Link /\ Len(l2) \in 1..3 /\ \A i \in 2..Len(l2) : l2[i] \in {"VLAN", "ISID"}
           /\ L2Len(l2) = 14 <=> l2 = <<"ETHERNET">>
           /\ L2Len(l2) \in 14..30
           /\ l2 \in {<<"ETHERNET">>, <<"8023">>} <=> Len(l2) = 1
<1>1. l2[1] \in Link
  BY DEF L2, Link
<1>2. Len(l2) \in 1..3
  BY L2Elements
<1>3. \A i \in 2..Len(l2) : l2[i] \in {"VLAN", "ISID"}
  BY DEF L2
<1>4. L2Len(l2) = 14 <=> l2 = <<"ETHERNET">>
  BY Lengths DEF L2
<1>5. L2Len(l2) \in 14..30
  BY Lengths DEF L2
<1>6. l2 \in {<<"ETHERNET">>, <<"8023">>} <=> Len(l2) = 1
  BY DEF L2
<1> QED
  BY <1>1, <1>2, <1>3, <1>4, <1>5, <1>6

\* The headers that are always as long as each other.
LEMMA HeaderLengths ==
    ASSUME NEW f, Complete(f), NEW i \in 1..Len(f)
    PROVE  /\ f[i].h = "ETHERNET" => PieceLen(f[i]) = 14
           /\ f[i].h = "8023" => PieceLen(f[i]) = 22
           /\ f[i].h \in {"VLAN", "ISID", "MPLS", "ICMPV6"} => PieceLen(f[i]) = 4
           /\ f[i].h = "PPPOE" => PieceLen(f[i]) = 6
           /\ f[i].h = "PPP" => PieceLen(f[i]) = 2
           /\ f[i].h = "UDP" => PieceLen(f[i]) = 8
           /\ f[i].h = "IPV6" => PieceLen(f[i]) = 40
           /\ f[i].h = "IPV4" => PieceLen(f[i]) = 20 + 4 * f[i].n
           /\ f[i].h = "GTPU" => PieceLen(f[i]) = 8 + 4 * f[i].n
           /\ f[i].h = "GRE" => PieceLen(f[i]) = 4 + 4 * f[i].n
           /\ PieceLen(f[i]) \in Nat /\ PieceLen(f[i]) > 0
<1> DEFINE p == f[i]
<1>1. p \in Pieces /\ (p.h \in FixedLength => p.n = 0) /\ PieceLen(p) = HdrLen(p.h) + 4 * p.n
  BY CompleteFacts, PieceLenFacts
<1>2. p.n \in Nat
  BY <1>1 DEF Pieces
<1>3. PieceLen(p) \in Nat /\ PieceLen(p) > 0
  BY <1>1, PieceLenFacts
<1> HIDE DEF p
<1>4. p.h \in {"ETHERNET", "8023", "VLAN", "ISID", "MPLS", "ICMPV6", "PPPOE", "PPP", "UDP", "IPV6"}
        => PieceLen(p) = HdrLen(p.h)
  <2> SUFFICES ASSUME p.h \in {"ETHERNET", "8023", "VLAN", "ISID", "MPLS", "ICMPV6", "PPPOE", "PPP", "UDP", "IPV6"}
               PROVE  PieceLen(p) = HdrLen(p.h)
    OBVIOUS
  <2>1. p.n = 0
    BY <1>1 DEF FixedLength, Link
  <2>2. HdrLen(p.h) \in Nat
    BY DEF HdrLen
  <2> QED
    BY <1>1, <2>1, <2>2
<1>5. /\ HdrLen("ETHERNET") = 14 /\ HdrLen("8023") = 22 /\ HdrLen("VLAN") = 4 /\ HdrLen("ISID") = 4
      /\ HdrLen("MPLS") = 4 /\ HdrLen("ICMPV6") = 4 /\ HdrLen("PPPOE") = 6 /\ HdrLen("PPP") = 2
      /\ HdrLen("UDP") = 8 /\ HdrLen("IPV6") = 40 /\ HdrLen("IPV4") = 20 /\ HdrLen("GTPU") = 8 /\ HdrLen("GRE") = 4
  BY DEF HdrLen
<1>6. p.h \in {"VLAN", "ISID", "MPLS", "ICMPV6"} => PieceLen(p) = 4
  BY <1>4, <1>5
<1> QED
  BY <1>1, <1>3, <1>4, <1>5, <1>6 DEF p

\* Where the layer 2 headers start, and what is behind them.
LEMMA LinkStarts ==
    ASSUME NEW f, Complete(f), NEW l2 \in L2, L2Matches(f, l2)
    PROVE  /\ Len(l2) \in Nat /\ Len(l2) + 1 \in 1..Len(f) /\ Start(f, 1) = 0
           /\ Start(f, 2) = L2Len(<<l2[1]>>)
           /\ Len(l2) > 1 => Start(f, 3) = L2Len(<<l2[1]>>) + 4
           /\ Len(l2) > 2 => Start(f, 4) = L2Len(<<l2[1]>>) + 8
           /\ Start(f, Len(l2) + 1) = L2Len(l2)
<1> DEFINE n == Len(l2)
<1> DEFINE e == L2Len(<<l2[1]>>)
<1>1. f \in Frames /\ Len(f) \in Nat /\ n \in 1..3 /\ n < Len(f) /\ \A i \in 1..n : f[i].h = l2[i]
  BY CompleteFacts, L2Shape DEF L2Matches
<1>2. Start(f, 1) = 0 /\ \A i \in 1..Len(f) : Start(f, i + 1) = Start(f, i) + PieceLen(f[i])
  BY <1>1, StartFacts
<1>3. l2[1] \in Link /\ \A i \in 2..n : l2[i] \in {"VLAN", "ISID"}
  BY L2Shape
<1>4. e = (IF l2[1] = "8023" THEN 22 ELSE 14)
  BY <1>3, Lengths DEF Link
<1>5. L2Len(l2) = (IF l2[1] = "8023" THEN 22 ELSE 14) + 4 * (n - 1)
  BY DEF L2Len
<1>6. 1 \in 1..Len(f) /\ PieceLen(f[1]) = e
  BY <1>1, <1>3, <1>4, HeaderLengths DEF Link
<1>7. \A i \in 2..n : i \in 1..Len(f) /\ PieceLen(f[i]) = 4
  BY <1>1, <1>3, HeaderLengths
<1> HIDE DEF e
<1>8. Start(f, 2) = e
  <2>1. Start(f, 1 + 1) = 0 + e
    BY <1>2, <1>6
  <2> QED
    BY <1>4, <2>1
<1>9. n > 1 => Start(f, 3) = e + 4
  <2> SUFFICES ASSUME n > 1  PROVE Start(f, 3) = e + 4
    OBVIOUS
  <2>1. 2 \in 2..n
    BY <1>1
  <2>2. Start(f, 2 + 1) = Start(f, 2) + PieceLen(f[2])
    BY <1>2, <1>7, <2>1
  <2> QED
    BY <1>7, <1>8, <2>1, <2>2
<1>10. n > 2 => Start(f, 4) = e + 8
  <2> SUFFICES ASSUME n > 2  PROVE Start(f, 4) = e + 8
    OBVIOUS
  <2>1. 3 \in 2..n
    BY <1>1
  <2>2. Start(f, 3 + 1) = Start(f, 3) + PieceLen(f[3])
    BY <1>2, <1>7, <2>1
  <2> QED
    BY <1>4, <1>7, <1>9, <2>1, <2>2
<1>11. n \in Nat /\ n + 1 \in 1..Len(f)
  BY <1>1
<1>12. Start(f, n + 1) = L2Len(l2)
  <2>1. CASE n = 1
    BY <1>4, <1>5, <1>8, <2>1
  <2>2. CASE n = 2
    BY <1>4, <1>5, <1>9, <2>2
  <2>3. CASE n = 3
    BY <1>4, <1>5, <1>10, <2>3
  <2> QED
    BY <1>1, <2>1, <2>2, <2>3
<1> QED
  BY <1>2, <1>8, <1>9, <1>10, <1>11, <1>12 DEF e

\* Byte 14 is the start of a piece behind an Ethernet header only.
LEMMA ByteFourteen ==
    ASSUME NEW f, Complete(f), NEW i \in 1..(Len(f) + 1), Start(f, i) = 14
    PROVE  i = 2 /\ f[1].h = "ETHERNET" /\ Start(f, 2) = 14
<1>1. f \in Frames /\ Len(f) \in Nat /\ Len(f) > 1 /\ f[1].h \in Link
  BY CompleteFacts
<1>2. /\ Start(f, 1) = 0 /\ Start(f, 1 + 1) = Start(f, 1) + PieceLen(f[1])
      /\ \A j \in 1..(Len(f) + 1) : Start(f, j) \in Nat
  <2>1. 1 \in 1..Len(f)
    BY <1>1
  <2> QED
    BY <1>1, <2>1, StartFacts
<1>3. Start(f, 2) = (IF f[1].h = "ETHERNET" THEN 14 ELSE 22)
  <2>1. 1 \in 1..Len(f)
    BY <1>1
  <2>2. PieceLen(f[1]) = (IF f[1].h = "ETHERNET" THEN 14 ELSE 22)
    BY <1>1, <2>1, HeaderLengths DEF Link
  <2> QED
    BY <1>2, <2>2
<1>4. f[1].h = "ETHERNET"
  <2> SUFFICES ASSUME f[1].h # "ETHERNET"  PROVE FALSE
    OBVIOUS
  <2>1. Start(f, 2) = 22 /\ 2 \in 1..(Len(f) + 1)
    BY <1>1, <1>3
  <2>2. i # 1 /\ i # 2
    BY <1>2, <2>1
  <2>3. 2 < i
    BY <1>1, <2>2
  <2>4. Start(f, 2) < Start(f, i)
    BY <1>1, <2>1, <2>3, StartIncreases
  <2> QED
    BY <2>1, <2>4
<1>5. Start(f, 2) = 14
  BY <1>3, <1>4
<1>6. i = 2
  <2>1. 2 \in 1..(Len(f) + 1) /\ Start(f, i) = Start(f, 2)
    BY <1>1, <1>5
  <2> QED
    BY <1>1, <2>1, StartInjective
<1> QED
  BY <1>4, <1>5, <1>6

\* Where the bytes go that are pushed.
LEMMA PushPlaces ==
    ASSUME NEW f, Complete(f)
    PROVE  /\ (CHOOSE j \in 0..Len(f) : Start(f, j + 1) = 0) = 0
           /\ f[1].h = "ETHERNET" => (CHOOSE j \in 0..Len(f) : Start(f, j + 1) = 14) = 1
<1>1. f \in Frames /\ Len(f) \in Nat /\ Len(f) > 1
  BY CompleteFacts
<1>2. \A j \in 0..Len(f) : j + 1 \in 1..(Len(f) + 1)
  BY <1>1
<1>3. Start(f, 1) = 0 /\ 1 \in 1..(Len(f) + 1)
  BY <1>1, StartFacts
<1>4. (CHOOSE j \in 0..Len(f) : Start(f, j + 1) = 0) = 0
  <2> DEFINE Is(j) == j \in 0..Len(f) /\ Start(f, j + 1) = 0
  <2> DEFINE c == CHOOSE j : Is(j)
  <2>1. Is(0)
    BY <1>1, <1>3
  <2>2. \A j : Is(j) => j = 0
    <3> SUFFICES ASSUME NEW j, Is(j)  PROVE j = 0
      OBVIOUS
    <3>1. j + 1 = 1
      BY <1>1, <1>2, <1>3, StartInjective
    <3> QED
      BY <1>1, <3>1
  <2>3. (CHOOSE j \in 0..Len(f) : Start(f, j + 1) = 0) = c
    OBVIOUS
  <2> HIDE DEF Is
  <2>4. c = 0
    BY <2>1, <2>2
  <2> HIDE DEF c
  <2> QED
    BY <2>3, <2>4
<1>5. ASSUME f[1].h = "ETHERNET"  PROVE (CHOOSE j \in 0..Len(f) : Start(f, j + 1) = 14) = 1
  <2> DEFINE Is(j) == j \in 0..Len(f) /\ Start(f, j + 1) = 14
  <2> DEFINE c == CHOOSE j : Is(j)
  <2>1. Is(1)
    <3>1. 1 \in 1..Len(f) /\ 1 + 1 = 2 /\ PieceLen(f[1]) = 14
      BY <1>1, <1>5, HeaderLengths
    <3>2. Start(f, 1 + 1) = 0 + 14
      BY <1>1, <1>3, <3>1, StartFacts
    <3> QED
      BY <1>1, <3>2
  <2>2. \A j : Is(j) => j = 1
    <3> SUFFICES ASSUME NEW j, Is(j)  PROVE j = 1
      OBVIOUS
    <3>1. j + 1 = 2
      BY <1>2, ByteFourteen
    <3> QED
      BY <1>1, <3>1
  <2>3. (CHOOSE j \in 0..Len(f) : Start(f, j + 1) = 14) = c
    OBVIOUS
  <2> HIDE DEF Is
  <2>4. c = 1
    BY <2>1, <2>2
  <2> HIDE DEF c
  <2> QED
    BY <2>3, <2>4
<1> QED
  BY <1>4, <1>5

-----------------------------------------------------------------------------
(* Complete frames stay complete *)

\* The names of headers that are pushed.
LEMMA KnownNames ==
    {"ETHERNET", "VLAN", "ISID", "MPLS", "PPPOE", "PPP", "IPV4", "IPV6", "UDP", "GRE", "GTPU", "BOTTOM", "OTHER"} \subseteq Names
BY DEF Names, Link, Ethertypes, IpProtocols

\* The fields of a pushed piece.
LEMMA PieceIs ==
    \A h \in Names, n \in Nat, next \in Names :
      /\ Piece(h, n, next) \in Pieces /\ Unset(h, n, next) \in Pieces
      /\ Piece(h, n, next).h = h /\ Piece(h, n, next).n = n /\ Piece(h, n, next).next = next /\ ~Piece(h, n, next).stale
      /\ Unset(h, n, next).h = h /\ Unset(h, n, next).n = n /\ Unset(h, n, next).next = next
      /\ Unset(h, n, next).stale => h # "IPV6"
<1> TAKE h \in Names, n \in Nat, next \in Names
<1> DEFINE p == Piece(h, n, next)
<1>1. p \in Pieces /\ p.h = h /\ p.n = n /\ p.next = next /\ p.stale = FALSE
  BY DEF Piece, Pieces
<1> DEFINE b == h # "IPV6"
<1>2. b \in BOOLEAN
  OBVIOUS
<1>3. Unset(h, n, next) = [p EXCEPT !.stale = b]
  BY DEF Unset
<1> HIDE DEF p, b
<1>4. [p EXCEPT !.stale = b] \in Pieces
  BY <1>1, <1>2 DEF Pieces
<1>5. [p EXCEPT !.stale = b].h = h /\ [p EXCEPT !.stale = b].n = n /\ [p EXCEPT !.stale = b].next = next
  BY <1>1 DEF Pieces
<1>6. [p EXCEPT !.stale = b].stale = b
  BY <1>1 DEF Pieces
<1>7. Unset(h, n, next).stale => h # "IPV6"
  BY <1>3, <1>6 DEF b
<1> QED
  BY <1>1, <1>3, <1>4, <1>5, <1>7 DEF p

\* Sequences of one to three pieces.
LEMMA Spelled ==
    ASSUME NEW p \in Pieces, NEW q \in Pieces, NEW r \in Pieces
    PROVE  /\ <<p>> \in Frames /\ Len(<<p>>) = 1 /\ <<p>>[1] = p
           /\ <<p, q>> \in Frames /\ Len(<<p, q>>) = 2 /\ <<p, q>>[1] = p /\ <<p, q>>[2] = q
           /\ <<p, q, r>> \in Frames /\ Len(<<p, q, r>>) = 3
           /\ <<p, q, r>>[1] = p /\ <<p, q, r>>[2] = q /\ <<p, q, r>>[3] = r
BY DEF Frames

\* The pieces the actions put in front.
LEMMA LinkOk ==
    ASSUME NEW g, g[1].h \in Link, g[1].n = 0, Len(g) > 1, g[1].next \in Ethertypes => g[2].h = g[1].next
    PROVE  PieceOk(g, 1)
<1>1. Carries(g[1].h) = Ethertypes
  BY CarriesFacts
<1>2. ~BringsFrame(g[1])
  BY DEF BringsFrame, Link
<1>3. g[1].h # "IPV4"
  BY DEF Link
<1> QED
  BY <1>1, <1>2, <1>3 DEF PieceOk

\* A tag that announces what follows it is as it should be.
LEMMA TagOk ==
    ASSUME NEW g, Len(g) \in Nat, NEW j \in 1..(Len(g) - 1), g[j].h = "VLAN", g[j].n = 0,
           g[j].next \in Ethertypes => g[j + 1].h = g[j].next
    PROVE  PieceOk(g, j)
<1>1. Carries("VLAN") = Ethertypes
  BY CarriesFacts
<1>2. ~BringsFrame(g[j])
  BY DEF BringsFrame
<1> QED
  BY <1>1, <1>2 DEF PieceOk

\* The pieces that are pushed are as they should be when what they announce follows.
LEMMA OthersOk ==
    ASSUME NEW g, Len(g) \in Nat, NEW j \in 1..(Len(g) - 1), g[j].n = 0
    PROVE  /\ g[j].h = "MPLS" /\ (g[j].next = "MPLS" => g[j + 1].h = "MPLS") => PieceOk(g, j)
           /\ g[j].h = "PPPOE" /\ (g[j].next = "PPP" => g[j + 1].h = "PPP") => PieceOk(g, j)
           /\ g[j].h \in {"PPP", "GTPU"} => PieceOk(g, j)
           /\ g[j].h = "ISID" /\ g[j + 1].h \in Link => PieceOk(g, j)
           /\ g[j].h \in {"IPV4", "IPV6"} /\ g[j].next \in {"UDP", "GRE"} /\ g[j + 1].h = g[j].next => PieceOk(g, j)
           /\ g[j].h = "UDP" /\ g[j + 1].h = "GTPU" => PieceOk(g, j)
<1>1. ASSUME g[j].h = "MPLS", g[j].next = "MPLS" => g[j + 1].h = "MPLS"  PROVE PieceOk(g, j)
  BY <1>1, CarriesFacts DEF PieceOk, BringsFrame
<1>2. ASSUME g[j].h = "PPPOE", g[j].next = "PPP" => g[j + 1].h = "PPP"  PROVE PieceOk(g, j)
  BY <1>2, CarriesFacts DEF PieceOk, BringsFrame
<1>3. ASSUME g[j].h \in {"PPP", "GTPU"}  PROVE PieceOk(g, j)
  BY <1>3, CarriesFacts DEF PieceOk, BringsFrame
<1>4. ASSUME g[j].h = "ISID", g[j + 1].h \in Link  PROVE PieceOk(g, j)
  BY <1>4, CarriesFacts DEF PieceOk, BringsFrame
<1>5. ASSUME g[j].h \in {"IPV4", "IPV6"}, g[j].next \in {"UDP", "GRE"}, g[j + 1].h = g[j].next  PROVE PieceOk(g, j)
  BY <1>5 DEF PieceOk, BringsFrame, MaxOptions, Carriers, Link
<1>6. ASSUME g[j].h = "UDP", g[j + 1].h = "GTPU"  PROVE PieceOk(g, j)
  BY <1>6, CarriesFacts DEF PieceOk, BringsFrame
<1> QED
  BY <1>1, <1>2, <1>3, <1>4, <1>5, <1>6

\* A GRE header with a frame behind it is as it should be.
LEMMA GreOk ==
    ASSUME NEW g, Len(g) \in Nat, NEW j \in 1..(Len(g) - 1), g[j].h = "GRE", g[j + 1].h \in Link
    PROVE  PieceOk(g, j)
<1>1. "GRE" \notin FixedLength /\ "GRE" # "IPV4"
  BY Neighbours DEF FixedLength, Link
<1>2. Carries("GRE") = {}
  BY CarriesFacts
<1> QED
  BY <1>1, <1>2 DEF PieceOk

\* What is put behind the first piece or taken away there.
LEMMA InsideComplete ==
    ASSUME NEW f, Complete(f), NEW k \in 2..Len(f), NEW a \in Nat \ {0}, NEW g, Spliced(g, a, f, k), NEW c \in Names,
           g[1] = [f[1] EXCEPT !.next = c], c \in Ethertypes => g[2].h = c,
           \A j \in 2..a : PieceOk(g, j)
    PROVE  /\ Complete(g) /\ SameTail(f, k, g, a + 1)
           /\ g[1].h = f[1].h /\ g[1].next = c
<1>1. f \in Frames /\ Len(f) \in Nat /\ f[1] \in Pieces /\ f[1].h \in Link /\ f[1].n = 0
  <2>1. Len(f) \in Nat /\ Len(f) > 1 /\ f \in Frames /\ f[1].h \in Link
    BY CompleteFacts
  <2>2. 1 \in 1..Len(f)
    BY <2>1
  <2>3. f[1] \in Pieces /\ (f[1].h \in FixedLength => f[1].n = 0)
    BY <2>2, CompleteFacts
  <2> QED
    BY <2>1, <2>3 DEF FixedLength
<1>2. g[1].h = f[1].h /\ g[1].n = f[1].n /\ g[1].next = c
  <2>1. f[1] \in [h : Names, n : Nat, next : Names, stale : BOOLEAN]
    BY <1>1 DEF Pieces
  <2> DEFINE p == f[1]
  <2> HIDE DEF p
  <2>2. [p EXCEPT !.next = c].h = p.h /\ [p EXCEPT !.next = c].n = p.n /\ [p EXCEPT !.next = c].next = c
    BY <2>1 DEF p
  <2> QED
    BY <2>2 DEF p
<1>3. g \in Frames /\ Len(g) \in Nat /\ Len(g) > 1
  <2>1. g \in Frames /\ Len(g) = a + (Len(f) - k + 1)
    BY DEF Spliced
  <2> QED
    BY <1>1, <2>1
<1>4. PieceOk(g, 1)
  BY <1>1, <1>2, <1>3, LinkOk
<1>5. \A j \in 1..a : PieceOk(g, j)
  <2>1. \A j \in 1..a : j = 1 \/ j \in 2..a
    OBVIOUS
  <2> QED
    BY <1>4, <2>1
<1>6. SameTail(f, k, g, a + 1)
  BY <1>1, SpliceTail
<1>7. k \in 1..Len(f) /\ a \in Nat
  OBVIOUS
<1>8. Complete(g)
  BY <1>1, <1>2, <1>3, <1>5, <1>6, <1>7, SpliceComplete
<1> QED
  BY <1>2, <1>6, <1>8

\* What is put in front of the frame or taken away there.
LEMMA OutsideComplete ==
    ASSUME NEW f, Complete(f), NEW k \in 1..Len(f), NEW a \in Nat, NEW g, Spliced(g, a, f, k),
           g[1].h \in Link, \A j \in 1..a : PieceOk(g, j)
    PROVE  Complete(g) /\ SameTail(f, k, g, a + 1)
<1>1. f \in Frames /\ g \in Frames
  BY CompleteFacts DEF Spliced
<1> QED
  BY <1>1, SpliceTail, SpliceComplete
============================================================================
