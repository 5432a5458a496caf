----------------------------- MODULE WireProofs -----------------------------
(***************************************************************************)
(* Theorems about Wire.tla, for words of every length, every base, all     *)
(* types and all streams.                                                  *)
(***************************************************************************)
EXTENDS Wire, SequenceTheorems, WellFoundedInduction, TLAPS

-----------------------------------------------------------------------------
\* Induction up to a number, about the members of a set.

\* A set of natural numbers has a least member.
LEMMA LeastMember ==
    ASSUME NEW T \in SUBSET Nat, T # {}
    PROVE  \E x \in T : \A y \in T : x <= y
<1> DEFINE R == OpToRel(<, Nat)
<1>1. PICK x \in T : \A y \in T : ~ (<< y, x >> \in R)
  <2>1. IsWellFoundedOn(R, Nat)
    BY NatLessThanWellFounded
  <2> HIDE DEF R
  <2>2. QED
    BY <2>1, WFMin
<1>2. \A y \in T : ~ (y < x)
  BY <1>1 DEF OpToRel
<1>3. QED
  BY <1>2

\* Induction.
LEMMA UpTo ==
    ASSUME NEW n \in Nat, NEW S, 0 \in S,
           \A k \in 0 .. n - 1 : k \in S => k + 1 \in S
    PROVE  \A k \in 0 .. n : k \in S
<1> DEFINE T == { k \in 0 .. n : k \notin S }
<1>1. SUFFICES ASSUME T # {} PROVE FALSE
  OBVIOUS
<1>2. PICK x \in T : \A y \in T : x <= y
  <2>1. T \in SUBSET Nat
    OBVIOUS
  <2> HIDE DEF T
  <2>2. QED
    BY <1>1, <2>1, LeastMember
<1>3. x \in 0 .. n /\ x \notin S /\ x # 0
  BY <1>2
<1>4. x - 1 \in 0 .. n - 1 /\ x - 1 \notin T
  BY <1>2, <1>3
<1>5. QED
  BY <1>3, <1>4

\* There is a function with a first value, and with values that follow from the
\* ones before them.
Recursive(n, V, v, F) ==
    \E g \in [ 0 .. n -> V ] : g[0] = v /\ \A i \in 1 .. n : g[i] = F[i][g[i - 1]]

LEMMA Recursion ==
    ASSUME NEW n \in Nat, NEW V, NEW v \in V, NEW F \in [ 1 .. n -> [ V -> V ] ]
    PROVE  Recursive(n, V, v, F)
<1> DEFINE Good(g, k) == g[0] = v /\ \A i \in 1 .. k : g[i] = F[i][g[i - 1]]
           Some(k) == \E g \in [ 0 .. k -> V ] : Good(g, k)
           S == { k \in 0 .. n : Some(k) }
<1>1. Some(0)
  <2> DEFINE g == [ i \in 0 .. 0 |-> v ]
  <2>1. g \in [ 0 .. 0 -> V ] /\ g[0] = v
    OBVIOUS
  <2> HIDE DEF g
  <2>2. Good(g, 0)
    BY <2>1
  <2>3. QED
    BY <2>1, <2>2
<1>2. ASSUME NEW k \in 0 .. n - 1, Some(k) PROVE Some(k + 1)
  <2>1. PICK g \in [ 0 .. k -> V ] : Good(g, k)
    BY <1>2
  <2> DEFINE next == F[k + 1][g[k]]
             h == [ i \in 0 .. k + 1 |-> IF i <= k THEN g[i] ELSE next ]
  <2>2. next \in V
    <3>1. g[k] \in V
      OBVIOUS
    <3>2. F[k + 1] \in [ V -> V ]
      OBVIOUS
    <3>3. QED
      BY <3>1, <3>2
  <2>3. h \in [ 0 .. k + 1 -> V ]
    BY <2>2
  <2>4. Good(h, k + 1)
    <3>1. h[0] = v
      BY <2>1
    <3>2. ASSUME NEW i \in 1 .. k PROVE h[i] = F[i][h[i - 1]]
      <4>1. h[i] = g[i] /\ h[i - 1] = g[i - 1]
        OBVIOUS
      <4>2. QED
        BY <2>1, <4>1
    <3>3. h[k] = g[k] /\ h[k + 1] = next
      OBVIOUS
    <3>4. h[k + 1] = F[k + 1][h[(k + 1) - 1]]
      <4>1. (k + 1) - 1 = k
        OBVIOUS
      <4>2. QED
        BY <3>3, <4>1, Zenon
    <3> HIDE DEF h, next
    <3>5. \A i \in 1 .. k + 1 : i \in 1 .. k \/ i = k + 1
      OBVIOUS
    <3>6. QED
      BY <3>1, <3>2, <3>4, <3>5, Zenon
  <2>5. QED
    BY <2>3, <2>4
<1> HIDE DEF Some
<1>3. 0 \in S
  BY <1>1
<1>4. \A k \in 0 .. n - 1 : k \in S => k + 1 \in S
  BY <1>2
<1> HIDE DEF S
<1>5. n \in S
  <2>1. \A k \in 0 .. n : k \in S
    BY <1>3, <1>4, UpTo, Zenon
  <2>2. QED
    BY <2>1
<1>6. QED
  BY <1>5 DEF S, Some, Recursive

-----------------------------------------------------------------------------
\* Words.

LEMMA Division ==
    ASSUME NEW a \in Nat
    PROVE  /\ a \div Base \in Nat
           /\ a % Base \in Byte
           /\ a = (a \div Base) * Base + (a % Base)
<1>1. Base \in Nat \ {0}
  BY SizeAssumption
<1>2. QED
  BY <1>1 DEF Byte

LEMMA Digits ==
    ASSUME NEW q \in Nat, NEW r \in Byte
    PROVE  /\ q * Base + r \in Nat
           /\ (q * Base + r) \div Base = q
           /\ (q * Base + r) % Base = r
<1>1. Base \in Nat \ {0}
  BY SizeAssumption
<1>2. QED
  BY <1>1 DEF Byte

\* Shifted is what its equation says.
LEMMA ShiftedIs ==
    ASSUME NEW n \in Nat
    PROVE  /\ Shifted(n) \in [ 0 .. WordLen -> Nat ]
           /\ Shifted(n)[0] = n
           /\ \A i \in 1 .. WordLen : Shifted(n)[i] = Shifted(n)[i - 1] \div Base
<1>0. WordLen \in Nat /\ 0 \in Nat
  BY SizeAssumption
<1>1. PICK F \in [ 1 .. WordLen -> [ Nat -> Nat ] ] :
        \A i \in 1 .. WordLen, m \in Nat : F[i][m] = m \div Base
  <2> DEFINE F == [ i \in 1 .. WordLen |-> [ m \in Nat |-> m \div Base ] ]
  <2>1. F \in [ 1 .. WordLen -> [ Nat -> Nat ] ]
    BY Division
  <2>2. QED
    BY <2>1
<1>2. PICK g \in [ 0 .. WordLen -> Nat ] :
        g[0] = n /\ \A i \in 1 .. WordLen : g[i] = F[i][g[i - 1]]
  <2>1. Recursive(WordLen, Nat, n, F)
    BY <1>0, Recursion, Zenon
  <2>2. QED
    BY <2>1 DEF Recursive
<1>3. \A i \in 1 .. WordLen : g[i] = g[i - 1] \div Base
  <2>1. ASSUME NEW i \in 1 .. WordLen PROVE g[i] = g[i - 1] \div Base
    <3>1. g[i - 1] \in Nat
      BY <1>0
    <3>2. QED
      BY <1>1, <1>2, <3>1
  <2>2. QED
    BY <2>1
<1>4. g = [ i \in 0 .. WordLen |-> IF i = 0 THEN n ELSE g[i - 1] \div Base ]
  <2>1. \A i \in 0 .. WordLen : g[i] = IF i = 0 THEN n ELSE g[i - 1] \div Base
    <3>1. ASSUME NEW i \in 0 .. WordLen
          PROVE  g[i] = IF i = 0 THEN n ELSE g[i - 1] \div Base
      <4>1. i = 0 \/ i \in 1 .. WordLen
        BY <1>0
      <4>2. CASE i = 0
        BY <1>2, <4>2
      <4>3. CASE i \in 1 .. WordLen
        BY <1>3, <4>3
      <4>4. QED
        BY <4>1, <4>2, <4>3
    <3>2. QED
      BY <3>1
  <2>2. QED
    BY <1>2, <2>1
<1>5. Shifted(n) = CHOOSE s : s = [ i \in 0 .. WordLen |-> IF i = 0 THEN n ELSE s[i - 1] \div Base ]
  BY DEF Shifted
<1>6. Shifted(n) = [ i \in 0 .. WordLen |-> IF i = 0 THEN n ELSE Shifted(n)[i - 1] \div Base ]
  BY <1>4, <1>5
<1> DEFINE f == Shifted(n)
           S == { k \in 0 .. WordLen : f[k] \in Nat }
<1>7. f[0] = n /\ \A i \in 1 .. WordLen : f[i] = f[i - 1] \div Base
  <2>1. f = [ i \in 0 .. WordLen |-> IF i = 0 THEN n ELSE f[i - 1] \div Base ]
    BY <1>6
  <2> HIDE DEF f
  <2>2. \A i \in 0 .. WordLen : f[i] = IF i = 0 THEN n ELSE f[i - 1] \div Base
    BY <2>1, Zenon
  <2>3. 0 \in 0 .. WordLen /\ \A i \in 1 .. WordLen : i \in 0 .. WordLen /\ i # 0
    BY <1>0
  <2>4. QED
    BY <2>2, <2>3, Zenon
<1>8. f = [ i \in 0 .. WordLen |-> f[i] ]
  BY <1>6
<1> HIDE DEF f
<1>9. \A k \in 0 .. WordLen : k \in S
  <2>1. 0 \in S
    BY <1>0, <1>7
  <2>2. ASSUME NEW k \in 0 .. WordLen - 1, k \in S PROVE k + 1 \in S
    <3>1. k + 1 \in 1 .. WordLen /\ k + 1 \in 0 .. WordLen /\ (k + 1) - 1 = k
      BY <1>0
    <3>2. f[k + 1] = f[k] \div Base
      BY <1>7, <3>1, Zenon
    <3>3. f[k] \div Base \in Nat
      BY <2>2, Division
    <3>4. QED
      BY <3>1, <3>2, <3>3
  <2> HIDE DEF S
  <2>3. QED
    BY <2>1, <2>2, UpTo, SizeAssumption
<1>10. QED
  <2>1. f \in [ 0 .. WordLen -> Nat ]
    BY <1>8, <1>9
  <2>2. QED
    BY <1>7, <2>1 DEF f

\* A word is so many bytes.
LEMMA WordIsBytes ==
    ASSUME NEW n \in Nat
    PROVE  Word(n) \in Seq(Byte) /\ Len(Word(n)) = WordLen
<1> DEFINE f == Shifted(n)
<1>1. f \in [ 0 .. WordLen -> Nat ]
  BY ShiftedIs
<1>2. Word(n) = [ i \in 1 .. WordLen |-> f[i - 1] % Base ]
  BY DEF Word
<1> HIDE DEF f
<1>3. \A i \in 1 .. WordLen : f[i - 1] % Base \in Byte
  <2>1. \A i \in 1 .. WordLen : f[i - 1] \in Nat
    BY <1>1, SizeAssumption
  <2>2. QED
    BY <2>1, Division
<1>4. QED
  BY <1>2, <1>3, SizeAssumption

\* Worth is what its equation says.
LEMMA WorthIs ==
    ASSUME NEW bs \in Seq(Byte), Len(bs) = WordLen
    PROVE  /\ Worth(bs) \in [ 0 .. WordLen -> Nat ]
           /\ Worth(bs)[0] = 0
           /\ \A i \in 1 .. WordLen : Worth(bs)[i] = Worth(bs)[i - 1] * Base + bs[WordLen + 1 - i]
<1>0. WordLen \in Nat /\ 0 \in Nat
  BY SizeAssumption
<1>1. PICK F \in [ 1 .. WordLen -> [ Nat -> Nat ] ] :
        \A i \in 1 .. WordLen, m \in Nat : F[i][m] = m * Base + bs[WordLen + 1 - i]
  <2> DEFINE F == [ i \in 1 .. WordLen |-> [ m \in Nat |-> m * Base + bs[WordLen + 1 - i] ] ]
  <2>1. \A i \in 1 .. WordLen : bs[WordLen + 1 - i] \in Byte
    <3>1. \A i \in 1 .. WordLen : WordLen + 1 - i \in 1 .. Len(bs)
      BY SizeAssumption
    <3>2. QED
      BY <3>1, ElementOfSeq
  <2>2. \A i \in 1 .. WordLen, m \in Nat : m * Base + bs[WordLen + 1 - i] \in Nat
    BY <2>1, Digits
  <2>3. F \in [ 1 .. WordLen -> [ Nat -> Nat ] ]
    BY <2>2
  <2>4. QED
    BY <2>3
<1>2. PICK g \in [ 0 .. WordLen -> Nat ] :
        g[0] = 0 /\ \A i \in 1 .. WordLen : g[i] = F[i][g[i - 1]]
  <2>1. Recursive(WordLen, Nat, 0, F)
    BY <1>0, Recursion, Zenon
  <2>2. QED
    BY <2>1 DEF Recursive
<1>3. \A i \in 1 .. WordLen : g[i] = g[i - 1] * Base + bs[WordLen + 1 - i]
  <2>1. ASSUME NEW i \in 1 .. WordLen PROVE g[i] = g[i - 1] * Base + bs[WordLen + 1 - i]
    <3>1. g[i - 1] \in Nat
      <4>1. i - 1 \in 0 .. WordLen
        BY <1>0
      <4>2. QED
        BY <4>1
    <3>2. QED
      BY <1>1, <1>2, <3>1
  <2>2. QED
    BY <2>1
<1>4. g = [ i \in 0 .. WordLen |-> IF i = 0 THEN 0 ELSE g[i - 1] * Base + bs[WordLen + 1 - i] ]
  <2>1. \A i \in 0 .. WordLen :
           g[i] = IF i = 0 THEN 0 ELSE g[i - 1] * Base + bs[WordLen + 1 - i]
    <3>1. ASSUME NEW i \in 0 .. WordLen
          PROVE  g[i] = IF i = 0 THEN 0 ELSE g[i - 1] * Base + bs[WordLen + 1 - i]
      <4>1. i = 0 \/ i \in 1 .. WordLen
        BY <1>0
      <4>2. CASE i = 0
        BY <1>2, <4>2
      <4>3. CASE i \in 1 .. WordLen
        BY <1>3, <4>3
      <4>4. QED
        BY <4>1, <4>2, <4>3
    <3>2. QED
      BY <3>1
  <2>2. QED
    BY <1>2, <2>1
<1>5. Worth(bs) = CHOOSE s : s = [ i \in 0 .. WordLen |->
                    IF i = 0 THEN 0 ELSE s[i - 1] * Base + bs[WordLen + 1 - i] ]
  BY DEF Worth
<1>6. Worth(bs) = [ i \in 0 .. WordLen |->
                    IF i = 0 THEN 0 ELSE Worth(bs)[i - 1] * Base + bs[WordLen + 1 - i] ]
  BY <1>4, <1>5
<1> DEFINE f == Worth(bs)
           S == { k \in 0 .. WordLen : f[k] = g[k] }
<1>7. f[0] = 0 /\ \A i \in 1 .. WordLen : f[i] = f[i - 1] * Base + bs[WordLen + 1 - i]
  <2>1. f = [ i \in 0 .. WordLen |-> IF i = 0 THEN 0 ELSE f[i - 1] * Base + bs[WordLen + 1 - i] ]
    BY <1>6
  <2> HIDE DEF f
  <2>2. \A i \in 0 .. WordLen :
           f[i] = IF i = 0 THEN 0 ELSE f[i - 1] * Base + bs[WordLen + 1 - i]
    BY <2>1, Zenon
  <2>3. 0 \in 0 .. WordLen /\ \A i \in 1 .. WordLen : i \in 0 .. WordLen /\ i # 0
    BY <1>0
  <2>4. QED
    BY <2>2, <2>3, Zenon
<1>8. f = [ i \in 0 .. WordLen |-> f[i] ]
  BY <1>6
<1> HIDE DEF f
<1>9. \A k \in 0 .. WordLen : k \in S
  <2>1. 0 \in S
    BY <1>0, <1>2, <1>7
  <2>2. ASSUME NEW k \in 0 .. WordLen - 1, k \in S PROVE k + 1 \in S
    <3>1. f[k] = g[k] /\ k + 1 \in 1 .. WordLen /\ (k + 1) - 1 = k
      BY <2>2, SizeAssumption
    <3>2. f[k + 1] = f[(k + 1) - 1] * Base + bs[WordLen + 1 - (k + 1)]
      BY <1>7, <3>1
    <3>3. g[k + 1] = g[(k + 1) - 1] * Base + bs[WordLen + 1 - (k + 1)]
      BY <1>3, <3>1
    <3>4. f[k + 1] = g[k + 1]
      BY <3>1, <3>2, <3>3
    <3>5. QED
      BY <3>1, <3>4
  <2> HIDE DEF S
  <2>3. QED
    BY <2>1, <2>2, UpTo, SizeAssumption
<1>10. QED
  <2>1. f \in [ 0 .. WordLen -> Nat ]
    BY <1>8, <1>9
  <2>2. QED
    BY <1>7, <2>1 DEF f

\* A word has a value, and the value is one that fits a word.
LEMMA ValueFits ==
    ASSUME NEW bs \in Seq(Byte), Len(bs) = WordLen
    PROVE  WordValue(bs) \in Nat /\ Fits(WordValue(bs))
<1> DEFINE n == WordValue(bs)
           g == Worth(bs)
<1>1. g \in [ 0 .. WordLen -> Nat ] /\ g[0] = 0 /\ n = g[WordLen]
      /\ \A i \in 1 .. WordLen : g[i] = g[i - 1] * Base + bs[WordLen + 1 - i]
  BY WorthIs DEF WordValue
<1>2. n \in Nat
  BY <1>1, SizeAssumption
<1> DEFINE f == Shifted(n)
           S == { k \in 0 .. WordLen : f[k] = g[WordLen - k] }
<1>3. f[0] = n /\ \A i \in 1 .. WordLen : f[i] = f[i - 1] \div Base
  BY <1>2, ShiftedIs
<1>4. Fits(n) <=> n \in Nat /\ f[WordLen] = 0
  BY DEF Fits
<1> HIDE DEF f, g, n
<1>5. 0 \in S
  BY <1>1, <1>3, SizeAssumption
<1>6. ASSUME NEW k \in 0 .. WordLen - 1, k \in S PROVE k + 1 \in S
  <2> DEFINE i == WordLen - k
  <2>1. i \in 1 .. WordLen /\ WordLen + 1 - i = k + 1 /\ k + 1 \in 1 .. Len(bs)
        /\ i - 1 = WordLen - (k + 1) /\ (k + 1) - 1 = k /\ k + 1 \in 0 .. WordLen /\ i - 1 \in 0 .. WordLen
    BY SizeAssumption
  <2>2. g[i] = g[i - 1] * Base + bs[k + 1]
    BY <1>1, <2>1
  <2>3. bs[k + 1] \in Byte
    BY <2>1, ElementOfSeq
  <2>4. f[k] = g[i]
    BY <1>6
  <2>5. f[k + 1] = f[k] \div Base
    BY <1>3, <2>1
  <2>6. g[i - 1] \in Nat
    BY <1>1, <2>1
  <2>7. g[i] \div Base = g[i - 1]
    BY <2>2, <2>3, <2>6, Digits
  <2>8. f[k + 1] = g[WordLen - (k + 1)]
    BY <2>1, <2>4, <2>5, <2>7
  <2>9. QED
    BY <2>1, <2>8
<1> HIDE DEF S
<1>7. WordLen \in S
  <2>1. WordLen \in Nat /\ WordLen \in 0 .. WordLen
    BY SizeAssumption
  <2>2. \A k \in 0 .. WordLen : k \in S
    BY <1>5, <1>6, <2>1, UpTo, Zenon
  <2>3. QED
    BY <2>1, <2>2
<1>8. f[WordLen] = g[0]
  BY <1>7, SizeAssumption DEF S
<1>9. QED
  BY <1>1, <1>2, <1>4, <1>8 DEF n

\* A number that fits a word is read back from it.
LEMMA WordRoundTrip ==
    ASSUME NEW n, Fits(n)
    PROVE  WordValue(Word(n)) = n
<1> DEFINE f == Shifted(n)
           w == Word(n)
           g == Worth(w)
           S == { k \in 0 .. WordLen : g[k] = f[WordLen - k] }
<1>1. n \in Nat /\ f[WordLen] = 0
  BY DEF Fits
<1>2. f \in [ 0 .. WordLen -> Nat ] /\ f[0] = n
      /\ \A i \in 1 .. WordLen : f[i] = f[i - 1] \div Base
  BY <1>1, ShiftedIs
<1>3. w \in Seq(Byte) /\ Len(w) = WordLen
  BY <1>1, WordIsBytes
<1>4. w = [ i \in 1 .. WordLen |-> f[i - 1] % Base ]
  BY DEF Word
<1>5. g[0] = 0 /\ \A i \in 1 .. WordLen : g[i] = g[i - 1] * Base + w[WordLen + 1 - i]
  BY <1>3, WorthIs
<1>6. WordValue(w) = g[WordLen]
  BY DEF WordValue
<1> HIDE DEF f, g, w
<1>7. 0 \in S
  BY <1>1, <1>5, SizeAssumption
<1>8. ASSUME NEW k \in 0 .. WordLen - 1, k \in S PROVE k + 1 \in S
  <2> DEFINE i == WordLen - k
  <2>1. i \in 1 .. WordLen /\ WordLen + 1 - (k + 1) = i
        /\ i - 1 = WordLen - (k + 1) /\ (k + 1) - 1 = k /\ k + 1 \in 1 .. WordLen /\ k + 1 \in 0 .. WordLen
        /\ i - 1 \in 0 .. WordLen
    BY SizeAssumption
  <2>2. w[i] = f[i - 1] % Base
    BY <1>4, <2>1
  <2>3. g[k + 1] = g[k] * Base + w[i]
    BY <1>5, <2>1
  <2>4. g[k] = f[i] /\ f[i] = f[i - 1] \div Base
    BY <1>2, <1>8, <2>1
  <2>5. f[i - 1] \in Nat
    BY <1>2, <2>1
  <2>6. f[i - 1] = (f[i - 1] \div Base) * Base + (f[i - 1] % Base)
    BY <2>5, Division
  <2>7. g[k + 1] = f[i - 1]
    BY <2>2, <2>3, <2>4, <2>6
  <2>8. QED
    BY <2>1, <2>7
<1> HIDE DEF S
<1>9. WordLen \in S
  BY <1>7, <1>8, UpTo, SizeAssumption
<1>10. g[WordLen] = f[0]
  BY <1>9, SizeAssumption DEF S
<1>11. QED
  BY <1>2, <1>6, <1>10 DEF w

\* The numbers the format writes by itself fit a word.
LEMMA SmallFit ==
    Fits(0) /\ Fits(1)
<1>1. ASSUME NEW n \in {0, 1} PROVE Fits(n)
  <2> DEFINE f == Shifted(n)
             S == { k \in 0 .. WordLen : k # 0 => f[k] = 0 }
  <2>1. f[0] = n /\ \A i \in 1 .. WordLen : f[i] = f[i - 1] \div Base
    BY ShiftedIs
  <2>2. Fits(n) <=> n \in Nat /\ f[WordLen] = 0
    BY DEF Fits
  <2> HIDE DEF f
  <2>3. 0 \in S
    BY SizeAssumption
  <2>4. ASSUME NEW k \in 0 .. WordLen - 1, k \in S PROVE k + 1 \in S
    <3>1. f[k] \in {0, 1}
      BY <2>1, <2>4
    <3>2. 0 \in Nat /\ 0 \in Byte /\ 1 \in Byte
      BY SizeAssumption DEF Byte
    <3>3. (0 * Base + f[k]) \div Base = 0
      BY <3>1, <3>2, Digits
    <3>4. 0 * Base + f[k] = f[k]
      BY <3>1, SizeAssumption
    <3>5. f[k + 1] = f[k] \div Base
      BY <2>1, SizeAssumption
    <3>6. f[k + 1] = 0
      BY <3>3, <3>4, <3>5
    <3>7. k + 1 \in 0 .. WordLen
      BY SizeAssumption
    <3>8. QED
      BY <3>6, <3>7
  <2> HIDE DEF S
  <2>5. WordLen \in S
    BY <2>3, <2>4, UpTo, SizeAssumption
  <2>6. QED
    BY <2>2, <2>5, SizeAssumption DEF S
<1>2. QED
  BY <1>1

-----------------------------------------------------------------------------
\* Sequences.

\* One before the others.
LEMMA Cons ==
    ASSUME NEW S, NEW x \in S, NEW s \in Seq(S)
    PROVE  /\ << x >> \o s \in Seq(S)
           /\ << x >> \o s # << >>
           /\ Head(<< x >> \o s) = x
           /\ Tail(<< x >> \o s) = s
           /\ Len(<< x >> \o s) = Len(s) + 1
  OBVIOUS

LEMMA Uncons ==
    ASSUME NEW S, NEW s \in Seq(S), s # << >>
    PROVE  /\ Head(s) \in S /\ Tail(s) \in Seq(S)
           /\ s = << Head(s) >> \o Tail(s)
  OBVIOUS

\* The first so many, and the others.
LEMMA Cut ==
    ASSUME NEW S, NEW s \in Seq(S), NEW n \in 0 .. Len(s)
    PROVE  /\ SubSeq(s, 1, n) \in Seq(S) /\ Len(SubSeq(s, 1, n)) = n
           /\ SubSeq(s, n + 1, Len(s)) \in Seq(S) /\ Len(SubSeq(s, n + 1, Len(s))) = Len(s) - n
  OBVIOUS

LEMMA CutConcat ==
    ASSUME NEW S, NEW s \in Seq(S), NEW t \in Seq(S)
    PROVE  /\ SubSeq(s \o t, 1, Len(s)) = s
           /\ SubSeq(s \o t, Len(s) + 1, Len(s \o t)) = t
  OBVIOUS

LEMMA Lengths ==
    ASSUME NEW s \in Seq(Byte), NEW t \in Seq(Byte), NEW u \in Seq(Byte)
    PROVE  Len(s \o t) = Len(s) + Len(t) /\ Len(s \o t \o u) = Len(s) + Len(t) + Len(u)
  OBVIOUS

-----------------------------------------------------------------------------
\* Calls and what they write.

\* The calls a visitor can be told of.
Told == { c \in AnyCall : c.call \notin Silent \cup WontWrite }

\* A byte can be 0 and 1.
LEMMA SmallBytes == 0 \in Byte /\ 1 \in Byte /\ WordLen \in Nat
  BY SizeAssumption DEF Byte

LEMMA PaddingIsNat ==
    ASSUME NEW n \in Nat
    PROVE  Padding(n) \in Nat /\ BufSpan(n) \in Nat /\ BufSpan(n) = n + Padding(n)
<1>1. n % WordLen \in Int /\ n % WordLen <= WordLen /\ WordLen \in Nat
  <2>1. WordLen \in Nat \ {0}
    BY SizeAssumption
  <2>2. n % WordLen \in 0 .. WordLen - 1
    BY <2>1
  <2>3. QED
    BY <2>1, <2>2
<1>2. QED
  BY <1>1 DEF Padding, BufSpan

LEMMA ZerosIsBytes ==
    ASSUME NEW n \in Nat
    PROVE  Zeros(n) \in Seq(Byte) /\ Len(Zeros(n)) = n
  BY SmallBytes DEF Zeros

\* What a call writes is bytes.
LEMMA WrittenIsBytes ==
    ASSUME NEW c \in AnyCall, c.call \notin WontWrite
    PROVE  Written(c) \in Seq(Byte)
<1>1. \A n \in Nat : Word(n) \in Seq(Byte)
  BY WordIsBytes
<1>2. \A s \in Seq(Byte) : WriteByteBuf(s) \in Seq(Byte)
  <2>1. ASSUME NEW s \in Seq(Byte) PROVE WriteByteBuf(s) \in Seq(Byte)
    <3>1. Len(s) \in Nat
      OBVIOUS
    <3>2. Word(Len(s)) \in Seq(Byte) /\ Zeros(Padding(Len(s))) \in Seq(Byte)
      BY <1>1, <3>1, PaddingIsNat, ZerosIsBytes
    <3>3. QED
      BY <3>2 DEF WriteByteBuf
  <2>2. QED
    BY <2>1
<1>3. CASE c.call \in Silent
  <2>1. Written(c) = << >>
    BY <1>3 DEF Written, Silent
  <2>2. QED
    BY <2>1
<1>4. CASE c.call \in { "u64", "seq", "bool" }
  <2>1. c.value[1] \in Nat
    BY <1>4 DEF AnyCall, Fits
  <2>2. Written(c) = Word(c.value[1])
    BY <1>4 DEF Written, Silent, SerializeBool, SerializeSeq
  <2>3. QED
    BY <1>1, <2>1, <2>2
<1>5. CASE c.call \in { "bytes", "frame" }
  <2>1. c.value \in Seq(Byte)
    BY <1>5 DEF AnyCall
  <2>2. Written(c) = WriteByteBuf(c.value) \/ Written(c) = Word(Len(c.value)) \o c.value
    BY <1>5 DEF Written, Silent, WriteFrame
  <2>3. Word(Len(c.value)) \o c.value \in Seq(Byte)
    BY <1>1, <2>1
  <2>4. QED
    BY <1>2, <2>1, <2>2, <2>3
<1>6. CASE c.call \in { "none", "some", "last_frame" }
  <2>1. Written(c) = Word(0) \/ Written(c) = Word(1)
    BY <1>6 DEF Written, Silent, SerializeNone, SerializeSome, WriteLastFrame
  <2>2. QED
    BY <1>1, <2>1
<1>7. CASE c.call = "eof"
  <2>1. Written(c) = << >>
    BY <1>7 DEF Written, Silent
  <2>2. QED
    BY <2>1
<1>8. QED
  BY <1>3, <1>4, <1>5, <1>6, <1>7 DEF AnyCall, CallName

-----------------------------------------------------------------------------
\* What is to be read.

Number == { n \in Nat : Fits(n) }

\* Only the first thing to be read can be a buffer whose length is known.
Plain == { x \in Item : x.is \in { "one", "many" } }

Stack ==
    { td \in Seq(Item) :
        td # << >> => /\ Tail(td) \in Seq(Plain)
                      /\ Head(td) \in Plain \/ Head(td).len \in Number }

Is(x, shape) == x.is = "one" /\ Types[x.type].shape = shape

\* What a visitor can be told when x is read, and what is to be read after that.
Tells(x, c, more) ==
    \/ Is(x, "u64") /\ more = << >> /\ \E n \in Number : c = Call("u64", << n >>)
    \/ Is(x, "bool") /\ more = << >> /\ \E n \in { 0, 1 } : c = Call("bool", << n >>)
    \/ Is(x, "option") /\ more = << >> /\ c = Call("none", << >>)
    \/ Is(x, "option") /\ more = << One(Types[x.type].of) >> /\ c = Call("some", << >>)
    \/ Is(x, "seq") /\ \E n \in Number :
         more = << Many(Types[x.type].of, n) >> /\ c = Call("seq", << n >>)
    \/ Is(x, "tagged") /\ \E n \in Number \cap DOMAIN Types[x.type].variants :
         more = Each(Types[x.type].variants[n]) /\ c = Call("u64", << n >>)
    \/ Is(x, "framed") /\ more = << >> /\ c = Call("last_frame", << >>)
    \/ x.is = "buf" /\ more = << >> /\ \E s \in Seq(Byte) :
         Len(s) = x.len /\ c = Call("bytes", s)
    \/ x.is = "frame" /\ more = << >> /\ \E s \in Seq(Byte) :
         Len(s) = x.len /\ c = Call("frame", s)

\* What x turns out to be made of, when no visitor is told anything.
Opens(x, more) ==
    \/ Is(x, "bytes") /\ \E n \in Number : Allocates(n) /\ more = << Buf(n) >>
    \/ Is(x, "framed") /\ \E n \in Number :
         n # 0 /\ Allocates(n) /\ more = << FrameBuf(n), x >>
    \/ x.is = "many" /\ x.len # 0 /\ more = << One(x.type), Many(x.type, x.len - 1) >>
    \/ x.is = "many" /\ x.len = 0 /\ more = << >>
    \/ Is(x, "tuple") /\ more = Each(Types[x.type].fields)
    \/ Is(x, "newtype") /\ more = << One(Types[x.type].of) >>
    \/ Is(x, "or_eof") /\ more = << One(Types[x.type].of) >>
    \/ Is(x, "unit") /\ more = << >>

LEMMA EachIsPlain ==
    ASSUME NEW ts \in Seq(DOMAIN Types)
    PROVE  Each(ts) \in Seq(Plain)
<1>1. \A i \in 1 .. Len(ts) : ts[i] \in DOMAIN Types
  OBVIOUS
<1>2. \A i \in 1 .. Len(ts) : One(ts[i]) \in Plain
  BY <1>1 DEF One, Plain, Item
<1>3. QED
  BY <1>2 DEF Each

\* The types that a type is made of.
LEMMA Made ==
    ASSUME NEW x \in Item
    PROVE  LET s == Types[x.type]
           IN  /\ s.shape \in { "option", "seq", "newtype", "or_eof" } => s.of \in DOMAIN Types
               /\ s.shape = "tuple" => s.fields \in Seq(DOMAIN Types)
               /\ s.shape = "tagged" =>
                    \A n \in DOMAIN s.variants : s.variants[n] \in Seq(DOMAIN Types)
  BY InputAssumption DEF TypesAssumption, Item

LEMMA Names ==
    ASSUME NEW k \in { "u64", "bool", "bytes", "none", "some", "seq", "frame", "last_frame", "eof" }
    PROVE  k \in CallName /\ k \notin Silent \cup WontWrite
  BY DEF CallName, Silent, WontWrite

LEMMA TellsIs ==
    ASSUME NEW x \in Item, x.is \in { "buf", "frame" } => x.len \in Number,
           NEW c, NEW more, Tells(x, c, more)
    PROVE  c \in Told /\ more \in Seq(Plain)
<1> DEFINE s == Types[x.type]
<1>1. \A t \in DOMAIN Types, n \in Nat : One(t) \in Plain /\ Many(t, n) \in Plain
  BY DEF One, Many, Plain, Item
<1>2. more \in Seq(Plain)
  <2>1. CASE more = << >>
    BY <2>1
  <2>2. CASE Is(x, "option") /\ more = << One(s.of) >>
    BY <1>1, <2>2, Made DEF Is
  <2>3. CASE Is(x, "seq") /\ \E n \in Number : more = << Many(s.of, n) >>
    BY <1>1, <2>3, Made DEF Is, Number
  <2>4. CASE Is(x, "tagged") /\ \E n \in DOMAIN s.variants : more = Each(s.variants[n])
    BY <2>4, Made, EachIsPlain DEF Is
  <2>5. QED
    BY <2>1, <2>2, <2>3, <2>4 DEF Tells
<1>3. c \in Told
  <2>1. CASE \E n \in Number : c \in { Call("u64", << n >>), Call("seq", << n >>) }
    <3>1. PICK n \in Number : c \in { Call("u64", << n >>), Call("seq", << n >>) }
      BY <2>1
    <3>2. << n >> \in Seq(Nat) /\ Len(<< n >>) = 1 /\ << n >>[1] = n /\ Fits(n)
      BY DEF Number
    <3>3. c.call \in { "u64", "seq" } /\ c.value = << n >>
          /\ c = [call |-> c.call, value |-> << n >>]
      BY <3>1 DEF Call
    <3>4. c.call \in CallName /\ c.call \notin Silent \cup WontWrite
      BY <3>3, Names
    <3>5. c \in [call : CallName, value : Seq(Nat)]
      BY <3>2, <3>3, <3>4
    <3>6. c.call \notin { "bool", "bytes", "frame" }
      BY <3>3
    <3>7. Len(c.value) = 1 /\ Fits(c.value[1])
      BY <3>2, <3>3
    <3>8. QED
      BY <3>4, <3>5, <3>6, <3>7 DEF Told, AnyCall
  <2>2. CASE \E n \in { 0, 1 } : c = Call("bool", << n >>)
    BY <2>2 DEF Told, AnyCall, CallName, Silent, WontWrite, Call
  <2>3. CASE c \in { Call("none", << >>), Call("some", << >>), Call("last_frame", << >>) }
    <3>1. << >> \in Seq(Nat)
      OBVIOUS
    <3>2. c.call \in { "none", "some", "last_frame" } /\ c.value = << >>
          /\ c = [call |-> c.call, value |-> << >>]
      BY <2>3 DEF Call
    <3>3. c.call \in CallName /\ c.call \notin Silent \cup WontWrite
      BY <3>2, Names
    <3>4. c \in [call : CallName, value : Seq(Nat)]
      BY <3>1, <3>2, <3>3
    <3>5. c.call \notin { "u64", "seq", "bool", "bytes", "frame" }
      BY <3>2
    <3>6. QED
      BY <3>3, <3>4, <3>5 DEF Told, AnyCall
  <2>4. CASE /\ x.is \in { "buf", "frame" }
             /\ \E b \in Seq(Byte) : Len(b) = x.len /\ c \in { Call("bytes", b), Call("frame", b) }
    <3>1. PICK b \in Seq(Byte) :
            Len(b) = x.len /\ c \in { Call("bytes", b), Call("frame", b) }
      BY <2>4
    <3>2. b \in Seq(Nat) /\ Fits(Len(b))
      <4>1. Byte \subseteq Nat
        BY SizeAssumption DEF Byte
      <4>2. b \in Seq(Nat)
        BY <4>1, SeqMonotonic
      <4>3. QED
        BY <2>4, <3>1, <4>2 DEF Number
    <3>3. QED
      BY <3>1, <3>2 DEF Told, AnyCall, CallName, Silent, WontWrite, Call
  <2>5. QED
    BY <2>1, <2>2, <2>3, <2>4 DEF Tells
<1>4. QED
  BY <1>2, <1>3

LEMMA PlainIsStack ==
    ASSUME NEW td \in Seq(Plain)
    PROVE  td \in Stack
<1>1. td \in Seq(Item)
  BY SeqMonotonic DEF Plain
<1>2. td # << >> => Head(td) \in Plain /\ Tail(td) \in Seq(Plain)
  OBVIOUS
<1>3. QED
  BY <1>1, <1>2 DEF Stack

LEMMA OnTop ==
    ASSUME NEW x \in Item, x.len \in Number, NEW y \in Plain
    PROVE  << x >> \in Stack /\ << x, y >> \in Stack
<1>1. y \in Item
  BY DEF Plain
<1>2. << x >> \in Seq(Item) /\ Head(<< x >>) = x /\ Tail(<< x >>) = << >>
  OBVIOUS
<1>3. << x, y >> \in Seq(Item) /\ Head(<< x, y >>) = x /\ Tail(<< x, y >>) = << y >>
  BY <1>1
<1>4. << >> \in Seq(Plain) /\ << y >> \in Seq(Plain)
  OBVIOUS
<1>5. QED
  BY <1>2, <1>3, <1>4 DEF Stack

LEMMA OpensIs ==
    ASSUME NEW x \in Item, NEW more, Opens(x, more)
    PROVE  x \in Plain /\ more \in Stack
<1> DEFINE s == Types[x.type]
<1>1. \A t \in DOMAIN Types, n \in Nat : One(t) \in Plain /\ Many(t, n) \in Plain
  BY DEF One, Many, Plain, Item
<1>2. x \in Plain
  BY DEF Opens, Is, Plain
<1>3. \A td \in Seq(Plain) : td \in Stack
  BY PlainIsStack
<1>4. more \in Stack
  <2>1. CASE more = << >>
    <3>1. << >> \in Seq(Plain)
      OBVIOUS
    <3>2. QED
      BY <1>3, <2>1, <3>1
  <2>2. CASE Is(x, "bytes") /\ \E n \in Number : more = << Buf(n) >>
    <3>1. PICK n \in Number : more = << Buf(n) >>
      BY <2>2
    <3>2. Buf(n) \in Item /\ Buf(n).len = n
      BY InputAssumption DEF Item, Buf, Number, TypesAssumption
    <3>3. QED
      BY <1>2, <3>1, <3>2, OnTop
  <2>3. CASE Is(x, "framed") /\ \E n \in Number : more = << FrameBuf(n), x >>
    <3>1. PICK n \in Number : more = << FrameBuf(n), x >>
      BY <2>3
    <3>2. FrameBuf(n) \in Item /\ FrameBuf(n).len = n
      BY InputAssumption DEF Item, FrameBuf, Number, TypesAssumption
    <3>3. QED
      BY <1>2, <3>1, <3>2, OnTop
  <2>4. CASE x.is = "many" /\ x.len # 0 /\ more = << One(x.type), Many(x.type, x.len - 1) >>
    <3>1. x.type \in DOMAIN Types /\ x.len - 1 \in Nat
      BY <2>4 DEF Item
    <3>2. One(x.type) \in Plain /\ Many(x.type, x.len - 1) \in Plain
      BY <1>1, <3>1
    <3>3. more \in Seq(Plain)
      BY <2>4, <3>2
    <3>4. QED
      BY <1>3, <3>3
  <2>5. CASE Is(x, "tuple") /\ more = Each(s.fields)
    BY <1>3, <2>5, Made, EachIsPlain DEF Is
  <2>6. CASE (Is(x, "newtype") \/ Is(x, "or_eof")) /\ more = << One(s.of) >>
    <3>1. s.of \in DOMAIN Types
      BY <2>6, Made DEF Is
    <3>2. One(s.of) \in Plain
      BY <1>1, <3>1
    <3>3. more \in Seq(Plain)
      BY <2>6, <3>2
    <3>4. QED
      BY <1>3, <3>3
  <2>7. QED
    BY <2>1, <2>2, <2>3, <2>4, <2>5, <2>6 DEF Opens
<1>5. QED
  BY <1>2, <1>4

\* What is still to be read after the first thing has been looked into.
LEMMA Pushed ==
    ASSUME NEW more \in Stack, NEW below \in Seq(Plain)
    PROVE  more \o below \in Stack
<1>1. CASE more = << >>
  BY <1>1 DEF Stack, Plain
<1>2. CASE more # << >>
  <2>1. more \in Seq(Item) /\ Tail(more) \in Seq(Plain)
    BY <1>2 DEF Stack
  <2>2. below \in Seq(Item)
    BY DEF Plain
  <2>3. more \o below \in Seq(Item) /\ Head(more \o below) = Head(more)
        /\ Tail(more \o below) = Tail(more) \o below
    BY <1>2, <2>1, <2>2
  <2>4. Tail(more) \o below \in Seq(Plain)
    BY <2>1
  <2>5. QED
    BY <1>2, <2>3, <2>4 DEF Stack
<1>3. QED
  BY <1>1, <1>2

-----------------------------------------------------------------------------
\* Types.

\* Each variable holds a value of its kind, in what was read there are only calls
\* a visitor can be told of, and only the first buffer to be read has its length.
Typed ==
    /\ pc \in { "write", "read", "done", "failed", "panic" }
    /\ turn \in { 1, 2 }
    /\ complete \in BOOLEAN
    /\ wire \in Seq(Byte) /\ came \in Seq(Byte)
    /\ todo \in Stack
    /\ asked \in Seq(DOMAIN Types)
    /\ calls \in Seq(AnyCall)
    /\ got \in Seq(Told)

\* The length of the buffer that is read next has been read already.
Pending(td) ==
    IF td # << >> /\ Head(td).is \in { "buf", "frame" } THEN Word(Head(td).len) ELSE << >>

\* How many bytes a call writes.
LEMMA LenWritten ==
    ASSUME NEW c \in Told
    PROVE  /\ c.call \in { "u64", "bool", "none", "some", "seq", "last_frame" } =>
                Len(Written(c)) = WordLen
           /\ c.call = "bytes" => Len(Written(c)) = WordLen + BufSpan(Len(c.value))
           /\ c.call = "frame" => Len(Written(c)) = WordLen + Len(c.value)
           /\ c.call = "eof" => Written(c) = << >>
<1>1. \A n \in Nat : Len(Word(n)) = WordLen /\ Word(n) \in Seq(Byte)
  BY WordIsBytes
<1>2. CASE c.call \in { "u64", "seq", "bool" }
  <2>1. c.value[1] \in Nat
    BY <1>2 DEF Told, AnyCall, Fits
  <2>2. Written(c) = Word(c.value[1])
    BY <1>2 DEF Written, Silent, SerializeBool, SerializeSeq
  <2>3. QED
    BY <1>1, <1>2, <2>1, <2>2
<1>3. CASE c.call = "bytes"
  <2>1. c.value \in Seq(Byte) /\ Len(c.value) \in Nat
    BY <1>3 DEF Told, AnyCall
  <2>2. Written(c) = Word(Len(c.value)) \o c.value \o Zeros(Padding(Len(c.value)))
    BY <1>3 DEF Written, Silent, WriteByteBuf
  <2>3. /\ Padding(Len(c.value)) \in Nat
        /\ BufSpan(Len(c.value)) = Len(c.value) + Padding(Len(c.value))
    BY <2>1, PaddingIsNat
  <2>4. Zeros(Padding(Len(c.value))) \in Seq(Byte)
        /\ Len(Zeros(Padding(Len(c.value)))) = Padding(Len(c.value))
    BY <2>3, ZerosIsBytes
  <2>5. Len(Word(Len(c.value))) = WordLen /\ Word(Len(c.value)) \in Seq(Byte)
    BY <1>1, <2>1
  <2>6. Len(Written(c)) = WordLen + Len(c.value) + Padding(Len(c.value))
    <3>1. PICK w \in Seq(Byte) : w = Word(Len(c.value))
      BY <2>5
    <3>2. PICK z \in Seq(Byte) : z = Zeros(Padding(Len(c.value)))
      BY <2>4
    <3>3. Written(c) = w \o c.value \o z
      BY <2>2, <3>1, <3>2
    <3>4. Len(w \o c.value \o z) = Len(w) + Len(c.value) + Len(z)
      BY <2>1, Lengths
    <3>5. Len(w) = WordLen /\ Len(z) = Padding(Len(c.value))
      BY <2>4, <2>5, <3>1, <3>2
    <3>6. QED
      BY <3>3, <3>4, <3>5
  <2>7. QED
    BY <1>3, <2>1, <2>3, <2>6, SmallBytes
<1>4. CASE c.call = "frame"
  <2>1. c.value \in Seq(Byte) /\ Len(c.value) \in Nat
    BY <1>4 DEF Told, AnyCall
  <2>2. Written(c) = Word(Len(c.value)) \o c.value
    BY <1>4 DEF Written, Silent, WriteFrame
  <2>3. Len(Word(Len(c.value))) = WordLen /\ Word(Len(c.value)) \in Seq(Byte)
    BY <1>1, <2>1
  <2>4. Len(Written(c)) = WordLen + Len(c.value)
    BY <2>1, <2>2, <2>3, Lengths
  <2>5. QED
    BY <1>4, <2>4
<1>5. CASE c.call \in { "none", "some", "last_frame" }
  <2>1. Written(c) = Word(0) \/ Written(c) = Word(1)
    BY <1>5 DEF Written, Silent, SerializeNone, SerializeSome, WriteLastFrame
  <2>2. QED
    BY <1>1, <1>5, <2>1
<1>6. CASE c.call = "eof"
  <2>1. Written(c) = << >>
    BY <1>6 DEF Written, Silent
  <2>2. QED
    BY <1>6, <2>1
<1>7. QED
  BY <1>2, <1>3, <1>4, <1>5, <1>6

LEMMA Front ==
    ASSUME Typed, todo # << >>
    PROVE  /\ Top \in Item /\ Below \in Seq(Plain)
           /\ Top.is \in { "buf", "frame" } => Top.len \in Number
           /\ Top.is \in { "buf", "frame" } => Pending(todo) = Word(Top.len)
           /\ Top.is \in { "one", "many" } => Pending(todo) = << >>
  BY DEF Typed, Stack, Plain, Top, Below, Pending

LEMMA NextWordIs ==
    ASSUME wire \in Seq(Byte), Len(wire) >= WordLen
    PROVE  NextWord \in Number
<1>1. WordLen \in 0 .. Len(wire)
  BY SmallBytes
<1>2. SubSeq(wire, 1, WordLen) \in Seq(Byte) /\ Len(SubSeq(wire, 1, WordLen)) = WordLen
  BY <1>1, Cut
<1>3. QED
  BY <1>2, ValueFits DEF NextWord, Number

Unmoved == UNCHANGED << pc, turn, meant, asked, calls, complete, came, first >>

\* A visitor is told of a call, after as many bytes have been read as the call
\* writes.
Telling ==
    \E c \in Told, more \in Seq(Plain), n \in 0 .. Len(wire) :
        /\ Tells(Top, c, more)
        /\ got' = Append(got, c) /\ todo' = more \o Below
        /\ wire' = SubSeq(wire, n + 1, Len(wire))
        /\ Len(Pending(todo)) + n = Len(Written(c))

\* No visitor is told, and the length of a buffer may have been read.
Opening ==
    \E more \in Stack, n \in 0 .. Len(wire) :
        /\ Opens(Top, more)
        /\ Is(Top, "or_eof") => wire # << >>
        /\ got' = got /\ todo' = more \o Below
        /\ wire' = SubSeq(wire, n + 1, Len(wire))
        /\ Len(Pending(more)) = n

\* The stream has ended before a message.
AtEnd ==
    /\ Is(Top, "or_eof")
    /\ wire = << >> /\ wire' = << >>
    /\ got' = Append(got, Call("eof", << >>)) /\ todo' = << >>

Stopping ==
    /\ pc' \in { "failed", "panic" }
    /\ wire' \in Seq(Byte)
    /\ UNCHANGED << turn, meant, asked, calls, complete, came, todo, got, first >>

\* The steps of the reader that read a word and tell a visitor of a call.
LEMMA TellsAWord ==
    ASSUME Typed, todo # << >>, Top.is = "one", ReadU64,
           NEW name, NEW value, NEW more, Tells(Top, Call(name, value), more),
           Call(name, value).call \in { "u64", "bool", "none", "some", "seq", "last_frame" },
           Visit(name, value, more)
    PROVE  Telling /\ Unmoved
<1> DEFINE c == Call(name, value)
<1>1. Top \in Item /\ Pending(todo) = << >>
  BY Front
<1>2. c \in Told /\ more \in Seq(Plain)
  BY <1>1, TellsIs
<1>3. WordLen \in 0 .. Len(wire) /\ wire' = SubSeq(wire, WordLen + 1, Len(wire))
  BY SmallBytes DEF ReadU64, ReadExact, Typed
<1>4. Len(Written(c)) = WordLen
  BY <1>2, LenWritten
<1>5. Len(Pending(todo)) + WordLen = Len(Written(c))
  BY <1>1, <1>4, SmallBytes
<1>6. got' = Append(got, c) /\ todo' = more \o Below /\ Unmoved
  BY DEF Visit, Unmoved
<1> HIDE DEF c
<1>7. Tells(Top, c, more)
  BY DEF c
<1>8. QED
  BY <1>2, <1>3, <1>5, <1>6, <1>7 DEF Telling

\* The steps that read nothing and tell nobody.
LEMMA OpensSilently ==
    ASSUME Typed, todo # << >>, NEW more, Opens(Top, more), Pending(more) = << >>,
           Is(Top, "or_eof") => wire # << >>, UNCHANGED wire, Descend(more)
    PROVE  Opening /\ Unmoved
<1>1. more \in Stack
  BY Front, OpensIs
<1>2. 0 \in 0 .. Len(wire) /\ wire' = SubSeq(wire, 0 + 1, Len(wire))
  BY DEF Typed
<1>3. Len(Pending(more)) = 0
  OBVIOUS
<1>4. got' = got /\ todo' = more \o Below /\ Unmoved
  BY DEF Descend, Unmoved
<1>5. QED
  BY <1>1, <1>2, <1>3, <1>4 DEF Opening

\* The steps that read the length of a buffer.
LEMMA OpensABuffer ==
    ASSUME Typed, todo # << >>, NEW more, Opens(Top, more), Len(Pending(more)) = WordLen,
           ~ Is(Top, "or_eof"), ReadU64, Descend(more)
    PROVE  Opening /\ Unmoved
<1>1. more \in Stack
  BY Front, OpensIs
<1>2. WordLen \in 0 .. Len(wire) /\ wire' = SubSeq(wire, WordLen + 1, Len(wire))
  BY SmallBytes DEF ReadU64, ReadExact, Typed
<1>3. got' = got /\ todo' = more \o Below /\ Unmoved
  BY DEF Descend, Unmoved
<1>4. QED
  BY <1>1, <1>2, <1>3 DEF Opening

\* A step of the reader tells a visitor of a call, or finds out what there is to
\* read, or meets the end of the stream between two messages, or is the last.
LEMMA Reading ==
    ASSUME Typed, Deserialize
    PROVE  ((Telling \/ Opening \/ AtEnd) /\ Unmoved) \/ Stopping
<1>1. todo # << >> /\ pc = "read"
  BY DEF Deserialize, DeserializeU64, DeserializeBool, ReadByteBufLen, ReadByteBuf,
         DeserializeOption, DeserializeSeq, NextElement, DeserializeTuple,
         DeserializeNewtype, DeserializeUnit, DeserializeTagged, ReadFrameLen, ReadFrame,
         ReadErrorMsgOrEof, WontImplement, UnexpectedEof, At, In
<1>2. wire \in Seq(Byte) /\ Len(wire) \in Nat
  BY DEF Typed
<1>3. Top \in Item /\ Below \in Seq(Plain)
      /\ (Top.is \in { "buf", "frame" } => Top.len \in Number /\ Pending(todo) = Word(Top.len))
  BY <1>1, Front
<1>4. \A shape : At(shape) <=> Is(Top, shape)
  BY <1>1 DEF At, Is
<1>5. ReadU64 => NextWord \in Number /\ wire' \in Seq(Byte)
  <2>1. SUFFICES ASSUME ReadU64 PROVE NextWord \in Number /\ wire' \in Seq(Byte)
    OBVIOUS
  <2>2. Len(wire) >= WordLen /\ wire' = SubSeq(wire, WordLen + 1, Len(wire))
    BY <2>1 DEF ReadU64, ReadExact
  <2>3. WordLen \in 0 .. Len(wire)
    BY <1>2, <2>2, SmallBytes
  <2>4. QED
    BY <1>2, <2>2, <2>3, NextWordIs, Cut
<1>6. \A how : Stop(how) /\ how \in { "failed", "panic" } /\ wire' \in Seq(Byte) => Stopping
  BY DEF Stop, Stopping
<1>7. Pending(<< >>) = << >>
  BY DEF Pending
<1>8. CASE DeserializeU64
  <2>1. Is(Top, "u64") /\ ReadU64 /\ Visit("u64", << NextWord >>, << >>)
    BY <1>4, <1>8 DEF DeserializeU64
  <2>2. Tells(Top, Call("u64", << NextWord >>), << >>)
    BY <1>5, <2>1 DEF Tells
  <2>3. QED
    BY <1>1, <2>1, <2>2, TellsAWord DEF Is, Call
<1>9. CASE DeserializeBool
  <2>1. Is(Top, "bool") /\ ReadU64 /\ Visit("bool", << BoolValue(NextWord) >>, << >>)
    BY <1>4, <1>9 DEF DeserializeBool
  <2>2. Tells(Top, Call("bool", << BoolValue(NextWord) >>), << >>)
    BY <2>1 DEF Tells, BoolValue
  <2>3. QED
    BY <1>1, <2>1, <2>2, TellsAWord DEF Is, Call
<1>10. CASE ReadByteBufLen
  <2>1. Is(Top, "bytes") /\ ReadU64
    BY <1>4, <1>10 DEF ReadByteBufLen
  <2>2. CASE Allocates(NextWord)
    <3>1. Descend(<< Buf(NextWord) >>)
      BY <1>10, <2>2 DEF ReadByteBufLen
    <3>2. Opens(Top, << Buf(NextWord) >>)
      BY <1>5, <2>1, <2>2 DEF Opens
    <3>3. Pending(<< Buf(NextWord) >>) = Word(NextWord)
      BY DEF Pending, Buf
    <3>4. Len(Pending(<< Buf(NextWord) >>)) = WordLen
      BY <1>5, <2>1, <3>3, WordIsBytes DEF Number
    <3>5. ~ Is(Top, "or_eof")
      BY <2>1 DEF Is
    <3>6. QED
      BY <1>1, <2>1, <3>1, <3>2, <3>4, <3>5, OpensABuffer
  <2>3. CASE ~ Allocates(NextWord)
    BY <1>5, <1>6, <1>10, <2>1, <2>3 DEF ReadByteBufLen
  <2>4. QED
    BY <2>2, <2>3
<1>11. CASE ReadByteBuf
  <2> DEFINE s == SubSeq(wire, 1, Top.len)
             c == Call("bytes", s)
             n == BufSpan(Top.len)
  <2>1. Top.is = "buf" /\ ReadExact(n) /\ Visit("bytes", s, << >>)
    BY <1>11 DEF ReadByteBuf, In
  <2>2. Top.len \in Nat /\ n \in Nat /\ Top.len <= n /\ n \in 0 .. Len(wire)
        /\ wire' = SubSeq(wire, n + 1, Len(wire))
    <3>1. Top.len \in Nat
      BY <1>3, <2>1 DEF Number
    <3>2. n \in Nat /\ Padding(Top.len) \in Nat /\ n = Top.len + Padding(Top.len)
      BY <3>1, PaddingIsNat
    <3>3. Len(wire) >= n /\ wire' = SubSeq(wire, n + 1, Len(wire))
      BY <2>1 DEF ReadExact
    <3> HIDE DEF n
    <3>4. QED
      BY <1>2, <3>1, <3>2, <3>3
  <2>3. s \in Seq(Byte) /\ Len(s) = Top.len
    BY <1>2, <2>2, Cut
  <2>4. Tells(Top, c, << >>)
    BY <2>1, <2>3 DEF Tells
  <2>5. c \in Told /\ << >> \in Seq(Plain)
    BY <1>3, <2>4, TellsIs
  <2>6. c.call = "bytes" /\ c.value = s
    BY DEF Call
  <2>7. got' = Append(got, c) /\ todo' = << >> \o Below /\ Unmoved
    BY <2>1 DEF Visit, Unmoved
  <2> HIDE DEF c, s, n
  <2>8. Len(Written(c)) = WordLen + BufSpan(Top.len)
    BY <2>3, <2>5, <2>6, LenWritten
  <2>9. Len(Pending(todo)) = WordLen
    BY <1>3, <2>1, WordIsBytes DEF Number
  <2>10. Len(Pending(todo)) + n = Len(Written(c))
    BY <2>8, <2>9 DEF n
  <2>11. QED
    BY <2>2, <2>4, <2>5, <2>7, <2>10 DEF Telling
<1>12. CASE DeserializeOption
  <2>1. Is(Top, "option") /\ ReadU64
    BY <1>4, <1>12 DEF DeserializeOption
  <2>2. CASE NextWord = 1
    <3>1. Visit("some", << >>, << One(Types[Top.type].of) >>)
      BY <1>12, <2>2 DEF DeserializeOption
    <3>2. Tells(Top, Call("some", << >>), << One(Types[Top.type].of) >>)
      BY <2>1 DEF Tells
    <3>3. QED
      BY <1>1, <2>1, <3>1, <3>2, TellsAWord DEF Is, Call
  <2>3. CASE NextWord # 1
    <3>1. Visit("none", << >>, << >>)
      BY <1>12, <2>3 DEF DeserializeOption
    <3>2. Tells(Top, Call("none", << >>), << >>)
      BY <2>1 DEF Tells
    <3>3. QED
      BY <1>1, <2>1, <3>1, <3>2, TellsAWord DEF Is, Call
  <2>4. QED
    BY <2>2, <2>3
<1>13. CASE DeserializeSeq
  <2>1. Is(Top, "seq") /\ ReadU64
        /\ Visit("seq", << NextWord >>, << Many(Types[Top.type].of, NextWord) >>)
    BY <1>4, <1>13 DEF DeserializeSeq
  <2>2. Tells(Top, Call("seq", << NextWord >>), << Many(Types[Top.type].of, NextWord) >>)
    BY <1>5, <2>1 DEF Tells
  <2>3. QED
    BY <1>1, <2>1, <2>2, TellsAWord DEF Is, Call
<1>14. CASE NextElement
  <2> DEFINE more == IF Remaining(Top.len) THEN << One(Top.type), Many(Top.type, Top.len - 1) >>
                     ELSE << >>
  <2>1. Top.is = "many" /\ UNCHANGED wire /\ Descend(more)
    BY <1>14 DEF NextElement, In
  <2>2. Top.len \in Nat
    BY <1>3 DEF Item
  <2>3. Opens(Top, more)
    BY <2>1, <2>2 DEF Opens, Remaining
  <2>4. Pending(more) = << >>
    BY DEF Pending, One
  <2>5. ~ Is(Top, "or_eof")
    BY <2>1 DEF Is
  <2> HIDE DEF more
  <2>6. QED
    BY <1>1, <2>1, <2>3, <2>4, <2>5, OpensSilently
<1>15. CASE DeserializeTuple
  <2> DEFINE more == Each(Types[Top.type].fields)
  <2>1. Is(Top, "tuple") /\ UNCHANGED wire /\ Descend(more)
    BY <1>4, <1>15 DEF DeserializeTuple
  <2>2. Opens(Top, more)
    BY <2>1 DEF Opens
  <2>3. more \in Seq(Plain)
    BY <1>3, <2>1, Made, EachIsPlain DEF Is
  <2> HIDE DEF more
  <2>4. Pending(more) = << >>
    BY <2>3 DEF Pending, Plain
  <2>5. ~ Is(Top, "or_eof")
    BY <2>1 DEF Is
  <2>6. QED
    BY <1>1, <2>1, <2>2, <2>4, <2>5, OpensSilently
<1>16. CASE DeserializeNewtype
  <2> DEFINE more == << One(Types[Top.type].of) >>
  <2>1. Is(Top, "newtype") /\ UNCHANGED wire /\ Descend(more)
    BY <1>4, <1>16 DEF DeserializeNewtype
  <2>2. Opens(Top, more) /\ Pending(more) = << >>
    BY <2>1 DEF Opens, Pending, One
  <2>3. ~ Is(Top, "or_eof")
    BY <2>1 DEF Is
  <2>4. QED
    BY <1>1, <2>1, <2>2, <2>3, OpensSilently
<1>17. CASE DeserializeUnit
  <2>1. Is(Top, "unit") /\ UNCHANGED wire /\ Descend(<< >>)
    BY <1>4, <1>17 DEF DeserializeUnit
  <2>2. Opens(Top, << >>)
    BY <2>1 DEF Opens
  <2>3. ~ Is(Top, "or_eof")
    BY <2>1 DEF Is
  <2>4. QED
    BY <1>1, <1>7, <2>1, <2>2, <2>3, OpensSilently
<1>18. CASE DeserializeTagged
  <2>1. Is(Top, "tagged") /\ ReadU64
    BY <1>4, <1>18 DEF DeserializeTagged
  <2>2. CASE NextWord \in DOMAIN Types[Top.type].variants
    <3> DEFINE more == Each(Types[Top.type].variants[NextWord])
    <3>1. Visit("u64", << NextWord >>, more)
      BY <1>18, <2>2 DEF DeserializeTagged
    <3>2. Tells(Top, Call("u64", << NextWord >>), more)
      BY <1>5, <2>1, <2>2 DEF Tells
    <3>3. QED
      BY <1>1, <2>1, <3>1, <3>2, TellsAWord DEF Is, Call
  <2>3. CASE NextWord \notin DOMAIN Types[Top.type].variants
    BY <1>5, <1>6, <1>18, <2>1, <2>3 DEF DeserializeTagged
  <2>4. QED
    BY <2>2, <2>3
<1>19. CASE ReadFrameLen
  <2>1. Is(Top, "framed") /\ ReadU64
    BY <1>4, <1>19 DEF ReadFrameLen
  <2>2. CASE NextWord = 0
    <3>1. Visit("last_frame", << >>, << >>)
      BY <1>19, <2>2 DEF ReadFrameLen
    <3>2. Tells(Top, Call("last_frame", << >>), << >>)
      BY <2>1 DEF Tells
    <3>3. QED
      BY <1>1, <2>1, <3>1, <3>2, TellsAWord DEF Is, Call
  <2>3. CASE NextWord # 0 /\ Allocates(NextWord)
    <3> DEFINE more == << FrameBuf(NextWord), Top >>
    <3>1. Descend(more)
      BY <1>19, <2>3 DEF ReadFrameLen
    <3>2. Opens(Top, more)
      BY <1>5, <2>1, <2>3 DEF Opens
    <3>3. Pending(more) = Word(NextWord)
      BY DEF Pending, FrameBuf
    <3>4. Len(Pending(more)) = WordLen
      BY <1>5, <2>1, <3>3, WordIsBytes DEF Number
    <3>5. ~ Is(Top, "or_eof")
      BY <2>1 DEF Is
    <3> HIDE DEF more
    <3>6. QED
      BY <1>1, <2>1, <3>1, <3>2, <3>4, <3>5, OpensABuffer
  <2>4. CASE NextWord # 0 /\ ~ Allocates(NextWord)
    BY <1>5, <1>6, <1>19, <2>1, <2>4 DEF ReadFrameLen
  <2>5. QED
    BY <2>2, <2>3, <2>4
<1>20. CASE ReadFrame
  <2> DEFINE n == Top.len
             s == SubSeq(wire, 1, n)
             c == Call("frame", s)
  <2>1. Top.is = "frame" /\ ReadExact(n) /\ Visit("frame", s, << >>)
    BY <1>20 DEF ReadFrame, In
  <2>2. n \in 0 .. Len(wire) /\ wire' = SubSeq(wire, n + 1, Len(wire))
    BY <1>2, <1>3, <2>1 DEF Number, ReadExact
  <2>3. s \in Seq(Byte) /\ Len(s) = n
    BY <1>2, <2>2, Cut
  <2>4. Tells(Top, c, << >>)
    BY <2>1, <2>3 DEF Tells
  <2>5. c \in Told /\ << >> \in Seq(Plain)
    BY <1>3, <2>4, TellsIs
  <2>6. c.call = "frame" /\ c.value = s
    BY DEF Call
  <2>7. got' = Append(got, c) /\ todo' = << >> \o Below /\ Unmoved
    BY <2>1 DEF Visit, Unmoved
  <2> HIDE DEF c, s, n
  <2>8. Len(Written(c)) = WordLen + n
    BY <2>3, <2>5, <2>6, LenWritten
  <2>9. Len(Pending(todo)) = WordLen
    BY <1>3, <2>1, WordIsBytes DEF Number
  <2>10. Len(Pending(todo)) + n = Len(Written(c))
    BY <2>8, <2>9
  <2>11. QED
    BY <2>2, <2>4, <2>5, <2>7, <2>10 DEF Telling
<1>21. CASE ReadErrorMsgOrEof
  <2>1. Is(Top, "or_eof") /\ UNCHANGED wire
    BY <1>4, <1>21 DEF ReadErrorMsgOrEof
  <2>2. CASE wire = << >>
    BY <1>21, <2>1, <2>2 DEF ReadErrorMsgOrEof, AtEnd, Unmoved
  <2>3. CASE wire # << >>
    <3> DEFINE more == << One(Types[Top.type].of) >>
    <3>1. Descend(more)
      BY <1>21, <2>3 DEF ReadErrorMsgOrEof
    <3>2. Opens(Top, more) /\ Pending(more) = << >>
      BY <2>1 DEF Opens, Pending, One
    <3>3. QED
      BY <1>1, <2>1, <2>3, <3>1, <3>2, OpensSilently
  <2>4. QED
    BY <2>2, <2>3
<1>22. CASE WontImplement
  BY <1>2, <1>6, <1>22 DEF WontImplement
<1>23. CASE UnexpectedEof
  <2>1. wire' = << >> /\ Stop("failed")
    BY <1>23 DEF UnexpectedEof
  <2>2. QED
    BY <1>6, <2>1
<1>24. QED
  BY <1>8, <1>9, <1>10, <1>11, <1>12, <1>13, <1>14, <1>15, <1>16, <1>17, <1>18, <1>19,
     <1>20, <1>21, <1>22, <1>23 DEF Deserialize

LEMMA EachIsStack ==
    ASSUME NEW ts \in Seq(DOMAIN Types)
    PROVE  Each(ts) \in Stack /\ Pending(Each(ts)) = << >>
<1>1. Each(ts) \in Seq(Plain)
  BY EachIsPlain
<1>2. QED
  BY <1>1, PlainIsStack DEF Pending, Plain

LEMMA ToldIsCall ==
    ASSUME NEW cs \in Seq(Told)
    PROVE  cs \in Seq(AnyCall)
<1>1. Told \subseteq AnyCall
  BY DEF Told
<1>2. QED
  BY <1>1, SeqMonotonic

LEMMA EofIsTold ==
    Call("eof", << >>) \in Told
<1> DEFINE c == Call("eof", << >>)
<1>1. c.call = "eof" /\ c.value = << >> /\ c = [call |-> c.call, value |-> << >>]
  BY DEF Call
<1> HIDE DEF c
<1>2. c.call \in CallName /\ c.call \notin Silent \cup WontWrite
  BY <1>1, Names
<1>3. << >> \in Seq(Nat)
  OBVIOUS
<1>4. c \in [call : CallName, value : Seq(Nat)]
  BY <1>1, <1>2, <1>3
<1>5. c.call \notin { "u64", "seq", "bool", "bytes", "frame" }
  BY <1>1
<1>6. QED
  BY <1>2, <1>4, <1>5 DEF Told, AnyCall, c

LEMMA TypedInit ==
    Init => Typed
<1> SUFFICES ASSUME Init PROVE Typed
  OBVIOUS
<1>1. turn = 1 /\ complete = TRUE /\ got = << >>
  BY DEF Init
<1>2. << >> \in Seq(Byte) /\ << >> \in Seq(Told) /\ << >> \in Seq(AnyCall) /\ << >> \in Stack
  <2>1. << >> \in Seq(Plain) /\ << >> \in Seq(Byte) /\ << >> \in Seq(Told) /\ << >> \in Seq(AnyCall)
    OBVIOUS
  <2>2. << >> \in Stack
    BY <2>1, PlainIsStack
  <2>3. QED
    BY <2>1, <2>2
<1>3. CASE \E w \in Writings :
             /\ pc = "write" /\ calls = w.calls /\ asked = w.asked
             /\ todo = << >> /\ wire = << >> /\ came = << >>
  BY <1>1, <1>2, <1>3, InputAssumption DEF Typed
<1>4. CASE \E s \in Streams :
             /\ pc = "read" /\ calls = << >> /\ asked = s.asked
             /\ todo = Each(s.asked) /\ wire = s.bytes /\ came = s.bytes
  BY <1>1, <1>2, <1>4, InputAssumption, EachIsStack DEF Typed
<1>5. QED
  BY <1>3, <1>4 DEF Init

LEMMA TypedReading ==
    ASSUME Typed, NEW bytes \in Seq(Byte), StartReading(bytes), complete' \in BOOLEAN
    PROVE  Typed'
<1>1. << >> \in Seq(Told) /\ << >> \in Seq(AnyCall)
  OBVIOUS
<1>2. Each(asked) \in Stack
  BY EachIsStack DEF Typed
<1>3. QED
  BY <1>1, <1>2 DEF Typed, StartReading

LEMMA TypedWriting ==
    ASSUME Typed, WriteCall
    PROVE  Typed'
<1>1. calls # << >> /\ calls \in Seq(AnyCall) /\ wire \in Seq(Byte)
  BY DEF WriteCall, Typed
<1>2. Head(calls) \in AnyCall /\ Tail(calls) \in Seq(AnyCall)
  BY <1>1, Uncons
<1>3. Written(Head(calls)) \in Seq(Byte)
  BY <1>2, WrittenIsBytes DEF WriteCall
<1>4. wire \o Written(Head(calls)) \in Seq(Byte)
  BY <1>1, <1>3, ConcatProperties
<1>5. QED
  BY <1>2, <1>4 DEF Typed, WriteCall

LEMMA TypedDeserialize ==
    ASSUME Typed, Deserialize
    PROVE  Typed'
<1>1. todo # << >>
  BY DEF Deserialize, DeserializeU64, DeserializeBool, ReadByteBufLen, ReadByteBuf,
         DeserializeOption, DeserializeSeq, NextElement, DeserializeTuple,
         DeserializeNewtype, DeserializeUnit, DeserializeTagged, ReadFrameLen, ReadFrame,
         ReadErrorMsgOrEof, WontImplement, UnexpectedEof, At, In
<1>2. Below \in Seq(Plain)
  BY <1>1, Front
<1>3. got \in Seq(Told) /\ wire \in Seq(Byte)
  BY DEF Typed
<1>4. CASE Telling /\ Unmoved
  <2>1. PICK c \in Told, more \in Seq(Plain), n \in 0 .. Len(wire) :
          /\ got' = Append(got, c) /\ todo' = more \o Below
          /\ wire' = SubSeq(wire, n + 1, Len(wire))
    BY <1>4 DEF Telling
  <2>2. todo' \in Stack
    BY <1>2, <2>1, PlainIsStack, Pushed
  <2>3. wire' \in Seq(Byte) /\ got' \in Seq(Told)
    BY <1>3, <2>1, Cut, AppendProperties
  <2>4. QED
    BY <1>4, <2>2, <2>3 DEF Typed, Unmoved
<1>5. CASE Opening /\ Unmoved
  <2>1. PICK more \in Stack, n \in 0 .. Len(wire) :
          /\ got' = got /\ todo' = more \o Below
          /\ wire' = SubSeq(wire, n + 1, Len(wire))
    BY <1>5 DEF Opening
  <2>2. todo' \in Stack
    BY <1>2, <2>1, Pushed
  <2>3. wire' \in Seq(Byte)
    BY <1>3, <2>1, Cut
  <2>4. QED
    BY <1>3, <1>5, <2>1, <2>2, <2>3 DEF Typed, Unmoved
<1>6. CASE AtEnd /\ Unmoved
  <2>1. Call("eof", << >>) \in Told
    BY EofIsTold
  <2>2. got' \in Seq(Told)
    BY <1>3, <1>6, <2>1, AppendProperties DEF AtEnd
  <2>3. << >> \in Seq(Byte) /\ << >> \in Stack
    <3>1. << >> \in Seq(Plain) /\ << >> \in Seq(Byte)
      OBVIOUS
    <3>2. << >> \in Stack
      BY <3>1, PlainIsStack
    <3>3. QED
      BY <3>1, <3>2
  <2>4. QED
    BY <1>6, <2>2, <2>3 DEF AtEnd, Typed, Unmoved
<1>7. CASE Stopping
  BY <1>7 DEF Stopping, Typed
<1>8. QED
  BY <1>4, <1>5, <1>6, <1>7, Reading

LEMMA TypedNext ==
    Typed /\ [Next]_vars => Typed'
<1> SUFFICES ASSUME Typed, [Next]_vars PROVE Typed'
  OBVIOUS
<1>1. CASE WriteCall
  BY <1>1, TypedWriting
<1>2. CASE WriteFails
  <2>1. wire \in Seq(Byte) /\ StartReading(wire) /\ complete' \in BOOLEAN
    BY <1>2 DEF WriteFails, Typed
  <2>2. QED
    BY <2>1, TypedReading
<1>3. CASE Arrive
  <2>1. Len(wire) \in 0 .. Len(wire)
    BY DEF Typed
  <2>2. PICK n \in 0 .. Len(wire) :
          complete' = (complete /\ n = Len(wire)) /\ StartReading(SubSeq(wire, 1, n))
    BY <1>3, <2>1 DEF Arrive
  <2>3. complete' \in BOOLEAN
    BY <2>2
  <2>4. SubSeq(wire, 1, n) \in Seq(Byte)
    BY Cut DEF Typed
  <2>5. QED
    BY <2>2, <2>3, <2>4, TypedReading
<1>4. CASE Deserialize
  BY <1>4, TypedDeserialize
<1>5. CASE Forward
  <2>1. wire \in Seq(Byte) /\ came \in Seq(Byte) /\ got \in Seq(Told) /\ todo \in Stack
    BY DEF Typed
  <2>2. got \in Seq(AnyCall)
    BY <2>1, ToldIsCall
  <2>3. came' \in Seq(Byte)
    BY <2>1, <1>5 DEF Forward
  <2>4. QED
    BY <1>5, <2>2, <2>3 DEF Forward, Typed
<1>6. CASE Finish
  BY <1>6 DEF Finish, Stop, Typed
<1>7. CASE Rest \/ UNCHANGED vars
  BY <1>7 DEF Rest, vars, Typed
<1>8. QED
  BY <1>1, <1>2, <1>3, <1>4, <1>5, <1>6, <1>7 DEF Next

\* The reader and the writer keep the types, and what is written and read fits
\* the format.
THEOREM TypedInductive ==
    Spec => []Typed
<1>1. QED
  BY TypedInit, TypedNext, PTL DEF Spec

\* For words of every length and bytes of every base, whatever is written and
\* whatever comes: bytes stay bytes, and only what has a known type is read.
THEOREM TypeCorrect ==
    Spec => []TypeOK
<1>1. Typed => TypeOK
  BY DEF Typed, TypeOK, Stack
<1>2. QED
  BY <1>1, TypedInductive, PTL

====
