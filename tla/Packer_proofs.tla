----------------------------- MODULE Packer_proofs -----------------------------
(***************************************************************************)
(* Proofs about Packer, for every size of a byte and every lengths that    *)
(* PackerAssumption allows: xxtea, the shuffle, the padding and the fields *)
(* of a message, each with its inverse, and from them Pack and Unpack.     *)
(***************************************************************************)
EXTENDS Packer, WellFoundedInduction, SequenceTheorems, TLAPS

-----------------------------------------------------------------------------
(* Induction over numbers, over sets instead of predicates                  *)

\* A set that has 0 and the successor of each of its numbers has them all.
LEMMA SetInduction ==
    ASSUME NEW n \in Nat, NEW T, 0 \in T,
           \A i \in 1..n : i - 1 \in T => i \in T
    PROVE  \A i \in 0..n : i \in T
<1> DEFINE Bad == {i \in 0..n : i \notin T}
<1> SUFFICES ASSUME Bad # {} PROVE FALSE
  OBVIOUS
<1>1. Bad \subseteq Nat
  OBVIOUS
<1>2. PICK i \in Bad : \A j \in Bad : ~ (<<j, i>> \in OpToRel(<, Nat))
  <2> HIDE DEF Bad
  <2> QED BY <1>1, NatLessThanWellFounded, WFMin
<1>3. \A j \in Bad : ~ (j < i)
  <2> SUFFICES ASSUME NEW j \in Bad, j < i PROVE FALSE
    OBVIOUS
  <2>1. <<j, i>> \in Nat \X Nat
    BY <1>1
  <2>2. <<j, i>> \in OpToRel(<, Nat)
    BY <2>1 DEF OpToRel
  <2> HIDE DEF Bad
  <2> QED BY <1>2, <2>2
<1>4. i # 0
  OBVIOUS
<1>5. i \in 1..n /\ i - 1 \in 0..n /\ i - 1 < i
  BY <1>4
<1>6. i - 1 \notin Bad
  BY <1>5, <1>3
<1>7. i - 1 \in T
  BY <1>6, <1>5
<1> QED BY <1>7, <1>5

\* f begins with a and goes on by F, a function of the number of the step and of
\* the value before it.
IsRun(f, S, n, F, a) ==
    /\ f \in [0..n -> S]
    /\ f[0] = a
    /\ \A i \in 1..n : f[i] = F[<<i, f[i - 1]>>]

\* Every such F can be iterated.
LEMMA Iteration ==
    ASSUME NEW S, NEW n \in Nat, NEW F, NEW a \in S,
           \A i \in 1..n, s \in S : F[<<i, s>>] \in S
    PROVE  \E f : IsRun(f, S, n, F, a)
<1> DEFINE Run(m, f) == f[0] = a /\ \A i \in 1..m : f[i] = F[<<i, f[i - 1]>>]
           T == {m \in 0..n : \E f \in [0..m -> S] : Run(m, f)}
<1>1. 0 \in T
  <2> DEFINE f == [i \in 0..0 |-> a]
  <2>1. f \in [0..0 -> S] /\ Run(0, f)
    OBVIOUS
  <2> HIDE DEF f, Run
  <2> QED BY <2>1
<1>2. ASSUME NEW m \in 1..n, m - 1 \in T
      PROVE  m \in T
  <2>1. PICK f \in [0..(m - 1) -> S] : Run(m - 1, f)
    BY <1>2
  <2> DEFINE g == [i \in 0..m |-> IF i = m THEN F[<<m, f[m - 1]>>] ELSE f[i]]
  <2>2. f[m - 1] \in S /\ 0 # m /\ 0 \in 0..m
    OBVIOUS
  <2>3. F[<<m, f[m - 1]>>] \in S
    BY <2>2
  <2>4. g \in [0..m -> S]
    BY <2>3
  <2>5. g[0] = a
    BY <2>1, <2>2
  <2>6. ASSUME NEW i \in 1..m
        PROVE  g[i] = F[<<i, g[i - 1]>>]
    <3>1. i - 1 \in 0..m /\ i - 1 # m /\ i \in 0..m
      OBVIOUS
    <3>2. g[i - 1] = f[i - 1]
      BY <3>1
    <3>3. CASE i = m
      BY <3>1, <3>2, <3>3
    <3>4. CASE i # m
      <4>1. i \in 1..(m - 1)
        BY <3>4
      <4>2. g[i] = f[i]
        BY <3>1, <3>4
      <4> HIDE DEF g
      <4> QED BY <2>1, <3>2, <4>1, <4>2
    <3> QED BY <3>3, <3>4
  <2>7. Run(m, g)
    BY <2>5, <2>6
  <2>8. m \in 0..n
    OBVIOUS
  <2> HIDE DEF g, Run
  <2> QED BY <2>4, <2>7, <2>8
<1>3. n \in T
  <2> HIDE DEF T
  <2> QED BY <1>1, <1>2, SetInduction
<1> QED BY <1>3 DEF IsRun

\* Two functions that begin alike and go on alike end alike.
LEMMA EndAlike ==
    ASSUME NEW n \in Nat, NEW f, NEW g, f[0] = g[0],
           \A i \in 1..n : f[i - 1] = g[i - 1] => f[i] = g[i]
    PROVE  f[n] = g[n]
<1> DEFINE T == {i \in 0..n : f[i] = g[i]}
<1>1. 0 \in T /\ \A i \in 1..n : i - 1 \in T => i \in T
  OBVIOUS
<1>2. n \in T
  <2> HIDE DEF T
  <2> QED BY <1>1, SetInduction
<1> QED BY <1>2

\* What is done in the reverse order is undone: g goes back the way f came.
LEMMA BackTheWay ==
    ASSUME NEW n \in Nat, NEW f, NEW g, g[0] = f[n],
           \A i \in 1..n : g[i - 1] = f[n - i + 1] => g[i] = f[n - i]
    PROVE  g[n] = f[0]
<1> DEFINE T == {i \in 0..n : g[i] = f[n - i]}
<1>1. 0 \in T
  OBVIOUS
<1>2. \A i \in 1..n : i - 1 \in T => i \in T
  <2> SUFFICES ASSUME NEW i \in 1..n, i - 1 \in T PROVE i \in T
    OBVIOUS
  <2>1. n - (i - 1) = n - i + 1
    OBVIOUS
  <2>2. g[i - 1] = f[n - i + 1]
    BY <2>1
  <2>3. g[i] = f[n - i]
    BY <2>2
  <2> QED BY <2>3
<1>3. n \in T
  <2> HIDE DEF T
  <2> QED BY <1>1, <1>2, SetInduction
<1>4. n - n = 0
  OBVIOUS
<1> QED BY <1>3, <1>4

-----------------------------------------------------------------------------
(* The padding                                                              *)

\* The numbers.
LEMMA Numbers ==
    /\ Word16 \in Nat
    /\ MIN_INPUT_LENGTH \in Nat /\ MAX_TARGET_LENGTH \in Nat /\ Floor \in Nat
    /\ MIN_INPUT_LENGTH <= MAX_TARGET_LENGTH
    /\ MAX_TARGET_LENGTH <= Floor /\ Floor < Word16
<1>1. Byte * Byte \in Nat
  BY PackerAssumption
<1> QED BY <1>1, PackerAssumption DEF Word16, Floor

\* The offset leaves room for the longest padding in 16 bits.
LEMMA OffsetFits ==
    ASSUME NEW k \in 0 .. Word16 - 1
    PROVE  Offset(k) \in Nat /\ Offset(k) + MAX_TARGET_LENGTH < Word16
<1>1. CASE k < Floor
  BY <1>1, Numbers DEF Offset
<1>2. CASE ~(k < Floor)
  BY <1>2, Numbers DEF Offset
<1> QED BY <1>1, <1>2

\* Whatever is drawn, a padded message is no longer than MAX_TARGET_LENGTH, and
\* not shorter than MIN_INPUT_LENGTH.
LEMMA PadlenFits ==
    ASSUME NEW n \in Nat, NEW r \in Draws
    PROVE  /\ Padlen(n, r) \in 0 .. MAX_TARGET_LENGTH
           /\ n + Padlen(n, r) >= MIN_INPUT_LENGTH
<1>1. r \in Nat /\ r <= MAX_TARGET_LENGTH - MIN_INPUT_LENGTH
  BY Numbers DEF Draws
<1>2. CASE n >= MIN_INPUT_LENGTH
  BY <1>2, Numbers DEF Padlen
<1>3. CASE ~(n >= MIN_INPUT_LENGTH)
  BY <1>1, <1>3, Numbers DEF Padlen
<1> QED BY <1>2, <1>3

\* The two sides of packer.go agree on the padding for every key, every length
\* of the message and every draw: the 16-bit sum does not wrap, so that it is not
\* below the offset and the difference is the padding.
THEOREM PaddingIsFound ==
    ASSUME NEW k \in 0 .. Word16 - 1, NEW n \in Nat, NEW r \in Draws
    PROVE  /\ PackedPadlen(k, n, r) >= Offset(k)
           /\ PackedPadlen(k, n, r) - Offset(k) = Padlen(n, r)
<1>1. Offset(k) \in Nat /\ Offset(k) + MAX_TARGET_LENGTH < Word16
  BY OffsetFits
<1>2. Padlen(n, r) \in 0 .. MAX_TARGET_LENGTH
  BY PadlenFits
<1>3. Offset(k) + Padlen(n, r) \in 0 .. Word16 - 1
  BY <1>1, <1>2, Numbers
<1>4. \A i, w \in Nat : i < w => i % w = i
  OBVIOUS
<1>5. PackedPadlen(k, n, r) = Offset(k) + Padlen(n, r)
  BY <1>3, <1>4, Numbers DEF PackedPadlen
<1> QED BY <1>1, <1>2, <1>5, Numbers

-----------------------------------------------------------------------------
(* xxtea                                                                    *)

Words == 0 .. Word32 - 1
Vectors(n) == [1..n -> Words]

\* What is asked of the mixing function: it makes an integer of any words.
MixIsInteger(k) ==
    \A sum, y, z \in Words, p \in Nat : Mix(sum, y, z, p, k) \in Int

\* Word p of v mixed with its neighbours, and back.
Step(v, p, sum, k) == [v EXCEPT ![p] = (@ + Mixed(v, p, sum, k)) % Word32]
Back(v, p, sum, k) == [v EXCEPT ![p] = (@ - Mixed(v, p, sum, k)) % Word32]

LEMMA WordNumbers ==
    /\ Byte \in Nat /\ Byte >= 2 /\ Word16 \in Nat /\ Word16 >= 4
    /\ Word32 \in Nat /\ Word32 >= 16 /\ Word32 = Word16 * Word16
<1>1. Byte \in Nat /\ Byte >= 2
  BY PackerAssumption
<1>2. \A b, c \in Nat : b >= c => b * b \in Nat /\ b * b >= c * c
  <2> SUFFICES ASSUME NEW b \in Nat, NEW c \in Nat, b >= c PROVE b * b \in Nat /\ b * b >= c * c
    OBVIOUS
  <2>1. b * b >= b * c /\ b * c >= c * c /\ b * b \in Nat /\ b * c \in Nat /\ c * c \in Nat
    OBVIOUS
  <2> QED BY <2>1
<1>3. Word16 \in Nat /\ Word16 >= 4
  BY <1>1, <1>2 DEF Word16
<1>4. Word32 \in Nat /\ Word32 >= 16
  BY <1>3, <1>2 DEF Word32
<1> QED BY <1>1, <1>3, <1>4 DEF Word32

\* Numbers modulo w.
LEMMA Modulo ==
    ASSUME NEW w \in Nat, w > 0, NEW a \in 0 .. w - 1, NEW m \in Int
    PROVE  /\ (a + m) % w \in 0 .. w - 1
           /\ (a - m) % w \in 0 .. w - 1
           /\ (((a + m) % w) - m) % w = a
<1>1. \A x, q \in Int, d \in 0 .. w - 1 : x = q * w + d => x % w = d
  OBVIOUS
<1>2. \A x \in Int : x % w \in 0 .. w - 1 /\ x = ((x \div w) * w) + (x % w) /\ x \div w \in Int
  OBVIOUS
<1> DEFINE r == (a + m) % w
           q == (a + m) \div w
<1>3. r \in 0 .. w - 1 /\ q \in Int /\ a + m = q * w + r
  BY <1>2
<1> HIDE DEF r, q
<1>4. r - m = (-q) * w + a
  BY <1>3
<1>5. (r - m) % w = a
  BY <1>1, <1>3, <1>4
<1> QED BY <1>2, <1>3, <1>5 DEF r

LEMMA StepAndBack ==
    ASSUME NEW n \in Nat, n >= 2, NEW v \in Vectors(n), NEW p \in 1..n,
           NEW sum \in Words, NEW k, MixIsInteger(k)
    PROVE  /\ Step(v, p, sum, k) \in Vectors(n)
           /\ Back(v, p, sum, k) \in Vectors(n)
           /\ Back(Step(v, p, sum, k), p, sum, k) = v
<1> USE DEF Vectors
<1> DEFINE y == IF p = n THEN 1 ELSE p + 1
           z == IF p = 1 THEN n ELSE p - 1
           m == Mix(sum, v[y], v[z], p, k)
           s == Step(v, p, sum, k)
<1>1. y \in 1..n /\ z \in 1..n /\ y # p /\ z # p
  OBVIOUS
<1>2. m \in Int
  <2>1. v[y] \in Words /\ v[z] \in Words /\ p \in Nat
    BY <1>1
  <2> HIDE DEF y, z
  <2> QED BY <2>1 DEF MixIsInteger
<1>3. \A u \in Vectors(n) : Mixed(u, p, sum, k) = Mix(sum, u[y], u[z], p, k)
  <2> SUFFICES ASSUME NEW u \in Vectors(n)
               PROVE  Mixed(u, p, sum, k) = Mix(sum, u[y], u[z], p, k)
    OBVIOUS
  <2>1. Len(u) = n
    BY LenProperties
  <2> QED BY <2>1 DEF Mixed
<1>4. v[p] \in 0 .. Word32 - 1 /\ Word32 \in Nat /\ Word32 > 0
  BY WordNumbers DEF Words
<1>5. /\ (v[p] + m) % Word32 \in Words
      /\ (v[p] - m) % Word32 \in Words
      /\ (((v[p] + m) % Word32) - m) % Word32 = v[p]
  BY <1>2, <1>4, Modulo DEF Words
<1>6. s = [v EXCEPT ![p] = (v[p] + m) % Word32]
  BY <1>3 DEF Step
<1>7. Back(v, p, sum, k) = [v EXCEPT ![p] = (v[p] - m) % Word32]
  BY <1>3 DEF Back
<1>8. s \in Vectors(n) /\ s[p] = (v[p] + m) % Word32 /\ s[y] = v[y] /\ s[z] = v[z]
  BY <1>1, <1>5, <1>6
<1>9. Mixed(s, p, sum, k) = m
  BY <1>3, <1>8
<1>10. Back(s, p, sum, k) = [s EXCEPT ![p] = v[p]]
  BY <1>5, <1>8, <1>9 DEF Back
<1>11. [s EXCEPT ![p] = v[p]] = v
  BY <1>6
<1> QED BY <1>5, <1>7, <1>8, <1>10, <1>11

\* The words in the course of a round, and of its inverse.
LEMMA EncryptRound ==
    ASSUME NEW n \in Nat, n >= 2, NEW v \in Vectors(n),
           NEW sum \in Words, NEW k, MixIsInteger(k)
    PROVE  \E u :
              /\ \A p \in 0..n : u[p] \in Vectors(n)
              /\ u[0] = v /\ encryptRound(v, sum, k) = u[n]
              /\ \A p \in 1..n : u[p] = Step(u[p - 1], p, sum, k)
<1> DEFINE S == Vectors(n)
           F == [x \in (1..n) \X S |-> Step(x[2], x[1], sum, k)]
           Def(u) == [p \in 0..n |-> IF p = 0 THEN v ELSE Step(u[p - 1], p, sum, k)]
<1>1. \A p \in 1..n, s \in S : F[<<p, s>>] = Step(s, p, sum, k) /\ F[<<p, s>>] \in S
  BY StepAndBack
<1>2. PICK u : IsRun(u, S, n, F, v)
  <2>1. v \in S
    OBVIOUS
  <2> HIDE DEF F, S
  <2> QED BY <1>1, <2>1, Iteration
<1>3. /\ u \in [0..n -> S] /\ u[0] = v
      /\ \A p \in 1..n : u[p - 1] \in S /\ u[p] = Step(u[p - 1], p, sum, k)
  <2> HIDE DEF F, S
  <2>1. \A p \in 1..n : p - 1 \in 0..n
    OBVIOUS
  <2> QED BY <1>1, <1>2, <2>1 DEF IsRun
<1> HIDE DEF F
<1>4. u = Def(u)
  BY <1>3
<1>5. ASSUME NEW w, w = Def(w)
      PROVE  w[n] = u[n]
  <2>1. w[0] = u[0] /\ \A p \in 1..n : w[p - 1] = u[p - 1] => w[p] = u[p]
    BY <1>5, <1>3
  <2> QED BY <2>1, EndAlike
<1>6. encryptRound(v, sum, k) = u[n]
  <2> DEFINE c == CHOOSE w : w = Def(w)
  <2>1. c[n] = u[n]
    <3> HIDE DEF Def
    <3> QED BY <1>4, <1>5
  <2>2. Len(v) = n
    BY LenProperties DEF Vectors
  <2>3. encryptRound(v, sum, k) = c[n]
    BY <2>2 DEF encryptRound, Step
  <2> QED BY <2>1, <2>3
<1> QED BY <1>3, <1>6

LEMMA DecryptRound ==
    ASSUME NEW n \in Nat, n >= 2, NEW v \in Vectors(n),
           NEW sum \in Words, NEW k, MixIsInteger(k)
    PROVE  \E u :
              /\ \A p \in 0..n : u[p] \in Vectors(n)
              /\ u[0] = v /\ decryptRound(v, sum, k) = u[n]
              /\ \A p \in 1..n : u[p] = Back(u[p - 1], n - p + 1, sum, k)
<1> DEFINE S == Vectors(n)
           F == [x \in (1..n) \X S |-> Back(x[2], n - x[1] + 1, sum, k)]
           Def(u) == [p \in 0..n |-> IF p = 0 THEN v ELSE Back(u[p - 1], n - p + 1, sum, k)]
<1>1. \A p \in 1..n, s \in S :
         F[<<p, s>>] = Back(s, n - p + 1, sum, k) /\ F[<<p, s>>] \in S
  <2>1. \A p \in 1..n : n - p + 1 \in 1..n
    OBVIOUS
  <2> QED BY <2>1, StepAndBack
<1>2. PICK u : IsRun(u, S, n, F, v)
  <2>1. v \in S
    OBVIOUS
  <2> HIDE DEF F, S
  <2> QED BY <1>1, <2>1, Iteration
<1>3. /\ u \in [0..n -> S] /\ u[0] = v
      /\ \A p \in 1..n : u[p - 1] \in S /\ u[p] = Back(u[p - 1], n - p + 1, sum, k)
  <2> HIDE DEF F, S
  <2>1. \A p \in 1..n : p - 1 \in 0..n
    OBVIOUS
  <2> QED BY <1>1, <1>2, <2>1 DEF IsRun
<1> HIDE DEF F
<1>4. u = Def(u)
  BY <1>3
<1>5. ASSUME NEW w, w = Def(w)
      PROVE  w[n] = u[n]
  <2>1. w[0] = u[0] /\ \A p \in 1..n : w[p - 1] = u[p - 1] => w[p] = u[p]
    BY <1>5, <1>3
  <2> QED BY <2>1, EndAlike
<1>6. decryptRound(v, sum, k) = u[n]
  <2> DEFINE c == CHOOSE w : w = Def(w)
  <2>1. c[n] = u[n]
    <3> HIDE DEF Def
    <3> QED BY <1>4, <1>5
  <2>2. Len(v) = n
    BY LenProperties DEF Vectors
  <2>3. decryptRound(v, sum, k) = c[n]
    BY <2>2 DEF decryptRound, Back
  <2> QED BY <2>1, <2>3
<1> QED BY <1>3, <1>6

\* A round of decrypt undoes the round of encrypt with the same sum.
LEMMA RoundAndBack ==
    ASSUME NEW n \in Nat, n >= 2, NEW v \in Vectors(n),
           NEW sum \in Words, NEW k, MixIsInteger(k)
    PROVE  /\ encryptRound(v, sum, k) \in Vectors(n)
           /\ decryptRound(v, sum, k) \in Vectors(n)
           /\ decryptRound(encryptRound(v, sum, k), sum, k) = v
<1>1. PICK u :
              /\ \A p \in 0..n : u[p] \in Vectors(n)
              /\ u[0] = v /\ encryptRound(v, sum, k) = u[n]
              /\ \A p \in 1..n : u[p] = Step(u[p - 1], p, sum, k)
  BY EncryptRound
<1>2. PICK w :
              /\ \A p \in 0..n : w[p] \in Vectors(n)
              /\ w[0] = u[n] /\ decryptRound(u[n], sum, k) = w[n]
              /\ \A p \in 1..n : w[p] = Back(w[p - 1], n - p + 1, sum, k)
  <2>1. u[n] \in Vectors(n)
    BY <1>1
  <2> QED BY <2>1, DecryptRound
<1>3. ASSUME NEW p \in 1..n, w[p - 1] = u[n - p + 1]
      PROVE  w[p] = u[n - p]
  <2> DEFINE j == n - p + 1
  <2>1. j \in 1..n /\ j - 1 = n - p /\ u[j - 1] \in Vectors(n)
    <3>1. j \in 1..n /\ j - 1 = n - p /\ j - 1 \in 0..n
      OBVIOUS
    <3> QED BY <1>1, <3>1
  <2>2. w[p] = Back(u[j], j, sum, k) /\ u[j] = Step(u[j - 1], j, sum, k)
    BY <1>1, <1>2, <1>3, <2>1
  <2>3. Back(Step(u[j - 1], j, sum, k), j, sum, k) = u[j - 1]
    <3> HIDE DEF j
    <3> QED BY <2>1, StepAndBack
  <2> QED BY <2>1, <2>2, <2>3
<1>4. w[n] = u[0]
  BY <1>2, <1>3, BackTheWay
<1>5. decryptRound(v, sum, k) \in Vectors(n)
  BY DecryptRound
<1> QED BY <1>1, <1>2, <1>4, <1>5

LEMMA RoundNumbers ==
    /\ \A q \in Nat : Sum(q) \in Words
    /\ \A n \in Nat : n >= 2 => Rounds(n) \in Nat
<1>1. \A q, d \in Nat : q * d \in Nat
  OBVIOUS
<1>2. \A m, w \in Nat : w > 0 => m % w \in 0 .. w - 1
  OBVIOUS
<1>3. \A n \in Nat : n >= 2 => 52 \div n \in Nat
  OBVIOUS
<1>4. Delta \in Nat
  BY PackerAssumption
<1>5. ASSUME NEW q \in Nat PROVE Sum(q) \in Words
  <2>1. q * Delta \in Nat
    BY <1>1, <1>4
  <2> QED BY <2>1, <1>2, WordNumbers DEF Sum, Words
<1> QED BY <1>3, <1>5 DEF Rounds

\* The words between the rounds.
LEMMA EncryptRounds ==
    ASSUME NEW n \in Nat, n >= 2, NEW v \in Vectors(n), NEW k, MixIsInteger(k)
    PROVE  \E u :
              /\ \A q \in 0..Rounds(n) : u[q] \in Vectors(n)
              /\ u[0] = v /\ encrypt(v, k) = u[Rounds(n)]
              /\ \A q \in 1..Rounds(n) : u[q] = encryptRound(u[q - 1], Sum(q), k)
<1> DEFINE S == Vectors(n)
           r == Rounds(n)
           F == [x \in (1..r) \X S |-> encryptRound(x[2], Sum(x[1]), k)]
           Def(u) == [q \in 0..r |-> IF q = 0 THEN v ELSE encryptRound(u[q - 1], Sum(q), k)]
<1>0. r \in Nat
  BY RoundNumbers
<1> HIDE DEF r
<1>1. \A q \in 1..r, s \in S :
         F[<<q, s>>] = encryptRound(s, Sum(q), k) /\ F[<<q, s>>] \in S
  BY <1>0, RoundNumbers, RoundAndBack
<1>2. PICK u : IsRun(u, S, r, F, v)
  <2>1. v \in S
    OBVIOUS
  <2> HIDE DEF F, S
  <2> QED BY <1>0, <1>1, <2>1, Iteration
<1>3. /\ u \in [0..r -> S] /\ u[0] = v
      /\ \A q \in 1..r : u[q - 1] \in S /\ u[q] = encryptRound(u[q - 1], Sum(q), k)
  <2> HIDE DEF F, S
  <2>1. \A q \in 1..r : q - 1 \in 0..r
    BY <1>0
  <2> QED BY <1>0, <1>1, <1>2, <2>1 DEF IsRun
<1> HIDE DEF F
<1>4. u = Def(u)
  BY <1>0, <1>3
<1>5. ASSUME NEW w, w = Def(w)
      PROVE  w[r] = u[r]
  <2>1. w[0] = u[0] /\ \A q \in 1..r : w[q - 1] = u[q - 1] => w[q] = u[q]
    BY <1>5, <1>0, <1>3
  <2> QED BY <1>0, <2>1, EndAlike
<1>6. encrypt(v, k) = u[r]
  <2> DEFINE c == CHOOSE w : w = Def(w)
  <2>1. c[r] = u[r]
    <3> HIDE DEF Def
    <3> QED BY <1>4, <1>5
  <2>2. Len(v) = n
    BY LenProperties DEF Vectors
  <2>3. encrypt(v, k) = c[r]
    BY <2>2 DEF encrypt, r
  <2> QED BY <2>1, <2>3
<1> QED BY <1>3, <1>6 DEF r

LEMMA DecryptRounds ==
    ASSUME NEW n \in Nat, n >= 2, NEW v \in Vectors(n), NEW k, MixIsInteger(k)
    PROVE  \E u :
              /\ \A q \in 0..Rounds(n) : u[q] \in Vectors(n)
              /\ u[0] = v /\ decrypt(v, k) = u[Rounds(n)]
              /\ \A q \in 1..Rounds(n) : u[q] = decryptRound(u[q - 1], Sum(Rounds(n) - q + 1), k)
<1> DEFINE S == Vectors(n)
           r == Rounds(n)
           F == [x \in (1..r) \X S |-> decryptRound(x[2], Sum(r - x[1] + 1), k)]
           Def(u) == [q \in 0..r |-> IF q = 0 THEN v ELSE decryptRound(u[q - 1], Sum(r - q + 1), k)]
<1>0. r \in Nat
  BY RoundNumbers
<1> HIDE DEF r
<1>1. \A q \in 1..r, s \in S :
         F[<<q, s>>] = decryptRound(s, Sum(r - q + 1), k) /\ F[<<q, s>>] \in S
  <2>1. \A q \in 1..r : Sum(r - q + 1) \in Words
    <3>1. \A q \in 1..r : r - q + 1 \in Nat
      BY <1>0
    <3> QED BY <3>1, RoundNumbers
  <2> QED BY <2>1, RoundAndBack
<1>2. PICK u : IsRun(u, S, r, F, v)
  <2>1. v \in S
    OBVIOUS
  <2> HIDE DEF F, S
  <2> QED BY <1>0, <1>1, <2>1, Iteration
<1>3. /\ u \in [0..r -> S] /\ u[0] = v
      /\ \A q \in 1..r : u[q - 1] \in S /\ u[q] = decryptRound(u[q - 1], Sum(r - q + 1), k)
  <2> HIDE DEF F, S
  <2>1. \A q \in 1..r : q - 1 \in 0..r
    BY <1>0
  <2> QED BY <1>0, <1>1, <1>2, <2>1 DEF IsRun
<1> HIDE DEF F
<1>4. u = Def(u)
  BY <1>0, <1>3
<1>5. ASSUME NEW w, w = Def(w)
      PROVE  w[r] = u[r]
  <2>1. w[0] = u[0] /\ \A q \in 1..r : w[q - 1] = u[q - 1] => w[q] = u[q]
    BY <1>5, <1>0, <1>3
  <2> QED BY <1>0, <2>1, EndAlike
<1>6. decrypt(v, k) = u[r]
  <2> DEFINE c == CHOOSE w : w = Def(w)
  <2>1. c[r] = u[r]
    <3> HIDE DEF Def
    <3> QED BY <1>4, <1>5
  <2>2. Len(v) = n
    BY LenProperties DEF Vectors
  <2>3. decrypt(v, k) = c[r]
    BY <2>2 DEF decrypt, r
  <2> QED BY <2>1, <2>3
<1> QED BY <1>3, <1>6 DEF r

\* decrypt goes back the rounds of encrypt, whatever the words, the key and the
\* mixing function: the words of a round change one at a time, each by what its
\* neighbours say, which are the same on the way back.
THEOREM DecryptInvertsEncrypt ==
    ASSUME NEW n \in Nat, n >= 2, NEW v \in Vectors(n), NEW k, MixIsInteger(k)
    PROVE  /\ encrypt(v, k) \in Vectors(n)
           /\ decrypt(encrypt(v, k), k) = v
<1> DEFINE r == Rounds(n)
<1>0. r \in Nat
  BY RoundNumbers
<1>1. PICK u :
              /\ \A q \in 0..r : u[q] \in Vectors(n)
              /\ u[0] = v /\ encrypt(v, k) = u[r]
              /\ \A q \in 1..r : u[q] = encryptRound(u[q - 1], Sum(q), k)
  BY EncryptRounds
<1>2. u[r] \in Vectors(n)
  BY <1>0, <1>1
<1>3. PICK w :
              /\ \A q \in 0..r : w[q] \in Vectors(n)
              /\ w[0] = u[r] /\ decrypt(u[r], k) = w[r]
              /\ \A q \in 1..r : w[q] = decryptRound(w[q - 1], Sum(r - q + 1), k)
  BY <1>2, DecryptRounds
<1> HIDE DEF r
<1>4. ASSUME NEW q \in 1..r, w[q - 1] = u[r - q + 1]
      PROVE  w[q] = u[r - q]
  <2> DEFINE j == r - q + 1
  <2>1. j \in 1..r /\ j - 1 = r - q /\ u[j - 1] \in Vectors(n)
    <3>1. j \in 1..r /\ j - 1 = r - q /\ j - 1 \in 0..r
      BY <1>0
    <3> QED BY <1>1, <3>1
  <2>2. w[q] = decryptRound(u[j], Sum(j), k) /\ u[j] = encryptRound(u[j - 1], Sum(j), k)
    BY <1>1, <1>3, <1>4, <2>1
  <2>3. Sum(j) \in Words
    BY <2>1, RoundNumbers
  <2>4. decryptRound(encryptRound(u[j - 1], Sum(j), k), Sum(j), k) = u[j - 1]
    <3> HIDE DEF j
    <3> QED BY <2>1, <2>3, RoundAndBack
  <2> QED BY <2>1, <2>2, <2>4
<1>5. w[r] = u[0]
  BY <1>0, <1>3, <1>4, BackTheWay
<1> QED BY <1>1, <1>2, <1>3, <1>5

-----------------------------------------------------------------------------
(* Words and bytes                                                          *)

\* Quotient and remainder of a number written with base b, and back.
LEMMA DivMod ==
    ASSUME NEW b \in Nat, b > 0, NEW q \in Nat, NEW d \in 0 .. b - 1
    PROVE  /\ q * b + d \in Nat
           /\ (q * b + d) \div b = q
           /\ (q * b + d) % b = d
<1>1. q * b \in Nat
  OBVIOUS
<1> QED BY <1>1

LEMMA Quotient ==
    \A b, c, x \in Nat :
        b > 0 /\ x < c * b => \E q \in 0 .. c - 1, d \in 0 .. b - 1 : x = q * b + d
<1> SUFFICES ASSUME NEW b \in Nat, b > 0, NEW c \in Nat, NEW x \in Nat, x < c * b
             PROVE  \E q \in 0 .. c - 1, d \in 0 .. b - 1 : x = q * b + d
  OBVIOUS
<1> DEFINE q == x \div b
           d == x % b
<1>1. q \in Nat /\ d \in 0 .. b - 1 /\ x = q * b + d
  OBVIOUS
<1> HIDE DEF q, d
<1>2. q < c
  <2> SUFFICES ASSUME q >= c PROVE FALSE
    BY <1>1
  <2>1. q * b >= c * b /\ q * b \in Nat /\ c * b \in Nat
    BY <1>1
  <2> QED BY <1>1, <2>1
<1> QED BY <1>1, <1>2

\* A word and its four bytes.
LEMMA BytesOfWord ==
    ASSUME NEW b0 \in Bytes, NEW b1 \in Bytes, NEW b2 \in Bytes, NEW b3 \in Bytes
    PROVE  /\ Word(b0, b1, b2, b3) \in Words
           /\ ByteOf(Word(b0, b1, b2, b3), 0) = b0
           /\ ByteOf(Word(b0, b1, b2, b3), 1) = b1
           /\ ByteOf(Word(b0, b1, b2, b3), 2) = b2
           /\ ByteOf(Word(b0, b1, b2, b3), 3) = b3
<1> DEFINE B == Byte
           w3 == b3
           w2 == w3 * B + b2
           w1 == w2 * B + b1
           w0 == w1 * B + b0
<1>0. /\ B \in Nat /\ B >= 2
      /\ b0 \in 0 .. B - 1 /\ b1 \in 0 .. B - 1 /\ b2 \in 0 .. B - 1 /\ b3 \in 0 .. B - 1
  BY PackerAssumption DEF Bytes
<1> HIDE DEF B
<1>1. w2 \in Nat /\ w2 \div B = w3 /\ w2 % B = b2
  BY <1>0, DivMod
<1>2. w1 \in Nat /\ w1 \div B = w2 /\ w1 % B = b1
  <2> HIDE DEF w2
  <2> QED BY <1>0, <1>1, DivMod
<1>3. w0 \in Nat /\ w0 \div B = w1 /\ w0 % B = b0
  <2> HIDE DEF w1
  <2> QED BY <1>0, <1>2, DivMod
<1>4. \A x, m, q, c \in Nat, d \in 0 .. B - 1 :
          m > 0 /\ x = q * B + d /\ q \div m = c => x \div (m * B) = c
  <2> SUFFICES ASSUME NEW x \in Nat, NEW m \in Nat, NEW q \in Nat, NEW c \in Nat,
                      NEW d \in 0 .. B - 1, m > 0, x = q * B + d, q \div m = c
               PROVE  x \div (m * B) = c
    OBVIOUS
  <2> DEFINE r == q % m
  <2>1. r \in 0 .. m - 1 /\ q = c * m + r
    OBVIOUS
  <2>2. c * (m * B) = (c * m) * B /\ m * B \in Nat /\ m * B > 0
    BY <1>0
  <2> HIDE DEF r
  <2>3. r * B + d \in Nat /\ r * B + d < m * B
    <3>1. r + 1 <= m
      BY <2>1
    <3>2. (r + 1) * B <= m * B
      BY <3>1, <2>1, <1>0
    <3>3. (r + 1) * B = r * B + B /\ r * B \in Nat
      BY <2>1, <1>0
    <3> QED BY <3>2, <3>3, <2>2, <1>0
  <2>4. q * B = (c * m) * B + r * B
    BY <2>1, <1>0
  <2>5. x = c * (m * B) + (r * B + d)
    <3>1. (c * m) * B \in Nat /\ r * B \in Nat
      BY <2>1, <1>0
    <3> QED BY <2>2, <2>4, <3>1, <1>0
  <2>6. (c * (m * B) + (r * B + d)) \div (m * B) = c
    <3> DEFINE b == m * B
               e == r * B + d
    <3>1. b \in Nat /\ b > 0 /\ e \in 0 .. b - 1
      BY <2>2, <2>3
    <3> HIDE DEF b, e
    <3>2. (c * b + e) \div b = c
      BY <3>1, DivMod
    <3> QED BY <3>2 DEF b, e
  <2> QED BY <2>5, <2>6
<1>5. w0 \div (B * B) = w2
  <2> HIDE DEF w1, w2
  <2> QED BY <1>0, <1>1, <1>2, <1>4 DEF w1
<1>6. w0 \div ((B * B) * B) = w3
  <2>1. w1 \div (B * B) = w3
    <3> HIDE DEF w2
    <3> QED BY <1>0, <1>1, <1>2, <1>4 DEF w2
  <2>2. B * B \in Nat /\ B * B > 0
    BY <1>0
  <2> HIDE DEF w1, w2
  <2> QED BY <1>0, <1>2, <1>3, <1>4, <2>1, <2>2
<1>7. \A q, c \in Nat, d \in 0 .. B - 1 : q < c => q * B + d < c * B
  <2> SUFFICES ASSUME NEW q \in Nat, NEW c \in Nat, NEW d \in 0 .. B - 1, q < c
               PROVE  q * B + d < c * B
    OBVIOUS
  <2>1. (q + 1) * B <= c * B
    BY <1>0
  <2>2. (q + 1) * B = q * B + B /\ q * B \in Nat /\ c * B \in Nat
    BY <1>0
  <2> QED BY <2>1, <2>2, <1>0
<1>8. w0 < (B * B) * (B * B)
  <2>1. w2 < B * B
    BY <1>0, <1>7
  <2>2. w1 < (B * B) * B
    <3>1. B * B \in Nat
      BY <1>0
    <3> HIDE DEF w2
    <3> QED BY <1>0, <1>1, <1>7, <2>1, <3>1
  <2>3. w0 < ((B * B) * B) * B
    <3>1. (B * B) * B \in Nat
      BY <1>0
    <3> HIDE DEF w1
    <3> QED BY <1>0, <1>2, <1>7, <2>2, <3>1
  <2>4. ((B * B) * B) * B = (B * B) * (B * B)
    BY <1>0
  <2> QED BY <2>3, <2>4
<1>9. w0 = Word(b0, b1, b2, b3)
  BY DEF Word, B
<1>10. Word16 = B * B /\ Word32 = (B * B) * (B * B)
  BY DEF Word16, Word32, B
<1> HIDE DEF w0, w1, w2, w3
<1>11. ByteOf(w0, 0) = b0
  <2>1. ByteOf(w0, 0) = (w0 \div 1) % B
    BY DEF ByteOf, B
  <2> QED BY <2>1, <1>0, <1>3
<1>12. ByteOf(w0, 1) = b1
  <2>1. ByteOf(w0, 1) = (w0 \div B) % B
    BY DEF ByteOf, B
  <2> QED BY <2>1, <1>2, <1>3
<1>13. ByteOf(w0, 2) = b2
  <2>1. ByteOf(w0, 2) = (w0 \div (B * B)) % B
    BY <1>10 DEF ByteOf, B
  <2> QED BY <2>1, <1>1, <1>5
<1>14. ByteOf(w0, 3) = b3
  <2>1. ByteOf(w0, 3) = (w0 \div ((B * B) * B)) % B
    BY <1>10 DEF ByteOf, B
  <2>2. b3 % B = b3
    BY <1>0
  <2> QED BY <2>1, <2>2, <1>6 DEF w3
<1>15. w0 \in Words
  BY <1>3, <1>8, <1>10 DEF Words
<1> QED BY <1>9, <1>11, <1>12, <1>13, <1>14, <1>15

LEMMA WordOfBytes ==
    ASSUME NEW x \in Words
    PROVE  /\ \A j \in 0..3 : ByteOf(x, j) \in Bytes
           /\ Word(ByteOf(x, 0), ByteOf(x, 1), ByteOf(x, 2), ByteOf(x, 3)) = x
<1> DEFINE B == Byte
<1>0. B \in Nat /\ B >= 2 /\ Bytes = 0 .. B - 1
  BY PackerAssumption DEF Bytes
<1>1. Word32 = (B * B) * (B * B)
  BY DEF Word16, Word32
<1> HIDE DEF B
<1>2. (B * B) * (B * B) = ((B * B) * B) * B /\ B * B \in Nat /\ (B * B) * B \in Nat
  BY <1>0
<1>3. x \in Nat /\ x < ((B * B) * B) * B
  BY <1>1, <1>2 DEF Words
<1> DEFINE B2 == B * B
           B3 == B2 * B
<1>4. PICK q1 \in 0 .. B3 - 1, b0 \in 0 .. B - 1 : x = q1 * B + b0
  <2> HIDE DEF B3
  <2>1. x < B3 * B /\ B3 \in Nat /\ B > 0
    BY <1>0, <1>2, <1>3 DEF B3
  <2> QED BY <1>0, <1>3, <2>1, Quotient
<1>5. PICK q2 \in 0 .. B2 - 1, b1 \in 0 .. B - 1 : q1 = q2 * B + b1
  <2> HIDE DEF B2
  <2>1. q1 \in Nat /\ q1 < B2 * B /\ B2 \in Nat /\ B > 0
    BY <1>0, <1>2, <1>4 DEF B2
  <2> QED BY <1>0, <2>1, Quotient
<1>6. PICK b3 \in 0 .. B - 1, b2 \in 0 .. B - 1 : q2 = b3 * B + b2
  <2>1. q2 \in Nat /\ q2 < B * B /\ B > 0
    BY <1>0, <1>2, <1>5
  <2> QED BY <1>0, <2>1, Quotient
<1>7. x = Word(b0, b1, b2, b3)
  BY <1>4, <1>5, <1>6 DEF Word, B
<1>8. /\ ByteOf(x, 0) = b0 /\ ByteOf(x, 1) = b1 /\ ByteOf(x, 2) = b2 /\ ByteOf(x, 3) = b3
  BY <1>0, <1>7, BytesOfWord
<1>9. \A j \in 0..3 : j = 0 \/ j = 1 \/ j = 2 \/ j = 3
  OBVIOUS
<1> QED BY <1>0, <1>7, <1>8, <1>9

\* Where byte j of word w is.
LEMMA Places ==
    /\ \A w \in Nat, j \in 0..3 :
          w >= 1 => (4 * w - 3 + j + 3) \div 4 = w /\ (4 * w - 3 + j - 1) % 4 = j
    /\ \A i \in Nat : i >= 1 =>
          \E w \in Nat, j \in 0..3 :
             w >= 1 /\ i = 4 * w - 3 + j /\ (i + 3) \div 4 = w /\ (i - 1) % 4 = j
    /\ \A n \in Nat : (4 * n + 3) \div 4 = n
<1>1. ASSUME NEW w \in Nat, NEW j \in 0..3, w >= 1
      PROVE  (4 * w - 3 + j + 3) \div 4 = w /\ (4 * w - 3 + j - 1) % 4 = j
  BY <1>1
<1>2. ASSUME NEW i \in Nat, i >= 1
      PROVE  \E w \in Nat, j \in 0..3 :
                w >= 1 /\ i = 4 * w - 3 + j /\ (i + 3) \div 4 = w /\ (i - 1) % 4 = j
  <2> DEFINE w == (i + 3) \div 4
             j == (i - 1) % 4
  <2>1. w \in Nat /\ j \in 0..3 /\ w >= 1 /\ i = 4 * w - 3 + j
    BY <1>2
  <2> QED BY <2>1
<1> QED BY <1>1, <1>2

LEMMA WordsToBytes ==
    ASSUME NEW n \in Nat, NEW v \in [1..n -> Words]
    PROVE  /\ toBytes(v, FALSE) \in [1..(4 * n) -> Bytes]
           /\ \A w \in 1..n, j \in 0..3 : toBytes(v, FALSE)[4 * w - 3 + j] = ByteOf(v[w], j)
<1>1. Len(v) = n
  BY LenProperties
<1>2. toBytes(v, FALSE) = [i \in 1..(4 * n) |-> ByteOf(v[(i + 3) \div 4], (i - 1) % 4)]
  BY <1>1 DEF toBytes
<1>3. ASSUME NEW i \in 1..(4 * n)
      PROVE  ByteOf(v[(i + 3) \div 4], (i - 1) % 4) \in Bytes
  <2>1. (i + 3) \div 4 \in 1..n /\ (i - 1) % 4 \in 0..3
    OBVIOUS
  <2> QED BY <2>1, WordOfBytes
<1>4. ASSUME NEW w \in 1..n, NEW j \in 0..3
      PROVE  toBytes(v, FALSE)[4 * w - 3 + j] = ByteOf(v[w], j)
  <2>1. 4 * w - 3 + j \in 1..(4 * n)
    OBVIOUS
  <2> DEFINE i == 4 * w - 3 + j
  <2>2. (i + 3) \div 4 = w /\ (i - 1) % 4 = j
    BY Places
  <2> HIDE DEF i
  <2> QED BY <1>2, <2>1, <2>2 DEF i
<1> QED BY <1>2, <1>3, <1>4

\* The words of the bytes of words are the words.
LEMMA WordsAgain ==
    ASSUME NEW n \in Nat, NEW v \in [1..n -> Words]
    PROVE  toUint32s(toBytes(v, FALSE), FALSE) = v
<1> DEFINE b == toBytes(v, FALSE)
           byte(i) == IF i \in DOMAIN b THEN b[i] ELSE 0
<1>1. b \in [1..(4 * n) -> Bytes] /\ \A w \in 1..n, j \in 0..3 : b[4 * w - 3 + j] = ByteOf(v[w], j)
  BY WordsToBytes
<1>2. Len(b) = 4 * n /\ (Len(b) + 3) \div 4 = n
  <2>1. 4 * n \in Nat
    OBVIOUS
  <2>2. Len(b) = 4 * n
    <3> HIDE DEF b
    <3> QED BY <1>1, <2>1, LenProperties
  <2> QED BY <2>2, Places
<1>3. toUint32s(b, FALSE) =
         [w \in 1..n |-> Word(byte(4 * w - 3), byte(4 * w - 2), byte(4 * w - 1), byte(4 * w))]
  <2> HIDE DEF b
  <2> QED BY <1>2 DEF toUint32s
<1>4. ASSUME NEW w \in 1..n
      PROVE  Word(byte(4 * w - 3), byte(4 * w - 2), byte(4 * w - 1), byte(4 * w)) = v[w]
  <2>1. /\ 4 * w - 3 \in DOMAIN b /\ 4 * w - 2 \in DOMAIN b
        /\ 4 * w - 1 \in DOMAIN b /\ 4 * w \in DOMAIN b
    <3> HIDE DEF b
    <3> QED BY <1>1
  <2>2. /\ 4 * w - 3 + 0 = 4 * w - 3 /\ 4 * w - 3 + 1 = 4 * w - 2
        /\ 4 * w - 3 + 2 = 4 * w - 1 /\ 4 * w - 3 + 3 = 4 * w
    OBVIOUS
  <2> HIDE DEF b
  <2>3. /\ b[4 * w - 3] = ByteOf(v[w], 0) /\ b[4 * w - 2] = ByteOf(v[w], 1)
        /\ b[4 * w - 1] = ByteOf(v[w], 2) /\ b[4 * w] = ByteOf(v[w], 3)
    <3>1. 0 \in 0..3 /\ 1 \in 0..3 /\ 2 \in 0..3 /\ 3 \in 0..3
      OBVIOUS
    <3> QED BY <1>1, <2>2, <3>1
  <2>4. v[w] \in Words
    OBVIOUS
  <2> QED BY <2>1, <2>3, <2>4, WordOfBytes
<1> HIDE DEF b
<1>5. [w \in 1..n |-> Word(byte(4 * w - 3), byte(4 * w - 2), byte(4 * w - 1), byte(4 * w))] = v
  BY <1>4
<1> QED BY <1>3, <1>5 DEF b

\* The bytes as words with their number behind, which is a word itself, and back.
LEMMA BytesAgain ==
    ASSUME NEW b \in Seq(Bytes), Len(b) < Word32
    PROVE  /\ toUint32s(b, TRUE) \in [1..((Len(b) + 3) \div 4 + 1) -> Words]
           /\ toBytes(toUint32s(b, TRUE), TRUE) = b
<1> DEFINE byte(i) == IF i \in DOMAIN b THEN b[i] ELSE 0
           n == (Len(b) + 3) \div 4
           words == [w \in 1..n |->
                       Word(byte(4 * w - 3), byte(4 * w - 2), byte(4 * w - 1), byte(4 * w))]
           v == Append(words, Len(b))
           all == toBytes(v, FALSE)
<1>0. Len(b) \in Nat /\ n \in Nat /\ Len(b) <= 4 * n /\ Len(b) >= 4 * n - 3
  OBVIOUS
<1>1. \A i \in Int : byte(i) \in Bytes
  <2>1. 0 \in Bytes
    BY WordNumbers DEF Bytes
  <2>2. \A i \in DOMAIN b : b[i] \in Bytes
    OBVIOUS
  <2> QED BY <2>1, <2>2
<1>2. toUint32s(b, TRUE) = v
  BY DEF toUint32s
<1> HIDE DEF byte
<1>3. words \in [1..n -> Words]
  BY <1>1, BytesOfWord
<1>4. Len(b) \in Words
  BY <1>0, WordNumbers DEF Words
<1>5. /\ v \in [1..(n + 1) -> Words] /\ Len(v) = n + 1 /\ v[n + 1] = Len(b)
      /\ \A w \in 1..n : v[w] = words[w]
  <2> HIDE DEF words, n
  <2>1. words \in Seq(Words) /\ Len(words) = n
    BY <1>0, <1>3, LenProperties
  <2> DEFINE m == Len(b)
  <2> HIDE DEF m
  <2>2. /\ Append(words, m) \in Seq(Words) /\ Len(Append(words, m)) = n + 1
        /\ \A w \in 1..n : Append(words, m)[w] = words[w]
        /\ Append(words, m)[n + 1] = m
    <3>1. m \in Words
      BY <1>4 DEF m
    <3> QED BY <2>1, <3>1, AppendProperties
  <2>3. Append(words, m) \in [1..(n + 1) -> Words]
    BY <2>2, LenProperties
  <2> QED BY <2>2, <2>3 DEF m
<1>6. Last(v) = Len(b)
  BY <1>5 DEF Last
<1> HIDE DEF words
<1>7. /\ all \in [1..(4 * (n + 1)) -> Bytes]
      /\ \A w \in 1..(n + 1), j \in 0..3 : all[4 * w - 3 + j] = ByteOf(v[w], j)
  <2>1. n + 1 \in Nat
    BY <1>0
  <2> HIDE DEF v, n
  <2> QED BY <1>5, <2>1, WordsToBytes
<1>8. toBytes(v, TRUE) = SubSeq(all, 1, Len(b))
  <2>1. ~ (Len(b) < 4 * Len(v) - 7 \/ Len(b) > 4 * Len(v) - 4)
    BY <1>0, <1>5
  <2> HIDE DEF v, n
  <2> QED BY <1>6, <2>1 DEF toBytes
<1>9. ASSUME NEW i \in 1..Len(b)
      PROVE  all[i] = b[i]
  <2>1. PICK w \in Nat, j \in 0..3 : w >= 1 /\ i = 4 * w - 3 + j
    <3>1. i \in Nat /\ i >= 1
      BY <1>0
    <3> QED BY <3>1, Places, ZenonT(60)
  <2>2. w \in 1..n
    BY <2>1, <1>0
  <2>3. all[i] = ByteOf(words[w], j)
    <3> HIDE DEF all, v, n
    <3>1. w \in 1..(n + 1)
      BY <1>0, <2>2
    <3> QED BY <1>5, <1>7, <2>1, <2>2, <3>1
  <2>4. words[w] = Word(byte(4 * w - 3), byte(4 * w - 2), byte(4 * w - 1), byte(4 * w))
    BY <2>2 DEF words
  <2>5. byte(i) = b[i]
    BY DEF byte
  <2>6. /\ ByteOf(words[w], 0) = byte(4 * w - 3) /\ ByteOf(words[w], 1) = byte(4 * w - 2)
        /\ ByteOf(words[w], 2) = byte(4 * w - 1) /\ ByteOf(words[w], 3) = byte(4 * w)
    BY <1>1, <2>4, BytesOfWord
  <2>7. \/ j = 0 /\ i = 4 * w - 3
        \/ j = 1 /\ i = 4 * w - 2
        \/ j = 2 /\ i = 4 * w - 1
        \/ j = 3 /\ i = 4 * w
    BY <2>1
  <2> HIDE DEF all, v
  <2> QED BY <2>3, <2>5, <2>6, <2>7
<1>10. SubSeq(all, 1, Len(b)) = b
  <2>1. all \in Seq(Bytes) /\ Len(all) = 4 * (n + 1) /\ Len(b) <= Len(all)
    <3>1. 4 * (n + 1) \in Nat
      BY <1>0
    <3> HIDE DEF all, n
    <3>2. all \in Seq(Bytes) /\ Len(all) = 4 * (n + 1)
      BY <1>7, <3>1, LenProperties
    <3> QED BY <1>0, <3>2
  <2> HIDE DEF all, v, n
  <2>2. /\ SubSeq(all, 1, Len(b)) \in Seq(Bytes)
        /\ Len(SubSeq(all, 1, Len(b))) = Len(b)
        /\ \A i \in 1..Len(b) : SubSeq(all, 1, Len(b))[i] = all[i]
    BY <1>0, <2>1
  <2> QED BY <1>0, <1>9, <2>2, SeqEqual
<1> QED BY <1>2, <1>5, <1>8, <1>10

-----------------------------------------------------------------------------
(* Parts of sequences                                                       *)

\* The parts of a concatenation.
LEMMA Parts ==
    ASSUME NEW S, NEW s \in Seq(S), NEW t \in Seq(S)
    PROVE  /\ SubSeq(s \o t, 1, Len(s)) = s
           /\ SubSeq(s \o t, Len(s) + 1, Len(s) + Len(t)) = t
<1> DEFINE a == SubSeq(s \o t, 1, Len(s))
           b == SubSeq(s \o t, Len(s) + 1, Len(s) + Len(t))
<1>1. /\ Len(s) \in Nat /\ Len(t) \in Nat
      /\ s \o t \in Seq(S) /\ Len(s \o t) = Len(s) + Len(t)
      /\ \A i \in 1..Len(s) : (s \o t)[i] = s[i]
      /\ \A i \in 1..Len(t) : (s \o t)[Len(s) + i] = t[i]
  OBVIOUS
<1>2. a \in Seq(S) /\ Len(a) = Len(s) /\ \A i \in 1..Len(s) : a[i] = s[i]
  BY <1>1
<1>3. b \in Seq(S) /\ Len(b) = Len(t) /\ \A i \in 1..Len(t) : b[i] = t[i]
  BY <1>1
<1> HIDE DEF a, b
<1>4. a = s /\ b = t
  BY <1>2, <1>3, SeqEqual
<1> QED BY <1>1, <1>4 DEF a, b

\* A part from the middle.
LEMMA Middle ==
    ASSUME NEW S, NEW s \in Seq(S), NEW m \in Nat, NEW n \in Nat, m + n <= Len(s)
    PROVE  /\ SubSeq(s, m + 1, m + n) \in Seq(S) /\ Len(SubSeq(s, m + 1, m + n)) = n
           /\ \A i \in 1..n : SubSeq(s, m + 1, m + n)[i] = s[m + i]
  OBVIOUS

\* A sequence cut in two.
LEMMA CutInTwo ==
    ASSUME NEW S, NEW s \in Seq(S), NEW n \in 0 .. Len(s)
    PROVE  /\ SubSeq(s, 1, n) \in Seq(S) /\ Len(SubSeq(s, 1, n)) = n
           /\ SubSeq(s, n + 1, Len(s)) \in Seq(S) /\ Len(SubSeq(s, n + 1, Len(s))) = Len(s) - n
           /\ SubSeq(s, 1, n) \o SubSeq(s, n + 1, Len(s)) = s
           /\ \A i \in 1..n : SubSeq(s, 1, n)[i] = s[i]
<1> DEFINE a == SubSeq(s, 1, n)
           b == SubSeq(s, n + 1, Len(s))
<1>1. /\ Len(s) \in Nat /\ n \in Nat /\ n <= Len(s)
      /\ a \in Seq(S) /\ Len(a) = n /\ \A i \in 1..n : a[i] = s[i]
      /\ b \in Seq(S) /\ Len(b) = Len(s) - n /\ \A i \in 1..(Len(s) - n) : b[i] = s[n + i]
  OBVIOUS
<1> HIDE DEF a, b
<1>2. a \o b \in Seq(S) /\ Len(a \o b) = Len(s)
  BY <1>1
<1>3. ASSUME NEW i \in 1..Len(s)
      PROVE  (a \o b)[i] = s[i]
  <2>1. CASE i <= n
    BY <1>1, <2>1
  <2>2. CASE i > n
    <3>1. i - n \in 1..(Len(s) - n) /\ n + (i - n) = i
      BY <1>1, <2>2
    <3>2. (a \o b)[i] = b[i - n]
      BY <1>1, <2>2
    <3> QED BY <1>1, <3>1, <3>2
  <2> QED BY <1>1, <2>1, <2>2
<1>4. a \o b = s
  BY <1>2, <1>3, SeqEqual
<1> QED BY <1>1, <1>4 DEF a, b

-----------------------------------------------------------------------------
(* Messages                                                                 *)

\* The big-endian numbers.
LEMMA BigEndian ==
    /\ \A n \in 0 .. Word16 - 1 :
          /\ PutUint16(n) \in Seq(Bytes) /\ Len(PutUint16(n)) = 2
          /\ \A b : b[1] = PutUint16(n)[1] /\ b[2] = PutUint16(n)[2] => Uint16(b) = n
    /\ \A n \in Words :
          /\ PutUint32(n) \in Seq(Bytes) /\ Len(PutUint32(n)) = 4
          /\ \A b : (\A i \in 1..4 : b[i] = PutUint32(n)[i]) => Uint32(b) = n
<1>1. ASSUME NEW n \in Words
      PROVE  /\ PutUint32(n) \in Seq(Bytes) /\ Len(PutUint32(n)) = 4
             /\ \A b : (\A i \in 1..4 : b[i] = PutUint32(n)[i]) => Uint32(b) = n
  <2> DEFINE b0 == ByteOf(n, 0)
             b1 == ByteOf(n, 1)
             b2 == ByteOf(n, 2)
             b3 == ByteOf(n, 3)
  <2>1. /\ b0 \in Bytes /\ b1 \in Bytes /\ b2 \in Bytes /\ b3 \in Bytes
        /\ Word(b0, b1, b2, b3) = n
    <3>1. 0 \in 0..3 /\ 1 \in 0..3 /\ 2 \in 0..3 /\ 3 \in 0..3
      OBVIOUS
    <3> QED BY <3>1, WordOfBytes
  <2>2. PutUint32(n) = <<b3, b2, b1, b0>>
    BY DEF PutUint32
  <2> HIDE DEF b0, b1, b2, b3
  <2>3. ASSUME NEW b, \A i \in 1..4 : b[i] = PutUint32(n)[i]
        PROVE  Uint32(b) = n
    <3>1. b[1] = b3 /\ b[2] = b2 /\ b[3] = b1 /\ b[4] = b0
      BY <2>2, <2>3
    <3> QED BY <2>1, <3>1 DEF Uint32
  <2> QED BY <2>1, <2>2, <2>3
<1>2. ASSUME NEW n \in 0 .. Word16 - 1
      PROVE  /\ PutUint16(n) \in Seq(Bytes) /\ Len(PutUint16(n)) = 2
             /\ \A b : b[1] = PutUint16(n)[1] /\ b[2] = PutUint16(n)[2] => Uint16(b) = n
  <2>1. PICK b1 \in 0 .. Byte - 1, b0 \in 0 .. Byte - 1 : n = b1 * Byte + b0
    <3>1. n \in Nat /\ n < Byte * Byte /\ Byte > 0 /\ Byte \in Nat
      BY WordNumbers DEF Word16
    <3> QED BY <3>1, Quotient
  <2>2. b0 \in Bytes /\ b1 \in Bytes /\ 0 \in Bytes
    BY WordNumbers DEF Bytes
  <2>3. n = Word(b0, b1, 0, 0)
    BY <2>1, WordNumbers DEF Word
  <2>4. ByteOf(n, 0) = b0 /\ ByteOf(n, 1) = b1
    BY <2>2, <2>3, BytesOfWord
  <2>5. PutUint16(n) = <<b1, b0>>
    BY <2>4 DEF PutUint16
  <2>6. ASSUME NEW b, b[1] = PutUint16(n)[1], b[2] = PutUint16(n)[2]
        PROVE  Uint16(b) = n
    BY <2>3, <2>5, <2>6 DEF Uint16
  <2> QED BY <2>2, <2>5, <2>6
<1> QED BY <1>1, <1>2

\* A field as it was written is read whole, and what is behind it remains.
LEMMA ReadWritten ==
    ASSUME NEW number \in Seq(Bytes), NEW value \in Seq(Bytes), NEW tail \in Seq(Bytes),
           NEW reader, reader.err = FALSE, reader.rest = (number \o value) \o tail
    PROVE  ReadField(reader, Len(number), Len(value)) =
               [rest |-> tail, value |-> value, err |-> FALSE]
<1> DEFINE k == Len(number)
           n == Len(value)
           head == number \o value
           all == head \o tail
<1>1. k \in Nat /\ n \in Nat /\ head \in Seq(Bytes) /\ Len(head) = k + n
  OBVIOUS
<1>2. /\ Len(tail) \in Nat /\ all \in Seq(Bytes) /\ Len(all) = k + n + Len(tail)
      /\ SubSeq(all, 1, k + n) = head /\ SubSeq(all, k + n + 1, Len(all)) = tail
  <2> HIDE DEF head, k, n
  <2>1. /\ SubSeq(all, 1, Len(head)) = head
        /\ SubSeq(all, Len(head) + 1, Len(head) + Len(tail)) = tail
    BY <1>1, Parts
  <2>2. head \in Seq(Bytes)
    BY <1>1
  <2>3. /\ Len(tail) \in Nat
        /\ all \in Seq(Bytes) /\ Len(all) = Len(head) + Len(tail)
    BY <2>2
  <2> HIDE DEF all
  <2> QED BY <1>1, <2>1, <2>3
<1>3. SubSeq(all, k + 1, k + n) = value
  <2> DEFINE v == SubSeq(all, k + 1, k + n)
  <2>1. v \in Seq(Bytes) /\ Len(v) = n /\ \A i \in 1..n : v[i] = all[k + i]
    <3>1. k \in Nat /\ n \in Nat /\ all \in Seq(Bytes) /\ k + n <= Len(all)
      BY <1>1, <1>2
    <3> HIDE DEF all, k, n
    <3> QED BY <3>1, Middle
  <2>2. \A i \in 1..n : all[k + i] = value[i]
    OBVIOUS
  <2> HIDE DEF v
  <2>3. \A i \in 1..n : v[i] = value[i]
    <3> HIDE DEF all
    <3> QED BY <2>1, <2>2
  <2>4. Len(v) = Len(value) /\ v \in Seq(Bytes) /\ \A i \in 1..Len(v) : v[i] = value[i]
    BY <2>1, <2>3
  <2>5. v = value
    BY <2>4, SeqEqual
  <2> QED BY <2>5 DEF v
<1>4. reader.rest = all /\ ~ (reader.err \/ Len(all) < k \/ Len(all) - k < n)
  BY <1>1, <1>2
<1> HIDE DEF all, k, n
<1>5. ReadField(reader, k, n) = [rest |-> tail, value |-> value, err |-> FALSE]
  BY <1>2, <1>3, <1>4 DEF ReadField
<1> QED BY <1>5 DEF k, n

\* What is left to read of s was cut, or the cut was noticed already.
CutOf(reader, s) == reader.err \/ \E m \in 0 .. Len(s) - 1 : reader.rest = SubSeq(s, 1, m)

\* Of a field and what is behind it, cut somewhere, what is behind it remains, cut
\* somewhere: it is not read as another field.
LEMMA ReadCut ==
    ASSUME NEW number \in Seq(Bytes), NEW value \in Seq(Bytes), NEW tail \in Seq(Bytes),
           NEW reader, CutOf(reader, (number \o value) \o tail), NEW n,
           (\A i \in 1..Len(number) : reader.rest[i] = number[i]) => n = Len(value)
    PROVE  CutOf(ReadField(reader, Len(number), n), tail)
<1> DEFINE k == Len(number)
           l == Len(value)
           head == number \o value
           all == head \o tail
           r == ReadField(reader, k, n)
<1>1. CASE reader.err
  BY <1>1 DEF ReadField, CutOf, Failed
<1>2. CASE ~ reader.err
  <2>1. PICK m \in 0 .. Len(all) - 1 : reader.rest = SubSeq(all, 1, m)
    BY <1>2 DEF CutOf
  <2>2. k \in Nat /\ l \in Nat /\ head \in Seq(Bytes) /\ Len(head) = k + l
    OBVIOUS
  <2>3. head \in Seq(Bytes)
    BY <2>2
  <2>4. \A i \in 1..k : head[i] = number[i]
    OBVIOUS
  <2>5. /\ Len(tail) \in Nat /\ all \in Seq(Bytes) /\ Len(all) = Len(head) + Len(tail)
        /\ \A i \in 1..Len(head) : all[i] = head[i]
        /\ \A i \in 1..Len(tail) : all[Len(head) + i] = tail[i]
    <3> HIDE DEF head
    <3> QED BY <2>3
  <2> HIDE DEF head
  <2>6. all \in Seq(Bytes) /\ m \in 0..Len(all)
    BY <2>2, <2>5
  <2> HIDE DEF all
  <2>7. /\ reader.rest \in Seq(Bytes) /\ Len(reader.rest) = m
        /\ \A i \in 1..m : reader.rest[i] = all[i]
    BY <2>1, <2>6, CutInTwo
  <2>8. CASE m < k \/ m - k < n
    BY <2>7, <2>8 DEF ReadField, CutOf, Failed
  <2>9. CASE ~ (m < k \/ m - k < n)
    <3>1. \A i \in 1..k : reader.rest[i] = number[i]
      BY <2>2, <2>4, <2>5, <2>7, <2>9
    <3>2. n = l /\ n \in Nat /\ m \in Nat /\ k + n <= m
      BY <2>2, <2>9, <3>1
    <3>3. r.rest = SubSeq(reader.rest, k + n + 1, m)
      BY <1>2, <2>7, <2>9 DEF ReadField
    <3>4. m - (k + n) \in 0 .. Len(tail) - 1 /\ m - (k + n) <= Len(tail)
      BY <2>2, <2>5, <3>2
    <3> DEFINE a == SubSeq(reader.rest, k + n + 1, m)
               b == SubSeq(tail, 1, m - (k + n))
    <3>5. /\ a \in Seq(Bytes) /\ Len(a) = m - (k + n)
          /\ \A i \in 1..(m - (k + n)) : a[i] = reader.rest[k + n + i]
      <4>1. k + n \in Nat /\ m - (k + n) \in Nat /\ (k + n) + (m - (k + n)) = m
        BY <2>2, <3>2
      <4>2. reader.rest \in Seq(Bytes) /\ (k + n) + (m - (k + n)) <= Len(reader.rest)
        BY <2>7, <4>1
      <4> DEFINE j == k + n
                 d == m - (k + n)
                 rest == reader.rest
      <4>3. j + d = m
        BY <4>1
      <4> HIDE DEF j, d, rest
      <4>4. j \in Nat /\ d \in Nat /\ rest \in Seq(Bytes) /\ j + d <= Len(rest)
        BY <4>1, <4>2 DEF j, d, rest
      <4>5. /\ SubSeq(rest, j + 1, j + d) \in Seq(Bytes)
            /\ Len(SubSeq(rest, j + 1, j + d)) = d
            /\ \A i \in 1..d : SubSeq(rest, j + 1, j + d)[i] = rest[j + i]
        BY <4>4, Middle
      <4> QED BY <4>3, <4>5 DEF j, d, rest
    <3>6. /\ b \in Seq(Bytes) /\ Len(b) = m - (k + n)
          /\ \A i \in 1..(m - (k + n)) : b[i] = tail[i]
      BY <2>5, <3>4, CutInTwo
    <3>7. ASSUME NEW i \in 1..(m - (k + n)) PROVE a[i] = b[i]
      <4>1. k + n + i \in 1..m /\ i \in 1..Len(tail) /\ Len(head) = k + n
        BY <2>2, <2>5, <3>2, <3>4
      <4> HIDE DEF a, b
      <4> QED BY <2>5, <2>7, <3>5, <3>6, <4>1
    <3>8. a = b
      <4> HIDE DEF a, b
      <4>1. Len(a) = Len(b) /\ \A i \in 1..Len(a) : a[i] = b[i]
        BY <3>5, <3>6, <3>7
      <4> QED BY <3>5, <3>6, <4>1, SeqEqual
    <3> QED BY <3>3, <3>4, <3>8 DEF CutOf
  <2> QED BY <2>8, <2>9
<1> QED BY <1>1, <1>2

\* A string and the data, whole.
LEMMA FieldsAgain ==
    ASSUME NEW v \in Seq(Bytes), NEW t \in Seq(Bytes), NEW reader, reader.err = FALSE
    PROVE  /\ Len(v) <= MAX_STRING_LENGTH =>
              /\ writeString(v) \in Seq(Bytes) /\ Len(writeString(v)) = 2 + Len(v)
              /\ reader.rest = writeString(v) \o t =>
                    readString(reader) = [rest |-> t, value |-> v, err |-> FALSE]
           /\ Len(v) \in Words =>
              /\ writeBytes(v) \in Seq(Bytes) /\ Len(writeBytes(v)) = 4 + Len(v)
              /\ reader.rest = writeBytes(v) \o t =>
                    readBytes(reader) = [rest |-> t, value |-> v, err |-> FALSE]
<1> DEFINE n == Len(v)
           sn == PutUint16(n)
           bn == PutUint32(n)
<1>0. n \in Nat
  OBVIOUS
<1>1. ASSUME n <= MAX_STRING_LENGTH
      PROVE  /\ writeString(v) \in Seq(Bytes) /\ Len(writeString(v)) = 2 + Len(v)
             /\ reader.rest = writeString(v) \o t =>
                    readString(reader) = [rest |-> t, value |-> v, err |-> FALSE]
  <2>1. n \in 0 .. Word16 - 1
    BY <1>0, <1>1, WordNumbers DEF MAX_STRING_LENGTH
  <2> HIDE DEF n
  <2>2. /\ sn \in Seq(Bytes) /\ Len(sn) = 2
        /\ \A b : b[1] = sn[1] /\ b[2] = sn[2] => Uint16(b) = n
    BY <2>1, BigEndian
  <2>3. writeString(v) = sn \o v
    BY DEF writeString, n
  <2> HIDE DEF sn
  <2>4. writeString(v) \in Seq(Bytes) /\ Len(writeString(v)) = 2 + Len(v)
    <3>1. sn \in Seq(Bytes)
      BY <2>2
    <3>2. sn \o v \in Seq(Bytes) /\ Len(sn \o v) = Len(sn) + Len(v)
      BY <3>1
    <3> QED BY <2>2, <2>3, <3>2
  <2>5. ASSUME reader.rest = (sn \o v) \o t
        PROVE  readString(reader) = [rest |-> t, value |-> v, err |-> FALSE]
    <3> DEFINE head == sn \o v
    <3>0. head[1] = sn[1] /\ head[2] = sn[2] /\ Len(head) >= 2
      BY <1>0, <2>2
    <3>1. head \in Seq(Bytes)
      BY <2>3, <2>4
    <3> HIDE DEF head
    <3>2. reader.rest[1] = sn[1] /\ reader.rest[2] = sn[2]
      <4>1. (head \o t)[1] = head[1] /\ (head \o t)[2] = head[2]
        BY <3>0, <3>1
      <4> QED BY <2>5, <3>0, <4>1 DEF head
    <3>3. Uint16(reader.rest) = Len(v)
      BY <2>2, <3>2 DEF n
    <3>4. ReadField(reader, Len(sn), Len(v)) = [rest |-> t, value |-> v, err |-> FALSE]
      BY <2>2, <2>5, ReadWritten, ZenonT(90)
    <3> QED BY <2>2, <3>3, <3>4 DEF readString
  <2> QED BY <2>3, <2>4, <2>5
<1>2. ASSUME n \in Words
      PROVE  /\ writeBytes(v) \in Seq(Bytes) /\ Len(writeBytes(v)) = 4 + Len(v)
             /\ reader.rest = writeBytes(v) \o t =>
                    readBytes(reader) = [rest |-> t, value |-> v, err |-> FALSE]
  <2> HIDE DEF n
  <2>2. /\ bn \in Seq(Bytes) /\ Len(bn) = 4
        /\ \A b : (\A i \in 1..4 : b[i] = bn[i]) => Uint32(b) = n
    BY <1>2, BigEndian
  <2>3. writeBytes(v) = bn \o v
    BY DEF writeBytes, n
  <2> HIDE DEF bn
  <2>4. writeBytes(v) \in Seq(Bytes) /\ Len(writeBytes(v)) = 4 + Len(v)
    <3>1. bn \in Seq(Bytes)
      BY <2>2
    <3>2. bn \o v \in Seq(Bytes) /\ Len(bn \o v) = Len(bn) + Len(v)
      BY <3>1
    <3> QED BY <2>2, <2>3, <3>2
  <2>5. ASSUME reader.rest = (bn \o v) \o t
        PROVE  readBytes(reader) = [rest |-> t, value |-> v, err |-> FALSE]
    <3> DEFINE head == bn \o v
    <3>0. Len(head) >= 4 /\ \A i \in 1..4 : head[i] = bn[i]
      BY <1>0, <2>2
    <3>1. head \in Seq(Bytes)
      BY <2>3, <2>4
    <3> HIDE DEF head
    <3>2. \A i \in 1..4 : reader.rest[i] = bn[i]
      <4>1. \A i \in 1..4 : (head \o t)[i] = head[i]
        BY <3>0, <3>1
      <4> QED BY <2>5, <3>0, <4>1 DEF head
    <3>3. Uint32(reader.rest) = Len(v)
      BY <2>2, <3>2 DEF n
    <3>4. ReadField(reader, Len(bn), Len(v)) = [rest |-> t, value |-> v, err |-> FALSE]
      BY <2>2, <2>5, ReadWritten, ZenonT(90)
    <3> QED BY <2>2, <3>3, <3>4 DEF readBytes
  <2> QED BY <2>3, <2>4, <2>5
<1> QED BY <1>1, <1>2

\* The messages that EncodeMessage does not refuse and whose data it can count.
Encodable(msg) ==
    /\ \A i \in 1..5 : Len(msg.strings[i]) <= MAX_STRING_LENGTH
    /\ Len(msg.data) \in Words

\* The encoded message one field after the other, with t behind it.
LEMMA Encoding ==
    ASSUME NEW msg \in Messages, Encodable(msg), NEW t \in Seq(Bytes)
    PROVE  /\ EncodeMessage(msg) \in Seq(Bytes)
           /\ \E head, t1, t2, t3, t4, t5, t6 \in Seq(Bytes) :
                /\ head = <<MESSAGE_VERSION, msg.cmd, IF msg.ok THEN 1 ELSE 0>>
                /\ EncodeMessage(msg) \o t = head \o t1
                /\ t1 = writeString(msg.strings[1]) \o t2
                /\ t2 = writeString(msg.strings[2]) \o t3
                /\ t3 = writeString(msg.strings[3]) \o t4
                /\ t4 = writeString(msg.strings[4]) \o t5
                /\ t5 = writeString(msg.strings[5]) \o t6
                /\ t6 = writeBytes(msg.data) \o t
<1> DEFINE head == <<MESSAGE_VERSION, msg.cmd, IF msg.ok THEN 1 ELSE 0>>
           w1 == writeString(msg.strings[1])
           w2 == writeString(msg.strings[2])
           w3 == writeString(msg.strings[3])
           w4 == writeString(msg.strings[4])
           w5 == writeString(msg.strings[5])
           e6 == writeBytes(msg.data)
           e5 == w5 \o e6
           e4 == w4 \o e5
           e3 == w3 \o e4
           e2 == w2 \o e3
           e1 == w1 \o e2
<1>1. head \in Seq(Bytes)
  <2>1. msg.cmd \in Bytes /\ 0 \in Bytes /\ 1 \in Bytes
    BY WordNumbers DEF Messages, Bytes
  <2> QED BY <2>1 DEF MESSAGE_VERSION
<1>2. w1 \in Seq(Bytes) /\ w2 \in Seq(Bytes) /\ w3 \in Seq(Bytes) /\ w4 \in Seq(Bytes) /\ w5 \in Seq(Bytes)
  <2>1. ASSUME NEW i \in 1..5 PROVE writeString(msg.strings[i]) \in Seq(Bytes)
    <3>1. msg.strings[i] \in Seq(Bytes) /\ Len(msg.strings[i]) <= MAX_STRING_LENGTH
      BY DEF Messages, Encodable
    <3> DEFINE reader == [err |-> FALSE]
    <3>2. reader.err = FALSE
      OBVIOUS
    <3> QED BY <3>1, <3>2, FieldsAgain
  <2>2. 1 \in 1..5 /\ 2 \in 1..5 /\ 3 \in 1..5 /\ 4 \in 1..5 /\ 5 \in 1..5
    OBVIOUS
  <2> QED BY <2>1, <2>2
<1>3. e6 \in Seq(Bytes)
  <2>1. msg.data \in Seq(Bytes) /\ Len(msg.data) \in Words
    BY DEF Messages, Encodable
  <2> DEFINE reader == [err |-> FALSE]
  <2>2. reader.err = FALSE
    OBVIOUS
  <2> QED BY <2>1, <2>2, FieldsAgain
<1>4. EncodeMessage(msg) = head \o e1
  <2>1. \A i \in 1..5 : Len(msg.strings[i]) \in Nat /\ Len(msg.strings[i]) <= MAX_STRING_LENGTH
    BY DEF Messages, Encodable
  <2>2. MAX_STRING_LENGTH \in Int
    BY WordNumbers DEF MAX_STRING_LENGTH
  <2>3. ~ \E i \in 1..5 : Len(msg.strings[i]) > MAX_STRING_LENGTH
    <3> SUFFICES ASSUME NEW i \in 1..5 PROVE ~ (Len(msg.strings[i]) > MAX_STRING_LENGTH)
      OBVIOUS
    <3> DEFINE l == Len(msg.strings[i])
    <3>1. l \in Nat /\ l <= MAX_STRING_LENGTH
      BY <2>1
    <3> HIDE DEF l
    <3>2. ~ (l > MAX_STRING_LENGTH)
      BY <2>2, <3>1
    <3> QED BY <3>2 DEF l
  <2> QED BY <2>3 DEF EncodeMessage
<1> HIDE DEF head, w1, w2, w3, w4, w5, e6
<1>5. \A a, b \in Seq(Bytes) : a \o b \in Seq(Bytes) /\ (a \o b) \o t = a \o (b \o t)
  BY ConcatAssociative
<1>6. e5 \in Seq(Bytes) /\ e5 \o t = w5 \o (e6 \o t) /\ e6 \o t \in Seq(Bytes)
  BY <1>2, <1>3, <1>5
<1> HIDE DEF e5
<1>7. e4 \in Seq(Bytes) /\ e4 \o t = w4 \o (e5 \o t) /\ e5 \o t \in Seq(Bytes)
  BY <1>2, <1>6, <1>5
<1> HIDE DEF e4
<1>8. e3 \in Seq(Bytes) /\ e3 \o t = w3 \o (e4 \o t) /\ e4 \o t \in Seq(Bytes)
  BY <1>2, <1>7, <1>5
<1> HIDE DEF e3
<1>9. e2 \in Seq(Bytes) /\ e2 \o t = w2 \o (e3 \o t) /\ e3 \o t \in Seq(Bytes)
  BY <1>2, <1>8, <1>5
<1> HIDE DEF e2
<1>10. e1 \in Seq(Bytes) /\ e1 \o t = w1 \o (e2 \o t) /\ e2 \o t \in Seq(Bytes)
  BY <1>2, <1>9, <1>5
<1> HIDE DEF e1
<1>11. head \o e1 \in Seq(Bytes) /\ (head \o e1) \o t = head \o (e1 \o t) /\ e1 \o t \in Seq(Bytes)
  BY <1>1, <1>10, <1>5
<1>12. /\ EncodeMessage(msg) \in Seq(Bytes)
       /\ EncodeMessage(msg) \o t = head \o (e1 \o t)
  BY <1>4, <1>11
<1> QED
  BY <1>1, <1>6, <1>7, <1>8, <1>9, <1>10, <1>11, <1>12, ZenonT(90) DEF head, w1, w2, w3, w4, w5, e6

\* What was read of a field.
IsRead(reader, rest, value) == reader.err = FALSE /\ reader.rest = rest /\ reader.value = value

\* A string is read from what a reader has left, and the data.
LEMMA StringAgain ==
    ASSUME NEW v \in Seq(Bytes), Len(v) <= MAX_STRING_LENGTH, NEW t \in Seq(Bytes),
           NEW reader, NEW old, NEW u, u = writeString(v) \o t, IsRead(reader, u, old)
    PROVE  IsRead(readString(reader), t, v)
<1>1. reader.err = FALSE /\ reader.rest = writeString(v) \o t
  BY DEF IsRead
<1>2. readString(reader) = [rest |-> t, value |-> v, err |-> FALSE]
  BY <1>1, FieldsAgain
<1> QED BY <1>2 DEF IsRead

LEMMA DataAgain ==
    ASSUME NEW v \in Seq(Bytes), Len(v) \in Words, NEW t \in Seq(Bytes),
           NEW reader, NEW old, NEW u, u = writeBytes(v) \o t, IsRead(reader, u, old)
    PROVE  IsRead(readBytes(reader), t, v)
<1>1. reader.err = FALSE /\ reader.rest = writeBytes(v) \o t
  BY DEF IsRead
<1>2. readBytes(reader) = [rest |-> t, value |-> v, err |-> FALSE]
  BY <1>1, FieldsAgain
<1> QED BY <1>2 DEF IsRead

\* The beginning of a sequence and what is behind it.
LEMMA BehindHead ==
    ASSUME NEW head \in Seq(Bytes), NEW t \in Seq(Bytes)
    PROVE  /\ Len(head \o t) \in Nat /\ Len(head \o t) = Len(head) + Len(t) /\ Len(t) \in Nat
           /\ \A i \in 1..Len(head) : (head \o t)[i] = head[i]
           /\ SubSeq(head \o t, Len(head) + 1, Len(head \o t)) = t
<1>1. Len(t) \in Nat /\ Len(head) \in Nat /\ Len(head \o t) = Len(head) + Len(t)
  OBVIOUS
<1>2. \A i \in 1..Len(head) : (head \o t)[i] = head[i]
  OBVIOUS
<1>3. SubSeq(head \o t, Len(head) + 1, Len(head) + Len(t)) = t
  BY Parts
<1> QED BY <1>1, <1>2, <1>3

\* DecodeMessage returns the message that was encoded, and with anything behind it an
\* error.
LEMMA DecodeInvertsEncode ==
    ASSUME NEW msg \in Messages, Encodable(msg), NEW t \in Seq(Bytes)
    PROVE  DecodeMessage(EncodeMessage(msg) \o t) = IF t = <<>> THEN msg ELSE Error
<1> DEFINE input == EncodeMessage(msg) \o t
           s(i) == msg.strings[i]
           Fields(head, t1, t2, t3, t4, t5, t6) ==
                /\ head = <<MESSAGE_VERSION, msg.cmd, IF msg.ok THEN 1 ELSE 0>>
                /\ input = head \o t1
                /\ t1 = writeString(s(1)) \o t2
                /\ t2 = writeString(s(2)) \o t3
                /\ t3 = writeString(s(3)) \o t4
                /\ t4 = writeString(s(4)) \o t5
                /\ t5 = writeString(s(5)) \o t6
                /\ t6 = writeBytes(msg.data) \o t
<1>1. PICK head, t1, t2, t3, t4, t5, t6 \in Seq(Bytes) : Fields(head, t1, t2, t3, t4, t5, t6)
  BY Encoding, ZenonT(90)
<1>2. /\ \A i \in 1..5 : s(i) \in Seq(Bytes) /\ Len(s(i)) <= MAX_STRING_LENGTH
      /\ msg.data \in Seq(Bytes) /\ Len(msg.data) \in Words
  BY DEF Messages, Encodable
<1>3. /\ Len(head) = 3 /\ head[1] = MESSAGE_VERSION /\ head[2] = msg.cmd
      /\ head[3] = IF msg.ok THEN 1 ELSE 0
  <2>1. head = <<MESSAGE_VERSION, msg.cmd, IF msg.ok THEN 1 ELSE 0>>
    BY <1>1
  <2> QED BY <2>1
<1> HIDE DEF input, s
<1>4. /\ Len(input) \in Nat /\ Len(input) = 3 + Len(t1) /\ Len(t1) \in Nat
      /\ \A i \in 1..3 : input[i] = head[i]
      /\ SubSeq(input, 4, Len(input)) = t1
  <2>1. input = head \o t1 /\ Len(head) = 3
    BY <1>1, <1>3
  <2>2. /\ Len(head \o t1) \in Nat /\ Len(head \o t1) = Len(head) + Len(t1) /\ Len(t1) \in Nat
        /\ \A i \in 1..Len(head) : (head \o t1)[i] = head[i]
        /\ SubSeq(head \o t1, Len(head) + 1, Len(head \o t1)) = t1
    BY BehindHead
  <2> DEFINE both == head \o t1
             l == Len(head)
  <2>3. l = 3 /\ input = both
    BY <2>1
  <2> HIDE DEF both, l
  <2>4. /\ Len(both) \in Nat /\ Len(both) = l + Len(t1) /\ Len(t1) \in Nat
        /\ \A i \in 1..l : both[i] = head[i]
        /\ SubSeq(both, l + 1, Len(both)) = t1
    BY <2>2, Zenon DEF both, l
  <2> QED BY <2>3, <2>4
<1> DEFINE begin == [rest |-> SubSeq(input, 4, Len(input)), value |-> <<>>, err |-> FALSE]
           wid == readString(begin)
           cid == readString(wid)
           message == readString(cid)
           network == readString(message)
           address == readString(network)
           data == readBytes(address)
<1>5. IsRead(begin, t1, <<>>)
  BY <1>4 DEF IsRead
<1>6. t1 = writeString(s(1)) \o t2 /\ s(1) \in Seq(Bytes) /\ Len(s(1)) <= MAX_STRING_LENGTH
  BY <1>1, <1>2
<1>7. t2 = writeString(s(2)) \o t3 /\ s(2) \in Seq(Bytes) /\ Len(s(2)) <= MAX_STRING_LENGTH
  BY <1>1, <1>2
<1>8. t3 = writeString(s(3)) \o t4 /\ s(3) \in Seq(Bytes) /\ Len(s(3)) <= MAX_STRING_LENGTH
  BY <1>1, <1>2
<1>9. t4 = writeString(s(4)) \o t5 /\ s(4) \in Seq(Bytes) /\ Len(s(4)) <= MAX_STRING_LENGTH
  BY <1>1, <1>2
<1>10. t5 = writeString(s(5)) \o t6 /\ s(5) \in Seq(Bytes) /\ Len(s(5)) <= MAX_STRING_LENGTH
  BY <1>1, <1>2
<1>11. t6 = writeBytes(msg.data) \o t
  BY <1>1
<1> HIDE DEF begin, Fields
<1>12. IsRead(wid, t2, s(1))
  BY <1>5, <1>6, StringAgain
<1> HIDE DEF wid
<1>13. IsRead(cid, t3, s(2))
  BY <1>12, <1>7, StringAgain
<1> HIDE DEF cid
<1>14. IsRead(message, t4, s(3))
  BY <1>13, <1>8, StringAgain
<1> HIDE DEF message
<1>15. IsRead(network, t5, s(4))
  BY <1>14, <1>9, StringAgain
<1> HIDE DEF network
<1>16. IsRead(address, t6, s(5))
  BY <1>15, <1>10, StringAgain
<1> HIDE DEF address
<1>17. IsRead(data, t, msg.data)
  BY <1>16, <1>11, <1>2, DataAgain
<1> HIDE DEF data
<1> DEFINE result == [cmd |-> input[2], ok |-> input[3] # 0,
                      strings |-> <<wid.value, cid.value, message.value, network.value, address.value>>,
                      data |-> data.value]
<1>18. decodeBinaryMessage(input) =
         IF \/ Len(input) < 3 \/ input[1] # MESSAGE_VERSION
            \/ data.err \/ data.rest # <<>>
         THEN Error ELSE result
  BY DEF decodeBinaryMessage, data, address, network, message, cid, wid, begin
<1>19. ~ (Len(input) < 3 \/ input[1] # MESSAGE_VERSION \/ data.err)
  BY <1>3, <1>4, <1>17 DEF IsRead
<1>20. result = msg
  <2>1. input[2] = msg.cmd
    BY <1>3, <1>4
  <2>2. (input[3] # 0) = msg.ok
    <3>1. msg.ok \in BOOLEAN /\ input[3] = IF msg.ok THEN 1 ELSE 0
      BY <1>3, <1>4, SMTT(60) DEF Messages
    <3>2. CASE msg.ok = TRUE
      BY <3>1, <3>2
    <3>3. CASE msg.ok = FALSE
      BY <3>1, <3>3
    <3> QED BY <3>1, <3>2, <3>3
  <2>3. <<wid.value, cid.value, message.value, network.value, address.value>> = msg.strings
    <3>1. <<s(1), s(2), s(3), s(4), s(5)>> = msg.strings
      <4>1. msg.strings \in [1..5 -> Seq(Bytes)]
        BY DEF Messages
      <4> QED BY <4>1 DEF s
    <3> QED BY <1>12, <1>13, <1>14, <1>15, <1>16, <3>1 DEF IsRead
  <2>4. msg = [cmd |-> msg.cmd, ok |-> msg.ok, strings |-> msg.strings, data |-> msg.data]
    BY DEF Messages
  <2>5. data.value = msg.data
    BY <1>17 DEF IsRead
  <2> QED BY <2>1, <2>2, <2>3, <2>4, <2>5, Zenon
<1> HIDE DEF result
<1>21. decodeBinaryMessage(input) = IF t = <<>> THEN msg ELSE Error
  BY <1>17, <1>18, <1>19, <1>20 DEF IsRead
<1> QED BY <1>21 DEF DecodeMessage, decodeGobMessage, input

\* Of a string or of the data, cut, only a part of what is behind it can be read.
LEMMA FieldCut ==
    ASSUME NEW v \in Seq(Bytes), NEW t \in Seq(Bytes), NEW reader, NEW u
    PROVE  /\ Len(v) <= MAX_STRING_LENGTH /\ u = writeString(v) \o t /\ CutOf(reader, u)
              => CutOf(readString(reader), t)
           /\ Len(v) \in Words /\ u = writeBytes(v) \o t /\ CutOf(reader, u)
              => CutOf(readBytes(reader), t)
<1> DEFINE n == Len(v)
           sn == PutUint16(n)
           bn == PutUint32(n)
<1>0. n \in Nat
  OBVIOUS
<1>1. ASSUME n <= MAX_STRING_LENGTH, CutOf(reader, writeString(v) \o t)
      PROVE  CutOf(readString(reader), t)
  <2>1. n \in 0 .. Word16 - 1
    BY <1>0, <1>1, WordNumbers DEF MAX_STRING_LENGTH
  <2> HIDE DEF n
  <2>2. /\ sn \in Seq(Bytes) /\ Len(sn) = 2
        /\ \A b : b[1] = sn[1] /\ b[2] = sn[2] => Uint16(b) = n
    BY <2>1, BigEndian
  <2>3. CutOf(reader, (sn \o v) \o t)
    BY <1>1 DEF writeString, n
  <2> HIDE DEF sn
  <2>4. (\A i \in 1..Len(sn) : reader.rest[i] = sn[i]) => Uint16(reader.rest) = Len(v)
    BY <2>2 DEF n
  <2> DEFINE k == Uint16(reader.rest)
  <2>5. sn \in Seq(Bytes) /\ ((\A i \in 1..Len(sn) : reader.rest[i] = sn[i]) => k = Len(v))
    BY <2>2, <2>4
  <2> HIDE DEF k
  <2>6. CutOf(ReadField(reader, Len(sn), k), t)
    BY <2>3, <2>5, ReadCut
  <2> QED BY <2>2, <2>6 DEF readString, k
<1>2. ASSUME n \in Words, CutOf(reader, writeBytes(v) \o t)
      PROVE  CutOf(readBytes(reader), t)
  <2> HIDE DEF n
  <2>2. /\ bn \in Seq(Bytes) /\ Len(bn) = 4
        /\ \A b : (\A i \in 1..4 : b[i] = bn[i]) => Uint32(b) = n
    BY <1>2, BigEndian
  <2>3. CutOf(reader, (bn \o v) \o t)
    BY <1>2 DEF writeBytes, n
  <2> HIDE DEF bn
  <2>4. (\A i \in 1..Len(bn) : reader.rest[i] = bn[i]) => Uint32(reader.rest) = Len(v)
    BY <2>2 DEF n
  <2> DEFINE k == Uint32(reader.rest)
  <2>5. bn \in Seq(Bytes) /\ ((\A i \in 1..Len(bn) : reader.rest[i] = bn[i]) => k = Len(v))
    BY <2>2, <2>4
  <2> HIDE DEF k
  <2>6. CutOf(ReadField(reader, Len(bn), k), t)
    BY <2>3, <2>5, ReadCut
  <2> QED BY <2>2, <2>6 DEF readBytes, k
<1> QED BY <1>1, <1>2

\* A message that was cut, anywhere, is an error.
LEMMA DecodeOfCut ==
    ASSUME NEW msg \in Messages, Encodable(msg), NEW m \in 0 .. Len(EncodeMessage(msg)) - 1
    PROVE  DecodeMessage(SubSeq(EncodeMessage(msg), 1, m)) = Error
<1> DEFINE bytes == EncodeMessage(msg)
           input == SubSeq(bytes, 1, m)
           s(i) == msg.strings[i]
           Fields(head, t1, t2, t3, t4, t5, t6) ==
                /\ head = <<MESSAGE_VERSION, msg.cmd, IF msg.ok THEN 1 ELSE 0>>
                /\ bytes \o <<>> = head \o t1
                /\ t1 = writeString(s(1)) \o t2
                /\ t2 = writeString(s(2)) \o t3
                /\ t3 = writeString(s(3)) \o t4
                /\ t4 = writeString(s(4)) \o t5
                /\ t5 = writeString(s(5)) \o t6
                /\ t6 = writeBytes(msg.data) \o <<>>
<1>0. <<>> \in Seq(Bytes)
  OBVIOUS
<1>1. PICK head, t1, t2, t3, t4, t5, t6 \in Seq(Bytes) : Fields(head, t1, t2, t3, t4, t5, t6)
  BY <1>0, Encoding, ZenonT(90)
<1>2. bytes \in Seq(Bytes) /\ bytes = head \o t1 /\ Len(head) = 3
  <2>1. bytes \in Seq(Bytes)
    BY <1>0, Encoding
  <2>2. bytes \o <<>> = bytes
    BY <2>1, ConcatEmptySeq
  <2>3. head = <<MESSAGE_VERSION, msg.cmd, IF msg.ok THEN 1 ELSE 0>> /\ bytes \o <<>> = head \o t1
    BY <1>1
  <2>4. Len(head) = 3
    BY <2>3
  <2> HIDE DEF bytes
  <2> QED BY <2>1, <2>2, <2>3, <2>4
<1>3. /\ \A i \in 1..5 : s(i) \in Seq(Bytes) /\ Len(s(i)) <= MAX_STRING_LENGTH
      /\ msg.data \in Seq(Bytes) /\ Len(msg.data) \in Words
  BY DEF Messages, Encodable
<1> HIDE DEF bytes, s
<1>4. m \in Nat /\ m < Len(bytes) /\ m \in 0 .. Len(bytes)
  BY <1>2 DEF bytes
<1>5. input \in Seq(Bytes) /\ Len(input) = m /\ \A i \in 1..m : input[i] = bytes[i]
  <2>1. bytes \in Seq(Bytes) /\ m \in 0 .. Len(bytes)
    BY <1>2, <1>4
  <2> QED BY <2>1, CutInTwo
<1> DEFINE begin == [rest |-> SubSeq(input, 4, Len(input)), value |-> <<>>, err |-> FALSE]
           wid == readString(begin)
           cid == readString(wid)
           message == readString(cid)
           network == readString(message)
           address == readString(network)
           data == readBytes(address)
<1>6. decodeBinaryMessage(input) = Error
  <2>1. CASE Len(input) < 3
    BY <2>1 DEF decodeBinaryMessage
  <2>2. CASE ~ (Len(input) < 3)
    <3>1. CutOf(begin, t1)
      <4>1. /\ Len(bytes) = 3 + Len(t1) /\ Len(t1) \in Nat
            /\ \A i \in 1..Len(t1) : bytes[3 + i] = t1[i]
        <5>1. Len(head \o t1) = Len(head) + Len(t1) /\ Len(t1) \in Nat
          OBVIOUS
        <5>2. \A i \in 1..Len(t1) : (head \o t1)[Len(head) + i] = t1[i]
          OBVIOUS
        <5> DEFINE both == head \o t1
                   l == Len(head)
        <5>3. both = bytes /\ l = 3
          BY <1>2
        <5> HIDE DEF both, l
        <5>4. Len(both) = l + Len(t1) /\ Len(t1) \in Nat /\ \A i \in 1..Len(t1) : both[l + i] = t1[i]
          BY <5>1, <5>2, Zenon DEF both, l
        <5> QED BY <5>3, <5>4
      <4> DEFINE a == SubSeq(input, 4, Len(input))
                 b == SubSeq(t1, 1, m - 3)
      <4>2. m - 3 \in 0 .. Len(t1) - 1 /\ m - 3 \in 0 .. Len(t1) /\ m - 3 \in Nat
        BY <1>4, <1>5, <2>2, <4>1
      <4>3. a \in Seq(Bytes) /\ Len(a) = m - 3 /\ \A i \in 1..(m - 3) : a[i] = input[3 + i]
        <5>1. 3 + 1 = 4 /\ 3 + (m - 3) = Len(input) /\ 3 \in Nat
          BY <1>4, <1>5
        <5> DEFINE d == m - 3
                   x == 3
        <5>2. d \in Nat /\ x \in Nat /\ x + d = Len(input) /\ x + 1 = 4
          BY <4>2, <5>1
        <5> HIDE DEF d, x, input
        <5>3. /\ SubSeq(input, x + 1, x + d) \in Seq(Bytes) /\ Len(SubSeq(input, x + 1, x + d)) = d
              /\ \A i \in 1..d : SubSeq(input, x + 1, x + d)[i] = input[x + i]
          <6>1. input \in Seq(Bytes) /\ x + d <= Len(input)
            BY <1>5, <5>2, <1>4
          <6> QED BY <5>2, <6>1, Middle, SMTT(60)
        <5> QED BY <5>2, <5>3 DEF d, x
      <4>4. b \in Seq(Bytes) /\ Len(b) = m - 3 /\ \A i \in 1..(m - 3) : b[i] = t1[i]
        BY <4>2, CutInTwo
      <4>5. ASSUME NEW i \in 1..(m - 3) PROVE a[i] = b[i]
        <5>1. 3 + i \in 1..m /\ i \in 1..Len(t1)
          BY <4>2
        <5> HIDE DEF a, b, input
        <5> QED BY <1>5, <4>1, <4>3, <4>4, <5>1
      <4>6. a = b
        <5> HIDE DEF a, b
        <5>1. Len(a) = Len(b) /\ \A i \in 1..Len(a) : a[i] = b[i]
          BY <4>3, <4>4, <4>5
        <5> QED BY <4>3, <4>4, <5>1, SeqEqual
      <4> QED BY <4>2, <4>6 DEF CutOf
    <3>2. t1 = writeString(s(1)) \o t2 /\ s(1) \in Seq(Bytes) /\ Len(s(1)) <= MAX_STRING_LENGTH
      BY <1>1, <1>3
    <3>3. t2 = writeString(s(2)) \o t3 /\ s(2) \in Seq(Bytes) /\ Len(s(2)) <= MAX_STRING_LENGTH
      BY <1>1, <1>3
    <3>4. t3 = writeString(s(3)) \o t4 /\ s(3) \in Seq(Bytes) /\ Len(s(3)) <= MAX_STRING_LENGTH
      BY <1>1, <1>3
    <3>5. t4 = writeString(s(4)) \o t5 /\ s(4) \in Seq(Bytes) /\ Len(s(4)) <= MAX_STRING_LENGTH
      BY <1>1, <1>3
    <3>6. t5 = writeString(s(5)) \o t6 /\ s(5) \in Seq(Bytes) /\ Len(s(5)) <= MAX_STRING_LENGTH
      BY <1>1, <1>3
    <3>7. t6 = writeBytes(msg.data) \o <<>>
      BY <1>1
    <3> HIDE DEF begin, Fields
    <3>8. CutOf(wid, t2)
      BY <3>1, <3>2, FieldCut
    <3> HIDE DEF wid
    <3>9. CutOf(cid, t3)
      BY <3>8, <3>3, FieldCut
    <3> HIDE DEF cid
    <3>10. CutOf(message, t4)
      BY <3>9, <3>4, FieldCut
    <3> HIDE DEF message
    <3>11. CutOf(network, t5)
      BY <3>10, <3>5, FieldCut
    <3> HIDE DEF network
    <3>12. CutOf(address, t6)
      BY <3>11, <3>6, FieldCut
    <3> HIDE DEF address
    <3>13. CutOf(data, <<>>)
      BY <3>12, <3>7, <1>0, <1>3, FieldCut
    <3> HIDE DEF data
    <3>14. data.err
      BY <3>13 DEF CutOf
    <3> QED BY <3>14 DEF decodeBinaryMessage, data, address, network, message, cid, wid, begin
  <2> QED BY <2>1, <2>2
<1> QED BY <1>6 DEF DecodeMessage, decodeGobMessage, bytes

-----------------------------------------------------------------------------
(* shuffle                                                                  *)

\* The sequences of bytes that have none of them twice.
Distinct == {s \in Seq(Bytes) : \A i, j \in 1..Len(s) : s[i] = s[j] => i = j}

\* A byte that is not yet there, behind them.
LEMMA OneMore ==
    ASSUME NEW s \in Distinct, NEW b \in Bytes, ~ Contains(s, b)
    PROVE  Append(s, b) \in Distinct
<1> DEFINE t == Append(s, b)
           n == Len(s)
<1>1. s \in Seq(Bytes) /\ n \in Nat
  BY DEF Distinct
<1>2. t \in Seq(Bytes) /\ Len(t) = n + 1 /\ t[n + 1] = b /\ \A i \in 1..n : t[i] = s[i]
  BY <1>1
<1>3. \A i, j \in 1..n : s[i] = s[j] => i = j
  BY DEF Distinct
<1>4. \A i \in 1..n : s[i] # b
  BY DEF Contains
<1> HIDE DEF t, n
<1>5. ASSUME NEW i \in 1..Len(t), NEW j \in 1..Len(t), t[i] = t[j]
      PROVE  i = j
  <2>1. (i \in 1..n \/ i = n + 1) /\ (j \in 1..n \/ j = n + 1)
    BY <1>1, <1>2
  <2>2. CASE i \in 1..n /\ j \in 1..n
    BY <1>2, <1>3, <1>5, <2>2
  <2>3. CASE i = n + 1 /\ j \in 1..n
    BY <1>2, <1>4, <1>5, <2>3
  <2>4. CASE i \in 1..n /\ j = n + 1
    BY <1>2, <1>4, <1>5, <2>4
  <2> QED BY <2>1, <2>2, <2>3, <2>4
<1> QED BY <1>2, <1>5 DEF Distinct, t

\* unique leaves no byte twice.
LEMMA UniqueIsDistinct ==
    ASSUME NEW key \in Seq(Bytes)
    PROVE  unique(key) \in Distinct
<1> DEFINE n == Len(key)
           More(s, i) == IF Contains(s, key[i]) THEN s ELSE Append(s, key[i])
           F == [x \in (1..n) \X Distinct |-> More(x[2], x[1])]
           Def(u) == [i \in 0..n |-> IF i = 0 THEN <<>> ELSE More(u[i - 1], i)]
<1>0. n \in Nat
  OBVIOUS
<1>1. \A i \in 1..n, s \in Distinct : F[<<i, s>>] = More(s, i) /\ F[<<i, s>>] \in Distinct
  <2> SUFFICES ASSUME NEW i \in 1..n, NEW s \in Distinct PROVE More(s, i) \in Distinct
    OBVIOUS
  <2>1. key[i] \in Bytes
    OBVIOUS
  <2> QED BY <2>1, OneMore
<1>2. <<>> \in Distinct
  BY DEF Distinct
<1> HIDE DEF More
<1>3. PICK u : IsRun(u, Distinct, n, F, <<>>)
  <2> HIDE DEF F, n
  <2> QED BY <1>0, <1>1, <1>2, Iteration
<1>4. /\ u \in [0..n -> Distinct] /\ u[0] = <<>>
      /\ \A i \in 1..n : u[i - 1] \in Distinct /\ u[i] = More(u[i - 1], i)
  <2> HIDE DEF F
  <2>1. \A i \in 1..n : i - 1 \in 0..n
    OBVIOUS
  <2> QED BY <1>1, <1>3, <2>1 DEF IsRun
<1> HIDE DEF F
<1>5. u = Def(u)
  BY <1>4
<1>6. ASSUME NEW w, w = Def(w)
      PROVE  w[n] = u[n]
  <2>1. w[0] = u[0] /\ \A i \in 1..n : w[i - 1] = u[i - 1] => w[i] = u[i]
    BY <1>0, <1>4, <1>6
  <2> HIDE DEF n, Def
  <2> QED BY <1>0, <2>1, EndAlike
<1>7. unique(key) = u[n]
  <2> DEFINE c == CHOOSE w : w = Def(w)
  <2>1. c[n] = u[n]
    <3> HIDE DEF Def
    <3> QED BY <1>5, <1>6
  <2>2. unique(key) = c[n]
    BY DEF unique, More
  <2> QED BY <2>1, <2>2
<1> QED BY <1>0, <1>4, <1>7

\* The tables that are their own inverse.
Involutions == {t \in [Bytes -> Bytes] : \A b \in Bytes : t[t[b]] = b}

Swapped(t, a, b) == [t EXCEPT ![a] = t[b], ![b] = t[a]]

\* Two bytes that stayed in their places change them.
LEMMA SwapTwo ==
    ASSUME NEW t \in Involutions, NEW a \in Bytes, NEW b \in Bytes, a # b, t[a] = a, t[b] = b
    PROVE  /\ Swapped(t, a, b) \in Involutions
           /\ \A x \in Bytes : x # a /\ x # b => Swapped(t, a, b)[x] = t[x]
<1> DEFINE s == Swapped(t, a, b)
<1>1. t \in [Bytes -> Bytes] /\ \A x \in Bytes : t[t[x]] = x
  BY DEF Involutions
<1>2. /\ s \in [Bytes -> Bytes] /\ s[a] = b /\ s[b] = a
      /\ \A x \in Bytes : x # a /\ x # b => s[x] = t[x]
  BY <1>1 DEF Swapped
<1> HIDE DEF s
<1>3. ASSUME NEW x \in Bytes PROVE s[s[x]] = x
  <2>1. CASE x = a \/ x = b
    BY <1>2, <2>1
  <2>2. CASE x # a /\ x # b
    <3>1. t[x] \in Bytes /\ t[x] # a /\ t[x] # b
      BY <1>1, <2>2
    <3> QED BY <1>1, <1>2, <2>2, <3>1
  <2> QED BY <2>1, <2>2
<1> QED BY <1>2, <1>3 DEF Involutions, s

\* The table of a key without repeated bytes is its own inverse: no byte changes
\* its place twice.
LEMMA TableIsInvolution ==
    ASSUME NEW key \in Distinct
    PROVE  getTable(key) \in Involutions
<1> DEFINE n == Len(key)
           h == n \div 2
           S == [Bytes -> Bytes]
           Swap(t, i) == [t EXCEPT ![key[i]] = t[key[n - i + 1]], ![key[n - i + 1]] = t[key[i]]]
           F == [x \in (1..h) \X S |-> Swap(x[2], x[1])]
           id == [b \in Bytes |-> b]
           Def(u) == [i \in 0..h |-> IF i = 0 THEN id ELSE Swap(u[i - 1], i)]
<1>0. key \in Seq(Bytes) /\ n \in Nat /\ h \in Nat /\ 2 * h <= n
  BY DEF Distinct
<1>1. \A i \in 1..h : /\ i \in 1..n /\ n - i + 1 \in 1..n /\ i < n - i + 1
                      /\ key[i] \in Bytes /\ key[n - i + 1] \in Bytes
                      /\ key[i] # key[n - i + 1]
  <2> SUFFICES ASSUME NEW i \in 1..h
               PROVE  /\ i \in 1..n /\ n - i + 1 \in 1..n /\ i < n - i + 1
                      /\ key[i] \in Bytes /\ key[n - i + 1] \in Bytes
                      /\ key[i] # key[n - i + 1]
    OBVIOUS
  <2> HIDE DEF h
  <2>1. i \in 1..n /\ n - i + 1 \in 1..n /\ i < n - i + 1 /\ i # n - i + 1
    BY <1>0
  <2> QED BY <1>0, <2>1 DEF Distinct
<1>2. \A i \in 1..h, t \in S : F[<<i, t>>] = Swap(t, i) /\ F[<<i, t>>] \in S
  <2> SUFFICES ASSUME NEW i \in 1..h, NEW t \in S PROVE Swap(t, i) \in S
    OBVIOUS
  <2> HIDE DEF h, n
  <2> QED BY <1>1
<1>3. id \in S
  OBVIOUS
<1> HIDE DEF Swap
<1>4. PICK u : IsRun(u, S, h, F, id)
  <2> HIDE DEF F, h, S, id
  <2> QED BY <1>0, <1>2, <1>3, Iteration
<1>5. /\ u \in [0..h -> S] /\ u[0] = id
      /\ \A i \in 1..h : u[i - 1] \in S /\ u[i] = Swap(u[i - 1], i)
  <2> HIDE DEF F, S, id, h
  <2>1. \A i \in 1..h : i - 1 \in 0..h
    BY <1>0
  <2> QED BY <1>2, <1>4, <2>1 DEF IsRun
<1> HIDE DEF F
<1>6. u = Def(u)
  <2> HIDE DEF id, S, h
  <2> QED BY <1>0, <1>5
<1>7. ASSUME NEW w, w = Def(w)
      PROVE  w[h] = u[h]
  <2> HIDE DEF h, id, S
  <2>1. w[0] = u[0] /\ \A i \in 1..h : w[i - 1] = u[i - 1] => w[i] = u[i]
    BY <1>0, <1>5, <1>7
  <2> HIDE DEF Def
  <2> QED BY <1>0, <2>1, EndAlike
<1>8. getTable(key) = u[h]
  <2> DEFINE c == CHOOSE w : w = Def(w)
  <2>1. c[h] = u[h]
    <3> HIDE DEF Def, h
    <3> QED BY <1>6, <1>7
  <2>2. getTable(key) = c[h]
    BY DEF getTable, Swap
  <2> QED BY <2>1, <2>2
\* Before step i the bytes from the i-th to the i-th from the end are in their places.
<1> DEFINE Good(i) == /\ u[i] \in Involutions
                      /\ \A j \in 1..n : i < j /\ j <= n - i => u[i][key[j]] = key[j]
           T == {i \in 0..h : Good(i)}
<1>9. 0 \in T
  <2>1. id \in Involutions
    BY DEF Involutions
  <2>2. \A j \in 1..n : key[j] \in Bytes
    BY <1>0
  <2> QED BY <1>0, <1>5, <2>1, <2>2
<1>10. \A i \in 1..h : i - 1 \in T => i \in T
  <2> SUFFICES ASSUME NEW i \in 1..h, Good(i - 1) PROVE Good(i)
    OBVIOUS
  <2> DEFINE t == u[i - 1]
             a == key[i]
             b == key[n - i + 1]
  <2> HIDE DEF h
  <2>1. i \in 1..n /\ n - i + 1 \in 1..n /\ i < n - i + 1 /\ a \in Bytes /\ b \in Bytes /\ a # b
    BY <1>1
  <2>2. t \in Involutions /\ t[a] = a /\ t[b] = b
    <3> DEFINE m == n - i + 1
    <3>1. i - 1 < i /\ i <= n - (i - 1) /\ i - 1 < m /\ m <= n - (i - 1) /\ i \in 1..n /\ m \in 1..n
      <4> HIDE DEF n
      <4> QED BY <1>0, <2>1
    <3>2. t \in Involutions /\ \A j \in 1..n : i - 1 < j /\ j <= n - (i - 1) => t[key[j]] = key[j]
      OBVIOUS
    <3> HIDE DEF t, m
    <3>3. t[key[i]] = key[i] /\ t[key[m]] = key[m]
      BY <3>1, <3>2
    <3> QED BY <3>2, <3>3 DEF m
  <2>3. u[i] = Swapped(t, a, b)
    BY <1>5 DEF Swap, Swapped
  <2>4. /\ u[i] \in Involutions
        /\ \A x \in Bytes : x # a /\ x # b => u[i][x] = t[x]
    <3>1. a \in Bytes /\ b \in Bytes /\ a # b /\ t \in Involutions /\ t[a] = a /\ t[b] = b
      BY <2>1, <2>2
    <3> HIDE DEF t, a, b
    <3> QED BY <2>3, <3>1, SwapTwo
  <2>5. ASSUME NEW j \in 1..n, i < j, j <= n - i
        PROVE  u[i][key[j]] = key[j]
    <3>1. j # i /\ j # n - i + 1 /\ i - 1 < j /\ j <= n - (i - 1)
      BY <1>0, <2>5
    <3>2. key[j] \in Bytes /\ key[j] # a /\ key[j] # b
      <4>1. \A p, q \in 1..n : p # q => key[p] # key[q]
        BY DEF Distinct
      <4>2. key[j] \in Bytes
        BY <1>0
      <4> DEFINE m == n - i + 1
      <4>3. m \in 1..n /\ i \in 1..n /\ j # i /\ j # m
        BY <2>1, <3>1
      <4> HIDE DEF m, n
      <4>4. key[j] # key[i] /\ key[j] # key[m]
        BY <4>1, <4>3
      <4> QED BY <4>2, <4>4 DEF m
    <3>3. t[key[j]] = key[j]
      BY <3>1
    <3> HIDE DEF t, a, b
    <3> QED BY <2>4, <3>2, <3>3
  <2> QED BY <2>4, <2>5
<1>11. h \in T
  <2> HIDE DEF T, h
  <2> QED BY <1>0, <1>9, <1>10, SetInduction, SMTT(60)
<1> QED BY <1>8, <1>11

\* What was shuffled twice with one key is what it was.
LEMMA ShuffleTwice ==
    ASSUME NEW data \in Seq(Bytes), NEW key \in Seq(Bytes)
    PROVE  /\ Shuffle(data, key) \in Seq(Bytes) /\ Len(Shuffle(data, key)) = Len(data)
           /\ Shuffle(Shuffle(data, key), key) = data
<1> DEFINE t == getTable(unique(key))
           n == Len(data)
           s == Shuffle(data, key)
<1>1. t \in [Bytes -> Bytes] /\ \A b \in Bytes : t[t[b]] = b
  BY UniqueIsDistinct, TableIsInvolution DEF Involutions
<1>2. n \in Nat /\ data \in [1..n -> Bytes] /\ DOMAIN data = 1..n
  BY LenProperties
<1> HIDE DEF t, n
<1>3. s = [i \in 1..n |-> t[data[i]]]
  BY <1>2 DEF Shuffle, t
<1>4. s \in [1..n -> Bytes] /\ DOMAIN s = 1..n
  BY <1>1, <1>2, <1>3
<1>5. Shuffle(s, key) = [i \in 1..n |-> t[s[i]]]
  <2> HIDE DEF s
  <2> QED BY <1>4 DEF Shuffle, t
<1>6. Shuffle(s, key) = data
  <2>1. \A i \in 1..n : t[s[i]] = data[i]
    BY <1>1, <1>2, <1>3
  <2> HIDE DEF s
  <2> QED BY <1>2, <1>5, <2>1
<1>7. s \in Seq(Bytes) /\ Len(s) = n
  <2> HIDE DEF s
  <2> QED BY <1>2, <1>4, LenProperties
<1> QED BY <1>6, <1>7 DEF n

-----------------------------------------------------------------------------
(* Pack and Unpack                                                          *)

\* The random keys: any bytes, as many as a key has.
KeyBytes == {key \in Seq(Bytes) : Len(key) = KEY_LENGTH}

LEMMA KeyNumbers ==
    ASSUME NEW key \in KeyBytes
    PROVE  KeyNumber(key) \in 0 .. Word16 - 1
<1> DEFINE a == key[4]
           b == key[5]
<1>1. a \in Bytes /\ b \in Bytes
  <2>1. key \in Seq(Bytes) /\ Len(key) >= 5
    BY PackerAssumption DEF KeyBytes
  <2> QED BY <2>1
<1> HIDE DEF a, b
<1>2. /\ a \in Nat /\ b \in Nat /\ Byte \in Nat /\ a <= Byte - 1 /\ b <= Byte - 1
  BY <1>1, WordNumbers DEF Bytes
<1>3. b * Byte \in Nat /\ b * Byte <= (Byte - 1) * Byte /\ (Byte - 1) * Byte = Byte * Byte - Byte
  <2>1. \A x, y, z \in Int : x <= y /\ z >= 0 => x * z <= y * z
    OBVIOUS
  <2>2. \A x \in Int : (x - 1) * x = x * x - x
    OBVIOUS
  <2>3. \A x, y \in Nat : x * y \in Nat
    OBVIOUS
  <2> QED BY <1>2, <2>1, <2>2, <2>3
<1>4. Byte * Byte \in Nat
  BY WordNumbers DEF Word16
<1> DEFINE c == b * Byte
           d == Byte * Byte
<1>5. c \in Nat /\ c <= d - Byte /\ d \in Nat
  BY <1>3, <1>4
<1> HIDE DEF c, d
<1>6. a + c \in 0 .. d - 1
  BY <1>2, <1>5
<1> QED BY <1>6 DEF KeyNumber, Word16, a, b, c, d

\* Deobfuscate finds the bytes again, for every key and every padding.
LEMMA DeobfuscateInvertsObfuscate ==
    ASSUME NEW input \in Seq(Bytes), NEW key \in KeyBytes, NEW r \in Draws
    PROVE  /\ Obfuscate(input, key, r) \in Seq(Bytes)
           /\ Deobfuscate(Obfuscate(input, key, r)) = input
<1> DEFINE n == Len(input)
           kn == KeyNumber(key)
           pp == PackedPadlen(kn, n, r)
           pl == Padlen(n, r)
           number == PutUint16(pp)
           pad == [i \in 1..pl |-> 0]
           body == Shuffle(input, key)
           head == key \o number
           front == head \o pad
           all == front \o body
<1>1. key \in Seq(Bytes) /\ Len(key) = KEY_LENGTH /\ KEY_LENGTH \in Nat
  BY PackerAssumption DEF KeyBytes
<1>2. n \in Nat
  OBVIOUS
<1>3. body \in Seq(Bytes) /\ Len(body) = n /\ Shuffle(body, key) = input
  BY <1>1, ShuffleTwice
<1> HIDE DEF n, body
<1>4. kn \in 0 .. Word16 - 1
  BY KeyNumbers
<1> HIDE DEF kn
<1>5. pl \in Nat /\ pp >= Offset(kn) /\ pp - Offset(kn) = pl /\ Offset(kn) \in Nat
  <2>1. pp >= Offset(kn) /\ pp - Offset(kn) = pl
    BY <1>2, <1>4, PaddingIsFound
  <2>2. pl \in 0 .. MAX_TARGET_LENGTH
    BY <1>2, PadlenFits
  <2>3. Offset(kn) \in Nat
    BY <1>4, OffsetFits
  <2> HIDE DEF pl, pp
  <2> QED BY <2>1, <2>2, <2>3
<1>6. pp \in 0 .. Word16 - 1
  <2>1. \A x \in Nat : x % Word16 \in 0 .. Word16 - 1
    BY WordNumbers
  <2>2. Offset(kn) + pl \in Nat
    BY <1>5
  <2> QED BY <2>1, <2>2 DEF PackedPadlen
<1> HIDE DEF pp, pl
<1>7. /\ number \in Seq(Bytes) /\ Len(number) = 2
      /\ \A b : b[1] = number[1] /\ b[2] = number[2] => Uint16(b) = pp
  BY <1>6, BigEndian
<1>8. pad \in Seq(Bytes) /\ Len(pad) = pl
  <2>1. 0 \in Bytes
    BY WordNumbers DEF Bytes
  <2>2. pad \in [1..pl -> Bytes]
    BY <2>1
  <2> HIDE DEF pad
  <2> QED BY <1>5, <2>2, LenProperties
<1> HIDE DEF number, pad
<1>9. number \in Seq(Bytes)
  BY <1>7
<1>10. /\ head \in Seq(Bytes) /\ Len(head) = Len(key) + Len(number)
       /\ \A i \in 1..Len(key) : head[i] = key[i]
       /\ \A i \in 1..Len(number) : head[Len(key) + i] = number[i]
  BY <1>1, <1>9
<1> HIDE DEF head
<1>11. head \in Seq(Bytes) /\ pad \in Seq(Bytes)
  BY <1>8, <1>10
<1>12. /\ front \in Seq(Bytes) /\ Len(front) = Len(head) + Len(pad)
       /\ \A i \in 1..Len(head) : front[i] = head[i]
  BY <1>11
<1> HIDE DEF front
<1>13. front \in Seq(Bytes) /\ body \in Seq(Bytes)
  BY <1>3, <1>12
<1>14. /\ all \in Seq(Bytes) /\ Len(all) = Len(front) + Len(body)
       /\ \A i \in 1..Len(front) : all[i] = front[i]
       /\ SubSeq(all, Len(front) + 1, Len(all)) = body
  BY <1>13, BehindHead
<1> HIDE DEF all
<1>15. Len(front) = KEY_LENGTH + 2 + pl /\ Len(all) = KEY_LENGTH + 2 + pl + n
  BY <1>1, <1>3, <1>7, <1>8, <1>10, <1>12, <1>14
<1>16. \A i \in 1..(KEY_LENGTH + 2) : all[i] = head[i]
  BY <1>1, <1>5, <1>7, <1>8, <1>10, <1>12, <1>14
<1>17. SubSeq(all, 1, KEY_LENGTH) = key
  <2> DEFINE a == SubSeq(all, 1, KEY_LENGTH)
  <2>1. all \in Seq(Bytes) /\ KEY_LENGTH \in 0 .. Len(all)
    BY <1>1, <1>2, <1>5, <1>14, <1>15
  <2>2. a \in Seq(Bytes) /\ Len(a) = KEY_LENGTH /\ \A i \in 1..KEY_LENGTH : a[i] = all[i]
    BY <2>1, CutInTwo
  <2> HIDE DEF a
  <2>3. \A i \in 1..KEY_LENGTH : a[i] = key[i]
    BY <1>1, <1>10, <1>16, <2>2
  <2>4. a = key
    BY <1>1, <2>2, <2>3, SeqEqual
  <2> QED BY <2>4 DEF a
<1>18. Uint16(SubSeq(all, KEY_LENGTH + 1, KEY_LENGTH + 2)) = pp
  <2> DEFINE a == SubSeq(all, KEY_LENGTH + 1, KEY_LENGTH + 2)
  <2>1. all \in Seq(Bytes) /\ KEY_LENGTH + 2 <= Len(all) /\ KEY_LENGTH \in Nat /\ 2 \in Nat
    BY <1>1, <1>2, <1>5, <1>14, <1>15
  <2>2. a \in Seq(Bytes) /\ Len(a) = 2 /\ \A i \in 1..2 : a[i] = all[KEY_LENGTH + i]
    BY <2>1, Middle
  <2> HIDE DEF a
  <2>3. a[1] = number[1] /\ a[2] = number[2]
    <3>1. a[1] = all[KEY_LENGTH + 1] /\ a[2] = all[KEY_LENGTH + 2]
      BY <2>2
    <3>2. head[KEY_LENGTH + 1] = number[1] /\ head[KEY_LENGTH + 2] = number[2]
      <4>1. 1 \in 1..Len(number) /\ 2 \in 1..Len(number)
        BY <1>7
      <4> QED BY <1>1, <1>10, <4>1
    <3>3. KEY_LENGTH + 1 \in 1..(KEY_LENGTH + 2) /\ KEY_LENGTH + 2 \in 1..(KEY_LENGTH + 2)
      BY <1>1
    <3> QED BY <1>16, <3>1, <3>2, <3>3
  <2> QED BY <1>7, <2>3 DEF a
<1>19. KEY_LENGTH + 2 + pp - Offset(kn) = Len(front)
  BY <1>1, <1>5, <1>6, <1>15
<1>20. Deobfuscate(all) = Shuffle(body, key)
  <2>1. ~ \/ Len(all) < KEY_LENGTH + 2
          \/ pp < Offset(kn)
          \/ Len(all) < Len(front)
    BY <1>1, <1>2, <1>5, <1>6, <1>15
  <2> DEFINE start == KEY_LENGTH + 2 + pp - Offset(kn)
  <2>2. start = Len(front)
    BY <1>19
  <2>3. Deobfuscate(all) =
            IF \/ Len(all) < KEY_LENGTH + 2 \/ pp < Offset(kn) \/ Len(all) < start
            THEN Error ELSE Shuffle(SubSeq(all, start + 1, Len(all)), key)
    BY <1>17, <1>18, Zenon DEF Deobfuscate, kn
  <2> HIDE DEF start
  <2> QED BY <1>14, <2>1, <2>2, <2>3
<1>21. Obfuscate(input, key, r) = all
  BY DEF Obfuscate, all, front, head, number, pad, body, pp, pl, kn, n
<1> QED BY <1>3, <1>14, <1>20, <1>21

\* Decrypt finds the bytes again, for every password.
LEMMA DecryptInvertsEncryptOfBytes ==
    ASSUME NEW input \in Seq(Bytes), input # <<>>, Len(input) < Word32, NEW k, MixIsInteger(k)
    PROVE  Encrypt(input, k) \in Seq(Bytes) /\ Decrypt(Encrypt(input, k), k) = input
<1> DEFINE n == (Len(input) + 3) \div 4 + 1
           v == toUint32s(input, TRUE)
           w == encrypt(v, k)
           b == toBytes(w, FALSE)
<1>1. n \in Nat /\ n >= 2
  <2>1. Len(input) \in Nat /\ Len(input) >= 1
    BY EmptySeq
  <2> DEFINE l == Len(input)
  <2> HIDE DEF l
  <2>2. l \in Nat /\ l >= 1
    BY <2>1 DEF l
  <2>3. (l + 3) \div 4 + 1 \in Nat /\ (l + 3) \div 4 + 1 >= 2
    BY <2>2
  <2> QED BY <2>3 DEF l
<1>2. v \in Vectors(n) /\ toBytes(v, TRUE) = input
  BY BytesAgain DEF Vectors
<1> HIDE DEF n, v
<1>3. w \in Vectors(n) /\ decrypt(w, k) = v
  BY <1>1, <1>2, DecryptInvertsEncrypt
<1> HIDE DEF w
<1>4. w \in [1..n -> Words]
  BY <1>3 DEF Vectors
<1>5. b \in [1..(4 * n) -> Bytes] /\ toUint32s(b, FALSE) = w
  BY <1>1, <1>4, WordsToBytes, WordsAgain
<1> HIDE DEF b
<1>6. b \in Seq(Bytes) /\ Len(b) = 4 * n
  <2>1. 4 * n \in Nat
    BY <1>1
  <2> QED BY <1>5, <2>1, LenProperties
<1>7. b # <<>>
  BY <1>1, <1>6
<1>8. Encrypt(input, k) = b
  BY DEF Encrypt, b, w, v
<1>9. Decrypt(b, k) = input
  BY <1>2, <1>3, <1>5, <1>7 DEF Decrypt
<1> QED BY <1>6, <1>8, <1>9

\* No sequence of bytes is Error.
LEMMA BytesAreNoError == Error \notin Seq(Bytes)
<1>1. Bytes \subseteq Nat
  BY WordNumbers DEF Bytes
<1>2. Seq(Bytes) \subseteq Seq(Nat)
  BY <1>1, SeqMonotonic
<1> QED BY <1>2, PackerAssumption

\* The bytes of a message.
LEMMA EncodedLength ==
    ASSUME NEW msg \in Messages, Encodable(msg)
    PROVE  Len(EncodeMessage(msg)) =
               17 + Len(msg.strings[1]) + Len(msg.strings[2]) + Len(msg.strings[3])
                  + Len(msg.strings[4]) + Len(msg.strings[5]) + Len(msg.data)
<1> DEFINE s(i) == msg.strings[i]
           w(i) == writeString(s(i))
           d == writeBytes(msg.data)
           bytes == EncodeMessage(msg)
           Fields(head, t1, t2, t3, t4, t5, t6) ==
                /\ head = <<MESSAGE_VERSION, msg.cmd, IF msg.ok THEN 1 ELSE 0>>
                /\ bytes \o <<>> = head \o t1
                /\ t1 = w(1) \o t2
                /\ t2 = w(2) \o t3
                /\ t3 = w(3) \o t4
                /\ t4 = w(4) \o t5
                /\ t5 = w(5) \o t6
                /\ t6 = d \o <<>>
<1>0. <<>> \in Seq(Bytes)
  OBVIOUS
<1>1. PICK head, t1, t2, t3, t4, t5, t6 \in Seq(Bytes) : Fields(head, t1, t2, t3, t4, t5, t6)
  BY <1>0, Encoding, ZenonT(90)
<1>2. bytes \in Seq(Bytes)
  BY <1>0, Encoding
<1>3. Len(head) = 3
  <2>1. head = <<MESSAGE_VERSION, msg.cmd, IF msg.ok THEN 1 ELSE 0>>
    BY <1>1
  <2> QED BY <2>1
<1>4. ASSUME NEW i \in 1..5
      PROVE  w(i) \in Seq(Bytes) /\ Len(w(i)) = 2 + Len(s(i)) /\ Len(s(i)) \in Nat
  <2>1. s(i) \in Seq(Bytes) /\ Len(s(i)) <= MAX_STRING_LENGTH
    BY DEF Messages, Encodable
  <2> DEFINE reader == [err |-> FALSE]
  <2>2. reader.err = FALSE
    OBVIOUS
  <2>3. Len(s(i)) \in Nat
    <3> HIDE DEF s
    <3> QED BY <2>1
  <2> HIDE DEF s
  <2> QED BY <2>1, <2>2, <2>3, <1>0, FieldsAgain
<1>5. d \in Seq(Bytes) /\ Len(d) = 4 + Len(msg.data) /\ Len(msg.data) \in Nat
  <2>1. msg.data \in Seq(Bytes) /\ Len(msg.data) \in Words
    BY DEF Messages, Encodable
  <2> DEFINE reader == [err |-> FALSE]
  <2>2. reader.err = FALSE
    OBVIOUS
  <2>3. Len(msg.data) \in Nat
    BY <2>1
  <2> QED BY <2>1, <2>2, <2>3, <1>0, FieldsAgain
<1> HIDE DEF s, w, d, bytes
<1>6. \A a, b \in Seq(Bytes) : Len(a \o b) = Len(a) + Len(b)
  OBVIOUS
<1>7. /\ Len(head \o t1) = Len(head) + Len(t1)
      /\ Len(w(1) \o t2) = Len(w(1)) + Len(t2) /\ Len(w(2) \o t3) = Len(w(2)) + Len(t3)
      /\ Len(w(3) \o t4) = Len(w(3)) + Len(t4) /\ Len(w(4) \o t5) = Len(w(4)) + Len(t5)
      /\ Len(w(5) \o t6) = Len(w(5)) + Len(t6)
  <2>1. w(1) \in Seq(Bytes) /\ w(2) \in Seq(Bytes) /\ w(3) \in Seq(Bytes) /\ w(4) \in Seq(Bytes) /\ w(5) \in Seq(Bytes)
    BY <1>4
  <2> HIDE DEF Fields
  <2> QED BY <1>6, <2>1, Zenon
<1>8. bytes \o <<>> = bytes /\ d \o <<>> = d
  BY <1>2, <1>5, ConcatEmptySeq
<1>9. /\ Len(bytes) = Len(head) + Len(t1)
      /\ Len(t1) = Len(w(1)) + Len(t2) /\ Len(t2) = Len(w(2)) + Len(t3)
      /\ Len(t3) = Len(w(3)) + Len(t4) /\ Len(t4) = Len(w(4)) + Len(t5)
      /\ Len(t5) = Len(w(5)) + Len(t6) /\ Len(t6) = Len(d)
  BY <1>1, <1>7, <1>8, Zenon
<1>10. Len(bytes) = 17 + Len(s(1)) + Len(s(2)) + Len(s(3)) + Len(s(4)) + Len(s(5)) + Len(msg.data)
  <2>1. \A i \in 1..5 : Len(w(i)) = 2 + Len(s(i)) /\ Len(s(i)) \in Nat
    BY <1>4
  <2>2. /\ Len(w(1)) = 2 + Len(s(1)) /\ Len(s(1)) \in Nat /\ Len(w(2)) = 2 + Len(s(2)) /\ Len(s(2)) \in Nat
        /\ Len(w(3)) = 2 + Len(s(3)) /\ Len(s(3)) \in Nat /\ Len(w(4)) = 2 + Len(s(4)) /\ Len(s(4)) \in Nat
        /\ Len(w(5)) = 2 + Len(s(5)) /\ Len(s(5)) \in Nat
    BY <2>1
  <2>3. Len(d) = 4 + Len(msg.data) /\ Len(msg.data) \in Nat
    BY <1>5
  <2> DEFINE a == Len(s(1))
             b == Len(s(2))
             c == Len(s(3))
             e == Len(s(4))
             f == Len(s(5))
             g == Len(msg.data)
             l == Len(bytes)
             m1 == Len(t1)
             m2 == Len(t2)
             m3 == Len(t3)
             m4 == Len(t4)
             m5 == Len(t5)
             m6 == Len(t6)
  <2>4. /\ a \in Nat /\ b \in Nat /\ c \in Nat /\ e \in Nat /\ f \in Nat /\ g \in Nat
        /\ l = 3 + m1 /\ m1 = 2 + a + m2 /\ m2 = 2 + b + m3 /\ m3 = 2 + c + m4
        /\ m4 = 2 + e + m5 /\ m5 = 2 + f + m6 /\ m6 = 4 + g
    BY <1>3, <1>9, <2>2, <2>3, Zenon
  <2> HIDE DEF a, b, c, e, f, g, l, m1, m2, m3, m4, m5, m6
  <2>5. l = 17 + a + b + c + e + f + g
    BY <2>4
  <2> QED BY <2>5, Zenon DEF a, b, c, e, f, g, l
<1> QED BY <1>10 DEF bytes, s

\* What can be packed: the strings and the whole fit their numbers.
Packable(msg) ==
    msg \in Messages /\ Encodable(msg) /\ Len(EncodeMessage(msg)) < Word32

\* Unpack returns the message that was packed, for every message that can be, every
\* password, every random key and every padding.
THEOREM UnpackReturnsThePacked ==
    ASSUME NEW msg, Packable(msg), NEW password, MixIsInteger(password),
           NEW key \in KeyBytes, NEW r \in Draws
    PROVE  /\ Pack(msg, password, key, r) \in Seq(Bytes)
           /\ Unpack(Pack(msg, password, key, r), password) = msg
<1> DEFINE bytes == EncodeMessage(msg)
           e == Encrypt(bytes, password)
           o == Obfuscate(e, key, r)
<1>1. msg \in Messages /\ Encodable(msg) /\ Len(bytes) < Word32
  BY DEF Packable
<1>2. <<>> \in Seq(Bytes)
  OBVIOUS
<1>3. bytes \in Seq(Bytes)
  BY <1>1, <1>2, Encoding
<1>4. bytes # <<>>
  <2>1. \A i \in 1..5 : Len(msg.strings[i]) \in Nat
    BY <1>1 DEF Messages
  <2>2. Len(msg.data) \in Nat
    BY <1>1 DEF Messages
  <2>3. /\ Len(msg.strings[1]) \in Nat /\ Len(msg.strings[2]) \in Nat /\ Len(msg.strings[3]) \in Nat
        /\ Len(msg.strings[4]) \in Nat /\ Len(msg.strings[5]) \in Nat
    BY <2>1
  <2>4. Len(bytes) >= 17
    <3> HIDE DEF bytes
    <3>1. Len(bytes) = 17 + Len(msg.strings[1]) + Len(msg.strings[2]) + Len(msg.strings[3])
                  + Len(msg.strings[4]) + Len(msg.strings[5]) + Len(msg.data)
      BY <1>1, EncodedLength DEF bytes
    <3> DEFINE a == Len(msg.strings[1])
               b == Len(msg.strings[2])
               c == Len(msg.strings[3])
               d == Len(msg.strings[4])
               f == Len(msg.strings[5])
               g == Len(msg.data)
               l == Len(bytes)
    <3>2. /\ a \in Nat /\ b \in Nat /\ c \in Nat /\ d \in Nat /\ f \in Nat /\ g \in Nat
          /\ l = 17 + a + b + c + d + f + g
      BY <2>2, <2>3, <3>1, Zenon
    <3> HIDE DEF a, b, c, d, f, g, l
    <3>3. l >= 17
      BY <3>2
    <3> QED BY <3>3 DEF l
  <2> HIDE DEF bytes
  <2>5. Len(<<>>) = 0
    OBVIOUS
  <2> QED BY <2>4, <2>5
<1>5. DecodeMessage(bytes) = msg
  <2>1. bytes \o <<>> = bytes
    BY <1>3, ConcatEmptySeq
  <2>2. DecodeMessage(bytes \o <<>>) = msg
    BY <1>1, <1>2, DecodeInvertsEncode
  <2> QED BY <2>1, <2>2
<1> HIDE DEF bytes
<1>6. e \in Seq(Bytes) /\ Decrypt(e, password) = bytes
  BY <1>1, <1>3, <1>4, DecryptInvertsEncryptOfBytes
<1> HIDE DEF e
<1>7. o \in Seq(Bytes) /\ Deobfuscate(o) = e
  BY <1>6, DeobfuscateInvertsObfuscate
<1> HIDE DEF o
<1>8. Pack(msg, password, key, r) = o
  BY <1>3, BytesAreNoError DEF Pack, bytes, e, o
<1>9. Unpack(o, password) = msg
  BY <1>5, <1>6, <1>7, BytesAreNoError DEF Unpack
<1> QED BY <1>7, <1>8, <1>9

\* A message that was cut anywhere, or has anything behind its end, is an error.
THEOREM OnlyWholeIsDecoded ==
    ASSUME NEW msg, Packable(msg)
    PROVE  /\ \A n \in 0 .. Len(EncodeMessage(msg)) - 1 :
                 DecodeMessage(SubSeq(EncodeMessage(msg), 1, n)) = Error
           /\ \A t \in Seq(Bytes) : t # <<>> => DecodeMessage(EncodeMessage(msg) \o t) = Error
BY DecodeOfCut, DecodeInvertsEncode DEF Packable
================================================================================
