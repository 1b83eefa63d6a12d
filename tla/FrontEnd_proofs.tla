---------------------------- MODULE FrontEnd_proofs ----------------------------
(***************************************************************************)
(* Proofs about FrontEnd, for any clients that speak their protocol, any   *)
(* sizes of the buffers and any password.                                  *)
(*                                                                         *)
(* IInv says where the bytes of the dialogue are: sock and unsent together *)
(* are what is left of the current part (SocksInv, ConnectInv), and of a   *)
(* plain request the header, the pieces and what the bufio.Reader and the  *)
(* bufio.Writer hold add up to it (HttpInv, PlainInv).  Each read moves    *)
(* bytes from one sequence to the one before it (lemma Moves).  OrderInv   *)
(* adds that what the exit received comes before all of that: without a    *)
(* hole, or, of a request with a body, in the order it was sent.           *)
(***************************************************************************)
EXTENDS FrontEnd, Packer_proofs

-----------------------------------------------------------------------------
(* Sequences                                                                *)

\* Bytes that move from one sequence to the one before it.
LEMMA Moves ==
    ASSUME NEW S, NEW a \in Seq(S), NEW b \in Seq(S), NEW n \in 0 .. Len(b)
    PROVE  /\ a \o SubSeq(b, 1, n) \in Seq(S) /\ SubSeq(b, n + 1, Len(b)) \in Seq(S)
           /\ (a \o SubSeq(b, 1, n)) \o SubSeq(b, n + 1, Len(b)) = a \o b
<1> DEFINE c == SubSeq(b, 1, n)
           d == SubSeq(b, n + 1, Len(b))
<1>1. c \in Seq(S) /\ d \in Seq(S) /\ Len(c) = n /\ Len(d) = Len(b) - n /\ c \o d = b
  BY CutInTwo
<1> HIDE DEF c, d
<1>2. c \in Seq(S) /\ d \in Seq(S)
  BY <1>1
<1>3. a \o c \in Seq(S)
  BY <1>2
<1>4. (a \o c) \o d = a \o (c \o d)
  BY <1>2, ConcatAssociative, SMTT(60)
<1> QED BY <1>1, <1>3, <1>4, Zenon DEF c, d

LEMMA MovesAsMany ==
    ASSUME NEW S, NEW a \in Seq(S), NEW b \in Seq(S), NEW n \in 0 .. Len(b)
    PROVE  /\ Len(a \o SubSeq(b, 1, n)) = Len(a) + n
           /\ Len(SubSeq(b, n + 1, Len(b))) = Len(b) - n
<1> DEFINE c == SubSeq(b, 1, n)
           d == SubSeq(b, n + 1, Len(b))
<1>1. c \in Seq(S) /\ Len(c) = n /\ Len(d) = Len(b) - n
  BY CutInTwo
<1> HIDE DEF c, d
<1>2. c \in Seq(S)
  BY <1>1
<1>3. Len(a \o c) = Len(a) + Len(c)
  BY <1>2
<1> QED BY <1>1, <1>3, Zenon DEF c, d

\* Nothing but the order of the brackets.
LEMMA Brackets ==
    ASSUME NEW S, NEW a \in Seq(S), NEW b \in Seq(S), NEW c \in Seq(S)
    PROVE  /\ a \o (b \o c) \in Seq(S) /\ (a \o b) \o c \in Seq(S)
           /\ a \o b \in Seq(S) /\ b \o c \in Seq(S)
           /\ a \o (b \o c) = (a \o b) \o c
<1>1. a \o b \in Seq(S) /\ b \o c \in Seq(S)
  BY ConcatProperties
<1>2. a \o (b \o c) \in Seq(S) /\ (a \o b) \o c \in Seq(S)
  BY <1>1, ConcatProperties
<1> QED BY <1>1, <1>2, ConcatAssociative

\* A beginning is what something follows.
LEMMA Beginning ==
    ASSUME NEW S, NEW s \in Seq(S), NEW t \in Seq(S)
    PROVE  /\ IsPrefix(s, s \o t)
           /\ IsPrefix(s, t) => \E r \in Seq(S) : t = s \o r
<1>1. IsPrefix(s, s \o t)
  <2>1. SubSeq(s \o t, 1, Len(s)) = s
    BY Parts
  <2>2. Len(s) \in Nat /\ Len(t) \in Nat /\ Len(s \o t) = Len(s) + Len(t)
    OBVIOUS
  <2>3. SubSeq(s, 1, Len(s)) = s
    OBVIOUS
  <2> DEFINE l == Len(s)
             both == s \o t
  <2>4. l <= Len(both)
    BY <2>2
  <2> HIDE DEF both
  <2> QED BY <2>1, <2>3, <2>4, Zenon DEF IsPrefix, both
<1>2. ASSUME IsPrefix(s, t) PROVE \E r \in Seq(S) : t = s \o r
  <2>1. Len(s) \in 0 .. Len(t) /\ SubSeq(s, 1, Len(s)) = SubSeq(t, 1, Len(s))
    BY <1>2 DEF IsPrefix
  <2>2. SubSeq(s, 1, Len(s)) = s
    OBVIOUS
  <2> DEFINE n == Len(s)
             r == SubSeq(t, n + 1, Len(t))
  <2> HIDE DEF n
  <2>3. n \in 0 .. Len(t)
    BY <2>1 DEF n
  <2>4. r \in Seq(S) /\ SubSeq(t, 1, n) \o r = t
    BY <2>3, CutInTwo
  <2> HIDE DEF r
  <2> QED BY <2>1, <2>2, <2>4, Zenon DEF n
<1> QED BY <1>1, <1>2

LEMMA BeginningOfBeginning ==
    ASSUME NEW S, NEW s \in Seq(S), NEW t \in Seq(S), NEW u \in Seq(S)
    PROVE  /\ IsPrefix(s, t) /\ IsPrefix(t, u) => IsPrefix(s, u)
           /\ IsPrefix(s \o t, u) => IsPrefix(s, u)
<1>1. ASSUME NEW a \in Seq(S), IsPrefix(s, a), IsPrefix(a, u) PROVE IsPrefix(s, u)
  <2>1. PICK b \in Seq(S) : a = s \o b
    BY <1>1, Beginning
  <2>2. PICK c \in Seq(S) : u = a \o c
    BY <1>1, Beginning
  <2>3. b \o c \in Seq(S) /\ u = s \o (b \o c)
    <3>1. b \o c \in Seq(S) /\ s \o (b \o c) = (s \o b) \o c
      BY Brackets, SMTT(60)
    <3> QED BY <2>1, <2>2, <3>1, Zenon
  <2> QED BY <2>3, Beginning
<1>2. s \o t \in Seq(S)
  BY ConcatProperties
<1>3. IsPrefix(s, s \o t)
  BY Beginning
<1> QED BY <1>1, <1>2, <1>3, Zenon

\* Sequences one behind the other, the first i of them and one more.
LEMMA Flattened ==
    ASSUME NEW S, NEW parts \in Seq(Seq(S)), NEW n, n = Len(parts), n >= 1
    PROVE  /\ \A i \in 1..n : FlattenSeq(SubSeq(parts, 1, i)) \in Seq(S)
           /\ FlattenSeq(SubSeq(parts, 1, 1)) = parts[1]
           /\ \A i \in 1 .. n - 1 :
                 FlattenSeq(SubSeq(parts, 1, i + 1)) = FlattenSeq(SubSeq(parts, 1, i)) \o parts[i + 1]
           /\ FlattenSeq(SubSeq(parts, 1, n)) = FlattenSeq(parts)
<1> DEFINE F == [x \in (1..n) \X Seq(S) |-> IF x[1] = 1 THEN parts[1] ELSE x[2] \o parts[x[1]]]
<1>0. n \in Nat /\ <<>> \in Seq(S) /\ 1 \in 1..n
  OBVIOUS
<1>1. \A i \in 1..n : parts[i] \in Seq(S)
  OBVIOUS
<1>2. \A i \in 1..n, s \in Seq(S) :
         /\ F[<<i, s>>] = IF i = 1 THEN parts[1] ELSE s \o parts[i]
         /\ F[<<i, s>>] \in Seq(S)
  <2> SUFFICES ASSUME NEW i \in 1..n, NEW s \in Seq(S)
               PROVE  (IF i = 1 THEN parts[1] ELSE s \o parts[i]) \in Seq(S)
    OBVIOUS
  <2> QED BY <1>0, <1>1, ConcatProperties
<1>3. PICK u : IsRun(u, Seq(S), n, F, <<>>)
  <2> HIDE DEF F
  <2> QED BY <1>0, <1>2, Iteration
<1>4. \A i \in 0..n : u[i] \in Seq(S)
  BY <1>3 DEF IsRun
<1>5. \A i \in 1..n : u[i] = IF i = 1 THEN parts[1] ELSE u[i - 1] \o parts[i]
  <2> SUFFICES ASSUME NEW i \in 1..n PROVE u[i] = IF i = 1 THEN parts[1] ELSE u[i - 1] \o parts[i]
    OBVIOUS
  <2>1. i - 1 \in 0..n
    BY <1>0
  <2>2. u[i - 1] \in Seq(S)
    BY <1>4, <2>1
  <2>3. u[i] = F[<<i, u[i - 1]>>]
    BY <1>3 DEF IsRun
  <2> HIDE DEF F
  <2> QED BY <1>2, <2>2, <2>3
<1>6. ASSUME NEW s, NEW m \in 1..n, Len(s) = m, \A i \in 1..m : s[i] = parts[i]
      PROVE  FlattenSeq(s) = u[m]
  <2> DEFINE Def(w) == [i \in 1..m |-> IF i = 1 THEN s[i] ELSE w[i - 1] \o s[i]]
             c == CHOOSE w : w = Def(w)
             v == [i \in 1..m |-> u[i]]
  <2>1. v = Def(v)
    <3> SUFFICES ASSUME NEW i \in 1..m PROVE u[i] = Def(v)[i]
      OBVIOUS
    <3>1. i \in 1..n /\ s[i] = parts[i] /\ 1 \in 1..m /\ s[1] = parts[1]
      BY <1>6
    <3>2. CASE i = 1
      BY <1>5, <3>1, <3>2
    <3>3. CASE i # 1
      <4>1. i - 1 \in 1..m
        BY <3>3
      <4>2. v[i - 1] = u[i - 1]
        BY <4>1
      <4>3. u[i] = u[i - 1] \o parts[i]
        BY <1>5, <3>1, <3>3
      <4> QED BY <3>1, <3>3, <4>2, <4>3
    <3> QED BY <3>2, <3>3
  <2>2. c = Def(c)
    <3> HIDE DEF Def
    <3> QED BY <2>1
  <2>3. \A i \in 1..m : c[i] = IF i = 1 THEN s[i] ELSE c[i - 1] \o s[i]
    <3> HIDE DEF c
    <3> QED BY <2>2
  <2> HIDE DEF c
  <2> DEFINE T == {i \in 0..m : i = 0 \/ c[i] = u[i]}
  <2>4. m \in Nat /\ m >= 1 /\ m <= n
    BY <1>0
  <2>5. 0 \in T
    BY <2>4
  <2>6. ASSUME NEW i \in 1..m, i - 1 \in T PROVE i \in T
    <3>1. i \in 1..n /\ s[i] = parts[i] /\ i \in 0..m
      BY <1>6, <2>4
    <3>2. CASE i = 1
      BY <1>5, <2>3, <3>1, <3>2
    <3>3. CASE i # 1
      <4>1. c[i - 1] = u[i - 1]
        BY <2>6, <3>3
      <4> QED BY <1>5, <2>3, <3>1, <3>3, <4>1
    <3> QED BY <3>2, <3>3
  <2>7. m \in T
    <3> HIDE DEF T
    <3>1. m \in 0..m
      BY <2>4
    <3> QED BY <2>4, <2>5, <2>6, <3>1, SetInduction
  <2>8. c[m] = u[m]
    BY <2>4, <2>7
  <2>9. FlattenSeq(s) = c[m]
    BY <1>6, <2>4 DEF FlattenSeq, c
  <2> QED BY <2>8, <2>9
<1>7. \A i \in 1..n : FlattenSeq(SubSeq(parts, 1, i)) = u[i]
  <2> SUFFICES ASSUME NEW i \in 1..n PROVE FlattenSeq(SubSeq(parts, 1, i)) = u[i]
    OBVIOUS
  <2> DEFINE s == SubSeq(parts, 1, i)
  <2>1. Len(s) = i /\ \A j \in 1..i : s[j] = parts[j]
    <3>1. i \in 0 .. Len(parts)
      BY <1>0
    <3> QED BY <3>1, CutInTwo
  <2> HIDE DEF s
  <2>2. FlattenSeq(s) = u[i]
    BY <1>6, <2>1
  <2> QED BY <2>2 DEF s
<1>8. FlattenSeq(parts) = u[n]
  <2>1. n \in 1..n
    BY <1>0
  <2> QED BY <1>6, <2>1
<1>9. ASSUME NEW i \in 1 .. n - 1
      PROVE  u[i + 1] = u[i] \o parts[i + 1]
  <2>1. i + 1 \in 1..n /\ i + 1 # 1 /\ (i + 1) - 1 = i
    BY <1>0
  <2> QED BY <1>5, <2>1
<1>10. \A i \in 1..n : i \in 0..n
  BY <1>0
<1>11. \A i \in 1..n - 1 : i \in 1..n /\ i + 1 \in 1..n
  BY <1>0
<1>12. n \in 1..n
  BY <1>0
<1> QED BY <1>0, <1>4, <1>5, <1>7, <1>8, <1>9, <1>10, <1>11, <1>12

-----------------------------------------------------------------------------
(* The requests                                                             *)

\* A request that is accepted after nr bytes has the address of the one that was
\* sent, whatever is behind these bytes in the buffer.
LEMMA AddressFromFirstBytes ==
    ASSUME NEW b \in Seq(Nat), NEW p \in Seq(Nat), NEW nr \in Nat,
           nr <= Len(b), nr <= Len(p), \A i \in 1..nr : b[i] = p[i], RequestOk(nr, b)
    PROVE  /\ AddressOf(b) = AddressOf(p)
           /\ AddressOf(p) \in Seq(Nat) /\ Len(AddressOf(p)) <= Len(p)
           /\ RequestOk(Len(p), p) /\ Needs(p) <= nr
<1>1. /\ nr >= 4 /\ b[1] = 5 /\ b[2] = 1 /\ b[4] \in {1, 3, 4} /\ (b[4] = 3 => nr >= 5)
      /\ nr >= Needs(b)
  BY DEF RequestOk
<1>2. Len(b) \in Nat /\ Len(p) \in Nat
  OBVIOUS
<1>3. b[1] = p[1] /\ b[2] = p[2] /\ b[4] = p[4] /\ (b[4] = 3 => b[5] = p[5] /\ p[5] \in Nat)
  <2>1. 1 \in 1..nr /\ 2 \in 1..nr /\ 4 \in 1..nr /\ (b[4] = 3 => 5 \in 1..nr /\ 5 \in 1..Len(p))
    BY <1>1, <1>2
  <2>2. b[1] = p[1] /\ b[2] = p[2] /\ b[4] = p[4]
    BY <2>1
  <2>3. ASSUME b[4] = 3 PROVE b[5] = p[5] /\ p[5] \in Nat
    <3>1. 5 \in 1..nr /\ 5 \in 1..Len(p)
      BY <2>1, <2>3
    <3> QED BY <3>1
  <2> QED BY <2>2, <2>3
<1> DEFINE first == IF p[4] = 3 THEN 6 ELSE 5
           last_ == CASE p[4] = 1 -> 10 [] p[4] = 3 -> 5 + p[5] + 2 [] p[4] = 4 -> 22
<1>4. first \in {5, 6} /\ last_ \in Nat /\ first <= last_ /\ last_ <= nr /\ Needs(p) = last_ /\ Needs(b) = last_
  <2>1. CASE p[4] = 1
    <3>1. first = 5 /\ last_ = 10
      BY <2>1
    <3>2. Needs(p) = 10
      BY <2>1 DEF Needs
    <3>3. Needs(b) = 10
      BY <1>3, <2>1 DEF Needs
    <3>4. nr >= 10
      BY <1>1, <1>3, <2>1, <3>3
    <3> HIDE DEF first, last_
    <3> QED BY <3>1, <3>2, <3>3, <3>4
  <2>2. CASE p[4] = 3
    <3>1. first = 6 /\ last_ = 5 + p[5] + 2
      BY <2>2
    <3>2. Needs(p) = 5 + p[5] + 2
      BY <2>2 DEF Needs
    <3>3. Needs(b) = 5 + p[5] + 2
      BY <1>3, <2>2, SMTT(60) DEF Needs
    <3>4. nr >= 5 + p[5] + 2 /\ p[5] \in Nat
      BY <1>1, <1>3, <2>2, <3>3
    <3> DEFINE y == p[5]
    <3>5. first = 6 /\ last_ = 5 + y + 2 /\ Needs(p) = 5 + y + 2 /\ Needs(b) = 5 + y + 2
      BY <3>1, <3>2, <3>3, Zenon
    <3>6. y \in Nat /\ nr >= 5 + y + 2
      BY <3>4
    <3> HIDE DEF first, last_, y
    <3> QED BY <3>5, <3>6
  <2>3. CASE p[4] = 4
    <3>1. first = 5 /\ last_ = 22
      BY <2>3
    <3>2. Needs(p) = 22
      BY <2>3 DEF Needs
    <3>3. Needs(b) = 22
      BY <1>3, <2>3 DEF Needs
    <3>4. nr >= 22
      BY <1>1, <1>3, <2>3, <3>3
    <3> HIDE DEF first, last_
    <3> QED BY <3>1, <3>2, <3>3, <3>4
  <2>4. p[4] \in {1, 3, 4}
    BY <1>1, <1>3
  <2> QED BY <2>1, <2>2, <2>3, <2>4
<1>5. AddressOf(b) = SubSeq(b, first, last_) /\ AddressOf(p) = SubSeq(p, first, last_)
  BY <1>3 DEF AddressOf
<1> HIDE DEF first, last_
<1> DEFINE m == first - 1
           n == last_ - m
           q == SubSeq(p, first, last_)
           c == SubSeq(b, first, last_)
<1>6. /\ m \in Nat /\ n \in Nat /\ m + 1 = first /\ m + n = last_ /\ n <= nr /\ m + n <= nr
      /\ m + n <= Len(b) /\ m + n <= Len(p)
  BY <1>2, <1>4
<1> HIDE DEF m, n
<1>7. /\ SubSeq(p, m + 1, m + n) \in Seq(Nat) /\ Len(SubSeq(p, m + 1, m + n)) = n
      /\ \A i \in 1..n : SubSeq(p, m + 1, m + n)[i] = p[m + i]
  BY <1>6, Middle
<1>8. /\ SubSeq(b, m + 1, m + n) \in Seq(Nat) /\ Len(SubSeq(b, m + 1, m + n)) = n
      /\ \A i \in 1..n : SubSeq(b, m + 1, m + n)[i] = b[m + i]
  BY <1>6, Middle, SMTT(60)
<1>9. /\ q \in Seq(Nat) /\ Len(q) = n /\ \A i \in 1..n : q[i] = p[m + i]
      /\ c \in Seq(Nat) /\ Len(c) = n /\ \A i \in 1..n : c[i] = b[m + i]
  BY <1>6, <1>7, <1>8
<1> HIDE DEF q, c
<1>10. c = q
  <2>1. \A i \in 1..n : m + i \in 1..nr
    BY <1>6
  <2>2. Len(c) = Len(q) /\ \A i \in 1..Len(c) : c[i] = q[i]
    BY <1>9, <2>1
  <2> QED BY <1>9, <2>2, SeqEqual
<1>11. RequestOk(Len(p), p)
  <2> DEFINE l == Len(p)
  <2>1. l \in Nat /\ nr <= l
    BY <1>2
  <2> HIDE DEF l
  <2>2. l >= 4 /\ (b[4] = 3 => l >= 5) /\ l >= Needs(p)
    BY <1>1, <1>4, <2>1
  <2> QED BY <1>1, <1>3, <2>2 DEF RequestOk, l
<1>12. Len(q) <= Len(p)
  BY <1>2, <1>6, <1>9
<1> QED BY <1>4, <1>5, <1>9, <1>10, <1>11, <1>12 DEF c, q

\* A header or a body in pieces.
LEMMA Pieces ==
    ASSUME NEW bytes \in Seq(Bytes), Len(bytes) >= 1, NEW n \in Nat, n >= 1
    PROVE  /\ InPieces(bytes, n) \in Seq(Seq(Bytes)) /\ InPieces(bytes, n) # <<>>
           /\ \A i \in DOMAIN InPieces(bytes, n) : Len(InPieces(bytes, n)[i]) \in 1..n
           /\ Head(InPieces(bytes, n)) = SubSeq(bytes, 1, IF n < Len(bytes) THEN n ELSE Len(bytes))
<1> DEFINE l == Len(bytes)
           q == (l + n - 1) \div n
           from(i) == (i - 1) * n
           to(i) == IF i * n < l THEN i * n ELSE l
           piece(i) == SubSeq(bytes, from(i) + 1, to(i))
           pieces_ == InPieces(bytes, n)
<1>1. l \in Nat /\ l >= 1
  OBVIOUS
<1> HIDE DEF l
<1>2. q \in Nat /\ q >= 1 /\ q * n <= l + n - 1
  <2> DEFINE x == l + n - 1
             y == x \div n
             d == x % n
  <2>1. x \in Nat /\ x >= n
    BY <1>1
  <2> HIDE DEF x
  <2>2. y \in Nat /\ d \in 0..n - 1 /\ x = y * n + d
    BY <2>1
  <2> HIDE DEF y, d
  <2>3. y # 0
    <3> SUFFICES ASSUME y = 0 PROVE FALSE
      OBVIOUS
    <3>1. y * n = 0
      OBVIOUS
    <3> QED BY <2>1, <2>2, <3>1
  <2>4. y * n \in Nat
    BY <2>2
  <2>5. y \in Nat /\ y >= 1 /\ y * n <= x
    BY <2>2, <2>3, <2>4
  <2> QED BY <2>5 DEF x, y
<1> HIDE DEF q
<1>3. ASSUME NEW i \in 1..q
      PROVE  /\ from(i) \in Nat /\ to(i) \in Nat /\ from(i) < to(i) /\ to(i) <= l
             /\ to(i) - from(i) \in 1..n
  <2>1. i * n \in Nat /\ from(i) \in Nat /\ i * n = from(i) + n /\ i * n <= q * n
    <3>1. i \in Nat /\ i - 1 \in Nat /\ i <= q
      BY <1>2
    <3>2. i * n = (i - 1) * n + n
      BY <3>1
    <3>3. \A x, y, z \in Nat : x <= y => x * z <= y * z
      OBVIOUS
    <3>4. \A x, y \in Nat : x * y \in Nat
      OBVIOUS
    <3> QED BY <1>2, <3>1, <3>2, <3>3, <3>4
  <2> DEFINE f == from(i)
             e == i * n
             z == q * n
  <2>2. e \in Nat /\ f \in Nat /\ e = f + n /\ e <= z /\ z <= l + n - 1 /\ z \in Int
    <3>1. q * n \in Int
      BY <1>2
    <3> QED BY <1>2, <2>1, <3>1
  <2> HIDE DEF from, f, e, z
  <2>3. /\ f < (IF e < l THEN e ELSE l) /\ (IF e < l THEN e ELSE l) <= l
        /\ (IF e < l THEN e ELSE l) \in Nat /\ (IF e < l THEN e ELSE l) - f \in 1..n
    BY <1>1, <2>2
  <2> QED BY <2>2, <2>3 DEF e, f
<1> HIDE DEF from, to
<1>4. ASSUME NEW i \in 1..q
      PROVE  piece(i) \in Seq(Bytes) /\ Len(piece(i)) \in 1..n
  <2> DEFINE m == from(i)
             k == to(i) - from(i)
  <2>1. m \in Nat /\ k \in Nat /\ m + k = to(i) /\ k \in 1..n /\ m + k <= l
    BY <1>1, <1>3
  <2> HIDE DEF m, k
  <2>2. SubSeq(bytes, m + 1, m + k) \in Seq(Bytes) /\ Len(SubSeq(bytes, m + 1, m + k)) = k
    BY <2>1, Middle DEF l
  <2> QED BY <2>1, <2>2 DEF m
<1> HIDE DEF piece
<1>5. pieces_ = [i \in 1..q |-> piece(i)]
  BY DEF InPieces, q, piece, from, to, l
<1>6. pieces_ \in [1..q -> Seq(Bytes)] /\ \A i \in 1..q : pieces_[i] = piece(i)
  <2> HIDE DEF pieces_
  <2> QED BY <1>4, <1>5
<1> HIDE DEF pieces_
<1>7. pieces_ \in Seq(Seq(Bytes)) /\ Len(pieces_) = q /\ DOMAIN pieces_ = 1..q
  BY <1>2, <1>6, LenProperties
<1>8. pieces_ # <<>> /\ Head(pieces_) = piece(1)
  BY <1>2, <1>6, <1>7
<1>9. piece(1) = SubSeq(bytes, 1, IF n < Len(bytes) THEN n ELSE Len(bytes))
  <2>1. (1 - 1) * n = 0 /\ 1 * n = n
    OBVIOUS
  <2>2. from(1) + 1 = 1 /\ to(1) = IF n < l THEN n ELSE l
    BY <2>1 DEF from, to
  <2> QED BY <2>2 DEF piece, l
<1> QED BY <1>4, <1>6, <1>7, <1>8, <1>9 DEF pieces_

-----------------------------------------------------------------------------
(* The messages                                                             *)

LEMMA FrontEndNumbers ==
    /\ PIECE \in Nat /\ PIECE >= 1 /\ BUFFER_SIZE \in Nat /\ PIECE < BUFFER_SIZE
    /\ MAX_STRING_LENGTH \in Nat /\ 3 <= MAX_STRING_LENGTH
    /\ MAX_STRING_LENGTH + 21 + BUFFER_SIZE <= Word32 /\ Word32 \in Nat
    /\ 0 \in Bytes /\ 1 \in Bytes /\ Bytes \subseteq Nat /\ Byte \in Nat /\ Byte >= 2
    /\ Keys \subseteq KeyBytes
<1>1. Keys \subseteq KeyBytes
  <2> SUFFICES ASSUME NEW key \in Keys PROVE key \in Seq(Bytes) /\ Len(key) = KEY_LENGTH
    BY DEF KeyBytes
  <2>1. key \in [1..KEY_LENGTH -> Bytes] /\ KEY_LENGTH \in Nat
    BY FrontEndAssumption, PackerAssumption
  <2> QED BY <2>1, LenProperties
<1>2. PIECE \in Nat /\ PIECE >= 1 /\ BUFFER_SIZE \in Nat /\ PIECE < BUFFER_SIZE
  BY FrontEndAssumption
<1>3. 0 \in Bytes /\ 1 \in Bytes /\ Bytes \subseteq Nat
  BY WordNumbers DEF Bytes
<1>4. /\ MAX_STRING_LENGTH \in Nat /\ 3 <= MAX_STRING_LENGTH
      /\ MAX_STRING_LENGTH + 21 + BUFFER_SIZE <= Word32
  BY WordNumbers, FrontEndAssumption DEF MAX_STRING_LENGTH
<1> QED BY <1>1, <1>2, <1>3, <1>4, WordNumbers

\* Every message of HandleConn and CopyToWS can be packed.
LEMMA Sendable ==
    ASSUME address \in Seq(Nat), Len(address) <= MAX_STRING_LENGTH,
           NEW cmd \in Bytes, NEW d \in Seq(Bytes), Len(d) <= BUFFER_SIZE
    PROVE  Packable(Message(cmd, d)) /\ Message(cmd, d).data = d
<1> DEFINE a == [i \in DOMAIN address |-> address[i] % Byte]
<1>0. a \in Seq(Bytes) /\ Len(a) = Len(address)
  <2> DEFINE n == Len(address)
  <2>1. n \in Nat /\ DOMAIN address = 1..n /\ \A i \in 1..n : address[i] \in Nat
    OBVIOUS
  <2>2. \A x \in Nat : x % Byte \in Bytes
    <3>1. \A x, y \in Nat : y > 0 => x % y \in 0 .. y - 1
      OBVIOUS
    <3> QED BY <3>1, WordNumbers DEF Bytes
  <2> HIDE DEF n
  <2>3. a \in [1..n -> Bytes]
    BY <2>1, <2>2
  <2> HIDE DEF a
  <2>4. a \in Seq(Bytes) /\ Len(a) = n
    BY <2>1, <2>3, LenProperties
  <2> QED BY <2>4 DEF n
<1> DEFINE s == <<<<1>>, <<1, 0>>, <<>>, <<>>, a>>
           msg == Message(cmd, d)
<1>1. /\ msg = [cmd |-> cmd, ok |-> FALSE, data |-> d, strings |-> s]
      /\ msg.cmd = cmd /\ msg.ok = FALSE /\ msg.data = d /\ msg.strings = s
  BY DEF Message
<1> HIDE DEF msg, a
<1>2. /\ s[1] \in Seq(Bytes) /\ s[2] \in Seq(Bytes) /\ s[3] \in Seq(Bytes) /\ s[4] \in Seq(Bytes)
      /\ s[5] = a
      /\ Len(s[1]) = 1 /\ Len(s[2]) = 2 /\ Len(s[3]) = 0 /\ Len(s[4]) = 0
  BY <1>0, FrontEndNumbers
<1>3. s \in [1..5 -> Seq(Bytes)]
  <2>1. DOMAIN s = 1..5
    OBVIOUS
  <2>2. \A i \in 1..5 : i = 1 \/ i = 2 \/ i = 3 \/ i = 4 \/ i = 5
    OBVIOUS
  <2>3. s = [i \in 1..5 |-> s[i]]
    BY <2>1
  <2> HIDE DEF s
  <2>4. \A i \in 1..5 : s[i] \in Seq(Bytes)
    BY <1>0, <1>2, <2>2
  <2> QED BY <2>3, <2>4
<1> DEFINE l == Len(a)
           m == Len(d)
<1>4. l \in Nat /\ m \in Nat
  BY <1>0
<1>5. l <= MAX_STRING_LENGTH /\ m <= BUFFER_SIZE
  BY <1>0
<1> HIDE DEF l, m, s
<1>6. m \in Words /\ 20 + l + m < Word32
  BY <1>4, <1>5, FrontEndNumbers DEF Words
<1>7. msg \in Messages
  BY <1>1, <1>3 DEF Messages
<1>8. Encodable(msg)
  <2>1. ASSUME NEW i \in 1..5 PROVE Len(s[i]) <= MAX_STRING_LENGTH
    <3>1. i = 1 \/ i = 2 \/ i = 3 \/ i = 4 \/ i = 5
      OBVIOUS
    <3>2. Len(s[5]) = l
      BY <1>2 DEF l
    <3> DEFINE x == Len(s[i])
    <3>3. x = 1 \/ x = 2 \/ x = 0 \/ x = l
      BY <1>2, <3>1, <3>2, Zenon
    <3> HIDE DEF x
    <3>4. x <= MAX_STRING_LENGTH
      BY <1>4, <1>5, <3>3, FrontEndNumbers
    <3> QED BY <3>4 DEF x
  <2> QED BY <1>1, <1>6, <2>1 DEF Encodable, m
<1>9. Len(EncodeMessage(msg)) = 20 + l + m
  <2>1. Len(EncodeMessage(msg)) =
               17 + Len(s[1]) + Len(s[2]) + Len(s[3]) + Len(s[4]) + Len(s[5]) + Len(d)
    BY <1>1, <1>7, <1>8, EncodedLength
  <2>2. Len(EncodeMessage(msg)) = 17 + 1 + 2 + 0 + 0 + l + m
    BY <1>2, <2>1 DEF l, m
  <2> QED BY <1>4, <2>2
<1>10. Packable(msg) /\ msg.data = d
  BY <1>1, <1>6, <1>7, <1>8, <1>9 DEF Packable
<1> QED BY <1>10 DEF msg

\* What goes up is what was packed, and the exit receives the data of it.
LastIsPacked ==
    \/ last = Error
    \/ /\ Packable(last.msg)
       /\ \E key \in Keys, r \in Draws : last.packed = Pack(last.msg, Password, key, r)

LEMMA Sending ==
    ASSUME MixIsInteger(Password), NEW msg, Packable(msg), Sends(msg)
    PROVE  sent' = sent \o msg.data /\ LastIsPacked'
<1>1. PICK key \in Keys, r \in Draws :
          /\ last' = [msg |-> msg, packed |-> Pack(msg, Password, key, r)]
          /\ sent' = sent \o Received(Pack(msg, Password, key, r))
  BY DEF Sends
<1>2. key \in KeyBytes
  BY FrontEndNumbers
<1> DEFINE packed == Pack(msg, Password, key, r)
<1>3. Unpack(packed, Password) = msg
  BY <1>2, UnpackReturnsThePacked
<1>4. msg # Error
  BY PackerAssumption DEF Packable
<1> HIDE DEF packed
<1>5. Received(packed) = msg.data
  BY <1>3, <1>4 DEF Received
<1>6. last'.msg = msg /\ last'.packed = packed
  BY <1>1 DEF packed
<1>7. LastIsPacked'
  BY <1>6 DEF LastIsPacked, packed
<1> QED BY <1>1, <1>5, <1>7 DEF packed

\* DATA and CONNECT as they are sent: with the address, and CONNECT without data.
LEMMA SendingOn ==
    ASSUME MixIsInteger(Password), address \in Seq(Nat), Len(address) <= MAX_STRING_LENGTH,
           NEW cmd \in Bytes, NEW d \in Seq(Bytes), Len(d) <= BUFFER_SIZE,
           Sends(Message(cmd, d))
    PROVE  sent' = sent \o d /\ LastIsPacked'
BY Sendable, Sending

-----------------------------------------------------------------------------
(* The inductive invariant                                                  *)

Dialogue == client.parts
Connect == client.proto = "connect"

\* Of a SOCKS5 client: the part of the dialogue that its turn names is what is
\* in the socket and what is unsent, and before a part is accepted nothing of
\* the next one is there.
SocksInv ==
    /\ at \in {"greeting", "request", "connect", "copy", "over"} /\ more = 0
    /\ at = "greeting" => turn = 1 /\ sock \o unsent = Dialogue[1] /\ Len(buf) >= BUF
    /\ at = "request" => turn = 2 /\ sock \o unsent = Dialogue[2] /\ Len(buf) >= BUF
    /\ at = "connect" => turn = 2 /\ sock = <<>> /\ unsent = <<>>
    /\ at \in {"connect", "copy"} => Len(address) <= MAX_STRING_LENGTH
    /\ at = "copy" => /\ turn = 3 /\ sock \in Seq(Bytes) /\ unsent \in Seq(Bytes)
                      /\ sent \o (sock \o unsent) = Dialogue[3]
    /\ address = IF at \in {"connect", "copy"} THEN AddressOf(Dialogue[2]) ELSE <<>>

\* Of an HTTP client: what has been read of the header, and what is behind it.
HttpInv ==
    /\ buf \in Seq(Bytes) /\ sock \in Seq(Bytes) /\ unsent \in Seq(Bytes)
    /\ at = "header" => /\ turn = 1 /\ buf \o (sock \o unsent) = Dialogue[1]
                        /\ Len(buf) < HeaderLength
                        /\ more = 0 /\ hand = <<>> /\ pieces = <<>>
    /\ at # "header" => Len(address) <= MAX_STRING_LENGTH

ConnectInv ==
    /\ at \in {"header", "connect", "copy"} /\ more = 0
    /\ at = "connect" => turn = 1 /\ sock = <<>> /\ unsent = <<>>
    /\ at = "copy" => turn = 2 /\ sent \o (sock \o unsent) = Dialogue[2]

PlainInv ==
    /\ at \in {"header", "connect", "flush", "copy"}
    /\ at \in {"connect", "flush"} => turn = 1 /\ pieces # <<>>
    /\ more <= Len(Dialogue[1]) - HeaderLength

IInv ==
    /\ TypeOK
    /\ at # "copy" => sent = <<>>
    /\ LastIsPacked
    /\ Socks => SocksInv
    /\ ~Socks => HttpInv
    /\ Connect => ConnectInv
    /\ Plain => PlainInv

\* What is known of the client's bytes.
LEMMA Kinds ==
    ASSUME client \in Clients
    PROVE  /\ Socks \/ Connect \/ Plain
           /\ ~(Socks /\ Connect) /\ ~(Socks /\ Plain) /\ ~(Connect /\ Plain)
           /\ Socks => /\ Len(Dialogue) = 3
                       /\ Dialogue[1] \in Seq(Nat) /\ Dialogue[2] \in Seq(Nat)
                       /\ Dialogue[3] \in Seq(Bytes)
                       /\ Len(Dialogue[1]) >= 2 /\ Len(Dialogue[1]) = 2 + Dialogue[1][2]
                       /\ Len(Dialogue[2]) <= MAX_STRING_LENGTH
                       /\ RequestOk(Len(Dialogue[2]), Dialogue[2]) =>
                             Len(Dialogue[2]) = Needs(Dialogue[2])
           /\ ~Socks => /\ Dialogue \in Seq(Seq(Bytes)) /\ Len(Dialogue) >= 1
                        /\ Dialogue[1] \in Seq(Bytes)
                        /\ HeaderLength \in 1 .. Len(Dialogue[1])
                        /\ HeaderLength <= MAX_STRING_LENGTH
           /\ Connect => /\ Len(Dialogue) = 2 /\ Dialogue[2] \in Seq(Bytes)
                         /\ HeaderLength = Len(Dialogue[1])
<1>1. \/ Socks /\ SpeaksSocks(client)
      \/ (Connect \/ Plain) /\ SpeaksHttp(client)
  BY ClientsAssumption DEF Socks, Connect, Plain
<1>2. ~(Socks /\ Connect) /\ ~(Socks /\ Plain) /\ ~(Connect /\ Plain)
  BY DEF Socks, Connect, Plain
<1>3. CASE Socks /\ SpeaksSocks(client)
  <2>1. /\ Len(Dialogue) = 3
        /\ Dialogue[1] \in Seq(Nat) /\ Dialogue[2] \in Seq(Nat) /\ Dialogue[3] \in Seq(Bytes)
        /\ Len(Dialogue[1]) >= 2 /\ Len(Dialogue[1]) = 2 + Dialogue[1][2]
        /\ Len(Dialogue[2]) <= MAX_STRING_LENGTH
        /\ Len(Dialogue[2]) >= 5 /\ Dialogue[2][4] \in {1, 3, 4}
              => Len(Dialogue[2]) <= 4 + AddressLength(Dialogue[2]) + 2
    BY <1>3, Zenon DEF SpeaksSocks, Dialogue
  <2>2. ASSUME RequestOk(Len(Dialogue[2]), Dialogue[2])
        PROVE  Len(Dialogue[2]) = Needs(Dialogue[2])
    <3> DEFINE b == Dialogue[2]
               n == Len(b)
    <3>1. b \in Seq(Nat) /\ n \in Nat
      BY <2>1
    <3>2. n >= 5 /\ b[4] \in {1, 3, 4} => n <= 4 + AddressLength(b) + 2
      BY <2>1
    <3> HIDE DEF b
    <3>3. n >= 4 /\ b[4] \in {1, 3, 4} /\ (b[4] = 3 => n >= 5) /\ n >= Needs(b)
      BY <2>2 DEF RequestOk, b
    <3>4. n >= 5 => b[5] \in Nat
      BY <3>1
    <3> HIDE DEF n
    <3>5. n = Needs(b)
      BY <3>1, <3>2, <3>3, <3>4, SMTT(30) DEF Needs, AddressLength
    <3> QED BY <3>5 DEF n, b
  <2> QED BY <1>2, <1>3, <2>1, <2>2, Zenon
<1>4. CASE (Connect \/ Plain) /\ SpeaksHttp(client)
  <2>1. /\ Dialogue \in Seq(Seq(Bytes)) /\ Len(Dialogue) >= 1
        /\ HeaderLength \in 1 .. Len(Dialogue[1]) /\ HeaderLength <= MAX_STRING_LENGTH
        /\ Connect => HeaderLength = Len(Dialogue[1]) /\ Len(Dialogue) = 2
    BY <1>4, Zenon DEF SpeaksHttp, Dialogue, HeaderLength, Connect
  <2>2. Dialogue[1] \in Seq(Bytes)
    BY <2>1
  <2>3. ASSUME Connect PROVE Dialogue[2] \in Seq(Bytes)
    <3>1. 2 \in 1 .. Len(Dialogue)
      BY <2>1, <2>3
    <3> QED BY <2>1, <3>1
  <2> QED BY <1>2, <1>4, <2>1, <2>2, <2>3
<1> QED BY <1>1, <1>3, <1>4

LEMMA BytesAreNumbers == Seq(Bytes) \subseteq Seq(Nat)
<1> SUFFICES ASSUME NEW s \in Seq(Bytes) PROVE s \in Seq(Nat)
  OBVIOUS
<1> DEFINE n == Len(s)
<1>1. n \in Nat /\ s \in [1..n -> Bytes]
  BY LenProperties
<1> HIDE DEF n
<1>2. s \in [1..n -> Nat]
  BY <1>1, FrontEndNumbers
<1> QED BY <1>1, <1>2

\* What a read leaves.
LEMMA Reads ==
    ASSUME sock \in Seq(Nat), unsent \in Seq(Nat), buf \in Seq(Nat), Len(buf) >= BUF,
           NEW nr \in 1 .. Len(sock), ReadBuf(nr)
    PROVE  /\ buf' \in Seq(Nat) /\ Len(buf') >= BUF /\ nr <= Len(buf')
           /\ \A i \in 1..nr : buf'[i] = (sock \o unsent)[i]
           /\ sock' \in Seq(Nat) /\ Len(sock') = Len(sock) - nr
           /\ sock \o unsent \in Seq(Nat) /\ Len(sock \o unsent) = Len(sock) + Len(unsent)
<1> DEFINE l == Len(sock)
           taken == SubSeq(sock, 1, nr)
           left == SubSeq(sock, nr + 1, l)
           stale == SubSeq(buf, nr + 1, BUF)
           all == sock \o unsent
           bl == Len(buf)
<1>0. l \in Nat /\ nr \in 1..l /\ nr \in 0..l /\ nr \in Nat /\ nr >= 1 /\ bl \in Nat /\ bl >= BUF /\ BUF \in Nat
  BY DEF BUF
<1>1. buf' = taken \o stale /\ sock' = left
  BY DEF ReadBuf
<1>2. /\ taken \in Seq(Nat) /\ Len(taken) = nr /\ \A i \in 1..nr : taken[i] = sock[i]
      /\ left \in Seq(Nat) /\ Len(left) = l - nr
  BY <1>0, CutInTwo
<1>3. stale \in Seq(Nat) /\ Len(stale) >= BUF - nr /\ Len(stale) \in Nat
  <2>1. CASE nr <= BUF
    <3> DEFINE k == BUF - nr
    <3>1. k \in Nat /\ nr + k = BUF /\ nr + k <= bl
      BY <1>0, <2>1
    <3> HIDE DEF k
    <3>2. SubSeq(buf, nr + 1, nr + k) \in Seq(Nat) /\ Len(SubSeq(buf, nr + 1, nr + k)) = k
      BY <1>0, <3>1, Middle
    <3>3. stale \in Seq(Nat) /\ Len(stale) = k
      BY <3>1, <3>2
    <3> QED BY <1>0, <3>1, <3>3
  <2>2. CASE nr > BUF
    <3>1. stale = <<>>
      <4>1. BUF < nr + 1 /\ nr + 1 \in Int /\ BUF \in Int
        BY <1>0, <2>2
      <4> QED BY <4>1, SubSeqEmpty
    <3>2. <<>> \in Seq(Nat) /\ Len(<<>>) = 0
      OBVIOUS
    <3>3. stale \in Seq(Nat) /\ Len(stale) = 0
      BY <3>1, <3>2, Zenon
    <3> HIDE DEF stale
    <3> QED BY <1>0, <2>2, <3>3
  <2> QED BY <1>0, <2>1, <2>2
<1>4. all \in Seq(Nat) /\ Len(all) = l + Len(unsent)
  BY ConcatProperties
<1>5. ASSUME NEW i \in 1..nr PROVE all[i] = sock[i]
  <2>1. i \in 1 .. Len(sock)
    BY <1>0
  <2> QED BY <2>1, ConcatProperties
<1> HIDE DEF taken, left, stale, l, bl
<1>6. taken \o stale \in Seq(Nat) /\ Len(taken \o stale) = Len(taken) + Len(stale)
  <2>1. taken \in Seq(Nat)
    BY <1>2
  <2>2. stale \in Seq(Nat)
    BY <1>3
  <2> QED BY <2>1, <2>2
<1>7. ASSUME NEW i \in 1..nr PROVE (taken \o stale)[i] = taken[i]
  <2>1. i \in 1..Len(taken)
    BY <1>2
  <2>2. taken \in Seq(Nat)
    BY <1>2
  <2>3. stale \in Seq(Nat)
    BY <1>3
  <2> QED BY <2>1, <2>2, <2>3
<1> HIDE DEF all
<1>8. Len(taken \o stale) >= BUF /\ nr <= Len(taken \o stale)
  <2> DEFINE x == Len(taken \o stale)
             y == Len(stale)
  <2>1. x = nr + y /\ y >= BUF - nr /\ y \in Nat
    BY <1>2, <1>3, <1>6
  <2> HIDE DEF x, y
  <2>2. x >= BUF /\ nr <= x
    BY <1>0, <2>1
  <2> QED BY <2>2 DEF x
<1>9. \A i \in 1..nr : (taken \o stale)[i] = all[i]
  BY <1>2, <1>5, <1>7
<1>10. Len(sock') = Len(sock) - nr
  BY <1>1, <1>2 DEF l
<1>11. sock' \in Seq(Nat)
  BY <1>1, <1>2
<1>12. /\ buf' \in Seq(Nat) /\ Len(buf') >= BUF /\ nr <= Len(buf')
       /\ \A i \in 1..nr : buf'[i] = all[i]
  BY <1>1, <1>6, <1>8, <1>9
<1> QED BY <1>4, <1>10, <1>11, <1>12 DEF all, l

\* The parts of the invariant by the kind of the client.
LEMMA ByKind ==
    ASSUME IInv
    PROVE  /\ client \in Clients /\ sock \in Seq(Nat) /\ unsent \in Seq(Nat) /\ buf \in Seq(Nat)
           /\ address \in Seq(Nat) /\ sent \in Seq(Bytes)
           /\ \/ /\ Socks /\ ~Connect /\ ~Plain /\ SocksInv
              \/ /\ ~Socks /\ Connect /\ ~Plain /\ HttpInv /\ ConnectInv
              \/ /\ ~Socks /\ ~Connect /\ Plain /\ HttpInv /\ PlainInv
<1>1. TypeOK
  BY DEF IInv
<1>2. /\ client \in Clients /\ sock \in Seq(Nat) /\ unsent \in Seq(Nat) /\ buf \in Seq(Nat)
      /\ address \in Seq(Nat) /\ sent \in Seq(Bytes)
  BY <1>1, Zenon DEF TypeOK
<1>3. /\ Socks \/ Connect \/ Plain
      /\ ~(Socks /\ Connect) /\ ~(Socks /\ Plain) /\ ~(Connect /\ Plain)
  BY <1>2, Kinds
<1> QED BY <1>2, <1>3, Zenon DEF IInv

\* A client is of one kind for ever.
LEMMA SameClient ==
    ASSUME client' = client
    PROVE  /\ Dialogue' = Dialogue /\ HeaderLength' = HeaderLength
           /\ Socks' = Socks /\ Connect' = Connect /\ Plain' = Plain
BY Zenon DEF Dialogue, HeaderLength, Socks, Connect, Plain

LEMMA SendsOn ==
    ASSUME NEW S, sock \in Seq(S), unsent \in Seq(S), NEW n \in 0 .. Len(unsent)
    PROVE  /\ sock \o SubSeq(unsent, 1, n) \in Seq(S)
           /\ SubSeq(unsent, n + 1, Len(unsent)) \in Seq(S)
           /\ (sock \o SubSeq(unsent, 1, n)) \o SubSeq(unsent, n + 1, Len(unsent)) = sock \o unsent
<1>1. sock \o SubSeq(unsent, 1, n) \in Seq(S)
  BY Moves, Zenon
<1>2. SubSeq(unsent, n + 1, Len(unsent)) \in Seq(S)
  BY Moves, Zenon
<1>3. (sock \o SubSeq(unsent, 1, n)) \o SubSeq(unsent, n + 1, Len(unsent)) = sock \o unsent
  BY Moves, ZenonT(60)
<1> QED BY <1>1, <1>2, <1>3

LEMMA ClientSendsKeepsIInv ==
    ASSUME IInv, ClientSends
    PROVE  IInv'
<1>1. PICK n \in 1 .. Len(unsent) :
          /\ sock' = sock \o SubSeq(unsent, 1, n)
          /\ unsent' = SubSeq(unsent, n + 1, Len(unsent))
          /\ UNCHANGED <<client, turn, at, buf, address, more, hand, pieces, sent, last>>
  BY DEF ClientSends
<1>2. /\ Dialogue' = Dialogue /\ HeaderLength' = HeaderLength
      /\ Socks' = Socks /\ Connect' = Connect /\ Plain' = Plain
  BY <1>1, SameClient
<1>k. /\ client \in Clients /\ sock \in Seq(Nat) /\ unsent \in Seq(Nat)
      /\ Socks => SocksInv
      /\ ~Socks => HttpInv
      /\ Connect => ConnectInv
      /\ Plain => PlainInv
  BY ByKind, Zenon
<1>3. unsent # <<>> /\ n \in 0 .. Len(unsent)
  BY <1>1
<1>4. ASSUME NEW S, sock \in Seq(S), unsent \in Seq(S)
      PROVE  sock' \in Seq(S) /\ unsent' \in Seq(S) /\ sock' \o unsent' = sock \o unsent
  <2>1. /\ sock \o SubSeq(unsent, 1, n) \in Seq(S) /\ SubSeq(unsent, n + 1, Len(unsent)) \in Seq(S)
        /\ (sock \o SubSeq(unsent, 1, n)) \o SubSeq(unsent, n + 1, Len(unsent)) = sock \o unsent
    BY <1>3, <1>4, SendsOn, Zenon
  <2> QED BY <1>1, <2>1, Zenon
<1>5. sock' \in Seq(Nat) /\ unsent' \in Seq(Nat) /\ sock' \o unsent' = sock \o unsent
  BY <1>k, <1>4
<1>6. TypeOK'
  BY <1>1, <1>5, Zenon DEF TypeOK, IInv
<1>7. (at # "copy" => sent = <<>>)' /\ LastIsPacked'
  BY <1>1, Zenon DEF IInv, LastIsPacked
<1>8. Socks => SocksInv'
  <2> SUFFICES ASSUME Socks PROVE SocksInv'
    OBVIOUS
  <2>1. SocksInv
    BY <1>k
  <2>2. at # "connect"
    BY <1>3, <2>1 DEF SocksInv
  <2>3. at = "copy" => sock' \in Seq(Bytes) /\ unsent' \in Seq(Bytes)
    BY <1>4, <2>1, Zenon DEF SocksInv
  <2> QED BY <1>1, <1>2, <1>5, <2>1, <2>2, <2>3, Zenon DEF SocksInv
<1>9. ~Socks => HttpInv'
  <2> SUFFICES ASSUME ~Socks PROVE HttpInv'
    OBVIOUS
  <2>1. HttpInv
    BY <1>k
  <2>2. sock' \in Seq(Bytes) /\ unsent' \in Seq(Bytes)
    BY <1>4, <2>1, Zenon DEF HttpInv
  <2> QED BY <1>1, <1>2, <1>5, <2>1, <2>2, Zenon DEF HttpInv
<1>10. Connect => ConnectInv'
  <2> SUFFICES ASSUME Connect PROVE ConnectInv'
    OBVIOUS
  <2>1. ConnectInv /\ at # "connect"
    BY <1>k, <1>3 DEF ConnectInv
  <2> QED BY <1>1, <1>2, <1>5, <2>1, Zenon DEF ConnectInv
<1>11. Plain => PlainInv'
  BY <1>k, <1>1, <1>2, Zenon DEF PlainInv
<1> QED BY <1>2, <1>6, <1>7, <1>8, <1>9, <1>10, <1>11, Zenon DEF IInv

\* An accepted part of a SOCKS5 dialogue is all that its client sent.
LEMMA NothingIsLeft ==
    ASSUME sock \in Seq(Nat), unsent \in Seq(Nat), NEW nr \in 1 .. Len(sock), sock' \in Seq(Nat),
           Len(sock') = Len(sock) - nr, Len(sock \o unsent) = Len(sock) + Len(unsent),
           Len(sock \o unsent) <= nr
    PROVE  sock' = <<>> /\ unsent = <<>> /\ nr = Len(sock \o unsent)
<1> DEFINE a == Len(sock)
           b == Len(unsent)
           c == Len(sock')
           d == Len(sock \o unsent)
<1>1. a \in Nat /\ b \in Nat /\ c \in Nat /\ nr \in 1..a /\ c = a - nr /\ d = a + b /\ d <= nr
  OBVIOUS
<1> HIDE DEF a, b, c, d
<1>2. c = 0 /\ b = 0 /\ nr = d
  BY <1>1
<1>3. sock' = <<>>
  <2>1. Len(sock') = 0
    BY <1>2 DEF c
  <2> QED BY <2>1
<1>4. unsent = <<>>
  <2>1. Len(unsent) = 0
    BY <1>2 DEF b
  <2> QED BY <2>1
<1> QED BY <1>2, <1>3, <1>4 DEF d

LEMMA SocksGreetingKeepsIInv ==
    ASSUME IInv, SocksGreeting
    PROVE  IInv'
<1>1. PICK nr \in 1 .. Len(sock) :
          /\ ReadBuf(nr)
          /\ IF GreetingOk(nr, buf')
             THEN at' = "request" /\ Answered
             ELSE Over /\ UNCHANGED <<turn, unsent>>
  BY DEF SocksGreeting
<1>2. at = "greeting" /\ UNCHANGED <<client, address, more, hand, pieces, sent, last>>
  BY DEF SocksGreeting
<1>3. /\ client \in Clients /\ sock \in Seq(Nat) /\ unsent \in Seq(Nat) /\ buf \in Seq(Nat)
      /\ Socks /\ ~Connect /\ ~Plain /\ SocksInv
  <2>1. ~ConnectInv /\ ~PlainInv
    BY <1>2 DEF ConnectInv, PlainInv
  <2> QED BY <2>1, ByKind, Zenon
<1>4. /\ Dialogue' = Dialogue /\ Socks' = Socks /\ Connect' = Connect /\ Plain' = Plain
  BY <1>2, SameClient
<1>5. /\ turn = 1 /\ sock \o unsent = Dialogue[1] /\ Len(buf) >= BUF /\ more = 0
      /\ address = <<>>
  BY <1>2, <1>3 DEF SocksInv
<1>6. /\ Len(Dialogue) = 3 /\ Dialogue[2] \in Seq(Nat)
      /\ Len(Dialogue[1]) >= 2 /\ Len(Dialogue[1]) = 2 + Dialogue[1][2]
  BY <1>3, Kinds, Zenon
<1>7. /\ buf' \in Seq(Nat) /\ Len(buf') >= BUF /\ nr <= Len(buf')
      /\ \A i \in 1..nr : buf'[i] = (sock \o unsent)[i]
      /\ sock' \in Seq(Nat) /\ Len(sock') = Len(sock) - nr
      /\ sock \o unsent \in Seq(Nat) /\ Len(sock \o unsent) = Len(sock) + Len(unsent)
  BY <1>1, <1>3, <1>5, Reads, Zenon
<1>8. sent = <<>> /\ TypeOK /\ LastIsPacked
  BY <1>2 DEF IInv
<1>9. /\ at' \in {"request", "over"} /\ turn' \in 1..3 /\ unsent' \in Seq(Nat)
      /\ SocksInv'
  <2>1. CASE GreetingOk(nr, buf')
    <3>1. at' = "request" /\ turn' = 2 /\ unsent' = Dialogue[2]
      BY <1>1, <1>5, <2>1 DEF Answered, Dialogue
    <3>2. Len(sock \o unsent) <= nr
      <4>1. nr >= 3 /\ nr >= 2 + buf'[2]
        BY <2>1 DEF GreetingOk
      <4>2. 2 \in 1..nr
        BY <4>1
      <4>3. buf'[2] = Dialogue[1][2]
        <5>1. buf'[2] = (sock \o unsent)[2]
          BY <1>7, <4>2, Zenon
        <5> QED BY <1>5, <5>1, Zenon
      <4>4. nr >= 2 + Dialogue[1][2]
        BY <4>1, <4>3
      <4> QED BY <1>5, <1>6, <4>4
    <3>3. sock' = <<>>
      BY <1>3, <1>7, <3>2, NothingIsLeft
    <3>4. sock' \o unsent' = Dialogue[2]
      BY <1>6, <3>1, <3>3, ConcatEmptySeq
    <3>5. SocksInv'
      BY <1>2, <1>4, <1>5, <1>7, <3>1, <3>4 DEF SocksInv
    <3> QED BY <1>6, <3>1, <3>5
  <2>2. CASE ~GreetingOk(nr, buf')
    <3>1. at' = "over" /\ turn' = turn /\ unsent' = unsent
      BY <1>1, <2>2 DEF Over
    <3>2. SocksInv'
      BY <1>2, <1>4, <1>5, <3>1 DEF SocksInv
    <3> QED BY <1>3, <1>5, <3>1, <3>2
  <2> QED BY <2>1, <2>2
<1>10. TypeOK'
  <2>1. Len(client'.parts) = 3
    BY <1>2, <1>6 DEF Dialogue
  <2> QED BY <1>2, <1>7, <1>8, <1>9, <2>1, Zenon DEF TypeOK
<1>11. sent' = <<>> /\ LastIsPacked'
  BY <1>2, <1>8, Zenon DEF LastIsPacked
<1> QED BY <1>3, <1>4, <1>9, <1>10, <1>11, Zenon DEF IInv

LEMMA SocksRequestKeepsIInv ==
    ASSUME IInv, SocksRequest
    PROVE  IInv'
<1>1. PICK nr \in 1 .. Len(sock) :
          /\ ReadBuf(nr)
          /\ IF RequestOk(nr, buf')
             THEN at' = "connect" /\ address' = AddressOf(buf')
             ELSE Over /\ UNCHANGED address
  BY DEF SocksRequest
<1>2. at = "request" /\ UNCHANGED <<client, turn, unsent, more, hand, pieces, sent, last>>
  BY DEF SocksRequest
<1>3. /\ client \in Clients /\ sock \in Seq(Nat) /\ unsent \in Seq(Nat) /\ buf \in Seq(Nat)
      /\ Socks /\ ~Connect /\ ~Plain /\ SocksInv
  <2>1. ~ConnectInv /\ ~PlainInv
    BY <1>2 DEF ConnectInv, PlainInv
  <2> QED BY <2>1, ByKind, Zenon
<1>4. /\ Dialogue' = Dialogue /\ Socks' = Socks /\ Connect' = Connect /\ Plain' = Plain
  BY <1>2, SameClient
<1>5. /\ turn = 2 /\ sock \o unsent = Dialogue[2] /\ Len(buf) >= BUF /\ more = 0
      /\ address = <<>>
  BY <1>2, <1>3 DEF SocksInv
<1>6. /\ Len(Dialogue) = 3 /\ Dialogue[2] \in Seq(Nat)
      /\ Len(Dialogue[2]) <= MAX_STRING_LENGTH
      /\ RequestOk(Len(Dialogue[2]), Dialogue[2]) => Len(Dialogue[2]) = Needs(Dialogue[2])
  BY <1>3, Kinds, Zenon
<1>7. /\ buf' \in Seq(Nat) /\ Len(buf') >= BUF /\ nr <= Len(buf')
      /\ \A i \in 1..nr : buf'[i] = (sock \o unsent)[i]
      /\ sock' \in Seq(Nat) /\ Len(sock') = Len(sock) - nr
      /\ sock \o unsent \in Seq(Nat) /\ Len(sock \o unsent) = Len(sock) + Len(unsent)
  BY <1>1, <1>3, <1>5, Reads, Zenon
<1>8. sent = <<>> /\ TypeOK /\ LastIsPacked
  BY <1>2 DEF IInv
<1>9. at' \in {"connect", "over"} /\ address' \in Seq(Nat) /\ SocksInv'
  <2>1. CASE RequestOk(nr, buf')
    <3>1. at' = "connect" /\ address' = AddressOf(buf')
      BY <1>1, <2>1
    <3>2. /\ nr \in Nat /\ nr <= Len(Dialogue[2])
      <4> DEFINE a == Len(sock)
                 b == Len(unsent)
                 c == Len(sock \o unsent)
      <4>1. a \in Nat /\ b \in Nat /\ nr \in 1..a /\ c = a + b
        BY <1>3, <1>7
      <4> HIDE DEF a, b, c
      <4>2. nr \in Nat /\ nr <= c
        BY <4>1
      <4> QED BY <1>5, <4>2, Zenon DEF c
    <3>3. \A i \in 1..nr : buf'[i] = Dialogue[2][i]
      <4> SUFFICES ASSUME NEW i \in 1..nr PROVE buf'[i] = Dialogue[2][i]
        OBVIOUS
      <4>1. buf'[i] = (sock \o unsent)[i]
        BY <1>7, Zenon
      <4> QED BY <1>5, <4>1, Zenon
    <3>4. /\ AddressOf(buf') = AddressOf(Dialogue[2])
          /\ AddressOf(Dialogue[2]) \in Seq(Nat)
          /\ Len(AddressOf(Dialogue[2])) <= Len(Dialogue[2])
          /\ RequestOk(Len(Dialogue[2]), Dialogue[2]) /\ Needs(Dialogue[2]) <= nr
      BY <1>6, <1>7, <2>1, <3>2, <3>3, AddressFromFirstBytes, Zenon
    <3>5. Len(sock \o unsent) <= nr
      BY <1>5, <1>6, <3>4, Zenon
    <3>6. sock' = <<>> /\ unsent = <<>>
      BY <1>3, <1>7, <3>5, NothingIsLeft
    <3>7. Len(address') <= MAX_STRING_LENGTH
      <4> DEFINE a == Len(AddressOf(Dialogue[2]))
                 b == Len(Dialogue[2])
      <4>1. a \in Nat /\ b \in Nat /\ a <= b /\ b <= MAX_STRING_LENGTH
        BY <1>6, <3>4
      <4>2. Len(address') = a
        BY <3>1, <3>4, Zenon
      <4> HIDE DEF a, b
      <4> QED BY <4>1, <4>2, FrontEndNumbers
    <3>8. address' = AddressOf(Dialogue[2]) /\ address' \in Seq(Nat)
      BY <3>1, <3>4, Zenon
    <3>9. SocksInv'
      BY <1>2, <1>4, <1>5, <3>1, <3>6, <3>7, <3>8 DEF SocksInv
    <3> QED BY <3>1, <3>8, <3>9
  <2>2. CASE ~RequestOk(nr, buf')
    <3>1. at' = "over" /\ address' = address
      BY <1>1, <2>2 DEF Over
    <3>2. SocksInv'
      BY <1>2, <1>4, <1>5, <3>1 DEF SocksInv
    <3>3. address' \in Seq(Nat)
      BY <1>5, <3>1
    <3> QED BY <3>1, <3>2, <3>3
  <2> QED BY <2>1, <2>2
<1>10. TypeOK'
  BY <1>2, <1>7, <1>8, <1>9, Zenon DEF TypeOK
<1>11. sent' = <<>> /\ LastIsPacked'
  BY <1>2, <1>8, Zenon DEF LastIsPacked
<1> QED BY <1>3, <1>4, <1>9, <1>10, <1>11, Zenon DEF IInv

\* A read of the header: the bytes stay in their order.
LEMMA GetsOn ==
    ASSUME NEW S, buf \in Seq(S), sock \in Seq(S), unsent \in Seq(S), NEW n \in 0 .. Len(sock)
    PROVE  /\ buf \o SubSeq(sock, 1, n) \in Seq(S) /\ SubSeq(sock, n + 1, Len(sock)) \in Seq(S)
           /\ (buf \o SubSeq(sock, 1, n)) \o (SubSeq(sock, n + 1, Len(sock)) \o unsent)
              = buf \o (sock \o unsent)
<1>0. ASSUME NEW u \in Seq(S), NEW v \in Seq(S)
      PROVE  u \o (v \o unsent) = (u \o v) \o unsent
  BY ConcatAssociative, SMTT(60)
<1> DEFINE x == buf \o SubSeq(sock, 1, n)
           y == SubSeq(sock, n + 1, Len(sock))
<1>1. x \in Seq(S) /\ y \in Seq(S)
  <2>1. x \in Seq(S)
    BY Moves, Zenon
  <2>2. y \in Seq(S)
    BY Moves, Zenon
  <2> QED BY <2>1, <2>2
<1>2. x \o y = buf \o sock
  BY Moves, ZenonT(60)
<1> HIDE DEF x, y
<1>3. x \o (y \o unsent) = (x \o y) \o unsent
  BY <1>0, <1>1, Zenon
<1>4. buf \o (sock \o unsent) = (buf \o sock) \o unsent
  BY <1>0, Zenon
<1>5. x \o (y \o unsent) = buf \o (sock \o unsent)
  BY <1>2, <1>3, <1>4, Zenon
<1> QED BY <1>1, <1>5 DEF x, y

LEMMA HttpGetKeepsIInv ==
    ASSUME IInv, HttpGet
    PROVE  IInv'
<1> DEFINE got(nr) == buf \o SubSeq(sock, 1, nr)
           header(nr) == SubSeq(got(nr), 1, HeaderLength)
<1>1. PICK nr \in 1 .. Len(sock) :
          /\ sock' = SubSeq(sock, nr + 1, Len(sock))
          /\ IF Len(got(nr)) < HeaderLength
             THEN buf' = got(nr) /\ UNCHANGED <<at, more, pieces, address>>
             ELSE /\ buf' = SubSeq(got(nr), HeaderLength + 1, Len(got(nr)))
                  /\ at' = "connect"
                  /\ address' = header(nr)
                  /\ IF Plain
                     THEN /\ more' = Len(client.parts[1]) - HeaderLength
                          /\ pieces' = InPieces(header(nr), PIECE)
                     ELSE UNCHANGED <<more, pieces>>
  BY DEF HttpGet
<1>2. at = "header" /\ UNCHANGED <<client, turn, unsent, hand, sent, last>>
  BY DEF HttpGet
<1>3. client \in Clients /\ ~Socks /\ HttpInv /\ (Connect => ConnectInv) /\ (Plain => PlainInv)
  <2>1. ~SocksInv
    BY <1>2 DEF SocksInv
  <2> QED BY <2>1, ByKind, Zenon
<1>4. /\ Dialogue' = Dialogue /\ HeaderLength' = HeaderLength
      /\ Socks' = Socks /\ Connect' = Connect /\ Plain' = Plain
  BY <1>2, SameClient
<1>5. /\ turn = 1 /\ buf \o (sock \o unsent) = Dialogue[1] /\ more = 0 /\ hand = <<>>
      /\ pieces = <<>> /\ buf \in Seq(Bytes) /\ sock \in Seq(Bytes) /\ unsent \in Seq(Bytes)
  BY <1>2, <1>3 DEF HttpInv
<1>6. /\ Dialogue[1] \in Seq(Bytes) /\ HeaderLength \in 1 .. Len(Dialogue[1])
      /\ HeaderLength <= MAX_STRING_LENGTH
      /\ Connect => HeaderLength = Len(Dialogue[1])
      /\ Connect \/ Plain
      /\ ~(Connect /\ Plain)
  BY <1>3, Kinds, Zenon
<1> DEFINE g == got(nr)
           h == HeaderLength
           l == Len(g)
           left == sock' \o unsent'
<1>7. g \in Seq(Bytes) /\ sock' \in Seq(Bytes) /\ g \o (sock' \o unsent) = Dialogue[1]
  <2>1. nr \in 0 .. Len(sock)
    OBVIOUS
  <2>2. /\ buf \o SubSeq(sock, 1, nr) \in Seq(Bytes) /\ SubSeq(sock, nr + 1, Len(sock)) \in Seq(Bytes)
        /\ (buf \o SubSeq(sock, 1, nr)) \o (SubSeq(sock, nr + 1, Len(sock)) \o unsent)
            = buf \o (sock \o unsent)
    BY <1>5, <2>1, GetsOn, Zenon
  <2> QED BY <1>1, <1>5, <2>2, Zenon
<1> HIDE DEF got
<1>8. unsent' = unsent /\ unsent' \in Seq(Bytes) /\ left \in Seq(Bytes) /\ g \o left = Dialogue[1]
  <2>1. sock' \o unsent \in Seq(Bytes)
    BY <1>5, <1>7, ConcatProperties
  <2> QED BY <1>2, <1>5, <1>7, <2>1, Zenon
<1>9. TypeOK /\ LastIsPacked /\ sent = <<>>
  BY <1>2 DEF IInv
<1>10. (at # "copy" => sent = <<>>)' /\ LastIsPacked'
  BY <1>2, <1>9, Zenon DEF LastIsPacked
<1>11. CASE Len(g) < HeaderLength
  <2>1. buf' = g /\ UNCHANGED <<at, more, pieces, address>>
    BY <1>1, <1>11
  <2>2. buf' \in Seq(Nat) /\ sock' \in Seq(Nat)
    BY <1>7, <2>1, BytesAreNumbers
  <2>3. TypeOK'
    BY <1>2, <1>9, <2>1, <2>2, Zenon DEF TypeOK
  <2>4. HttpInv'
    BY <1>2, <1>4, <1>5, <1>7, <1>8, <1>11, <2>1, Zenon DEF HttpInv
  <2>5. Connect => ConnectInv'
    BY <1>2, <1>3, <2>1 DEF ConnectInv
  <2>6. Plain => PlainInv'
    BY <1>2, <1>3, <1>4, <2>1 DEF PlainInv
  <2> QED BY <1>3, <1>4, <1>10, <2>3, <2>4, <2>5, <2>6, Zenon DEF IInv
<1>12. CASE ~(Len(g) < HeaderLength)
  <2> DEFINE head == SubSeq(g, 1, h)
             behind == SubSeq(g, h + 1, l)
  <2>1. /\ buf' = behind /\ at' = "connect" /\ address' = head
        /\ IF Plain
           THEN /\ more' = Len(client.parts[1]) - HeaderLength
                /\ pieces' = InPieces(head, PIECE)
           ELSE UNCHANGED <<more, pieces>>
    BY <1>1, <1>12
  <2>2. /\ head \in Seq(Bytes) /\ behind \in Seq(Bytes) /\ Len(head) = h /\ Len(behind) = l - h
        /\ h \in Nat /\ h >= 1 /\ h <= l /\ l \in Nat /\ h <= MAX_STRING_LENGTH
        /\ h <= Len(Dialogue[1]) /\ Len(Dialogue[1]) \in Nat
    <3> DEFINE d == Len(Dialogue[1])
    <3>1. l \in Nat /\ d \in Nat
      BY <1>6, <1>7
    <3>2. h \in 1..d /\ h <= MAX_STRING_LENGTH /\ ~(l < h)
      BY <1>6, <1>12
    <3> HIDE DEF l, h, d
    <3>3. h \in Nat /\ h >= 1 /\ h <= l /\ h \in 0..l /\ h <= d
      BY <3>1, <3>2
    <3>4. h \in 0 .. Len(g)
      BY <3>3 DEF l
    <3> HIDE DEF g
    <3>5. g \in Seq(Bytes)
      BY <1>7 DEF g
    <3>6. /\ SubSeq(g, 1, h) \in Seq(Bytes) /\ SubSeq(g, h + 1, Len(g)) \in Seq(Bytes)
          /\ Len(SubSeq(g, 1, h)) = h /\ Len(SubSeq(g, h + 1, Len(g))) = Len(g) - h
      BY <3>4, <3>5, CutInTwo
    <3> QED BY <3>1, <3>2, <3>3, <3>6 DEF l, d
  <2>3. l + Len(left) = Len(Dialogue[1])
    <3>1. g \in Seq(Bytes) /\ left \in Seq(Bytes) /\ g \o left = Dialogue[1]
      BY <1>7, <1>8
    <3> HIDE DEF g, left
    <3>2. Len(g \o left) = Len(g) + Len(left)
      BY <3>1, ConcatProperties
    <3> QED BY <3>1, <3>2 DEF l
  <2> HIDE DEF g, h, l, head, behind
  <2>4. buf' \in Seq(Nat) /\ sock' \in Seq(Nat) /\ address' \in Seq(Nat) /\ Len(address') = h
    BY <1>7, <2>1, <2>2, BytesAreNumbers
  <2>5. HttpInv'
    BY <1>4, <1>7, <1>8, <2>1, <2>2, <2>4 DEF HttpInv
  <2>6. CASE Connect
    <3>1. more' = 0 /\ pieces' = <<>> /\ h = Len(Dialogue[1])
      BY <1>5, <1>6, <2>1, <2>6 DEF h
    <3>2. sock' = <<>> /\ unsent' = <<>>
      <4> DEFINE a == Len(sock')
                 b == Len(unsent')
                 c == Len(left)
                 d == Len(Dialogue[1])
      <4>1. a \in Nat /\ b \in Nat
        BY <1>7, <1>8
      <4>2. c = a + b
        BY <1>7, <1>8, ConcatProperties
      <4>3. l + c = d /\ h <= l /\ h = d /\ l \in Nat /\ h \in Nat
        BY <2>2, <2>3, <3>1
      <4> HIDE DEF a, b, c, d
      <4>4. a = 0 /\ b = 0
        BY <4>1, <4>2, <4>3
      <4>5. Len(sock') = 0 /\ Len(unsent') = 0
        BY <4>4 DEF a, b
      <4> QED BY <1>7, <1>8, <4>5
    <3>3. ConnectInv'
      BY <1>2, <1>4, <1>5, <2>1, <3>1, <3>2 DEF ConnectInv
    <3>4. TypeOK'
      BY <1>2, <1>5, <1>8, <1>9, <2>1, <2>4, <3>1, Zenon DEF TypeOK
    <3> QED BY <1>3, <1>4, <1>6, <1>10, <2>5, <2>6, <3>3, <3>4, Zenon DEF IInv
  <2>7. CASE Plain
    <3>1. more' = Len(Dialogue[1]) - h /\ pieces' = InPieces(head, PIECE)
      BY <2>1, <2>7 DEF h, Dialogue
    <3>2. more' \in Nat /\ more' <= Len(Dialogue[1]) - h
      BY <2>2, <3>1
    <3>3. /\ pieces' \in Seq(Seq(Bytes)) /\ pieces' # <<>>
          /\ \A i \in DOMAIN pieces' : Len(pieces'[i]) \in 1..PIECE
      <4>1. /\ InPieces(head, PIECE) \in Seq(Seq(Bytes)) /\ InPieces(head, PIECE) # <<>>
            /\ \A i \in DOMAIN InPieces(head, PIECE) : Len(InPieces(head, PIECE)[i]) \in 1..PIECE
        BY <2>2, Pieces, FrontEndNumbers
      <4> QED BY <3>1, <4>1, Zenon
    <3>4. PlainInv'
      BY <1>2, <1>4, <1>5, <2>1, <3>2, <3>3 DEF PlainInv, h
    <3>5. TypeOK'
      BY <1>2, <1>9, <2>1, <2>4, <3>2, <3>3, Zenon DEF TypeOK
    <3> QED BY <1>3, <1>4, <1>6, <1>10, <2>5, <2>7, <3>4, <3>5, Zenon DEF IInv
  <2> QED BY <1>6, <2>6, <2>7
<1> QED BY <1>11, <1>12

\* What the pipe's goroutine does, with the sequence that it reads from.
LEMMA PipeBodySteps ==
    ASSUME IInv, PipeBody
    PROVE  /\ Plain /\ ~Socks /\ ~Connect /\ HttpInv /\ PlainInv /\ client \in Clients
           /\ at = "copy"
           /\ pieces = <<>>
           /\ more' \in Nat /\ more' <= more /\ more > 0
           /\ pieces' \in Seq(Seq(Bytes))
           /\ \A i \in DOMAIN pieces' : Len(pieces'[i]) \in 1..PIECE
           /\ hand' \in Seq(Bytes) /\ Len(hand') < PIECE
           /\ buf' \in Seq(Bytes) /\ sock' \in Seq(Bytes)
           /\ sock' = sock \/ (buf = <<>> /\ \E n \in 1 .. Len(sock) :
                                 n <= more /\ sock' = SubSeq(sock, n + 1, Len(sock)))
<1> DEFINE from == IF buf # <<>> THEN buf ELSE sock
           all(n) == hand \o SubSeq(from, 1, n)
<1>1. PICK n \in 1 .. Len(from) :
          /\ n <= more /\ Len(all(n)) <= PIECE
          /\ more' = more - n
          /\ IF Len(all(n)) = PIECE \/ n = more
             THEN pieces' = <<all(n)>> /\ hand' = <<>>
             ELSE hand' = all(n) /\ UNCHANGED pieces
          /\ IF buf # <<>>
             THEN buf' = SubSeq(buf, n + 1, Len(buf)) /\ UNCHANGED sock
             ELSE sock' = SubSeq(sock, n + 1, Len(sock)) /\ UNCHANGED buf
  BY DEF PipeBody
<1>2. more > 0 /\ pieces = <<>>
  BY DEF PipeBody
<1>3. TypeOK
  BY DEF IInv
<1>4. Plain /\ ~Socks /\ ~Connect /\ HttpInv /\ PlainInv /\ client \in Clients
  <2>1. ~SocksInv /\ ~ConnectInv
    BY <1>2 DEF SocksInv, ConnectInv
  <2> QED BY <2>1, ByKind, Zenon
<1>5. at = "copy"
  <2>1. at # "header"
    BY <1>2, <1>4 DEF HttpInv
  <2>2. at \notin {"connect", "flush"}
    BY <1>2, <1>4 DEF PlainInv
  <2> QED BY <1>4, <2>1, <2>2 DEF PlainInv
<1>6. buf \in Seq(Bytes) /\ sock \in Seq(Bytes) /\ from \in Seq(Bytes)
  <2>1. buf \in Seq(Bytes) /\ sock \in Seq(Bytes)
    BY <1>4 DEF HttpInv
  <2> QED BY <2>1
<1>7. hand \in Seq(Bytes) /\ more \in Nat /\ pieces \in Seq(Seq(Bytes)) /\ Len(hand) < PIECE
  BY <1>3, Zenon DEF TypeOK
<1>8. buf' \in Seq(Bytes) /\ sock' \in Seq(Bytes)
  <2>1. CASE buf # <<>>
    <3>1. sock' = sock /\ buf' = SubSeq(buf, n + 1, Len(buf)) /\ n \in 0 .. Len(buf)
      BY <1>1, <2>1
    <3>2. SubSeq(buf, n + 1, Len(buf)) \in Seq(Bytes)
      BY <1>6, <3>1, CutInTwo
    <3> QED BY <1>6, <3>1, <3>2
  <2>2. CASE buf = <<>>
    <3>1. buf' = buf /\ sock' = SubSeq(sock, n + 1, Len(sock)) /\ n \in 0 .. Len(sock)
      BY <1>1, <2>2
    <3>2. SubSeq(sock, n + 1, Len(sock)) \in Seq(Bytes)
      BY <1>6, <3>1, CutInTwo
    <3> QED BY <1>6, <3>1, <3>2
  <2> QED BY <2>1, <2>2
<1>9. sock' = sock \/ (buf = <<>> /\ \E k \in 1 .. Len(sock) :
                          k <= more /\ sock' = SubSeq(sock, k + 1, Len(sock)))
  <2>1. CASE buf # <<>>
    BY <1>1, <2>1
  <2>2. CASE buf = <<>>
    <3>1. n \in 1 .. Len(sock) /\ n <= more /\ sock' = SubSeq(sock, n + 1, Len(sock))
      BY <1>1, <2>2
    <3> QED BY <2>2, <3>1
  <2> QED BY <2>1, <2>2
<1>10. n \in 1 .. Len(from) /\ n \in 0 .. Len(from) /\ n \in Nat /\ n >= 1
  BY <1>6
<1> HIDE DEF from
<1>11. all(n) \in Seq(Bytes) /\ Len(all(n)) = Len(hand) + n
  <2>1. hand \o SubSeq(from, 1, n) \in Seq(Bytes)
    BY <1>6, <1>7, <1>10, Moves, Zenon
  <2>2. Len(hand \o SubSeq(from, 1, n)) = Len(hand) + n
    BY <1>6, <1>7, <1>10, MovesAsMany, Zenon
  <2> QED BY <2>1, <2>2
<1>12. Len(hand) \in Nat
  BY <1>7
<1> DEFINE a == all(n)
           l == Len(a)
<1>13. a \in Seq(Bytes) /\ l \in Nat /\ l >= 1 /\ l <= PIECE
  BY <1>1, <1>10, <1>11, <1>12
<1>14. /\ pieces' \in Seq(Seq(Bytes))
       /\ \A i \in DOMAIN pieces' : Len(pieces'[i]) \in 1..PIECE
       /\ hand' \in Seq(Bytes) /\ Len(hand') < PIECE
  <2>1. CASE Len(all(n)) = PIECE \/ n = more
    <3>1. pieces' = <<a>> /\ hand' = <<>>
      BY <1>1, <2>1
    <3> HIDE DEF a
    <3>2. <<a>> \in Seq(Seq(Bytes)) /\ \A i \in DOMAIN <<a>> : <<a>>[i] = a
      BY <1>13
    <3>3. l \in 1..PIECE
      BY <1>13, FrontEndNumbers
    <3>4. <<>> \in Seq(Bytes) /\ Len(<<>>) < PIECE
      BY FrontEndNumbers
    <3> QED BY <3>1, <3>2, <3>3, <3>4, Zenon DEF l
  <2>2. CASE ~(Len(all(n)) = PIECE \/ n = more)
    <3>1. hand' = a /\ pieces' = pieces /\ l # PIECE
      BY <1>1, <2>2
    <3> HIDE DEF a, l
    <3>2. l < PIECE
      BY <1>13, <3>1, FrontEndNumbers
    <3>3. \A i \in DOMAIN pieces : Len(pieces[i]) \in 1..PIECE
      BY <1>3, Zenon DEF TypeOK
    <3> QED BY <1>7, <1>13, <3>1, <3>2, <3>3, Zenon DEF l
  <2> QED BY <2>1, <2>2
<1>15. more' \in Nat /\ more' <= more
  BY <1>1, <1>7, <1>10
<1> QED BY <1>2, <1>4, <1>5, <1>8, <1>9, <1>14, <1>15, Zenon

LEMMA PipeBodyKeepsIInv ==
    ASSUME IInv, PipeBody
    PROVE  IInv'
<1>1. /\ Plain /\ ~Socks /\ ~Connect /\ HttpInv /\ PlainInv
      /\ at = "copy"
      /\ more' \in Nat /\ more' <= more
      /\ pieces' \in Seq(Seq(Bytes))
      /\ \A i \in DOMAIN pieces' : Len(pieces'[i]) \in 1..PIECE
      /\ hand' \in Seq(Bytes) /\ Len(hand') < PIECE
      /\ buf' \in Seq(Bytes) /\ sock' \in Seq(Bytes)
  BY PipeBodySteps, Zenon
<1>2. UNCHANGED <<client, turn, unsent, at, address, sent, last>>
  BY DEF PipeBody
<1>3. /\ Dialogue' = Dialogue /\ HeaderLength' = HeaderLength
      /\ Socks' = Socks /\ Connect' = Connect /\ Plain' = Plain
  BY <1>2, SameClient
<1>4. TypeOK /\ LastIsPacked
  BY DEF IInv
<1>5. (at # "copy" => sent = <<>>)' /\ LastIsPacked'
  BY <1>1, <1>2, <1>4, Zenon DEF LastIsPacked
<1>6. TypeOK'
  <2>1. buf' \in Seq(Nat) /\ sock' \in Seq(Nat)
    BY <1>1, BytesAreNumbers
  <2> QED BY <1>1, <1>2, <1>4, <2>1, Zenon DEF TypeOK
<1>7. HttpInv'
  <2>1. unsent \in Seq(Bytes) /\ Len(address) <= MAX_STRING_LENGTH
    BY <1>1 DEF HttpInv
  <2> QED BY <1>1, <1>2, <2>1 DEF HttpInv
<1>8. PlainInv'
  <2> DEFINE d == Len(Dialogue[1]) - HeaderLength
  <2>1. more <= d
    BY <1>1 DEF PlainInv
  <2>2. d \in Int /\ more \in Nat
    <3>1. Dialogue[1] \in Seq(Bytes) /\ HeaderLength \in 1 .. Len(Dialogue[1])
      BY <1>1, ByKind, Kinds, Zenon
    <3>2. more \in Nat
      BY <1>4, Zenon DEF TypeOK
    <3> QED BY <3>1, <3>2
  <2>3. d' = d
    BY <1>3
  <2> HIDE DEF d
  <2>4. more' <= d'
    BY <1>1, <2>1, <2>2, <2>3
  <2> QED BY <1>1, <1>2, <2>4 DEF PlainInv, d
<1> QED BY <1>1, <1>3, <1>5, <1>6, <1>7, <1>8, Zenon DEF IInv

\* Before the tunnel, nothing was sent but CONNECT, which has no data.
LEMMA ConnectsKeepsIInv ==
    ASSUME MixIsInteger(Password), IInv, Connects
    PROVE  IInv' /\ sent' = <<>> /\ (Plain => at' = "flush")
<1>1. /\ at = "connect"
      /\ Sends(Message(0, <<>>))
      /\ IF Plain
         THEN at' = "flush" /\ UNCHANGED <<turn, unsent>>
         ELSE at' = "copy" /\ Answered
      /\ UNCHANGED <<client, sock, buf, address, more, hand, pieces>>
  BY DEF Connects
<1>2. /\ Dialogue' = Dialogue /\ HeaderLength' = HeaderLength
      /\ Socks' = Socks /\ Connect' = Connect /\ Plain' = Plain
  BY <1>1, SameClient
<1>3. TypeOK /\ sent = <<>>
  BY <1>1 DEF IInv
<1>4. /\ client \in Clients /\ address \in Seq(Nat) /\ sent \in Seq(Bytes) /\ unsent \in Seq(Nat)
      /\ \/ Socks /\ ~Connect /\ ~Plain /\ SocksInv
         \/ ~Socks /\ Connect /\ ~Plain /\ HttpInv /\ ConnectInv
         \/ ~Socks /\ ~Connect /\ Plain /\ HttpInv /\ PlainInv
  BY ByKind, Zenon
<1>5. Len(address) <= MAX_STRING_LENGTH
  <2>1. SocksInv => Len(address) <= MAX_STRING_LENGTH
    BY <1>1 DEF SocksInv
  <2>2. HttpInv => Len(address) <= MAX_STRING_LENGTH
    BY <1>1 DEF HttpInv
  <2> QED BY <1>4, <2>1, <2>2
<1>6. sent' = <<>> /\ LastIsPacked'
  <2> DEFINE e == <<>>
  <2>1. e \in Seq(Bytes) /\ 0 \in Bytes /\ Len(e) <= BUFFER_SIZE /\ sent \o e = sent
    BY <1>4, FrontEndNumbers, ConcatEmptySeq
  <2>2. Sends(Message(0, e))
    BY <1>1
  <2> HIDE DEF e
  <2>3. sent' = sent \o e /\ LastIsPacked'
    BY <1>4, <1>5, <2>1, <2>2, SendingOn, Zenon
  <2> QED BY <1>3, <2>1, <2>3, Zenon
<1>7. sent' \in Seq(Bytes)
  BY <1>6
<1>8. CASE Socks /\ ~Connect /\ ~Plain /\ SocksInv
  <2>1. /\ Len(Dialogue) = 3 /\ Dialogue[3] \in Seq(Bytes)
    BY <1>4, <1>8, Kinds, Zenon
  <2>2. /\ turn = 2 /\ sock = <<>> /\ more = 0 /\ address = AddressOf(Dialogue[2])
    BY <1>1, <1>8 DEF SocksInv
  <2>3. at' = "copy" /\ turn' = 3 /\ unsent' = Dialogue[3]
    BY <1>1, <1>8, <2>2 DEF Answered, Dialogue
  <2>4. unsent' \in Seq(Bytes) /\ sock' = <<>> /\ sock' \in Seq(Bytes) /\ unsent' \in Seq(Nat)
    BY <1>1, <2>1, <2>2, <2>3, BytesAreNumbers
  <2>5. sent' \o (sock' \o unsent') = Dialogue[3]
    <3>1. <<>> \o Dialogue[3] = Dialogue[3] /\ <<>> \o (<<>> \o Dialogue[3]) = Dialogue[3]
      BY <2>1, ConcatEmptySeq
    <3> QED BY <1>6, <2>3, <2>4, <3>1, Zenon
  <2>6. SocksInv'
    BY <1>1, <1>2, <1>5, <2>2, <2>3, <2>4, <2>5 DEF SocksInv
  <2>7. turn' \in 1 .. Len(client'.parts)
    BY <1>1, <2>1, <2>3 DEF Dialogue
  <2>8. TypeOK'
    BY <1>1, <1>3, <1>7, <2>3, <2>4, <2>7, Zenon DEF TypeOK
  <2> QED BY <1>2, <1>6, <1>8, <2>3, <2>6, <2>8, Zenon DEF IInv
<1>9. CASE ~Socks /\ Connect /\ ~Plain /\ HttpInv /\ ConnectInv
  <2>1. /\ Len(Dialogue) = 2 /\ Dialogue[2] \in Seq(Bytes)
    BY <1>4, <1>9, Kinds, Zenon
  <2>2. /\ turn = 1 /\ sock = <<>> /\ more = 0
    BY <1>1, <1>9 DEF ConnectInv
  <2>3. at' = "copy" /\ turn' = 2 /\ unsent' = Dialogue[2]
    BY <1>1, <1>9, <2>2 DEF Answered, Dialogue
  <2>4. unsent' \in Seq(Bytes) /\ sock' = <<>> /\ sock' \in Seq(Bytes) /\ unsent' \in Seq(Nat)
    BY <1>1, <2>1, <2>2, <2>3, BytesAreNumbers
  <2>5. sent' \o (sock' \o unsent') = Dialogue[2]
    <3>1. <<>> \o Dialogue[2] = Dialogue[2] /\ <<>> \o (<<>> \o Dialogue[2]) = Dialogue[2]
      BY <2>1, ConcatEmptySeq
    <3> QED BY <1>6, <2>3, <2>4, <3>1, Zenon
  <2>6. ConnectInv'
    BY <1>1, <1>2, <2>2, <2>3, <2>4, <2>5 DEF ConnectInv
  <2>7. turn' \in 1 .. Len(client'.parts)
    BY <1>1, <2>1, <2>3 DEF Dialogue
  <2>8. TypeOK'
    BY <1>1, <1>3, <1>7, <2>3, <2>4, <2>7, Zenon DEF TypeOK
  <2>9. HttpInv'
    BY <1>1, <1>5, <1>9, <2>3, <2>4 DEF HttpInv
  <2> QED BY <1>2, <1>6, <1>9, <2>3, <2>6, <2>8, <2>9, Zenon DEF IInv
<1>10. CASE ~Socks /\ ~Connect /\ Plain /\ HttpInv /\ PlainInv
  <2>1. at' = "flush" /\ turn' = turn /\ unsent' = unsent
    BY <1>1, <1>10
  <2>2. TypeOK'
    BY <1>1, <1>3, <1>7, <2>1, Zenon DEF TypeOK
  <2>3. HttpInv'
    BY <1>1, <1>5, <1>10, <2>1 DEF HttpInv
  <2>4. PlainInv'
    BY <1>1, <1>2, <1>10, <2>1 DEF PlainInv
  <2> QED BY <1>2, <1>6, <1>10, <2>1, <2>2, <2>3, <2>4, Zenon DEF IInv
<1> QED BY <1>4, <1>8, <1>9, <1>10

\* A piece fits in the buffer, with room to spare: the loop ends with the first one.
LEMMA FlushKeepsIInv ==
    ASSUME MixIsInteger(Password), IInv, Flush
    PROVE  IInv' /\ at' = "copy" /\ Plain /\ sent' = Head(pieces)
<1>1. /\ at = "flush" /\ pieces # <<>>
      /\ Sends(Message(1, Head(pieces)))
      /\ pieces' = Tail(pieces)
      /\ at' = IF Len(Head(pieces)) < BUFFER_SIZE THEN "copy" ELSE "flush"
      /\ UNCHANGED <<client, turn, unsent, sock, buf, address, more, hand>>
  BY DEF Flush
<1>2. /\ Dialogue' = Dialogue /\ HeaderLength' = HeaderLength
      /\ Socks' = Socks /\ Connect' = Connect /\ Plain' = Plain
  BY <1>1, SameClient
<1>3. TypeOK /\ sent = <<>>
  BY <1>1 DEF IInv
<1>4. Plain /\ ~Socks /\ ~Connect /\ HttpInv /\ PlainInv
  <2>1. ~SocksInv /\ ~ConnectInv
    BY <1>1 DEF SocksInv, ConnectInv
  <2> QED BY <2>1, ByKind, Zenon
<1>5. pieces \in Seq(Seq(Bytes)) /\ \A i \in DOMAIN pieces : Len(pieces[i]) \in 1..PIECE
  BY <1>3, Zenon DEF TypeOK
<1>6. /\ Head(pieces) \in Seq(Bytes) /\ Len(Head(pieces)) \in 1..PIECE
      /\ pieces' \in Seq(Seq(Bytes)) /\ \A i \in DOMAIN pieces' : Len(pieces'[i]) \in 1..PIECE
  <2> DEFINE n == Len(pieces)
  <2>1. n \in Nat /\ n >= 1 /\ DOMAIN pieces = 1..n
    BY <1>1, <1>5
  <2>2. Head(pieces) = pieces[1] /\ Head(pieces) \in Seq(Bytes) /\ Tail(pieces) \in Seq(Seq(Bytes))
    BY <1>1, <1>5
  <2>3. Len(Tail(pieces)) = n - 1 /\ DOMAIN Tail(pieces) = 1 .. n - 1
    BY <1>1, <1>5
  <2>4. \A i \in 1 .. n - 1 : Tail(pieces)[i] = pieces[i + 1]
    BY <1>1, <1>5
  <2> HIDE DEF n
  <2>5. \A i \in 1 .. n - 1 : i + 1 \in 1..n
    BY <2>1
  <2>6. \A i \in DOMAIN Tail(pieces) : Len(Tail(pieces)[i]) \in 1..PIECE
    BY <1>5, <2>1, <2>3, <2>4, <2>5, Zenon
  <2>7. 1 \in DOMAIN pieces
    BY <2>1
  <2>8. Len(Head(pieces)) \in 1..PIECE
    BY <1>5, <2>2, <2>7, Zenon
  <2> QED BY <1>1, <2>2, <2>6, <2>8, Zenon
<1>7. Len(Head(pieces)) <= BUFFER_SIZE /\ Len(Head(pieces)) < BUFFER_SIZE
  <2> DEFINE n == Len(Head(pieces))
  <2>1. n \in 1..PIECE
    BY <1>6
  <2> HIDE DEF n
  <2>2. n <= BUFFER_SIZE /\ n < BUFFER_SIZE
    BY <2>1, FrontEndNumbers
  <2> QED BY <2>2 DEF n
<1>8. at' = "copy"
  BY <1>1, <1>7
<1>9. sent' = sent \o Head(pieces) /\ LastIsPacked'
  <2>1. address \in Seq(Nat) /\ Len(address) <= MAX_STRING_LENGTH /\ 1 \in Bytes
    BY <1>1, <1>3, <1>4, FrontEndNumbers DEF TypeOK, HttpInv
  <2> QED BY <1>1, <1>6, <1>7, <2>1, SendingOn, Zenon
<1>10. sent' = Head(pieces) /\ sent' \in Seq(Bytes)
  <2>1. <<>> \o Head(pieces) = Head(pieces)
    BY <1>6, ConcatEmptySeq
  <2> QED BY <1>3, <1>6, <1>9, <2>1, Zenon
<1>11. TypeOK'
  BY <1>1, <1>3, <1>6, <1>8, <1>10, Zenon DEF TypeOK
<1>12. HttpInv'
  <2>1. buf \in Seq(Bytes) /\ sock \in Seq(Bytes) /\ unsent \in Seq(Bytes)
        /\ Len(address) <= MAX_STRING_LENGTH
    BY <1>1, <1>4 DEF HttpInv
  <2> QED BY <1>1, <1>8, <2>1, Zenon DEF HttpInv
<1>13. PlainInv'
  BY <1>1, <1>2, <1>4, <1>8, Zenon DEF PlainInv
<1> QED BY <1>2, <1>4, <1>8, <1>9, <1>10, <1>11, <1>12, <1>13, Zenon DEF IInv

LEMMA CopiesOn ==
    ASSUME NEW S, sent \in Seq(S), unsent \in Seq(S), NEW a \in Seq(S), NEW b \in Seq(S)
    PROVE  /\ sent \o a \in Seq(S)
           /\ (sent \o a) \o (b \o unsent) = sent \o ((a \o b) \o unsent)
<1>1. b \o unsent \in Seq(S) /\ sent \o a \in Seq(S)
  BY ConcatProperties
<1>2. ASSUME NEW c \in Seq(S) PROVE (sent \o a) \o c = sent \o (a \o c)
  BY ConcatAssociative
<1>3. (sent \o a) \o (b \o unsent) = sent \o (a \o (b \o unsent))
  BY <1>1, <1>2, Zenon
<1>4. a \o (b \o unsent) = (a \o b) \o unsent
  BY ConcatAssociative
<1> QED BY <1>1, <1>3, <1>4, Zenon

\* What Copy sends moves from the socket to the end of what was sent.
LEMMA CopySteps ==
    ASSUME MixIsInteger(Password), IInv, Copy
    PROVE  /\ at = "copy" /\ LastIsPacked'
           /\ sock \in Seq(Bytes) /\ unsent \in Seq(Bytes)
           /\ sock' \in Seq(Bytes) /\ sent' \in Seq(Bytes)
           /\ sent' \o (sock' \o unsent) = sent \o (sock \o unsent)
           /\ Len(sock') <= Len(sock)
<1>1. PICK nr \in 1 .. Len(sock) :
          /\ nr <= BUFFER_SIZE
          /\ Sends(Message(1, SubSeq(sock, 1, nr)))
          /\ sock' = SubSeq(sock, nr + 1, Len(sock))
  BY DEF Copy
<1>2. at = "copy"
  BY DEF Copy, Copies
<1>3. sent \in Seq(Bytes) /\ sock \in Seq(Bytes) /\ unsent \in Seq(Bytes)
  <2>1. SocksInv => sock \in Seq(Bytes) /\ unsent \in Seq(Bytes)
    BY <1>2 DEF SocksInv
  <2>2. HttpInv => sock \in Seq(Bytes) /\ unsent \in Seq(Bytes)
    BY DEF HttpInv
  <2> QED BY <2>1, <2>2, ByKind, Zenon
<1> DEFINE x == SubSeq(sock, 1, nr)
           y == SubSeq(sock, nr + 1, Len(sock))
<1>4. x \in Seq(Bytes) /\ y \in Seq(Bytes) /\ Len(x) = nr /\ Len(y) = Len(sock) - nr /\ x \o y = sock
  BY <1>3, CutInTwo
<1> HIDE DEF x, y
<1>5. Len(x) <= BUFFER_SIZE
  BY <1>1, <1>4
<1>6. sent' = sent \o x /\ LastIsPacked'
  <2>1. SocksInv \/ HttpInv => Len(address) <= MAX_STRING_LENGTH
    BY <1>2 DEF SocksInv, HttpInv
  <2>2. address \in Seq(Nat) /\ Len(address) <= MAX_STRING_LENGTH
    BY <2>1, ByKind, Zenon
  <2> QED BY <1>1, <1>4, <1>5, <2>2, FrontEndNumbers, SendingOn, Zenon DEF x
<1>8. sock' = y
  BY <1>1 DEF y
<1>9. sent' \in Seq(Bytes) /\ sent' \o (sock' \o unsent) = sent \o (sock \o unsent)
  <2>1. sent \o x \in Seq(Bytes) /\ (sent \o x) \o (y \o unsent) = sent \o ((x \o y) \o unsent)
    BY <1>3, <1>4, CopiesOn, Zenon
  <2> QED BY <1>4, <1>6, <1>8, <2>1, Zenon
<1>10. Len(sock') <= Len(sock)
  <2> DEFINE l == Len(sock)
             k == Len(y)
  <2>1. l \in Nat /\ k = l - nr /\ nr \in 1..l
    BY <1>3, <1>4
  <2> HIDE DEF l, k
  <2>2. k <= l
    BY <2>1
  <2> QED BY <1>8, <2>2 DEF l, k
<1> QED BY <1>2, <1>3, <1>4, <1>6, <1>8, <1>9, <1>10, Zenon

LEMMA CopyKeepsIInv ==
    ASSUME MixIsInteger(Password), IInv, Copy
    PROVE  IInv'
<1>1. /\ at = "copy" /\ LastIsPacked'
      /\ sock \in Seq(Bytes) /\ unsent \in Seq(Bytes)
      /\ sock' \in Seq(Bytes) /\ sent' \in Seq(Bytes)
      /\ sent' \o (sock' \o unsent) = sent \o (sock \o unsent)
  BY CopySteps, Zenon
<1>2. UNCHANGED <<client, turn, unsent, at, buf, address, more, hand, pieces>>
  BY DEF Copy
<1>3. /\ Dialogue' = Dialogue /\ HeaderLength' = HeaderLength
      /\ Socks' = Socks /\ Connect' = Connect /\ Plain' = Plain
  BY <1>2, SameClient
<1>4. TypeOK'
  <2>1. sock' \in Seq(Nat)
    BY <1>1, BytesAreNumbers
  <2>2. TypeOK
    BY DEF IInv
  <2> QED BY <1>1, <1>2, <2>1, <2>2, Zenon DEF TypeOK
<1>5. SocksInv => SocksInv'
  <2>1. unsent' = unsent /\ at' = "copy"
    BY <1>1, <1>2
  <2>2. SocksInv => sent' \o (sock' \o unsent') = Dialogue'[3]
    BY <1>1, <1>3, <2>1, Zenon DEF SocksInv
  <2> QED BY <1>1, <1>2, <1>3, <2>1, <2>2 DEF SocksInv
<1>6. HttpInv => HttpInv'
  BY <1>1, <1>2, <1>3 DEF HttpInv
<1>7. ConnectInv => ConnectInv'
  <2>1. unsent' = unsent /\ at' = "copy"
    BY <1>1, <1>2
  <2>2. ConnectInv => sent' \o (sock' \o unsent') = Dialogue'[2]
    BY <1>1, <1>3, <2>1, Zenon DEF ConnectInv
  <2> QED BY <1>1, <1>2, <1>3, <2>1, <2>2 DEF ConnectInv
<1>8. PlainInv => PlainInv'
  BY <1>2, <1>3, Zenon DEF PlainInv
<1>9. (at # "copy" => sent = <<>>)'
  BY <1>1, <1>2
<1> QED BY <1>1, <1>3, <1>4, <1>5, <1>6, <1>7, <1>8, <1>9, Zenon DEF IInv

LEMMA RespondsKeepsIInv ==
    ASSUME IInv, Responds
    PROVE  IInv'
<1>1. /\ Plain /\ at = "copy" /\ turn < Len(client.parts)
      /\ turn' = turn + 1 /\ unsent' = Dialogue[turn + 1]
      /\ UNCHANGED <<client, sock, at, buf, address, more, hand, pieces, sent, last>>
  BY DEF Responds, Answered, Dialogue
<1>2. /\ Dialogue' = Dialogue /\ HeaderLength' = HeaderLength
      /\ Socks' = Socks /\ Connect' = Connect /\ Plain' = Plain
  BY <1>1, SameClient
<1>3. client \in Clients /\ ~Socks /\ ~Connect /\ HttpInv /\ PlainInv
  BY <1>1, ByKind, Zenon
<1>4. Dialogue \in Seq(Seq(Bytes))
  BY <1>3, Kinds, Zenon
<1>5. TypeOK /\ LastIsPacked
  BY DEF IInv
<1>6. turn \in 1 .. Len(Dialogue)
  BY <1>5, Zenon DEF TypeOK, Dialogue
<1>7. turn' \in 1 .. Len(Dialogue) /\ unsent' \in Seq(Bytes)
  <2>1. turn + 1 \in 1 .. Len(Dialogue)
    BY <1>1, <1>4, <1>6 DEF Dialogue
  <2>2. Dialogue[turn + 1] \in Seq(Bytes)
    BY <1>4, <2>1
  <2> QED BY <1>1, <2>1, <2>2
<1>8. TypeOK'
  <2>1. turn' \in 1 .. Len(client'.parts) /\ unsent' \in Seq(Nat)
    BY <1>1, <1>7, BytesAreNumbers DEF Dialogue
  <2> QED BY <1>1, <1>5, <2>1, Zenon DEF TypeOK
<1>9. HttpInv'
  BY <1>1, <1>3, <1>7 DEF HttpInv
<1>10. PlainInv'
  BY <1>1, <1>2, <1>3 DEF PlainInv
<1>11. (at # "copy" => sent = <<>>)' /\ LastIsPacked'
  BY <1>1, <1>5, Zenon DEF LastIsPacked
<1> QED BY <1>2, <1>3, <1>8, <1>9, <1>10, <1>11, Zenon DEF IInv

\* A step that leaves all as it is.
LEMMA StutterKeepsIInv ==
    ASSUME IInv, UNCHANGED vars
    PROVE  IInv'
<1>1. UNCHANGED <<client, turn, unsent, sock, at, buf, address, more, hand, pieces, sent, last>>
  BY DEF vars
<1>2. /\ Dialogue' = Dialogue /\ HeaderLength' = HeaderLength
      /\ Socks' = Socks /\ Connect' = Connect /\ Plain' = Plain
  BY <1>1, SameClient
<1>3. TypeOK' = TypeOK
  BY <1>1, Zenon DEF TypeOK
<1>4. LastIsPacked' = LastIsPacked
  BY <1>1, Zenon DEF LastIsPacked
<1>5. SocksInv' = SocksInv
  BY <1>1, <1>2, Zenon DEF SocksInv
<1>6. HttpInv' = HttpInv
  BY <1>1, <1>2, Zenon DEF HttpInv
<1>7. ConnectInv' = ConnectInv /\ PlainInv' = PlainInv
  BY <1>1, <1>2, Zenon DEF ConnectInv, PlainInv
<1>8. (at # "copy" => sent = <<>>)'
  BY <1>1, Zenon DEF IInv
<1> QED BY <1>2, <1>3, <1>4, <1>5, <1>6, <1>7, <1>8, Zenon DEF IInv

LEMMA InitIInv ==
    ASSUME Init
    PROVE  IInv
<1>1. /\ client \in Clients /\ turn = 1 /\ unsent = Dialogue[1] /\ sock = <<>>
      /\ at = IF Socks THEN "greeting" ELSE "header"
      /\ buf = IF Socks THEN [i \in 1..BUF |-> 0] ELSE <<>>
      /\ address = <<>> /\ more = 0 /\ hand = <<>> /\ pieces = <<>> /\ sent = <<>> /\ last = Error
  BY DEF Init, Dialogue
<1>2. /\ Dialogue[1] \in Seq(Nat) /\ Len(Dialogue) >= 1 /\ Len(Dialogue) \in Nat
      /\ ~Socks => Dialogue[1] \in Seq(Bytes)
  <2>1. CASE Socks
    <3>1. Len(Dialogue) = 3 /\ Dialogue[1] \in Seq(Nat)
      BY <1>1, <2>1, Kinds, Zenon
    <3> QED BY <2>1, <3>1
  <2>2. CASE ~Socks
    <3>1. Dialogue \in Seq(Seq(Bytes)) /\ Len(Dialogue) >= 1 /\ Dialogue[1] \in Seq(Bytes)
      BY <1>1, <2>2, Kinds, Zenon
    <3> QED BY <3>1, BytesAreNumbers
  <2> QED BY <2>1, <2>2
<1>3. sock \o unsent = Dialogue[1] /\ unsent \in Seq(Nat) /\ (~Socks => unsent \in Seq(Bytes))
  <2>1. <<>> \o Dialogue[1] = Dialogue[1]
    BY <1>2, ConcatEmptySeq
  <2> QED BY <1>1, <1>2, <2>1, Zenon
<1>4. /\ <<>> \in Seq(Nat) /\ <<>> \in Seq(Bytes) /\ <<>> \in Seq(Seq(Bytes)) /\ Len(<<>>) = 0
      /\ DOMAIN <<>> = {}
  OBVIOUS
<1>5. buf \in Seq(Nat) /\ (Socks => Len(buf) >= BUF) /\ (~Socks => buf = <<>>)
  <2>1. CASE Socks
    <3> DEFINE z == [i \in 1..BUF |-> 0]
    <3>1. z \in [1..BUF -> Nat] /\ BUF \in Nat
      BY DEF BUF
    <3> HIDE DEF z
    <3>2. z \in Seq(Nat) /\ Len(z) = BUF
      BY <3>1, LenProperties
    <3>3. buf = z
      BY <1>1, <2>1 DEF z
    <3> QED BY <2>1, <3>1, <3>2, <3>3
  <2>2. CASE ~Socks
    BY <1>1, <1>4, <2>2
  <2> QED BY <2>1, <2>2
<1>6. TypeOK
  <2>1. turn \in 1 .. Len(client.parts)
    BY <1>1, <1>2 DEF Dialogue
  <2>2. Len(hand) < PIECE
    BY <1>1, <1>4, FrontEndNumbers
  <2>3. at \in {"greeting", "request", "header", "connect", "flush", "copy", "over"} /\ more \in Nat
    BY <1>1
  <2>4. \A i \in DOMAIN pieces : Len(pieces[i]) \in 1..PIECE
    BY <1>1, <1>4
  <2> QED BY <1>1, <1>3, <1>4, <1>5, <2>1, <2>2, <2>3, <2>4, Zenon DEF TypeOK
<1>7. LastIsPacked
  BY <1>1 DEF LastIsPacked
<1>8. Socks => SocksInv
  BY <1>1, <1>3, <1>5 DEF SocksInv
<1>9. ASSUME ~Socks
      PROVE  /\ HttpInv
             /\ Connect => ConnectInv
             /\ PlainInv
  <2>1. Dialogue[1] \in Seq(Bytes) /\ HeaderLength \in 1 .. Len(Dialogue[1])
    BY <1>1, <1>9, Kinds, Zenon
  <2>2. at = "header" /\ buf = <<>>
    BY <1>1, <1>9
  <2>3. Len(buf) < HeaderLength /\ more <= Len(Dialogue[1]) - HeaderLength
    BY <1>1, <1>4, <2>1, <2>2
  <2>4. buf \o (sock \o unsent) = Dialogue[1]
    <3>1. <<>> \o Dialogue[1] = Dialogue[1]
      BY <1>2, ConcatEmptySeq
    <3> QED BY <1>3, <2>2, <3>1, Zenon
  <2>5. HttpInv
    BY <1>1, <1>3, <1>4, <1>9, <2>2, <2>3, <2>4, Zenon DEF HttpInv
  <2> QED BY <1>1, <2>2, <2>3, <2>5 DEF ConnectInv, PlainInv
<1>10. ~(Socks /\ Connect) /\ ~(Socks /\ Plain)
  BY <1>1, Kinds, Zenon
<1> QED BY <1>1, <1>6, <1>7, <1>8, <1>9, <1>10, Zenon DEF IInv

LEMMA NextIInv ==
    ASSUME MixIsInteger(Password), IInv, [Next]_vars
    PROVE  IInv'
<1>1. CASE ClientSends
  BY <1>1, ClientSendsKeepsIInv
<1>2. CASE SocksGreeting
  BY <1>2, SocksGreetingKeepsIInv
<1>3. CASE SocksRequest
  BY <1>3, SocksRequestKeepsIInv
<1>4. CASE HttpGet
  BY <1>4, HttpGetKeepsIInv
<1>5. CASE PipeBody
  BY <1>5, PipeBodyKeepsIInv
<1>6. CASE Connects
  BY <1>6, ConnectsKeepsIInv
<1>7. CASE Flush
  BY <1>7, FlushKeepsIInv
<1>8. CASE Copy
  BY <1>8, CopyKeepsIInv
<1>9. CASE Responds
  BY <1>9, RespondsKeepsIInv
<1>10. CASE UNCHANGED vars
  BY <1>10, StutterKeepsIInv
<1> QED BY <1>1, <1>2, <1>3, <1>4, <1>5, <1>6, <1>7, <1>8, <1>9, <1>10 DEF Next

-----------------------------------------------------------------------------
(* What the invariant gives                                                 *)

LEMMA InvariantHolds ==
    ASSUME MixIsInteger(Password)
    PROVE  Spec => []IInv
<1>1. Init => IInv
  BY InitIInv
<1>2. IInv /\ [Next]_vars => IInv'
  BY NextIInv
<1> QED BY <1>1, <1>2, PTL DEF Spec

\* Types, in every reachable state of the front ends.
THEOREM TypeCorrect ==
    ASSUME MixIsInteger(Password)
    PROVE  Spec => []TypeOK
<1>1. IInv => TypeOK
  BY DEF IInv
<1> QED BY <1>1, InvariantHolds, PTL

\* However TCP cuts the dialogue, and whatever an earlier read left in buf, an
\* accepted SOCKS5 request has the address that its client sent (Socks5Proto.Get).
THEOREM AcceptedAsAsked ==
    ASSUME MixIsInteger(Password)
    PROVE  Spec => []AcceptedIsAsked
<1>1. IInv => AcceptedIsAsked
  BY DEF IInv, SocksInv, AcceptedIsAsked, Dialogue
<1> QED BY <1>1, InvariantHolds, PTL

\* Every message that HandleConn and CopyToWS send can be packed, and the exit
\* unpacks what was packed (Packer.Pack and Unpack).
THEOREM ExitGetsTheMessage ==
    ASSUME MixIsInteger(Password)
    PROVE  Spec => []UnpackInvertsPack
<1>1. ASSUME IInv PROVE UnpackInvertsPack
  <2> SUFFICES ASSUME last # Error PROVE Unpack(last.packed, Password) = last.msg
    BY DEF UnpackInvertsPack
  <2>1. LastIsPacked
    BY <1>1 DEF IInv
  <2>2. PICK key \in Keys, r \in Draws : last.packed = Pack(last.msg, Password, key, r)
    BY <2>1 DEF LastIsPacked
  <2>3. Packable(last.msg)
    BY <2>1 DEF LastIsPacked
  <2>4. key \in KeyBytes
    BY FrontEndNumbers
  <2>5. Unpack(Pack(last.msg, Password, key, r), Password) = last.msg
    BY <2>3, <2>4, UnpackReturnsThePacked, Zenon
  <2> QED BY <2>2, <2>5, Zenon
<1> QED BY <1>1, InvariantHolds, PTL

\* No message that is sent can be taken for another one when it is cut or has a
\* byte behind its end (decodeBinaryMessage).
THEOREM CutIsAnError ==
    ASSUME MixIsInteger(Password)
    PROVE  Spec => []OnlyWholeMessages
<1>1. ASSUME IInv PROVE OnlyWholeMessages
  <2> SUFFICES ASSUME last # Error
               PROVE  /\ \A n \in 0 .. Len(EncodeMessage(last.msg)) - 1 :
                            DecodeMessage(SubSeq(EncodeMessage(last.msg), 1, n)) = Error
                      /\ DecodeMessage(Append(EncodeMessage(last.msg), 0)) = Error
    BY DEF OnlyWholeMessages
  <2> DEFINE bytes == EncodeMessage(last.msg)
  <2>1. Packable(last.msg)
    BY <1>1 DEF IInv, LastIsPacked
  <2>2. \A n \in 0 .. Len(bytes) - 1 : DecodeMessage(SubSeq(bytes, 1, n)) = Error
    BY <2>1, OnlyWholeIsDecoded
  <2>3. <<0>> \in Seq(Bytes) /\ <<0>> # <<>>
    BY FrontEndNumbers
  <2>4. DecodeMessage(bytes \o <<0>>) = Error
    BY <2>1, <2>3, OnlyWholeIsDecoded
  <2>5. bytes \in Seq(Bytes)
    <3>1. <<>> \in Seq(Bytes) /\ last.msg \in Messages /\ Encodable(last.msg)
      BY <2>1 DEF Packable
    <3> QED BY <3>1, Encoding
  <2> HIDE DEF bytes
  <2>6. Append(bytes, 0) = bytes \o <<0>>
    <3>1. 0 \in Bytes
      BY FrontEndNumbers
    <3> QED BY <2>5, <3>1, AppendIsConcat
  <2> QED BY <2>2, <2>4, <2>6 DEF bytes
<1> QED BY <1>1, InvariantHolds, PTL

-----------------------------------------------------------------------------
(* The order of the bytes                                                   *)

\* The elements that are left out can be between any others.
LEMMA KeepsItsOrder ==
    ASSUME NEW S, NEW s \in Seq(S)
    PROVE  /\ KeepsOrder(s, s)
           /\ \A t \in Seq(S) : KeepsOrder(s, s \o t)
           /\ \A t, u \in Seq(S) : KeepsOrder(s, t) /\ KeepsOrder(t, u) => KeepsOrder(s, u)
           /\ \A t \in Seq(S) : KeepsOrder(s, t) => Len(s) <= Len(t)
<1>1. KeepsOrder(s, s)
  <2> DEFINE f == [i \in DOMAIN s |-> i]
  <2>1. f \in [DOMAIN s -> DOMAIN s] /\ \A i \in DOMAIN s : f[i] = i
    OBVIOUS
  <2> HIDE DEF f
  <2> QED BY <2>1 DEF KeepsOrder
<1>2. ASSUME NEW t \in Seq(S) PROVE KeepsOrder(s, s \o t)
  <2> DEFINE f == [i \in DOMAIN s |-> i]
             u == s \o t
             n == Len(s)
             m == Len(u)
  <2>1. f \in [DOMAIN s -> DOMAIN s] /\ \A i \in DOMAIN s : f[i] = i
    OBVIOUS
  <2>2. /\ n \in Nat /\ m \in Nat /\ n <= m /\ DOMAIN s = 1..n /\ DOMAIN u = 1..m
        /\ \A i \in 1..n : u[i] = s[i]
    BY ConcatProperties
  <2> HIDE DEF f, u, n, m
  <2>3. f \in [DOMAIN s -> DOMAIN u]
    BY <2>1, <2>2
  <2>4. /\ \A i, j \in DOMAIN s : i < j => f[i] < f[j]
        /\ \A i \in DOMAIN s : s[i] = u[f[i]]
    BY <2>1, <2>2
  <2>5. KeepsOrder(s, u)
    BY <2>3, <2>4 DEF KeepsOrder
  <2> QED BY <2>5 DEF u
<1>3. ASSUME NEW t \in Seq(S), NEW u \in Seq(S), KeepsOrder(s, t), KeepsOrder(t, u)
      PROVE  KeepsOrder(s, u)
  <2>1. PICK f \in [DOMAIN s -> DOMAIN t] :
            /\ \A i, j \in DOMAIN s : i < j => f[i] < f[j]
            /\ \A i \in DOMAIN s : s[i] = t[f[i]]
    BY <1>3 DEF KeepsOrder
  <2>2. PICK g \in [DOMAIN t -> DOMAIN u] :
            /\ \A i, j \in DOMAIN t : i < j => g[i] < g[j]
            /\ \A i \in DOMAIN t : t[i] = u[g[i]]
    BY <1>3 DEF KeepsOrder
  <2> DEFINE h == [i \in DOMAIN s |-> g[f[i]]]
  <2>3. h \in [DOMAIN s -> DOMAIN u] /\ \A i \in DOMAIN s : h[i] = g[f[i]] /\ f[i] \in DOMAIN t
    OBVIOUS
  <2> HIDE DEF h
  <2>4. \A i, j \in DOMAIN s : i < j => h[i] < h[j]
    BY <2>1, <2>2, <2>3
  <2>5. \A i \in DOMAIN s : s[i] = u[h[i]]
    BY <2>1, <2>2, <2>3
  <2> QED BY <2>3, <2>4, <2>5 DEF KeepsOrder
<1>4. ASSUME NEW t \in Seq(S), KeepsOrder(s, t) PROVE Len(s) <= Len(t)
  <2> DEFINE n == Len(s)
             m == Len(t)
  <2>1. n \in Nat /\ m \in Nat /\ DOMAIN s = 1..n /\ DOMAIN t = 1..m
    OBVIOUS
  <2>2. PICK f \in [DOMAIN s -> DOMAIN t] : \A i, j \in DOMAIN s : i < j => f[i] < f[j]
    BY <1>4 DEF KeepsOrder
  <2> HIDE DEF n, m
  <2>3. \A i \in 1..n : f[i] \in 1..m
    BY <2>1, <2>2
  <2>4. \A i, j \in 1..n : i < j => f[i] < f[j]
    BY <2>1, <2>2
  <2> DEFINE R == {i \in 0..n : i = 0 \/ i <= f[i]}
  <2>5. 0 \in R
    BY <2>1
  <2>6. ASSUME NEW k \in 1..n, k - 1 \in R PROVE k \in R
    <3>1. CASE k = 1
      BY <2>1, <2>3, <3>1
    <3>2. CASE k # 1
      <4>1. k - 1 \in 1..n /\ k - 1 < k /\ k - 1 <= f[k - 1] /\ k \in 0..n
        BY <2>1, <2>6, <3>2
      <4>2. f[k - 1] < f[k] /\ f[k] \in 1..m /\ f[k - 1] \in 1..m
        BY <2>3, <2>4, <4>1
      <4>3. k <= f[k]
        BY <2>1, <4>1, <4>2
      <4> QED BY <4>1, <4>3
    <3> QED BY <3>1, <3>2
  <2>7. n \in R
    <3> HIDE DEF R
    <3>1. n \in 0..n
      BY <2>1
    <3> QED BY <2>1, <2>5, <2>6, <3>1, SetInduction
  <2>8. n <= m
    BY <2>1, <2>3, <2>7
  <2> QED BY <2>8 DEF n, m
<1> QED BY <1>1, <1>2, <1>3, <1>4

\* What is left out in one place.
LEMMA LeftOut ==
    ASSUME NEW S, NEW a \in Seq(S), NEW b \in Seq(S), NEW c \in Seq(S)
    PROVE  KeepsOrder(a \o c, a \o (b \o c))
<1> DEFINE s == a \o c
           t == b \o c
           u == a \o t
           la == Len(a)
           lb == Len(b)
           lc == Len(c)
           ls == Len(s)
           lu == Len(u)
<1>1. /\ la \in Nat /\ lc \in Nat /\ ls = la + lc /\ DOMAIN s = 1..ls
      /\ \A i \in 1..ls : s[i] = IF i <= la THEN a[i] ELSE c[i - la]
  BY ConcatProperties
<1>2. /\ t \in Seq(S) /\ lb \in Nat /\ Len(t) = lb + lc
      /\ \A i \in 1 .. lb + lc : t[i] = IF i <= lb THEN b[i] ELSE c[i - lb]
  BY ConcatProperties
<1> HIDE DEF t, s
<1>3. /\ DOMAIN u = 1..lu /\ lu = la + (lb + lc)
      /\ \A i \in 1..lu : u[i] = IF i <= la THEN a[i] ELSE t[i - la]
  <2> DEFINE lt == Len(t)
  <2>1. lt \in Nat /\ lt = lb + lc
    BY <1>2
  <2>2. /\ u \in Seq(S) /\ lu = la + lt
        /\ \A i \in 1 .. la + lt : u[i] = IF i <= la THEN a[i] ELSE t[i - la]
    <3>1. t \in Seq(S)
      BY <1>2
    <3> QED BY <3>1, ConcatProperties
  <2>3. DOMAIN u = 1..lu
    <3> HIDE DEF u
    <3> QED BY <2>2
  <2> HIDE DEF u, la, lb, lc, lu, lt
  <2> QED BY <2>1, <2>2, <2>3
<1> HIDE DEF u, la, lb, lc, ls, lu
<1> DEFINE f == [i \in 1..ls |-> IF i <= la THEN i ELSE i + lb]
<1>4. \A i \in 1..ls : f[i] = (IF i <= la THEN i ELSE i + lb) /\ f[i] \in 1..lu
  BY <1>1, <1>2, <1>3
<1>5. f \in [1..ls -> 1..lu]
  BY <1>4
<1> HIDE DEF f
<1>6. \A i, j \in 1..ls : i < j => f[i] < f[j]
  BY <1>1, <1>2, <1>4
<1>7. ASSUME NEW i \in 1..ls PROVE s[i] = u[f[i]]
  <2>1. CASE i <= la
    BY <1>1, <1>3, <1>4, <2>1
  <2>2. CASE ~(i <= la)
    <3> DEFINE k == i + lb
               j == k - la
    <3>1. f[i] = k /\ k \in 1..lu /\ ~(k <= la)
      BY <1>1, <1>2, <1>4, <2>2
    <3>2. j \in 1 .. lb + lc /\ ~(j <= lb) /\ j - lb = i - la
      BY <1>1, <1>2, <2>2
    <3> HIDE DEF k
    <3>3. u[k] = t[j]
      BY <1>3, <3>1
    <3> HIDE DEF j
    <3>4. t[j] = c[j - lb]
      BY <1>2, <3>2
    <3>5. s[i] = c[i - la]
      BY <1>1, <2>2
    <3> QED BY <3>1, <3>2, <3>3, <3>4, <3>5, Zenon
  <2> QED BY <2>1, <2>2
<1>8. KeepsOrder(s, u)
  BY <1>1, <1>3, <1>5, <1>6, <1>7 DEF KeepsOrder
<1> QED BY <1>8 DEF s, u, t

\* What the exit may have of t.
Arrives(holes, s, t) == IF holes THEN KeepsOrder(s, t) ELSE IsPrefix(s, t)

\* What arrives is no longer than what was sent, and what arrives of it first
\* arrives too.
LEMMA ArrivesAsBeginning ==
    ASSUME NEW S, NEW s \in Seq(S), NEW t \in Seq(S), NEW u \in Seq(S), NEW holes
    PROVE  /\ IsPrefix(s, t) => Arrives(holes, s, t)
           /\ Arrives(holes, s, t) => Len(s) <= Len(t)
           /\ holes /\ KeepsOrder(s, t) /\ Arrives(holes, t, u) => Arrives(holes, s, u)
           /\ IsPrefix(s, t) /\ Arrives(holes, t, u) => Arrives(holes, s, u)
           /\ Arrives(holes, s, t) /\ IsPrefix(t, u) => Arrives(holes, s, u)
           /\ Arrives(holes, s, s)
<1>1. ASSUME NEW x \in Seq(S), NEW y \in Seq(S), IsPrefix(x, y) PROVE KeepsOrder(x, y)
  <2>1. PICK r \in Seq(S) : y = x \o r
    BY <1>1, Beginning
  <2> QED BY <2>1, KeepsItsOrder
<1>2. Arrives(holes, s, t) => KeepsOrder(s, t)
  BY <1>1, Zenon DEF Arrives
<1>3. Arrives(holes, s, t) => Len(s) <= Len(t)
  BY <1>2, KeepsItsOrder
<1>4. holes /\ KeepsOrder(s, t) /\ Arrives(holes, t, u) => Arrives(holes, s, u)
  BY KeepsItsOrder, Zenon DEF Arrives
<1>5. IsPrefix(s, t) /\ Arrives(holes, t, u) => Arrives(holes, s, u)
  <2>1. KeepsOrder(t, u) /\ IsPrefix(s, t) => KeepsOrder(s, u)
    BY <1>1, KeepsItsOrder, Zenon
  <2>2. IsPrefix(t, u) /\ IsPrefix(s, t) => IsPrefix(s, u)
    BY BeginningOfBeginning, Zenon
  <2> QED BY <2>1, <2>2, Zenon DEF Arrives
<1>6. Arrives(holes, s, t) /\ IsPrefix(t, u) => Arrives(holes, s, u)
  <2>1. KeepsOrder(s, t) /\ IsPrefix(t, u) => KeepsOrder(s, u)
    BY <1>1, KeepsItsOrder, Zenon
  <2>2. IsPrefix(s, t) /\ IsPrefix(t, u) => IsPrefix(s, u)
    BY BeginningOfBeginning, Zenon
  <2> QED BY <2>1, <2>2, Zenon DEF Arrives
<1>7. Arrives(holes, s, s)
  <2>1. <<>> \in Seq(S) /\ s \o <<>> = s
    BY ConcatEmptySeq
  <2>2. IsPrefix(s, s \o <<>>)
    BY <2>1, Beginning
  <2>3. IsPrefix(s, s)
    BY <2>1, <2>2, Zenon
  <2> QED BY <2>3, KeepsItsOrder, Zenon DEF Arrives
<1>8. IsPrefix(s, t) => Arrives(holes, s, t)
  BY <1>1, Zenon DEF Arrives
<1> QED BY <1>3, <1>4, <1>5, <1>6, <1>7, <1>8, Zenon

\* What the exit has, the socket and the client's hands, in this order, are what
\* arrives of the requests up to this turn.
OrderInv == Plain =>
    /\ at \in {"connect", "flush"} =>
          Arrives(HasBody, Head(pieces) \o (sock \o unsent), Dialogue[1])
    /\ at = "copy" =>
          Arrives(HasBody, sent \o (sock \o unsent), FlattenSeq(SubSeq(Dialogue, 1, turn)))

LEMMA SameBody == client' = client => HasBody' = HasBody
BY DEF HasBody, Plain

\* A plain client.
LEMMA PlainFacts ==
    ASSUME IInv, Plain
    PROVE  /\ client \in Clients /\ ~Socks /\ ~Connect /\ HttpInv /\ PlainInv
           /\ sock \in Seq(Bytes) /\ unsent \in Seq(Bytes) /\ sent \in Seq(Bytes)
           /\ Dialogue \in Seq(Seq(Bytes)) /\ Len(Dialogue) >= 1 /\ Dialogue[1] \in Seq(Bytes)
           /\ HeaderLength \in 1 .. Len(Dialogue[1])
           /\ turn \in 1 .. Len(Dialogue) /\ more \in Nat
<1>1. client \in Clients /\ ~Socks /\ ~Connect /\ HttpInv /\ PlainInv /\ sent \in Seq(Bytes)
  BY ByKind, Zenon
<1>2. /\ Dialogue \in Seq(Seq(Bytes)) /\ Len(Dialogue) >= 1 /\ Dialogue[1] \in Seq(Bytes)
      /\ HeaderLength \in 1 .. Len(Dialogue[1])
  BY <1>1, Kinds, Zenon
<1>3. turn \in 1 .. Len(Dialogue) /\ more \in Nat
  BY Zenon DEF IInv, TypeOK, Dialogue
<1>4. sock \in Seq(Bytes) /\ unsent \in Seq(Bytes)
  BY <1>1, Zenon DEF HttpInv
<1> QED BY <1>1, <1>2, <1>3, <1>4, Zenon

\* The requests so far, and those with the next one.
LEMMA SoFar ==
    ASSUME IInv, Plain
    PROVE  /\ FlattenSeq(SubSeq(Dialogue, 1, turn)) \in Seq(Bytes)
           /\ turn = 1 => FlattenSeq(SubSeq(Dialogue, 1, turn)) = Dialogue[1]
           /\ turn < Len(Dialogue) =>
                 FlattenSeq(SubSeq(Dialogue, 1, turn + 1)) =
                    FlattenSeq(SubSeq(Dialogue, 1, turn)) \o Dialogue[turn + 1]
<1> DEFINE n == Len(Dialogue)
<1>1. Dialogue \in Seq(Seq(Bytes)) /\ n >= 1 /\ turn \in 1..n /\ n \in Nat
  BY PlainFacts, Zenon, LenProperties
<1>2. /\ \A i \in 1..n : FlattenSeq(SubSeq(Dialogue, 1, i)) \in Seq(Bytes)
      /\ FlattenSeq(SubSeq(Dialogue, 1, 1)) = Dialogue[1]
      /\ \A i \in 1 .. n - 1 : FlattenSeq(SubSeq(Dialogue, 1, i + 1))
                                   = FlattenSeq(SubSeq(Dialogue, 1, i)) \o Dialogue[i + 1]
  BY <1>1, Flattened
<1> HIDE DEF n
<1>3. turn < n => turn \in 1 .. n - 1
  BY <1>1
<1>4. turn = 1 => FlattenSeq(SubSeq(Dialogue, 1, turn)) = Dialogue[1]
  BY <1>2
<1> QED BY <1>1, <1>2, <1>3, <1>4, Zenon DEF n

LEMMA ClientSendsKeepsOrder ==
    ASSUME IInv, OrderInv, ClientSends
    PROVE  OrderInv'
<1> SUFFICES ASSUME Plain' PROVE OrderInv'
  BY DEF OrderInv
<1>1. PICK n \in 1 .. Len(unsent) :
          /\ sock' = sock \o SubSeq(unsent, 1, n)
          /\ unsent' = SubSeq(unsent, n + 1, Len(unsent))
          /\ UNCHANGED <<client, turn, at, buf, address, more, hand, pieces, sent, last>>
  BY DEF ClientSends
<1>2. Dialogue' = Dialogue /\ Plain
  BY <1>1, SameClient
<1>3. sock \in Seq(Bytes) /\ unsent \in Seq(Bytes) /\ n \in 0 .. Len(unsent)
  <2>1. sock \in Seq(Bytes) /\ unsent \in Seq(Bytes)
    BY <1>2, PlainFacts, Zenon
  <2> QED BY <2>1
<1>4. sock' \o unsent' = sock \o unsent
  <2>1. (sock \o SubSeq(unsent, 1, n)) \o SubSeq(unsent, n + 1, Len(unsent)) = sock \o unsent
    BY <1>3, SendsOn, Zenon
  <2> QED BY <1>1, <2>1, Zenon
<1>5. HasBody' = HasBody
  BY <1>1, SameBody
<1> QED BY <1>1, <1>2, <1>4, <1>5, Zenon DEF OrderInv

\* What the bufio.Reader holds behind the header is left out.
LEMMA HttpGetKeepsOrder ==
    ASSUME IInv, OrderInv, HttpGet
    PROVE  OrderInv'
<1> SUFFICES ASSUME Plain' PROVE OrderInv'
  BY DEF OrderInv
<1> DEFINE g(nr) == buf \o SubSeq(sock, 1, nr)
<1>1. PICK nr \in 1 .. Len(sock) :
          /\ sock' = SubSeq(sock, nr + 1, Len(sock))
          /\ IF Len(g(nr)) < HeaderLength
             THEN buf' = g(nr) /\ UNCHANGED <<at, more, pieces, address>>
             ELSE /\ buf' = SubSeq(g(nr), HeaderLength + 1, Len(g(nr)))
                  /\ at' = "connect"
                  /\ address' = SubSeq(g(nr), 1, HeaderLength)
                  /\ IF Plain
                     THEN /\ more' = Len(client.parts[1]) - HeaderLength
                          /\ pieces' = InPieces(SubSeq(g(nr), 1, HeaderLength), PIECE)
                     ELSE UNCHANGED <<more, pieces>>
  BY DEF HttpGet
<1>2. at = "header" /\ UNCHANGED <<client, turn, unsent, hand, sent, last>>
  BY DEF HttpGet
<1>3. Dialogue' = Dialogue /\ Plain
  BY <1>2, SameClient
<1>4. /\ client \in Clients /\ HttpInv /\ sock \in Seq(Bytes) /\ unsent \in Seq(Bytes)
      /\ Dialogue[1] \in Seq(Bytes) /\ HeaderLength \in 1 .. Len(Dialogue[1])
  BY <1>3, PlainFacts, Zenon
<1>5. /\ buf \in Seq(Bytes) /\ more = 0 /\ buf \o (sock \o unsent) = Dialogue[1]
  BY <1>2, <1>4 DEF HttpInv
<1> DEFINE h == HeaderLength
           left == sock' \o unsent
           all == g(nr)
           total == Len(Dialogue[1])
<1>6. all \in Seq(Bytes) /\ sock' \in Seq(Bytes) /\ all \o left = Dialogue[1]
  <2>1. nr \in 0 .. Len(sock)
    OBVIOUS
  <2>2. /\ buf \o SubSeq(sock, 1, nr) \in Seq(Bytes) /\ SubSeq(sock, nr + 1, Len(sock)) \in Seq(Bytes)
        /\ (buf \o SubSeq(sock, 1, nr)) \o (SubSeq(sock, nr + 1, Len(sock)) \o unsent)
            = buf \o (sock \o unsent)
    BY <1>4, <1>5, <2>1, GetsOn, Zenon
  <2> QED BY <1>1, <1>5, <2>2, Zenon
<1> HIDE DEF g
<1>7. CASE Len(all) < HeaderLength
  <2>1. at' = at /\ more' = 0
    BY <1>1, <1>5, <1>7
  <2> QED BY <1>2, <2>1 DEF OrderInv
<1>8. CASE ~(Len(all) < HeaderLength)
  <2> DEFINE head == SubSeq(all, 1, h)
             behind == SubSeq(all, h + 1, Len(all))
             piece == SubSeq(head, 1, IF PIECE < Len(head) THEN PIECE ELSE Len(head))
  <2>1. at' = "connect" /\ more' = total - h /\ pieces' = InPieces(head, PIECE)
    BY <1>1, <1>3, <1>8 DEF Dialogue
  <2>2. left \in Seq(Bytes) /\ Len(left) = Len(sock') + Len(unsent)
    BY <1>4, <1>6, ConcatProperties
  <2>3. Len(all) + Len(left) = total
    <3> HIDE DEF all, left
    <3>1. Len(all \o left) = Len(all) + Len(left)
      BY <1>6, <2>2, ConcatProperties
    <3> QED BY <1>6, <3>1, Zenon
  <2>4. h \in 0 .. Len(all) /\ h >= 1 /\ h \in Nat /\ total \in Nat /\ Len(all) \in Nat
    <3> DEFINE l == Len(all)
    <3>1. l \in Nat /\ total \in Nat
      BY <1>4, <1>6
    <3>2. h \in 1..total /\ ~(l < h)
      BY <1>4, <1>8
    <3> HIDE DEF l, h, total
    <3>3. h \in 0..l /\ h >= 1 /\ h \in Nat
      BY <3>1, <3>2
    <3> QED BY <3>1, <3>3 DEF l
  <2>5. /\ head \in Seq(Bytes) /\ behind \in Seq(Bytes) /\ Len(head) = h
        /\ Len(behind) = Len(all) - h /\ head \o behind = all
    <3> HIDE DEF all, h
    <3> QED BY <1>6, <2>4, CutInTwo
  <2> HIDE DEF all, head, behind
  <2>6. Head(pieces') = piece
    <3>1. Len(head) >= 1
      BY <2>4, <2>5
    <3>2. Head(InPieces(head, PIECE)) = piece
      BY <2>5, <3>1, Pieces, FrontEndNumbers
    <3> HIDE DEF piece
    <3> QED BY <2>1, <3>2, Zenon
  <2> DEFINE ll == Len(left)
             la == Len(all)
             lb == Len(behind)
  <2>7. ll \in Nat /\ la \in Nat /\ lb \in Nat /\ la + ll = total /\ lb = la - h /\ h \in Nat /\ total \in Nat
    BY <2>2, <2>3, <2>4, <2>5
  <2> HIDE DEF ll, la, lb, h, total, left, piece
  <2>8. IsPrefix(piece, all) /\ IsPrefix(piece, head) /\ piece \in Seq(Bytes)
    <3> DEFINE n == IF PIECE < Len(head) THEN PIECE ELSE Len(head)
    <3>1. n \in 0 .. Len(head)
      <4> DEFINE l == Len(head)
      <4>1. l \in Nat
        BY <2>5
      <4> HIDE DEF l
      <4>2. (IF PIECE < l THEN PIECE ELSE l) \in 0..l
        BY <4>1, FrontEndNumbers
      <4> QED BY <4>2 DEF l
    <3>2. piece = SubSeq(head, 1, n)
      BY DEF piece
    <3> HIDE DEF n
    <3> DEFINE rest == SubSeq(head, n + 1, Len(head))
    <3>3. piece \in Seq(Bytes) /\ rest \in Seq(Bytes) /\ piece \o rest = head
      BY <2>5, <3>1, <3>2, CutInTwo
    <3> HIDE DEF rest
    <3>4. IsPrefix(piece, piece \o rest)
      BY <3>3, Beginning
    <3>5. IsPrefix(piece, head)
      BY <3>3, <3>4, Zenon
    <3>6. IsPrefix(head, head \o behind)
      BY <2>5, Beginning
    <3>7. IsPrefix(head, all)
      BY <2>5, <3>6, Zenon
    <3> QED BY <1>6, <2>5, <3>3, <3>5, <3>7, BeginningOfBeginning, Zenon
  <2>9. HasBody' = HasBody /\ HasBody = (h < total)
    <3>1. HasBody = (h < total)
      BY <1>3 DEF HasBody, h, total, HeaderLength, Dialogue
    <3> QED BY <1>2, <3>1, SameBody
  <2>10. Arrives(HasBody, piece \o left, Dialogue[1])
    <3>1. CASE h = total
      <4>1. left = <<>>
        <5>1. Len(left) = 0
          <6>1. ll = 0
            BY <2>4, <2>7, <3>1 DEF la
          <6> QED BY <6>1 DEF ll
        <5> QED BY <2>2, <5>1
      <4>2. piece \o left = piece /\ all = Dialogue[1]
        BY <1>6, <2>8, <4>1, ConcatEmptySeq
      <4>3. IsPrefix(piece, Dialogue[1])
        BY <2>8, <4>2, Zenon
      <4> QED BY <1>4, <2>8, <4>2, <4>3, ArrivesAsBeginning, Zenon
    <3>2. CASE h # total
      <4>1. HasBody
        <5>1. h \in 1..total
          BY <1>4 DEF h, total
        <5>2. h < total
          BY <2>7, <3>2, <5>1
        <5> QED BY <2>9, <5>2, Zenon
      <4>2. PICK rest \in Seq(Bytes) : all = piece \o rest
        <5>1. all \in Seq(Bytes) /\ piece \in Seq(Bytes) /\ IsPrefix(piece, all)
          BY <1>6, <2>8
        <5>2. IsPrefix(piece, all) => \E rest \in Seq(Bytes) : all = piece \o rest
          BY <5>1, Beginning
        <5> QED BY <5>1, <5>2, Zenon
      <4>3. KeepsOrder(piece \o left, piece \o (rest \o left))
        BY <2>2, <2>8, LeftOut
      <4>4. piece \o (rest \o left) = Dialogue[1]
        <5>1. piece \o (rest \o left) = (piece \o rest) \o left
          BY <2>2, <2>8, Brackets
        <5> QED BY <1>6, <4>2, <5>1, Zenon
      <4> QED BY <4>1, <4>3, <4>4, Zenon DEF Arrives
    <3> QED BY <3>1, <3>2
  <2>11. Arrives(HasBody', Head(pieces') \o (sock' \o unsent'), Dialogue'[1])
    BY <1>2, <1>3, <2>6, <2>9, <2>10, Zenon DEF left
  <2> QED BY <2>1, <2>11 DEF OrderInv
<1> QED BY <1>7, <1>8

\* What r.Write's goroutine takes from netconn is left out too.
LEMMA PipeBodyKeepsOrder ==
    ASSUME IInv, OrderInv, PipeBody
    PROVE  OrderInv'
<1> DEFINE so_far == FlattenSeq(SubSeq(Dialogue, 1, turn))
<1>1. /\ Plain /\ at = "copy" /\ more > 0
      /\ sock' \in Seq(Bytes)
      /\ sock' = sock \/ (buf = <<>> /\ \E n \in 1 .. Len(sock) :
                            n <= more /\ sock' = SubSeq(sock, n + 1, Len(sock)))
  BY PipeBodySteps, Zenon
<1>2. UNCHANGED <<client, turn, unsent, at, address, sent, last>>
  BY DEF PipeBody
<1>3. Dialogue' = Dialogue /\ HasBody' = HasBody
  BY <1>2, SameClient, SameBody
<1>4. sock \in Seq(Bytes) /\ unsent \in Seq(Bytes) /\ sent \in Seq(Bytes)
  BY <1>1, PlainFacts, Zenon
<1>5. so_far \in Seq(Bytes)
  BY <1>1, SoFar, Zenon
<1>6. Arrives(HasBody, sent \o (sock \o unsent), so_far)
  BY <1>1, Zenon DEF OrderInv
<1>7. HasBody
  <2> DEFINE h == HeaderLength
             t == Len(Dialogue[1])
  <2>1. PlainInv /\ Dialogue[1] \in Seq(Bytes) /\ HeaderLength \in 1 .. Len(Dialogue[1])
        /\ more \in Nat
    BY <1>1, PlainFacts, Zenon
  <2>2. h \in Nat /\ t \in Nat /\ more <= t - h /\ more \in Nat
    BY <2>1 DEF PlainInv
  <2> HIDE DEF h, t
  <2>3. h < t
    BY <1>1, <2>2
  <2> QED BY <1>1, <2>3 DEF HasBody, h, t, HeaderLength, Dialogue
<1> HIDE DEF so_far
<1>8. Arrives(HasBody, sent \o (sock' \o unsent), so_far)
  <2>1. CASE sock' = sock
    BY <1>6, <2>1, Zenon
  <2>2. CASE \E n \in 1 .. Len(sock) : sock' = SubSeq(sock, n + 1, Len(sock))
    <3>1. PICK n \in 1 .. Len(sock) : sock' = SubSeq(sock, n + 1, Len(sock))
      BY <2>2
    <3> DEFINE taken == SubSeq(sock, 1, n)
    <3>2. taken \in Seq(Bytes) /\ taken \o sock' = sock
      <4>1. n \in 0 .. Len(sock)
        OBVIOUS
      <4> QED BY <1>4, <3>1, <4>1, CutInTwo
    <3> HIDE DEF taken
    <3> DEFINE rest == sock' \o unsent
    <3>3. rest \in Seq(Bytes) /\ taken \o rest = sock \o unsent
      <4>1. taken \o (sock' \o unsent) = (taken \o sock') \o unsent /\ sock' \o unsent \in Seq(Bytes)
        <5>1. taken \in Seq(Bytes) /\ sock' \in Seq(Bytes) /\ unsent \in Seq(Bytes)
          BY <1>1, <1>4, <3>2
        <5> QED BY <5>1, Brackets, SMTT(60)
      <4> QED BY <3>2, <4>1, Zenon
    <3> HIDE DEF rest
    <3>4. KeepsOrder(sent \o rest, sent \o (taken \o rest))
      BY <1>4, <3>2, <3>3, LeftOut
    <3>5. KeepsOrder(sent \o rest, sent \o (sock \o unsent))
      BY <3>3, <3>4, Zenon
    <3>6. sent \o rest \in Seq(Bytes) /\ sock \o unsent \in Seq(Bytes)
      BY <1>4, <3>3, ConcatProperties
    <3>7. sent \o (sock \o unsent) \in Seq(Bytes)
      BY <1>4, <3>6, ConcatProperties, Zenon
    <3>8. Arrives(HasBody, sent \o rest, so_far)
      BY <1>5, <1>6, <1>7, <3>5, <3>6, <3>7, ArrivesAsBeginning, Zenon
    <3> QED BY <3>8 DEF rest
  <2> QED BY <1>1, <2>1, <2>2
<1>9. at' = "copy" /\ sent' = sent /\ unsent' = unsent /\ turn' = turn
  BY <1>1, <1>2
<1>10. Arrives(HasBody', sent' \o (sock' \o unsent'), FlattenSeq(SubSeq(Dialogue', 1, turn')))
  BY <1>3, <1>8, <1>9, Zenon DEF so_far
<1> QED BY <1>9, <1>10 DEF OrderInv

LEMMA FlushKeepsOrder ==
    ASSUME MixIsInteger(Password), IInv, OrderInv, Flush
    PROVE  OrderInv'
<1>1. IInv' /\ at' = "copy" /\ Plain /\ sent' = Head(pieces)
  BY FlushKeepsIInv, Zenon
<1>2. /\ at = "flush"
      /\ UNCHANGED <<client, turn, unsent, sock, buf, address, more, hand>>
  BY DEF Flush
<1>3. Dialogue' = Dialogue /\ HasBody' = HasBody
  BY <1>2, SameClient, SameBody
<1>4. turn = 1
  <2>1. PlainInv
    BY <1>1, PlainFacts, Zenon
  <2> QED BY <1>2, <2>1 DEF PlainInv
<1>5. FlattenSeq(SubSeq(Dialogue, 1, turn)) = Dialogue[1]
  BY <1>1, <1>4, SoFar, Zenon
<1>6. Arrives(HasBody, Head(pieces) \o (sock \o unsent), Dialogue[1])
  BY <1>1, <1>2, Zenon DEF OrderInv
<1>7. Arrives(HasBody', sent' \o (sock' \o unsent'), FlattenSeq(SubSeq(Dialogue', 1, turn')))
  BY <1>1, <1>2, <1>3, <1>5, <1>6, Zenon
<1> QED BY <1>1, <1>7 DEF OrderInv

LEMMA CopyKeepsOrder ==
    ASSUME MixIsInteger(Password), IInv, OrderInv, Copy
    PROVE  OrderInv'
<1> SUFFICES ASSUME Plain' PROVE OrderInv'
  BY DEF OrderInv
<1>1. UNCHANGED <<client, turn, unsent, at, buf, address, more, hand, pieces>>
  BY DEF Copy
<1>2. Dialogue' = Dialogue /\ Plain /\ HasBody' = HasBody
  BY <1>1, SameClient, SameBody
<1>3. /\ at = "copy"
      /\ sock \in Seq(Bytes) /\ unsent \in Seq(Bytes) /\ sock' \in Seq(Bytes)
      /\ sent' \o (sock' \o unsent) = sent \o (sock \o unsent)
  BY CopySteps, Zenon
<1>4. Arrives(HasBody, sent \o (sock \o unsent), FlattenSeq(SubSeq(Dialogue, 1, turn)))
  BY <1>2, <1>3, Zenon DEF OrderInv
<1>5. Arrives(HasBody', sent' \o (sock' \o unsent'), FlattenSeq(SubSeq(Dialogue', 1, turn')))
  BY <1>1, <1>2, <1>3, <1>4, Zenon
<1> QED BY <1>1, <1>3, <1>5 DEF OrderInv

\* The remote answered because it has all the requests so far: nothing of them
\* is left to read.
LEMMA RespondsKeepsOrder ==
    ASSUME IInv, OrderInv, Responds
    PROVE  OrderInv'
<1> DEFINE so_far == FlattenSeq(SubSeq(Dialogue, 1, turn))
           next == Dialogue[turn + 1]
<1>1. /\ Plain /\ at = "copy" /\ turn < Len(Dialogue)
      /\ sent = so_far
      /\ turn' = turn + 1 /\ unsent' = next
      /\ UNCHANGED <<client, sock, at, buf, address, more, hand, pieces, sent, last>>
  BY DEF Responds, Answered, Dialogue
<1>2. Dialogue' = Dialogue /\ HasBody' = HasBody
  BY <1>1, SameClient, SameBody
<1>3. /\ client \in Clients /\ PlainInv
      /\ sock \in Seq(Bytes) /\ unsent \in Seq(Bytes) /\ sent \in Seq(Bytes)
      /\ Dialogue \in Seq(Seq(Bytes)) /\ Dialogue[1] \in Seq(Bytes)
      /\ HeaderLength \in 1 .. Len(Dialogue[1])
      /\ turn \in 1 .. Len(Dialogue) /\ more \in Nat
  BY <1>1, PlainFacts, Zenon
<1>4. so_far \in Seq(Bytes) /\ FlattenSeq(SubSeq(Dialogue, 1, turn + 1)) = so_far \o next
  BY <1>1, SoFar, Zenon
<1>5. next \in Seq(Bytes)
  <2>1. turn + 1 \in 1 .. Len(Dialogue)
    BY <1>1, <1>3
  <2> HIDE DEF so_far
  <2> QED BY <1>3, <2>1
<1> HIDE DEF so_far, next
<1>6. sock = <<>>
  <2>1. Arrives(HasBody, sent \o (sock \o unsent), sent)
    BY <1>1, Zenon DEF OrderInv, so_far
  <2>2. sock \o unsent \in Seq(Bytes) /\ Len(sock \o unsent) = Len(sock) + Len(unsent)
    BY <1>3, ConcatProperties
  <2> DEFINE left == sock \o unsent
             both == sent \o left
  <2>3. left \in Seq(Bytes)
    BY <2>2
  <2>4. both \in Seq(Bytes) /\ Len(both) = Len(sent) + Len(left)
    <3> HIDE DEF left
    <3> QED BY <1>3, <2>3, ConcatProperties
  <2>5. Len(both) <= Len(sent)
    <3>1. Arrives(HasBody, both, sent)
      BY <2>1
    <3> HIDE DEF both
    <3> QED BY <1>3, <2>4, <3>1, ArrivesAsBeginning, Zenon
  <2> DEFINE a == Len(sock)
             b == Len(unsent)
             c == Len(left)
             d == Len(both)
             e == Len(sent)
  <2>6. a \in Nat /\ b \in Nat /\ e \in Nat /\ c = a + b /\ d = e + c /\ d <= e
    BY <1>3, <2>2, <2>4, <2>5, SMTT(60)
  <2> HIDE DEF left, both, a, b, c, d, e
  <2>7. a = 0
    BY <2>6
  <2>8. Len(sock) = 0
    BY <2>7 DEF a
  <2> QED BY <1>3, <2>8
<1>7. sent' \o (sock' \o unsent') = so_far \o next
  <2>1. <<>> \o next = next
    BY <1>5, ConcatEmptySeq
  <2> QED BY <1>1, <1>6, <2>1, Zenon
<1>8. Arrives(HasBody', sent' \o (sock' \o unsent'), FlattenSeq(SubSeq(Dialogue', 1, turn')))
  <2>1. so_far \o next \in Seq(Bytes)
    BY <1>4, <1>5, ConcatProperties
  <2> DEFINE whole == so_far \o next
  <2>2. whole \in Seq(Bytes)
    BY <2>1
  <2>4. Arrives(HasBody', whole, whole)
    <3> HIDE DEF whole
    <3> QED BY <2>2, ArrivesAsBeginning, Zenon
  <2>5. FlattenSeq(SubSeq(Dialogue', 1, turn')) = whole
    BY <1>1, <1>2, <1>4, Zenon
  <2> QED BY <1>7, <2>4, <2>5, Zenon
<1> QED BY <1>1, <1>8 DEF OrderInv

LEMMA NextOrder ==
    ASSUME MixIsInteger(Password), IInv, OrderInv, [Next]_vars
    PROVE  OrderInv'
<1>1. CASE ClientSends
  BY <1>1, ClientSendsKeepsOrder
<1>2. CASE SocksGreeting \/ SocksRequest
  <2>1. client' = client /\ at \in {"greeting", "request"}
    BY <1>2 DEF SocksGreeting, SocksRequest
  <2>2. ~Plain
    <3>1. ~PlainInv
      BY <2>1 DEF PlainInv
    <3> QED BY <3>1, ByKind, Zenon
  <2>3. ~Plain'
    BY <2>1, <2>2, SameClient
  <2> QED BY <2>3 DEF OrderInv
<1>3. CASE HttpGet
  BY <1>3, HttpGetKeepsOrder
<1>4. CASE PipeBody
  BY <1>4, PipeBodyKeepsOrder
<1>5. CASE Connects
  <2> SUFFICES ASSUME Plain' PROVE OrderInv'
    BY DEF OrderInv
  <2>1. at = "connect" /\ UNCHANGED <<client, sock, buf, address, more, hand, pieces>>
    BY <1>5 DEF Connects
  <2>2. Dialogue' = Dialogue /\ Plain /\ HasBody' = HasBody
    BY <2>1, SameClient, SameBody
  <2>3. at' = "flush" /\ unsent' = unsent
    BY <1>5, <2>2 DEF Connects
  <2> QED BY <2>1, <2>2, <2>3, Zenon DEF OrderInv
<1>6. CASE Flush
  BY <1>6, FlushKeepsOrder
<1>7. CASE Copy
  BY <1>7, CopyKeepsOrder
<1>8. CASE Responds
  BY <1>8, RespondsKeepsOrder
<1>9. CASE UNCHANGED vars
  <2>1. UNCHANGED <<client, turn, unsent, sock, at, pieces, sent>>
    BY <1>9 DEF vars
  <2>2. Dialogue' = Dialogue /\ Plain' = Plain /\ HasBody' = HasBody
    BY <2>1, SameClient, SameBody
  <2> QED BY <2>1, <2>2, Zenon DEF OrderInv
<1> QED BY <1>1, <1>2, <1>3, <1>4, <1>5, <1>6, <1>7, <1>8, <1>9 DEF Next

LEMMA OrderHolds ==
    ASSUME MixIsInteger(Password)
    PROVE  Spec => [](IInv /\ OrderInv)
<1>1. Init => OrderInv
  <2> SUFFICES ASSUME Init, Plain PROVE OrderInv
    BY DEF OrderInv
  <2>1. at \in {"greeting", "header"}
    BY DEF Init
  <2> QED BY <2>1 DEF OrderInv
<1>2. IInv /\ OrderInv /\ [Next]_vars => OrderInv'
  BY NextOrder
<1> QED BY <1>1, <1>2, InvariantHolds, PTL DEF Spec

\* What the exit receives is a beginning of what the client sent to the remote;
\* of a request with a body, which r.Write's goroutine and CopyToWS read side by
\* side, bytes may be left out, but none is repeated or overtaken.
THEOREM InOrder ==
    ASSUME MixIsInteger(Password)
    PROVE  Spec => []ForwardedInOrder
<1>1. ASSUME IInv, OrderInv PROVE ForwardedInOrder
  <2>1. /\ client \in Clients /\ sent \in Seq(Bytes)
        /\ \/ Socks /\ ~Connect /\ ~Plain /\ SocksInv
           \/ ~Socks /\ Connect /\ ~Plain /\ HttpInv /\ ConnectInv
           \/ ~Socks /\ ~Connect /\ Plain /\ HttpInv /\ PlainInv
    BY <1>1, ByKind, Zenon
  <2>2. ASSUME NEW s \in Seq(Bytes), at # "copy" PROVE IsPrefix(sent, s)
    <3>1. sent = <<>>
      BY <1>1, <2>2 DEF IInv
    <3>2. <<>> \in Seq(Bytes) /\ <<>> \o s = s
      BY ConcatEmptySeq
    <3>3. IsPrefix(<<>>, <<>> \o s)
      BY <3>2, Beginning
    <3> QED BY <3>1, <3>2, <3>3, Zenon
  <2>3. ASSUME NEW s \in Seq(Bytes), sock \in Seq(Bytes), unsent \in Seq(Bytes),
               sent \o (sock \o unsent) = s
        PROVE  IsPrefix(sent, s)
    <3>1. sock \o unsent \in Seq(Bytes)
      BY <2>3, ConcatProperties
    <3>2. IsPrefix(sent, sent \o (sock \o unsent))
      BY <2>1, <3>1, Beginning, Zenon
    <3> QED BY <2>3, <3>2, Zenon
  <2>4. CASE Socks /\ ~Plain /\ SocksInv
    <3>1. Len(Dialogue) = 3 /\ Dialogue[3] \in Seq(Bytes)
      BY <2>1, <2>4, Kinds, Zenon
    <3>2. Stream = Dialogue[3]
      BY <2>4, <3>1 DEF Stream, Last, Dialogue
    <3>3. IsPrefix(sent, Dialogue[3])
      <4>1. CASE at = "copy"
        <5>1. sock \in Seq(Bytes) /\ unsent \in Seq(Bytes) /\ sent \o (sock \o unsent) = Dialogue[3]
          BY <2>4, <4>1 DEF SocksInv
        <5> QED BY <2>3, <3>1, <5>1, Zenon
      <4>2. CASE at # "copy"
        BY <2>2, <3>1, <4>2, Zenon
      <4> QED BY <4>1, <4>2
    <3> QED BY <3>2, <3>3, <2>4 DEF ForwardedInOrder, HasBody
  <2>5. CASE Connect /\ ~Plain /\ HttpInv /\ ConnectInv
    <3>1. Len(Dialogue) = 2 /\ Dialogue[2] \in Seq(Bytes)
      BY <2>1, <2>5, Kinds, Zenon
    <3>2. Stream = Dialogue[2]
      BY <2>5, <3>1 DEF Stream, Last, Dialogue
    <3>3. IsPrefix(sent, Dialogue[2])
      <4>1. CASE at = "copy"
        <5>1. sock \in Seq(Bytes) /\ unsent \in Seq(Bytes)
          BY <2>5 DEF HttpInv
        <5>2. sent \o (sock \o unsent) = Dialogue[2]
          BY <2>5, <4>1 DEF ConnectInv
        <5> QED BY <2>3, <3>1, <5>1, <5>2, Zenon
      <4>2. CASE at # "copy"
        BY <2>2, <3>1, <4>2, Zenon
      <4> QED BY <4>1, <4>2
    <3> QED BY <3>2, <3>3, <2>5 DEF ForwardedInOrder, HasBody
  <2>6. CASE Plain
    <3> DEFINE n == Len(Dialogue)
               so_far(i) == FlattenSeq(SubSeq(Dialogue, 1, i))
    <3>1. /\ sock \in Seq(Bytes) /\ unsent \in Seq(Bytes)
          /\ Dialogue \in Seq(Seq(Bytes)) /\ Len(Dialogue) >= 1 /\ turn \in 1 .. Len(Dialogue)
      BY <1>1, <2>6, PlainFacts, Zenon
    <3>2. n \in Nat /\ n >= 1 /\ turn \in 1..n
      BY <3>1
    <3>3. /\ \A i \in 1..n : so_far(i) \in Seq(Bytes)
          /\ \A i \in 1 .. n - 1 : so_far(i + 1) = so_far(i) \o Dialogue[i + 1]
          /\ so_far(n) = FlattenSeq(Dialogue)
      BY <3>1, Flattened
    <3>4. \A i \in 1..n : Dialogue[i] \in Seq(Bytes)
      BY <3>1
    <3> HIDE DEF n, so_far
    <3> DEFINE R == {k \in 0 .. n - turn : IsPrefix(so_far(turn), so_far(turn + k))}
    <3>5. so_far(turn) \in Seq(Bytes) /\ so_far(n) \in Seq(Bytes) /\ n \in 1..n
      BY <3>2, <3>3
    <3>6. n - turn \in Nat /\ 0 \in 0 .. n - turn /\ turn + 0 = turn /\ n - turn \in 0 .. n - turn
          /\ turn + (n - turn) = n
      BY <3>2
    <3>7. 0 \in R
      <4>1. <<>> \in Seq(Bytes) /\ so_far(turn) \o <<>> = so_far(turn)
        BY <3>5, ConcatEmptySeq
      <4>2. IsPrefix(so_far(turn), so_far(turn) \o <<>>)
        BY <3>5, <4>1, Beginning
      <4>3. IsPrefix(so_far(turn), so_far(turn + 0))
        BY <3>6, <4>1, <4>2, Zenon
      <4> QED BY <3>6, <4>3
    <3>8. ASSUME NEW k \in 1 .. n - turn, k - 1 \in R PROVE k \in R
      <4> DEFINE i == turn + (k - 1)
      <4>1. i \in 1 .. n - 1 /\ i \in 1..n /\ i + 1 \in 1..n /\ i + 1 = turn + k /\ k \in 0 .. n - turn
        BY <3>2
      <4>2. IsPrefix(so_far(turn), so_far(i))
        BY <3>8
      <4> HIDE DEF i
      <4>3. so_far(i + 1) = so_far(i) \o Dialogue[i + 1]
        BY <3>3, <4>1, Zenon
      <4>4. so_far(i) \in Seq(Bytes) /\ so_far(i + 1) \in Seq(Bytes) /\ Dialogue[i + 1] \in Seq(Bytes)
        BY <3>3, <3>4, <4>1, Zenon
      <4>5. IsPrefix(so_far(i), so_far(i) \o Dialogue[i + 1])
        BY <4>4, Beginning
      <4>6. IsPrefix(so_far(i), so_far(i + 1))
        BY <4>3, <4>5, Zenon
      <4>7. IsPrefix(so_far(turn), so_far(i + 1))
        BY <3>5, <4>2, <4>4, <4>6, BeginningOfBeginning, Zenon
      <4>8. IsPrefix(so_far(turn), so_far(turn + k))
        BY <4>1, <4>7, Zenon
      <4> QED BY <4>1, <4>8
    <3>9. IsPrefix(so_far(turn), so_far(n))
      <4> DEFINE m == n - turn
      <4>1. m \in Nat /\ 0 \in R /\ \A k \in 1..m : k - 1 \in R => k \in R
        BY <3>6, <3>7, <3>8
      <4> HIDE DEF R
      <4>2. m \in R
        <5> HIDE DEF m
        <5>1. m \in 0..m
          BY <4>1
        <5> QED BY <4>1, <5>1, SetInduction
      <4>3. IsPrefix(so_far(turn), so_far(turn + m))
        BY <4>2 DEF R
      <4> QED BY <3>6, <4>3, Zenon
    <3>10. Arrives(HasBody, sent, so_far(n))
      <4>1. CASE at = "copy"
        <5>1. Arrives(HasBody, sent \o (sock \o unsent), so_far(turn))
          BY <1>1, <2>6, <4>1, Zenon DEF OrderInv, so_far
        <5>2. sock \o unsent \in Seq(Bytes)
          BY <3>1, ConcatProperties
        <5>3. IsPrefix(sent, sent \o (sock \o unsent)) /\ sent \o (sock \o unsent) \in Seq(Bytes)
          BY <2>1, <5>2, Beginning, ConcatProperties
        <5>4. Arrives(HasBody, sent, so_far(turn))
          BY <2>1, <3>5, <5>1, <5>3, ArrivesAsBeginning, Zenon
        <5> QED BY <2>1, <3>5, <3>9, <5>4, ArrivesAsBeginning, Zenon
      <4>2. CASE at # "copy"
        <5>1. IsPrefix(sent, so_far(n))
          BY <2>2, <3>5, <4>2, Zenon
        <5> QED BY <2>1, <3>5, <5>1, ArrivesAsBeginning, Zenon
      <4> QED BY <4>1, <4>2
    <3>11. Stream = so_far(n)
      BY <2>6, <3>3 DEF Stream, Dialogue
    <3> QED BY <3>10, <3>11, Zenon DEF ForwardedInOrder, Arrives
  <2> QED BY <2>1, <2>4, <2>5, <2>6
<1> QED BY <1>1, OrderHolds, PTL
================================================================================
