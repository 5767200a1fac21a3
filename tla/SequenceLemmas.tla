--------------------------- MODULE SequenceLemmas ---------------------------
(***************************************************************************)
(* Lemmas about numbers and sequences that the proofs about the components *)
(* share: induction over the naturals as a statement about sets, functions *)
(* that are made step by step, parts of sequences, and FlattenSeq.         *)
(***************************************************************************)
EXTENDS Integers, SequencesExt, WellFoundedInduction, TLAPS

-----------------------------------------------------------------------------
(* Induction *)

\* A set of naturals that is not empty has a least element.
LEMMA Least ==
  ASSUME NEW T, T \subseteq Nat, T # {}
  PROVE  \E m \in T : \A n \in T : m <= n
<1> DEFINE R == OpToRel(<, Nat)
<1>1. IsWellFoundedOn(R, Nat)
  BY NatLessThanWellFounded
<1>2. PICK m \in T : \A n \in T : ~ (<<n, m>> \in R)
  BY <1>1, WFMin
<1>3. \A n \in T : ~ (n < m)
  BY <1>2 DEF OpToRel
<1>4. QED
  BY <1>3

\* A set that has 0, and the next number of every one it has, has them all.
LEMMA Induction ==
  ASSUME NEW S, 0 \in S, \A n \in Nat : n \in S => n + 1 \in S
  PROVE  Nat \subseteq S
<1> DEFINE T == Nat \ S
<1> SUFFICES ASSUME T # {} PROVE FALSE
  OBVIOUS
<1>1. PICK m \in T : \A n \in T : m <= n
  BY Least
<1>2. m # 0 /\ m - 1 \in Nat
  OBVIOUS
<1>3. m - 1 \in S
  BY <1>1, <1>2
<1>4. QED
  BY <1>2, <1>3

-----------------------------------------------------------------------------
(* Parts of sequences *)

\* What a concatenation is made of.
LEMMA Concat ==
  ASSUME NEW X, NEW p \in Seq(X), NEW q \in Seq(X)
  PROVE  /\ p \o q \in Seq(X)
         /\ Len(p \o q) = Len(p) + Len(q)
         /\ \A i \in 1 .. Len(p) : (p \o q)[i] = p[i]
         /\ \A i \in 1 .. Len(q) : (p \o q)[Len(p) + i] = q[i]
OBVIOUS

\* A sequence with the elements of one and then those of another.
LEMMA IsConcat ==
  ASSUME NEW X, NEW p \in Seq(X), NEW q \in Seq(X), NEW z \in Seq(X), Len(z) = Len(p) + Len(q),
         \A k \in 1 .. Len(p) : z[k] = p[k],
         \A k \in 1 .. Len(q) : z[Len(p) + k] = q[k]
  PROVE  z = p \o q
<1>1. \A k \in 1 .. Len(z) : z[k] = (p \o q)[k]
  <2> SUFFICES ASSUME NEW k \in 1 .. Len(z) PROVE z[k] = (p \o q)[k]
    OBVIOUS
  <2>1. CASE k \in 1 .. Len(p)
    BY <2>1
  <2>2. CASE k > Len(p)
    <3>1. k - Len(p) \in 1 .. Len(q) /\ k = Len(p) + (k - Len(p))
      BY <2>2
    <3> QED
      BY <2>2, <3>1
  <2> QED
    BY <2>1, <2>2
<1> QED
  BY <1>1, Concat

\* A stretch of a sequence that has the elements of another one is that one.
LEMMA Stretch ==
  ASSUME NEW X, NEW T \in Seq(X), NEW v \in Seq(X), NEW a \in Nat, a + Len(v) <= Len(T),
         \A j \in 1 .. Len(v) : T[a + j] = v[j]
  PROVE  SubSeq(T, a + 1, a + Len(v)) = v
<1> DEFINE w == SubSeq(T, a + 1, a + Len(v))
<1>1. w \in Seq(X) /\ Len(w) = Len(v)
  OBVIOUS
<1>2. ASSUME NEW j \in 1 .. Len(v) PROVE w[j] = v[j]
  <2>1. w[j] = T[a + 1 + j - 1]
    OBVIOUS
  <2>2. a + 1 + j - 1 = a + j
    OBVIOUS
  <2>3. QED
    BY <2>1, <2>2
<1>3. QED
  BY <1>1, <1>2

\* u with the first n of r appended, and the rest of r, are together u and r.
Cut(X, u, r, n) ==
  /\ u \o SubSeq(r, 1, n) \in Seq(X) /\ SubSeq(r, n + 1, Len(r)) \in Seq(X)
  /\ (u \o SubSeq(r, 1, n)) \o SubSeq(r, n + 1, Len(r)) = u \o r

\* What is cut off a sequence and appended to another is not lost or changed.
LEMMA CutOff ==
  ASSUME NEW X, NEW u \in Seq(X), NEW r \in Seq(X), NEW n \in Nat, n <= Len(r)
  PROVE  Cut(X, u, r, n)
<1> DEFINE p == SubSeq(r, 1, n)
           q == SubSeq(r, n + 1, Len(r))
<1>1. /\ p \in Seq(X) /\ Len(p) = n /\ \A i \in 1 .. n : p[i] = r[i]
      /\ q \in Seq(X) /\ Len(q) = Len(r) - n /\ \A i \in 1 .. Len(q) : q[i] = r[n + i]
  <2>1. p \in Seq(X) /\ Len(p) = n /\ \A i \in 1 .. n : p[i] = r[i]
    OBVIOUS
  <2>2. q \in Seq(X) /\ Len(q) = Len(r) - n
    OBVIOUS
  <2>3. ASSUME NEW i \in 1 .. Len(q) PROVE q[i] = r[n + i]
    <3>1. q[i] = r[n + 1 + i - 1]
      BY <2>2
    <3>2. n + 1 + i - 1 = n + i
      OBVIOUS
    <3>3. QED
      BY <3>1, <3>2
  <2>4. QED
    BY <2>1, <2>2, <2>3
<1>2. p \o q = r
  <2> HIDE DEF p, q
  <2>a. Len(p) + Len(q) = Len(r)
    <3>1. Len(r) \in Nat
      OBVIOUS
    <3>2. QED
      BY <1>1, <3>1
  <2>1. p \o q \in Seq(X) /\ Len(p \o q) = Len(r)
    BY <1>1, <2>a, Concat
  <2>2. ASSUME NEW i \in 1 .. Len(r) PROVE (p \o q)[i] = r[i]
    <3>1. CASE i <= n
      BY <3>1, <1>1
    <3>2. CASE i > n
      <4> DEFINE j == i - n
      <4>1. j \in 1 .. Len(q) /\ i = n + j
        BY <3>2, <1>1
      <4> HIDE DEF j
      <4>2. (p \o q)[Len(p) + j] = q[j]
        BY <4>1, <1>1, Concat
      <4>3. QED
        BY <4>1, <4>2, <1>1
    <3>3. i \in Nat
      OBVIOUS
    <3>4. i <= n \/ i > n
      BY <3>3
    <3>5. QED
      BY <3>1, <3>2, <3>4
  <2> DEFINE z == p \o q
  <2> HIDE DEF z
  <2>3. z \in Seq(X) /\ Len(z) = Len(r) /\ \A i \in 1 .. Len(r) : z[i] = r[i]
    BY <2>1, <2>2 DEF z
  <2>4. z = r
    BY <2>3
  <2>5. QED
    BY <2>4 DEF z
<1> HIDE DEF p, q
<1>3. (u \o p) \o q = u \o (p \o q)
  BY <1>1
<1>4. u \o p \in Seq(X)
  BY <1>1
<1>5. /\ u \o p \in Seq(X) /\ q \in Seq(X)
      /\ (u \o p) \o q = u \o r
  BY <1>1, <1>2, <1>3, <1>4, Zenon
<1>6. QED
  BY <1>5, Zenon DEF p, q, Cut

-----------------------------------------------------------------------------
(* Functions that are made step by step *)

\* There is a function on 0 .. n that starts at base and makes each step.
Iterates(X, base, step, n) ==
  \E f \in [0 .. n -> X] : f[0] = base /\ \A i \in 1 .. n : f[i] = step[i][f[i - 1]]

\* A start and a step for every number make such a function for every n.
LEMMA Iteration ==
  ASSUME NEW X, NEW base \in X, NEW step \in [Nat -> [X -> X]], NEW m \in Nat
  PROVE  Iterates(X, base, step, m)
<1> DEFINE P(n) == \E f \in [0 .. n -> X] :
                     f[0] = base /\ \A i \in 1 .. n : f[i] = step[i][f[i - 1]]
           S == {n \in Nat : P(n)}
<1>1. P(0)
  <2> DEFINE f == [i \in 0 .. 0 |-> base]
  <2>1. f \in [0 .. 0 -> X] /\ f[0] = base /\ \A i \in 1 .. 0 : f[i] = step[i][f[i - 1]]
    OBVIOUS
  <2>2. QED
    BY <2>1
<1>2. ASSUME NEW n \in Nat, P(n) PROVE P(n + 1)
  <2>1. PICK f \in [0 .. n -> X] : f[0] = base /\ \A i \in 1 .. n : f[i] = step[i][f[i - 1]]
    BY <1>2
  <2> DEFINE g == [i \in 0 .. n + 1 |-> IF i = n + 1 THEN step[n + 1][f[n]] ELSE f[i]]
  <2>2. step[n + 1][f[n]] \in X
    BY <2>1
  <2>3. g \in [0 .. n + 1 -> X]
    BY <2>1, <2>2
  <2>4. g[0] = base /\ \A i \in 1 .. n + 1 : g[i] = step[i][g[i - 1]]
    <3>1. g[0] = base
      BY <2>1
    <3>2. g[n + 1] = step[n + 1][f[n]] /\ g[n] = f[n]
      OBVIOUS
    <3>3. \A i \in 1 .. n : g[i] = step[i][f[i - 1]] /\ g[i - 1] = f[i - 1]
      BY <2>1
    <3>4. n + 1 - 1 = n /\ \A i \in 1 .. n + 1 : i = n + 1 \/ i \in 1 .. n
      OBVIOUS
    <3> HIDE DEF g
    <3>5. ASSUME NEW i \in 1 .. n + 1 PROVE g[i] = step[i][g[i - 1]]
      <4>1. CASE i = n + 1
        BY <4>1, <3>2, <3>4
      <4>2. CASE i \in 1 .. n
        BY <4>2, <3>3
      <4>3. QED
        BY <4>1, <4>2, <3>4
    <3>6. QED
      BY <3>1, <3>5
  <2> HIDE DEF g
  <2>5. QED
    BY <2>3, <2>4
<1>3. 0 \in S /\ \A n \in Nat : n \in S => n + 1 \in S
  <2> HIDE DEF P
  <2> QED BY <1>1, <1>2
<1>4. Nat \subseteq S
  <2> HIDE DEF S
  <2> QED BY <1>3, Induction
<1>5. QED
  BY <1>4 DEF Iterates

-----------------------------------------------------------------------------
(* FlattenSeq *)

\* f[i] is the concatenation of the first i elements of s.
Flattens(X, s, f) ==
  /\ f \in [1 .. Len(s) -> Seq(X)]
  /\ FlattenSeq(s) = f[Len(s)]
  /\ f[1] = s[1]
  /\ \A i \in 2 .. Len(s) : f[i] = f[i - 1] \o s[i]

\* FlattenSeq concatenates one element after the other.
LEMMA FlattenSteps ==
  ASSUME NEW X, NEW s \in Seq(Seq(X)), s # <<>>
  PROVE  \E f : Flattens(X, s, f)
<1> DEFINE n == Len(s)
<1>n. n \in Nat \ {0} /\ s \in [1 .. n -> Seq(X)] /\ Len(s) = n
  OBVIOUS
<1> HIDE DEF n
<1> USE <1>n
<1> DEFINE F(g) == [i \in 1 .. n |-> IF i = 1 THEN s[i] ELSE g[i - 1] \o s[i]]
           h == CHOOSE g : g = F(g)
<1>1. \E g \in [1 .. n -> Seq(X)] : g = F(g)
  <2> DEFINE step == [i \in Nat |-> [q \in Seq(X) |-> IF i \in 1 .. n THEN q \o s[i] ELSE q]]
  <2>1. step \in [Nat -> [Seq(X) -> Seq(X)]]
    OBVIOUS
  <2>2. <<>> \in Seq(X)
    OBVIOUS
  <2>a. \A i \in 1 .. n, q \in Seq(X) : step[i][q] = q \o s[i]
    OBVIOUS
  <2> DEFINE Y == Seq(X) base == <<>>
  <2>b. base \in Y /\ step \in [Nat -> [Y -> Y]]
    BY <2>1, <2>2
  <2> HIDE DEF step, Y, base
  <2>c. Iterates(Y, base, step, n)
    BY <2>b, Iteration
  <2>3. PICK f \in [0 .. n -> Seq(X)] : f[0] = <<>> /\ \A i \in 1 .. n : f[i] = step[i][f[i - 1]]
    BY <2>c DEF Y, base, Iterates
  <2> DEFINE g == [i \in 1 .. n |-> f[i]]
  <2>4. \A i \in 1 .. n : f[i] = f[i - 1] \o s[i]
    <3> TAKE i \in 1 .. n
    <3>1. f[i - 1] \in Seq(X)
      BY <2>3
    <3>2. QED
      BY <2>3, <2>a, <3>1
  <2>5. f[1] = s[1]
    <3>1. f[0] = <<>> /\ s[1] \in Seq(X) /\ 1 \in 1 .. n /\ 1 - 1 = 0
      BY <2>3
    <3>a. f[1] = f[1 - 1] \o s[1]
      BY <2>4, <3>1
    <3>b. \A q \in Seq(X) : <<>> \o q = q
      OBVIOUS
    <3>2. QED
      BY <3>1, <3>a, <3>b
  <2>6. \A i \in 1 .. n : g[i] = IF i = 1 THEN s[i] ELSE g[i - 1] \o s[i]
    <3> TAKE i \in 1 .. n
    <3>1. g[i] = f[i] /\ (i # 1 => g[i - 1] = f[i - 1])
      OBVIOUS
    <3> HIDE DEF g
    <3>2. f[i] = f[i - 1] \o s[i]
      BY <2>4
    <3>3. QED
      BY <3>1, <3>2, <2>5
  <2>7. g = F(g)
    BY <2>6
  <2>8. g \in [1 .. n -> Seq(X)]
    BY <2>3
  <2> HIDE DEF g
  <2>9. QED
    BY <2>7, <2>8
<1>2. h = F(h)
  BY <1>1
<1>3. FlattenSeq(s) = h[n]
  BY DEF FlattenSeq
<1> HIDE DEF h
<1>a. DOMAIN F(h) = 1 .. n /\ F(h)[1] = s[1]
  OBVIOUS
<1>c. ASSUME NEW i \in 2 .. n PROVE F(h)[i] = h[i - 1] \o s[i]
  <2>1. i \in 1 .. n /\ i # 1
    OBVIOUS
  <2>2. QED
    BY <2>1, Zenon
<1>b. F(h) = [i \in 1 .. n |-> F(h)[i]]
  OBVIOUS
<1> HIDE DEF F
<1>4. /\ h = [i \in 1 .. n |-> h[i]] /\ h[1] = s[1]
      /\ \A i \in 2 .. n : h[i] = h[i - 1] \o s[i]
  BY <1>2, <1>a, <1>b, <1>c
<1>5. \A i \in 1 .. n : h[i] \in Seq(X)
  <2> DEFINE S == {k \in Nat : k \in 1 .. n => h[k] \in Seq(X)}
  <2>1. 0 \in S
    OBVIOUS
  <2>2. ASSUME NEW k \in Nat, k \in S PROVE k + 1 \in S
    <3>1. CASE k = 0
      BY <3>1, <1>4
    <3>2. CASE k + 1 \in 2 .. n
      <4> DEFINE j == k + 1
      <4>a. j \in 2 .. n /\ j - 1 = k /\ k \in 1 .. n
        BY <3>2
      <4> HIDE DEF j
      <4>1. h[j] = h[k] \o s[j]
        BY <4>a, <1>4
      <4>2. h[k] \in Seq(X) /\ s[j] \in Seq(X)
        BY <4>a, <2>2, <3>2
      <4>b. h[k] \o s[j] \in Seq(X)
        BY <4>2, Concat
      <4>3. QED
        <5>1. h[j] \in Seq(X)
          BY <4>1, <4>b
        <5>2. QED
          BY <5>1 DEF j
    <3>3. CASE k + 1 > n
      BY <3>3
    <3>4. QED
      BY <3>1, <3>2, <3>3
  <2> HIDE DEF S
  <2>3. Nat \subseteq S
    BY <2>1, <2>2, Induction
  <2>4. QED
    BY <2>3 DEF S
<1>6. h \in [1 .. n -> Seq(X)]
  BY <1>4, <1>5
<1>7. Flattens(X, s, h)
  BY <1>3, <1>4, <1>6 DEF Flattens
<1>8. QED
  BY <1>7

\* Nothing is flattened to nothing.
LEMMA FlattenNone == FlattenSeq(<<>>) = <<>>
BY DEF FlattenSeq

\* One more element is concatenated at the end.
LEMMA FlattenAppend ==
  ASSUME NEW X, NEW s \in Seq(Seq(X)), NEW t \in Seq(X)
  PROVE  FlattenSeq(Append(s, t)) = FlattenSeq(s) \o t
<1> DEFINE n == Len(s)
           u == Append(s, t)
<1>1. CASE n = 0
  <2>1. s = <<>> /\ u = <<t>>
    BY <1>1
  <2>2. u \in Seq(Seq(X)) /\ u # <<>> /\ Len(u) = 1 /\ u[1] = t
    BY <2>1
  <2>a. PICK f : Flattens(X, u, f)
    BY <2>2, FlattenSteps
  <2>3. FlattenSeq(u) = t
    BY <2>2, <2>a DEF Flattens
  <2>4. <<>> \o t = t
    OBVIOUS
  <2>5. QED
    BY <2>1, <2>3, <2>4, FlattenNone
<1>2. CASE n # 0
  <2>1. n \in Nat \ {0} /\ s \in [1 .. n -> Seq(X)] /\ Len(s) = n
    BY <1>2
  <2>a. PICK f : Flattens(X, s, f)
    BY <1>2, FlattenSteps
  <2>2. /\ FlattenSeq(s) = f[n]
        /\ f[1] = s[1]
        /\ \A i \in 2 .. n : f[i] = f[i - 1] \o s[i]
    BY <2>a DEF Flattens
  <2> DEFINE m == n + 1
  <2>3. m \in Nat \ {0} /\ u \in Seq(Seq(X)) /\ u # <<>> /\ Len(u) = m
    <3>1. m \in Nat \ {0}
      BY <2>1
    <3>2. Append(s, t) \in Seq(Seq(X)) /\ Len(Append(s, t)) = Len(s) + 1
      OBVIOUS
    <3>3. Append(s, t) # <<>>
      <4>1. Len(<<>>) = 0 /\ Len(s) + 1 # 0
        OBVIOUS
      <4> QED BY <4>1, <3>2
    <3>4. QED
      BY <3>1, <3>2, <3>3
  <2>4. /\ m \in 2 .. m /\ m - 1 = n /\ u[m] = t
        /\ \A i \in 1 .. n : u[i] = s[i] /\ i \in 1 .. m /\ (i # 1 => i \in 2 .. m /\ i \in 2 .. n)
    BY <2>1
  <2> HIDE DEF u, m
  <2>b. PICK g : Flattens(X, u, g)
    BY <2>3, FlattenSteps
  <2>5. /\ FlattenSeq(u) = g[m]
        /\ g[1] = u[1]
        /\ \A i \in 2 .. m : g[i] = g[i - 1] \o u[i]
    BY <2>b, <2>3 DEF Flattens
  <2> HIDE DEF n
  <2> DEFINE S == {k \in Nat : k \in 1 .. n => g[k] = f[k]}
  <2>6. 0 \in S
    OBVIOUS
  <2>7. ASSUME NEW k \in Nat, k \in S PROVE k + 1 \in S
    <3> DEFINE j == k + 1
    <3>1. CASE j = 1
      BY <3>1, <2>1, <2>2, <2>4, <2>5
    <3>2. CASE j \in 2 .. n
      <4>1. j - 1 = k /\ k \in 1 .. n /\ j \in 1 .. n
        BY <3>2, <2>1
      <4>2. j \in 2 .. m /\ u[j] = s[j]
        BY <4>1, <3>2, <2>4
      <4> HIDE DEF j
      <4>3. g[j] = g[j - 1] \o u[j] /\ f[j] = f[j - 1] \o s[j]
        BY <4>2, <3>2, <2>2, <2>5
      <4>4. g[k] = f[k]
        BY <4>1, <2>7
      <4>5. g[j] = f[j]
        BY <4>1, <4>2, <4>3, <4>4
      <4>6. QED
        BY <4>5 DEF j
    <3>3. CASE j > n
      BY <3>3, <2>1
    <3>4. QED
      BY <3>1, <3>2, <3>3, <2>1
  <2> HIDE DEF S
  <2>8. Nat \subseteq S
    BY <2>6, <2>7, Induction
  <2>9. g[n] = f[n]
    BY <2>8, <2>1 DEF S
  <2>10. g[m] = g[n] \o t
    BY <2>4, <2>5
  <2>11. QED
    BY <2>2, <2>5, <2>9, <2>10 DEF u
<1>3. QED
  BY <1>1, <1>2

\* What is flattened is a sequence of what the elements are sequences of.
LEMMA FlattenType ==
  ASSUME NEW X, NEW s \in Seq(Seq(X))
  PROVE  FlattenSeq(s) \in Seq(X)
<1>1. CASE s = <<>>
  <2>1. <<>> \in Seq(X)
    OBVIOUS
  <2>2. QED
    BY <1>1, <2>1, FlattenNone
<1>2. CASE s # <<>>
  <2>1. PICK f : Flattens(X, s, f)
    BY <1>2, FlattenSteps
  <2>2. Len(s) \in 1 .. Len(s)
    BY <1>2
  <2>3. QED
    BY <2>1, <2>2 DEF Flattens
<1>3. QED
  BY <1>1, <1>2

\* H turns texts into texts, one part after the other.
Translates(X, Y, H) ==
  /\ H \in [Seq(X) -> Seq(Y)]
  /\ H[<<>>] = <<>>
  /\ \A a, b \in Seq(X) : H[a \o b] = H[a] \o H[b]

\* What is flattened is translated by translating the parts.
LEMMA FlattenTranslated ==
  ASSUME NEW X, NEW Y, NEW H, Translates(X, Y, H),
         NEW s \in Seq(Seq(X)), NEW t \in Seq(Seq(Y)),
         Len(t) = Len(s), \A i \in 1 .. Len(s) : t[i] = H[s[i]]
  PROVE  FlattenSeq(t) = H[FlattenSeq(s)]
<1>1. CASE s = <<>>
  <2>1. t = <<>>
    BY <1>1
  <2> QED
    BY <1>1, <2>1, FlattenNone DEF Translates
<1>2. CASE s # <<>>
  <2> DEFINE n == Len(s)
  <2>1. n \in Nat \ {0} /\ Len(t) = n /\ t # <<>> /\ \A i \in 1 .. n : s[i] \in Seq(X)
    BY <1>2
  <2>2. PICK f : Flattens(X, s, f)
    BY <1>2, FlattenSteps
  <2>3. PICK g : Flattens(Y, t, g)
    BY <2>1, FlattenSteps
  <2> HIDE DEF n
  <2>4. /\ FlattenSeq(s) = f[n] /\ FlattenSeq(t) = g[n]
        /\ f[1] = s[1] /\ g[1] = t[1]
        /\ \A i \in 2 .. n : f[i] = f[i - 1] \o s[i] /\ g[i] = g[i - 1] \o t[i]
        /\ \A i \in 1 .. n : f[i] \in Seq(X) /\ t[i] = H[s[i]]
    BY <2>1, <2>2, <2>3 DEF Flattens, n
  <2> DEFINE S == {k \in Nat : k \in 1 .. n => g[k] = H[f[k]]}
  <2>5. 0 \in S
    OBVIOUS
  <2>6. ASSUME NEW k \in Nat, k \in S PROVE k + 1 \in S
    <3> DEFINE j == k + 1
    <3>1. j \in Nat /\ (j = 1 \/ j \in 2 .. n \/ j > n)
      BY <2>1
    <3>2. CASE j = 1
      <4>1. 1 \in 1 .. n
        BY <2>1
      <4>2. g[1] = H[f[1]]
        BY <2>4, <4>1
      <4> QED
        BY <3>2, <4>2
    <3>3. CASE j \in 2 .. n
      <4>1. j - 1 = k /\ k \in 1 .. n /\ j \in 1 .. n
        BY <3>3, <2>1
      <4> HIDE DEF j
      <4>2. f[j] = f[k] \o s[j] /\ g[j] = g[k] \o t[j] /\ g[k] = H[f[k]] /\ t[j] = H[s[j]]
        BY <2>4, <2>6, <3>3, <4>1
      <4>3. f[k] \in Seq(X) /\ s[j] \in Seq(X)
        BY <2>1, <2>4, <4>1
      <4>4. H[f[k] \o s[j]] = H[f[k]] \o H[s[j]]
        BY <4>3 DEF Translates
      <4>5. g[j] = H[f[j]]
        BY <4>2, <4>4
      <4> QED
        BY <4>1, <4>5 DEF j
    <3>4. CASE j > n
      BY <3>4, <2>1
    <3> QED
      BY <3>1, <3>2, <3>3, <3>4
  <2> HIDE DEF S
  <2>7. Nat \subseteq S
    BY <2>5, <2>6, Induction
  <2>8. g[n] = H[f[n]]
    BY <2>1, <2>7 DEF S
  <2> QED
    BY <2>4, <2>8
<1> QED
  BY <1>1, <1>2

\* G is a set of functions on D.  F makes one of one, and asks less and less:
\* on layer k + 1 what F makes depends on layer k only.
Layered(D, G, F, n, L) ==
  /\ G # {} /\ \A g \in G : g = [x \in D |-> g[x]]
  /\ F \in [G -> G] /\ n \in Nat
  /\ \A x \in D : x \notin L[0] /\ x \in L[n]
  /\ \A k \in Nat : k + 1 <= n =>
       \A g, h \in G :
         (\A y \in D : y \in L[k] => g[y] = h[y]) =>
           \A x \in D : x \in L[k + 1] => F[g][x] = F[h][x]

\* Such an F has a function that it leaves as it is.
LEMMA Recursion ==
  ASSUME NEW D, NEW G, NEW F, NEW n, NEW L, Layered(D, G, F, n, L)
  PROVE  \E f \in G : f = F[f]
<1>1. PICK g0 \in G : TRUE
  BY DEF Layered
<1>2. F \in [G -> G] /\ n \in Nat
  BY DEF Layered
<1> DEFINE step == [i \in Nat |-> F]
<1>3. step \in [Nat -> [G -> G]] /\ \A i \in Nat : step[i] = F
  BY <1>2
<1>4. n + 1 \in Nat
  BY <1>2
<1>5. PICK s \in [0 .. n + 1 -> G] : s[0] = g0 /\ \A i \in 1 .. n + 1 : s[i] = step[i][s[i - 1]]
  <2> HIDE DEF step
  <2>1. Iterates(G, g0, step, n + 1)
    BY <1>1, <1>3, <1>4, Iteration
  <2> QED
    BY <2>1 DEF Iterates
<1>6. \A k \in 0 .. n : s[k] \in G /\ s[k + 1] \in G /\ s[k + 1] = F[s[k]]
  <2> HIDE DEF step
  <2> SUFFICES ASSUME NEW k \in 0 .. n PROVE s[k] \in G /\ s[k + 1] \in G /\ s[k + 1] = F[s[k]]
    OBVIOUS
  <2> DEFINE m == k + 1
  <2>1. m \in 1 .. n + 1 /\ m - 1 = k /\ k \in 0 .. n + 1 /\ m \in 0 .. n + 1 /\ m \in Nat
    BY <1>2
  <2> HIDE DEF m
  <2>2. s[m] = step[m][s[m - 1]] /\ step[m] = F
    BY <2>1, <1>5, <1>3
  <2>3. s[m] = F[s[k]] /\ s[k] \in G /\ s[m] \in G
    BY <2>1, <2>2, <1>5
  <2> QED
    BY <2>3 DEF m
<1> HIDE DEF step
<1> DEFINE Same(k) == k <= n => \A y \in D : y \in L[k] => s[k + 1][y] = s[k][y]
           S == {k \in Nat : Same(k)}
<1>7. 0 \in S
  <2>1. \A y \in D : y \notin L[0]
    BY DEF Layered
  <2>2. Same(0)
    BY <2>1
  <2> QED
    BY <2>2
<1>8. ASSUME NEW k \in Nat, k \in S PROVE k + 1 \in S
  <2> DEFINE m == k + 1
  <2>1. m \in Nat
    OBVIOUS
  <2>2. ASSUME m <= n PROVE \A y \in D : y \in L[m] => s[m + 1][y] = s[m][y]
    <3>1. k <= n /\ k \in 0 .. n /\ m \in 0 .. n
      BY <2>1, <2>2, <1>2
    <3>2. \A y \in D : y \in L[k] => s[m][y] = s[k][y]
      BY <3>1, <1>8
    <3>3. /\ s[k] \in G /\ s[m] \in G
          /\ s[m] = F[s[k]] /\ s[m + 1] = F[s[m]]
      BY <3>1, <1>6
    <3>4. \A g, h \in G :
            (\A y \in D : y \in L[k] => g[y] = h[y]) =>
              \A x \in D : x \in L[m] => F[g][x] = F[h][x]
      BY <2>2 DEF Layered
    <3> HIDE DEF m
    <3>5. \A x \in D : x \in L[m] => F[s[m]][x] = F[s[k]][x]
      BY <3>2, <3>3, <3>4
    <3> QED
      BY <3>3, <3>5
  <2>3. Same(m)
    BY <2>2
  <2> HIDE DEF Same
  <2> QED
    BY <2>1, <2>3
<1>9. Nat \subseteq S
  <2> HIDE DEF S
  <2> QED
    BY <1>7, <1>8, Induction
<1>10. Same(n)
  <2> HIDE DEF Same
  <2> QED
    BY <1>9, <1>2
<1>11. n <= n /\ n \in 0 .. n
  BY <1>2
<1>12. \A y \in D : s[n + 1][y] = s[n][y]
  BY <1>10, <1>11 DEF Layered
<1>13. s[n] \in G /\ s[n + 1] \in G /\ s[n + 1] = F[s[n]]
  BY <1>6, <1>11
<1>14. s[n] = s[n + 1]
  <2> DEFINE p == s[n] q == s[n + 1]
  <2>1. p = [x \in D |-> p[x]] /\ q = [x \in D |-> q[x]] /\ \A y \in D : q[y] = p[y]
    BY <1>12, <1>13 DEF Layered
  <2> HIDE DEF p, q
  <2>2. p = q
    BY <2>1
  <2> QED
    BY <2>2 DEF p, q
<1>15. QED
  BY <1>13, <1>14
===========================================================================
