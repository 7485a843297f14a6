-------------------------- MODULE PipelineProofs --------------------------
(***************************************************************************)
(* For any biases, backgrounds and examples: the stream of candidates is   *)
(* the space of its bias, simplest first; keys tell variants apart; and    *)
(* subsumption and shared keys carry coverage over, so no search over      *)
(* unmoded predicates loses its first solution.                            *)
(***************************************************************************)
EXTENDS Pipeline, SearchProofs, Induction

---------------------------------------------------------------------------
(* Sequences of sequences, flattened.                                      *)

LEMMA ConcatApart ==
  ASSUME NEW S, NEW s \in Seq(S), NEW t \in Seq(S), IsInjective(s), IsInjective(t),
         Range(s) \cap Range(t) = {}
  PROVE  IsInjective(s \o t)
<1> DEFINE a == Len(s)
           b == Len(t)
           u == s \o t
<1>1. a \in Nat /\ b \in Nat /\ DOMAIN s = 1 .. a /\ DOMAIN t = 1 .. b
  OBVIOUS
<1>2. /\ DOMAIN u = 1 .. a + b
      /\ \A i \in 1 .. a : u[i] = s[i]
      /\ \A i \in a + 1 .. a + b : u[i] = t[i - a]
  BY ConcatProperties
<1> HIDE DEF a, b, u
<1>3. ASSUME NEW i \in DOMAIN u, NEW j \in DOMAIN u, u[i] = u[j] PROVE i = j
  <2>1. CASE i \in 1 .. a /\ j \in 1 .. a
    BY <1>1, <1>2, <1>3, <2>1 DEF IsInjective
  <2>2. CASE i \in a + 1 .. a + b /\ j \in a + 1 .. a + b
    <3>1. i - a \in 1 .. b /\ j - a \in 1 .. b /\ t[i - a] = t[j - a]
      BY <1>1, <1>2, <1>3, <2>2
    <3>2. i - a = j - a
      BY <1>1, <3>1 DEF IsInjective
    <3>3. QED
      BY <1>1, <2>2, <3>2
  <2>3. ASSUME NEW k \in 1 .. a, NEW l \in a + 1 .. a + b, u[k] = u[l] PROVE FALSE
    <3>1. l - a \in 1 .. b /\ s[k] = t[l - a]
      BY <1>1, <1>2, <2>3
    <3>2. s[k] \in Range(s) /\ t[l - a] \in Range(t)
      BY <1>1, <2>3, <3>1 DEF Range
    <3>3. QED
      BY <3>1, <3>2
  <2>4. QED
    BY <1>1, <1>2, <1>3, <2>1, <2>2, <2>3
<1>4. QED
  BY <1>3 DEF IsInjective, u

Flattening(f, seqs, S) ==
  /\ f \in [0 .. Len(seqs) -> Seq(S)]
  /\ f[0] = <<>>
  /\ \A i \in 1 .. Len(seqs) : f[i] = f[i - 1] \o seqs[i]

LEMMA Flattens ==
  ASSUME NEW S, NEW seqs \in Seq(Seq(S))
  PROVE  \E f : Flattening(f, seqs, S) /\ FlattenSeq(seqs) = f[Len(seqs)]
<1> DEFINE w == Len(seqs)
           step == [q \in (1 .. w) \X Seq(S) |-> q[2] \o seqs[q[1]]]
           turn(i, F) == IF i = 1 THEN seqs[i] ELSE F[i - 1] \o seqs[i]
<1>1. w \in Nat /\ DOMAIN seqs = 1 .. w /\ \A i \in 1 .. w : seqs[i] \in Seq(S)
  OBVIOUS
<1>2. \A q \in (1 .. w) \X Seq(S) : q[2] \o seqs[q[1]] \in Seq(S)
  <2>1. ASSUME NEW q \in (1 .. w) \X Seq(S) PROVE q[2] \in Seq(S) /\ seqs[q[1]] \in Seq(S)
    BY <1>1
  <2>2. QED
    BY <2>1, ConcatProperties
<1>3. step \in [(1 .. w) \X Seq(S) -> Seq(S)] /\ \A i \in 1 .. w : \A M \in Seq(S) : step[<<i, M>>] = M \o seqs[i]
  BY <1>2
<1>4. <<>> \in Seq(S)
  OBVIOUS
<1> HIDE DEF step, w
<1>5. PICK f \in [0 .. w -> Seq(S)] : Iterated(f, w, <<>>, step)
  BY <1>1, <1>3, <1>4, Iterates
<1>6. f[0] = <<>>
  BY <1>1, <1>5 DEF Iterated
<1>7. ASSUME NEW i \in 1 .. w PROVE f[i] = f[i - 1] \o seqs[i]
  <2>1. i \in 0 .. w /\ i - 1 \in 0 .. w /\ i # 0
    BY <1>1
  <2>2. f[i] = step[<<i, f[i - 1]>>] /\ f[i - 1] \in Seq(S)
    BY <1>5, <2>1 DEF Iterated
  <2>3. QED
    BY <1>3, <2>2
<1>8. Flattening(f, seqs, S)
  BY <1>5, <1>6, <1>7 DEF Flattening, w
<1>0. ASSUME w # 0 PROVE f[1] = <<>> \o seqs[1]
  <2>1. 1 \in 1 .. w /\ 1 - 1 = 0
    BY <1>0, <1>1
  <2>2. f[1] = f[1 - 1] \o seqs[1]
    BY <1>7, <2>1
  <2>3. QED
    BY <1>6, <2>1, <2>2
<1>9. CASE w = 0
  <2>1. seqs = <<>> /\ FlattenSeq(seqs) = seqs
    BY <1>9 DEF FlattenSeq, w
  <2>2. QED
    BY <1>6, <1>8, <1>9, <2>1 DEF w
<1>10. CASE w # 0
  <2> DEFINE g == [i \in 1 .. w |-> f[i]]
  <2>1. g = [i \in 1 .. w |-> turn(i, g)]
    <3>1. ASSUME NEW i \in 1 .. w PROVE f[i] = turn(i, g)
      <4>1. CASE i = 1
        <5>1. f[1] = <<>> \o seqs[1]
          BY <1>0, <1>10
        <5>2. seqs[1] \in Seq(S)
          BY <1>1, <4>1
        <5>3. QED
          BY <4>1, <5>1, <5>2, ConcatEmptySeq
      <4>2. CASE i # 1
        <5>1. i - 1 \in 1 .. w
          BY <1>1, <4>2
        <5>2. QED
          BY <1>7, <4>2, <5>1
      <4>3. QED
        BY <4>1, <4>2
    <3> HIDE DEF turn
    <3>2. QED
      BY <3>1
  <2> DEFINE F == CHOOSE h : h = [i \in 1 .. w |-> turn(i, h)]
  <2>2. FlattenSeq(seqs) = F[w]
    BY <1>10 DEF FlattenSeq, w
  <2> HIDE DEF g
  <2>3. F = [i \in 1 .. w |-> turn(i, F)]
    <3> HIDE DEF turn
    <3>1. QED
      BY <2>1
  <2>4. \A i \in 1 .. w : F[i] = turn(i, F)
    <3> HIDE DEF turn, F
    <3>1. QED
      BY <2>3
  <2> HIDE DEF F
  <2> DEFINE Wrong == {i \in 1 .. w : F[i] # f[i]}
  <2>5. ASSUME Wrong # {} PROVE FALSE
    <3>1. PICK i \in Wrong : \A j \in Wrong : i <= j
      <4>1. Wrong \in SUBSET Nat
        BY <1>1
      <4> HIDE DEF Wrong
      <4>2. QED
        BY <2>5, <4>1, LeastExists
    <3>2. i \in 1 .. w /\ F[i] # f[i]
      OBVIOUS
    <3>3. CASE i = 1
      <4>1. f[1] = <<>> \o seqs[1] /\ seqs[1] \in Seq(S)
        BY <1>0, <1>1, <1>10, <3>2, <3>3
      <4>2. f[1] = seqs[1]
        BY <4>1, ConcatEmptySeq
      <4>3. QED
        BY <2>4, <3>2, <3>3, <4>2
    <3>4. CASE i # 1
      <4>1. i - 1 \in 1 .. w /\ i - 1 \notin Wrong
        <5>1. i - 1 \in 1 .. w /\ ~(i <= i - 1)
          BY <1>1, <3>2, <3>4
        <5> HIDE DEF Wrong
        <5>2. QED
          BY <3>1, <5>1
      <4>2. F[i - 1] = f[i - 1]
        BY <4>1
      <4>3. F[i] = F[i - 1] \o seqs[i]
        BY <2>4, <3>2, <3>4
      <4>4. QED
        BY <1>7, <3>2, <4>2, <4>3
    <3>5. QED
      BY <3>3, <3>4
  <2>6. F[w] = f[w]
    <3>1. w \in 1 .. w
      BY <1>1, <1>10
    <3>2. QED
      BY <2>5, <3>1
  <2>7. QED
    BY <1>8, <2>2, <2>6 DEF w
<1>11. QED
  BY <1>9, <1>10

(* The places of the parts, and the order in which they are flattened.     *)
Spots(seqs, n) == {q \in Nat \X Nat : q[1] \in 1 .. n /\ q[2] \in DOMAIN seqs[q[1]]}

Ahead(q, r) == q[1] < r[1] \/ (q[1] = r[1] /\ q[2] < r[2])

Indexes(g, u, seqs, n) ==
  /\ g \in [DOMAIN u -> Spots(seqs, n)]
  /\ \A x \in DOMAIN u : u[x] = seqs[g[x][1]][g[x][2]]
  /\ \A x, y \in DOMAIN u : x < y => Ahead(g[x], g[y])
  /\ \A q \in Spots(seqs, n) : \E x \in DOMAIN u : g[x] = q

LEMMA IndexesOn ==
  ASSUME NEW S, NEW seqs \in Seq(Seq(S)), NEW n \in 1 .. Len(seqs), NEW u \in Seq(S), NEW g,
         Indexes(g, u, seqs, n - 1)
  PROVE  \E h : Indexes(h, u \o seqs[n], seqs, n)
<1> DEFINE a == Len(u)
           t == seqs[n]
           b == Len(t)
           v == u \o t
           h == [x \in 1 .. a + b |-> IF x <= a THEN g[x] ELSE <<n, x - a>>]
<1>1. t \in Seq(S) /\ n \in Nat /\ n - 1 \in Nat /\ n \in 1 .. n
  OBVIOUS
<1>2. a \in Nat /\ b \in Nat /\ DOMAIN u = 1 .. a /\ DOMAIN t = 1 .. b
  BY <1>1
<1>3. /\ DOMAIN v = 1 .. a + b
      /\ \A x \in 1 .. a + b : v[x] = IF x <= a THEN u[x] ELSE t[x - a]
  <2>1. v \in Seq(S) /\ Len(v) = a + b /\ \A x \in 1 .. a + b : v[x] = IF x <= a THEN u[x] ELSE t[x - a]
    BY <1>1, ConcatProperties
  <2> HIDE DEF v
  <2>2. QED
    BY <2>1
<1>4. /\ g \in [1 .. a -> Spots(seqs, n - 1)]
      /\ \A x \in 1 .. a : u[x] = seqs[g[x][1]][g[x][2]]
      /\ \A x, y \in 1 .. a : x < y => Ahead(g[x], g[y])
      /\ \A q \in Spots(seqs, n - 1) : \E x \in 1 .. a : g[x] = q
  BY <1>2 DEF Indexes
<1> HIDE DEF a, b, v
<1>5. DOMAIN h = 1 .. a + b /\ \A x \in 1 .. a + b : h[x] = IF x <= a THEN g[x] ELSE <<n, x - a>>
  OBVIOUS
<1> HIDE DEF h
<1>6. ASSUME NEW x \in 1 .. a + b
      PROVE  \/ x \in 1 .. a /\ h[x] = g[x] /\ v[x] = u[x]
             \/ x - a \in 1 .. b /\ h[x] = <<n, x - a>> /\ v[x] = t[x - a] /\ x > a
  BY <1>2, <1>3, <1>5
<1>7. \A q \in Spots(seqs, n - 1) : q \in Spots(seqs, n) /\ q[1] < n
  BY <1>1 DEF Spots
<1>8. \A y \in 1 .. b : <<n, y>> \in Spots(seqs, n)
  BY <1>1, <1>2 DEF Spots
<1>9. \A x \in 1 .. a + b : h[x] \in Spots(seqs, n)
  BY <1>4, <1>6, <1>7, <1>8
<1>10. ASSUME NEW x \in 1 .. a + b PROVE v[x] = seqs[h[x][1]][h[x][2]]
  <2>1. CASE x \in 1 .. a /\ h[x] = g[x] /\ v[x] = u[x]
    BY <1>4, <2>1
  <2>2. CASE x - a \in 1 .. b /\ h[x] = <<n, x - a>> /\ v[x] = t[x - a]
    <3>1. h[x][1] = n /\ h[x][2] = x - a
      BY <2>2
    <3>2. QED
      BY <2>2, <3>1
  <2>3. QED
    BY <1>6, <2>1, <2>2
<1>11. ASSUME NEW x \in 1 .. a + b, NEW y \in 1 .. a + b, x < y PROVE Ahead(h[x], h[y])
  <2>1. CASE x \in 1 .. a /\ y \in 1 .. a
    <3>1. h[x] = g[x] /\ h[y] = g[y]
      BY <1>2, <1>5, <2>1
    <3>2. QED
      BY <1>4, <1>11, <2>1, <3>1
  <2>2. CASE x \in 1 .. a /\ y > a
    <3>1. h[x] = g[x] /\ h[y] = <<n, y - a>> /\ g[x] \in Spots(seqs, n - 1)
      BY <1>2, <1>4, <1>5, <2>2
    <3>2. h[x][1] < n /\ h[y][1] = n
      BY <1>7, <3>1
    <3>3. QED
      BY <3>2 DEF Ahead
  <2>3. CASE x > a /\ y > a
    <3>1. h[x] = <<n, x - a>> /\ h[y] = <<n, y - a>> /\ x - a < y - a
      BY <1>2, <1>5, <1>11, <2>3
    <3>2. QED
      BY <3>1 DEF Ahead
  <2>4. QED
    BY <1>2, <1>11, <2>1, <2>2, <2>3
<1>12. ASSUME NEW q \in Spots(seqs, n) PROVE \E x \in 1 .. a + b : h[x] = q
  <2>1. CASE q[1] = n
    <3>1. q = <<n, q[2]>> /\ q[2] \in 1 .. b
      BY <1>2, <2>1 DEF Spots
    <3>2. a + q[2] \in 1 .. a + b /\ ~(a + q[2] <= a) /\ (a + q[2]) - a = q[2]
      BY <1>2, <3>1
    <3>3. h[a + q[2]] = q
      BY <1>5, <3>1, <3>2
    <3>4. QED
      BY <3>2, <3>3
  <2>2. CASE q[1] # n
    <3>1. q \in Spots(seqs, n - 1)
      BY <1>1, <2>2 DEF Spots
    <3>2. PICK x \in 1 .. a : g[x] = q
      BY <1>4, <3>1
    <3>3. x \in 1 .. a + b /\ h[x] = g[x]
      BY <1>2, <1>5
    <3>4. QED
      BY <3>2, <3>3
  <2>3. QED
    BY <2>1, <2>2
<1>13. h \in [1 .. a + b -> Spots(seqs, n)]
  BY <1>5, <1>9 DEF h
<1>14. Indexes(h, v, seqs, n)
  BY <1>3, <1>10, <1>11, <1>12, <1>13 DEF Indexes
<1>15. QED
  BY <1>14 DEF v

LEMMA FlattenedIndex ==
  ASSUME NEW S, NEW seqs \in Seq(Seq(S))
  PROVE  \E g : Indexes(g, FlattenSeq(seqs), seqs, Len(seqs))
<1> DEFINE w == Len(seqs)
<1>1. w \in Nat /\ DOMAIN seqs = 1 .. w
  OBVIOUS
<1>2. PICK f : Flattening(f, seqs, S) /\ FlattenSeq(seqs) = f[w]
  BY Flattens
<1> HIDE DEF w
<1>3. /\ \A n \in 0 .. w : f[n] \in Seq(S)
      /\ f[0] = <<>>
      /\ \A n \in 1 .. w : f[n] = f[n - 1] \o seqs[n]
  BY <1>2 DEF Flattening, w
<1> DEFINE Wrong == {n \in 0 .. w : ~ \E g : Indexes(g, f[n], seqs, n)}
<1>4. ASSUME Wrong # {} PROVE FALSE
  <2>1. PICK n \in Wrong : \A j \in Wrong : n <= j
    <3>1. Wrong \in SUBSET Nat
      BY <1>1
    <3> HIDE DEF Wrong
    <3>2. QED
      BY <1>4, <3>1, LeastExists
  <2>2. n \in 0 .. w /\ n \in Nat /\ ~ \E g : Indexes(g, f[n], seqs, n)
    BY <1>1
  <2>3. n # 0
    <3>1. Indexes(<<>>, <<>>, seqs, 0)
      BY DEF Indexes, Spots
    <3>2. QED
      BY <1>3, <2>2, <3>1
  <2>4. n \in 1 .. w /\ n - 1 \in 0 .. w /\ n - 1 \notin Wrong
    <3>1. n \in 1 .. w /\ n - 1 \in 0 .. w /\ ~(n <= n - 1)
      BY <1>1, <2>2, <2>3
    <3> HIDE DEF Wrong
    <3>2. QED
      BY <2>1, <3>1
  <2>5. PICK g : Indexes(g, f[n - 1], seqs, n - 1)
    BY <2>4
  <2> DEFINE u == f[n - 1]
  <2>6. u \in Seq(S) /\ Indexes(g, u, seqs, n - 1) /\ f[n] = u \o seqs[n] /\ n \in 1 .. Len(seqs)
    BY <1>3, <2>4, <2>5 DEF w
  <2> HIDE DEF u
  <2>7. \E h : Indexes(h, u \o seqs[n], seqs, n)
    BY <2>6, IndexesOn
  <2>8. QED
    BY <2>2, <2>6, <2>7
<1>5. w \in 0 .. w
  BY <1>1
<1>6. QED
  BY <1>2, <1>4, <1>5 DEF w

(* What is flattened is made of the elements of its parts.                 *)
LEMMA FlattenedSeq ==
  ASSUME NEW S, NEW seqs \in Seq(Seq(S))
  PROVE  FlattenSeq(seqs) \in Seq(S)
<1>1. PICK f : Flattening(f, seqs, S) /\ FlattenSeq(seqs) = f[Len(seqs)]
  BY Flattens
<1>2. Len(seqs) \in 0 .. Len(seqs)
  BY LenProperties
<1>3. QED
  BY <1>1, <1>2 DEF Flattening

(* Its elements are those of its parts.                                    *)
LEMMA FlattenedRange ==
  ASSUME NEW S, NEW seqs \in Seq(Seq(S))
  PROVE  /\ \A y \in Range(FlattenSeq(seqs)) : \E j \in DOMAIN seqs : y \in Range(seqs[j])
         /\ \A j \in DOMAIN seqs : Range(seqs[j]) \subseteq Range(FlattenSeq(seqs))
<1> DEFINE u == FlattenSeq(seqs)
<1>1. PICK g : Indexes(g, u, seqs, Len(seqs))
  BY FlattenedIndex
<1>2. DOMAIN seqs = 1 .. Len(seqs) /\ Len(seqs) \in Nat
  OBVIOUS
<1>3. ASSUME NEW j \in DOMAIN seqs PROVE DOMAIN seqs[j] \subseteq Nat
  BY <1>2
<1> HIDE DEF u
<1>4. ASSUME NEW x \in DOMAIN u PROVE \E j \in DOMAIN seqs : u[x] \in Range(seqs[j])
  <2>1. g[x] \in Spots(seqs, Len(seqs)) /\ u[x] = seqs[g[x][1]][g[x][2]]
    BY <1>1 DEF Indexes
  <2>2. g[x][1] \in DOMAIN seqs /\ g[x][2] \in DOMAIN seqs[g[x][1]]
    BY <1>2, <2>1 DEF Spots
  <2>3. QED
    BY <2>1, <2>2 DEF Range
<1>5. ASSUME NEW j \in DOMAIN seqs, NEW i \in DOMAIN seqs[j] PROVE seqs[j][i] \in Range(u)
  <2>1. <<j, i>> \in Spots(seqs, Len(seqs))
    BY <1>2, <1>3 DEF Spots
  <2>2. PICK x \in DOMAIN u : g[x] = <<j, i>>
    BY <1>1, <2>1 DEF Indexes
  <2>3. u[x] = seqs[g[x][1]][g[x][2]] /\ g[x][1] = j /\ g[x][2] = i
    BY <1>1, <2>2 DEF Indexes
  <2>4. QED
    BY <2>3 DEF Range
<1>6. QED
  BY <1>4, <1>5 DEF u, Range

(* What holds of every two in order in a part, and across parts in order,  *)
(* holds in the whole.                                                     *)
Ordered(R, s) == \A x, y \in DOMAIN s : x < y => <<s[x], s[y]>> \in R

LEMMA FlattenedOrder ==
  ASSUME NEW S, NEW seqs \in Seq(Seq(S)), NEW R,
         \A j \in DOMAIN seqs : Ordered(R, seqs[j]),
         \A i, j \in DOMAIN seqs : i < j => Range(seqs[i]) \X Range(seqs[j]) \subseteq R
  PROVE  Ordered(R, FlattenSeq(seqs))
<1> DEFINE u == FlattenSeq(seqs)
<1>1. PICK g : Indexes(g, u, seqs, Len(seqs))
  BY FlattenedIndex
<1>2. DOMAIN seqs = 1 .. Len(seqs) /\ Len(seqs) \in Nat
  OBVIOUS
<1> HIDE DEF u
<1>3. ASSUME NEW x \in DOMAIN u, NEW y \in DOMAIN u, x < y PROVE <<u[x], u[y]>> \in R
  <2> DEFINE i == g[x][1]
             k == g[x][2]
             j == g[y][1]
             l == g[y][2]
  <2>1. /\ g[x] \in Spots(seqs, Len(seqs)) /\ u[x] = seqs[i][k]
        /\ g[y] \in Spots(seqs, Len(seqs)) /\ u[y] = seqs[j][l]
        /\ Ahead(g[x], g[y])
    BY <1>1, <1>3 DEF Indexes
  <2>2. i \in DOMAIN seqs /\ j \in DOMAIN seqs /\ k \in DOMAIN seqs[i] /\ l \in DOMAIN seqs[j]
    BY <1>2, <2>1 DEF Spots
  <2>3. i < j \/ (i = j /\ k < l)
    BY <2>1 DEF Ahead
  <2> HIDE DEF i, j, k, l
  <2>4. CASE i < j
    <3>1. seqs[i][k] \in Range(seqs[i]) /\ seqs[j][l] \in Range(seqs[j])
      BY <2>2 DEF Range
    <3>2. QED
      BY <2>1, <2>2, <2>4, <3>1
  <2>5. CASE i = j /\ k < l
    BY <2>1, <2>2, <2>5 DEF Ordered
  <2>6. QED
    BY <2>3, <2>4, <2>5
<1>4. QED
  BY <1>3 DEF Ordered, u

(* Parts without repetitions that have nothing in common make a sequence   *)
(* without repetitions.                                                    *)
LEMMA InjectiveIsOrdered ==
  ASSUME NEW S, NEW s \in Seq(S)
  PROVE  IsInjective(s) <=> Ordered({q \in S \X S : q[1] # q[2]}, s)
<1>1. DOMAIN s \subseteq Nat /\ \A x \in DOMAIN s : s[x] \in S
  OBVIOUS
<1>2. ASSUME IsInjective(s) PROVE Ordered({q \in S \X S : q[1] # q[2]}, s)
  BY <1>1, <1>2 DEF IsInjective, Ordered
<1>3. ASSUME Ordered({q \in S \X S : q[1] # q[2]}, s) PROVE IsInjective(s)
  <2>1. \A x, y \in DOMAIN s : x < y => s[x] # s[y]
    BY <1>3 DEF Ordered
  <2>2. \A x, y \in DOMAIN s : x < y \/ y < x \/ x = y
    BY <1>1
  <2>3. QED
    BY <2>1, <2>2 DEF IsInjective
<1>4. QED
  BY <1>2, <1>3

LEMMA FlattenedApart ==
  ASSUME NEW S, NEW seqs \in Seq(Seq(S)),
         \A i \in DOMAIN seqs : IsInjective(seqs[i]),
         \A i, j \in DOMAIN seqs : i # j => Range(seqs[i]) \cap Range(seqs[j]) = {}
  PROVE  IsInjective(FlattenSeq(seqs))
<1> DEFINE R == {q \in S \X S : q[1] # q[2]}
<1>1. DOMAIN seqs \subseteq Nat /\ \A i \in DOMAIN seqs : seqs[i] \in Seq(S)
  OBVIOUS
<1>2. \A i \in DOMAIN seqs : Ordered(R, seqs[i])
  BY <1>1, InjectiveIsOrdered
<1>3. ASSUME NEW i \in DOMAIN seqs, NEW j \in DOMAIN seqs, i < j
      PROVE  Range(seqs[i]) \X Range(seqs[j]) \subseteq R
  <2>1. i # j /\ Range(seqs[i]) \subseteq S /\ Range(seqs[j]) \subseteq S
    BY <1>1, <1>3 DEF Range
  <2>2. Range(seqs[i]) \cap Range(seqs[j]) = {}
    BY <2>1
  <2>3. QED
    BY <2>1, <2>2
<1> HIDE DEF R
<1>4. Ordered(R, FlattenSeq(seqs))
  BY <1>2, <1>3, FlattenedOrder
<1>5. FlattenSeq(seqs) \in Seq(S)
  BY FlattenedSeq
<1>6. QED
  BY <1>4, <1>5, InjectiveIsOrdered DEF R

---------------------------------------------------------------------------
(* Products.                                                               *)

LEMMA FunctionIsSeq ==
  ASSUME NEW S, NEW n \in Nat, NEW s \in [1 .. n -> S]
  PROVE  s \in Seq(S)
OBVIOUS

Consed(x, t) == <<x>> \o t

Tuples(k, T) == [1 .. k -> T]

LEMMA ConsedIs ==
  ASSUME NEW T, NEW k \in Nat, NEW t \in Tuples(k, T), NEW x \in T
  PROVE  /\ Consed(x, t) \in Tuples(k + 1, T)
         /\ Consed(x, t)[1] = x
         /\ \A i \in 1 .. k : Consed(x, t)[i + 1] = t[i]
<1>1. t \in Seq(T) /\ Len(t) = k
  BY DEF Tuples
<1>2. <<x>> \in Seq(T) /\ Len(<<x>>) = 1 /\ <<x>>[1] = x
  OBVIOUS
<1> DEFINE s == <<x>>
<1> HIDE DEF s
<1>3. s \in Seq(T) /\ Len(s) = 1 /\ s[1] = x
  BY <1>2 DEF s
<1>4. /\ s \o t \in Seq(T) /\ Len(s \o t) = 1 + k
      /\ \A i \in 1 .. 1 + k : (s \o t)[i] = IF i <= 1 THEN s[i] ELSE t[i - 1]
  <2>1. /\ s \o t \in Seq(T) /\ Len(s \o t) = Len(s) + Len(t)
        /\ \A i \in 1 .. Len(s) + Len(t) : (s \o t)[i] = IF i <= Len(s) THEN s[i] ELSE t[i - Len(s)]
    <3>1. s \in Seq(T) /\ t \in Seq(T)
      BY <1>1, <1>3
    <3>2. QED
      BY <3>1, ConcatProperties
  <2>2. Len(s) = 1 /\ Len(t) = k
    BY <1>1, <1>3
  <2> DEFINE r == s \o t
  <2> HIDE DEF r
  <2>3. /\ r \in Seq(T) /\ Len(r) = Len(s) + Len(t)
        /\ \A i \in 1 .. Len(s) + Len(t) : r[i] = IF i <= Len(s) THEN s[i] ELSE t[i - Len(s)]
    BY <2>1 DEF r
  <2>4. r \in Seq(T) /\ Len(r) = 1 + k /\ \A i \in 1 .. 1 + k : r[i] = IF i <= 1 THEN s[i] ELSE t[i - 1]
    BY <2>2, <2>3
  <2>5. QED
    BY <2>4 DEF r
<1>5. s \o t \in [1 .. k + 1 -> T]
  <2> DEFINE r == s \o t
  <2>1. r \in Seq(T) /\ Len(r) = k + 1
    BY <1>4
  <2> HIDE DEF r
  <2>2. r \in [1 .. k + 1 -> T]
    BY <2>1
  <2>3. QED
    BY <2>2 DEF r
<1>6. (s \o t)[1] = x
  BY <1>3, <1>4
<1>7. ASSUME NEW i \in 1 .. k PROVE (s \o t)[i + 1] = t[i]
  <2>1. i + 1 \in 1 .. 1 + k /\ ~(i + 1 <= 1) /\ (i + 1) - 1 = i
    OBVIOUS
  <2>2. QED
    BY <1>4, <2>1
<1>8. QED
  BY <1>5, <1>6, <1>7 DEF s, Consed, Tuples

LEMMA ConsedApart ==
  ASSUME NEW T, NEW k \in Nat, NEW t \in Tuples(k, T), NEW u \in Tuples(k, T), NEW x \in T, NEW y \in T
  PROVE  Consed(x, t) = Consed(y, u) => x = y /\ t = u
<1>1. Consed(x, t)[1] = x /\ \A i \in 1 .. k : Consed(x, t)[i + 1] = t[i]
  BY ConsedIs
<1>2. Consed(y, u)[1] = y /\ \A i \in 1 .. k : Consed(y, u)[i + 1] = u[i]
  BY ConsedIs
<1>3. ASSUME Consed(x, t) = Consed(y, u) PROVE x = y /\ \A i \in 1 .. k : t[i] = u[i]
  BY <1>1, <1>2, <1>3
<1>4. QED
  BY <1>3 DEF Tuples

TimesParts(pool, tails) == [j \in DOMAIN tails |-> [i \in DOMAIN pool |-> Consed(pool[i], tails[j])]]

LEMMA TimesSeq ==
  ASSUME NEW T, NEW k \in Nat, NEW pool \in Seq(T), NEW tails \in Seq(Tuples(k, T))
  PROVE  /\ TimesParts(pool, tails) \in Seq(Seq(Tuples(k + 1, T)))
         /\ Times(pool, tails) \in Seq(Tuples(k + 1, T))
         /\ \A y \in Range(Times(pool, tails)) :
              \E x \in Range(pool), t \in Range(tails) : y = Consed(x, t)
         /\ \A x \in Range(pool), t \in Range(tails) : Consed(x, t) \in Range(Times(pool, tails))
         /\ IsInjective(pool) /\ IsInjective(tails) => IsInjective(Times(pool, tails))
<1> DEFINE R == Tuples(k + 1, T)
           seqs == TimesParts(pool, tails)
<1>1. /\ Len(pool) \in Nat /\ DOMAIN pool = 1 .. Len(pool) /\ \A i \in DOMAIN pool : pool[i] \in T
      /\ Len(tails) \in Nat /\ DOMAIN tails = 1 .. Len(tails) /\ \A j \in DOMAIN tails : tails[j] \in Tuples(k, T)
  OBVIOUS
<1>2. ASSUME NEW j \in DOMAIN tails
      PROVE  /\ seqs[j] \in Seq(R) /\ DOMAIN seqs[j] = DOMAIN pool
             /\ \A i \in DOMAIN pool : seqs[j][i] = Consed(pool[i], tails[j])
  <2> DEFINE s == [i \in DOMAIN pool |-> Consed(pool[i], tails[j])]
  <2>1. \A i \in DOMAIN pool : Consed(pool[i], tails[j]) \in R
    BY <1>1, ConsedIs
  <2>2. s \in [1 .. Len(pool) -> R]
    BY <1>1, <2>1
  <2>3. s \in Seq(R)
    <3> HIDE DEF s, R
    <3>1. QED
      BY <1>1, <2>2, FunctionIsSeq
  <2>4. seqs[j] = s
    BY DEF TimesParts
  <2>5. QED
    BY <2>3, <2>4
<1>3. seqs \in Seq(Seq(R)) /\ DOMAIN seqs = DOMAIN tails
  <2>1. DOMAIN seqs = 1 .. Len(tails)
    BY <1>1 DEF TimesParts
  <2>2. seqs = [j \in 1 .. Len(tails) |-> seqs[j]]
    BY <1>1 DEF TimesParts
  <2> HIDE DEF seqs, R
  <2>3. seqs \in [1 .. Len(tails) -> Seq(R)]
    BY <1>1, <1>2, <2>2
  <2>4. QED
    BY <1>1, <2>1, <2>3, FunctionIsSeq
<1>4. Times(pool, tails) = FlattenSeq(seqs)
  BY DEF Times, TimesParts, Consed
<1> HIDE DEF seqs, R
<1>5. Times(pool, tails) \in Seq(R)
  BY <1>3, <1>4, FlattenedSeq
<1>6. ASSUME IsInjective(pool), IsInjective(tails) PROVE IsInjective(Times(pool, tails))
  <2>1. ASSUME NEW j \in DOMAIN tails, NEW l \in DOMAIN tails, NEW i \in DOMAIN pool, NEW m \in DOMAIN pool,
               seqs[j][i] = seqs[l][m]
        PROVE  i = m /\ j = l
    <3>1. Consed(pool[i], tails[j]) = Consed(pool[m], tails[l])
      BY <1>2, <2>1
    <3>2. pool[i] \in T /\ pool[m] \in T /\ tails[j] \in Tuples(k, T) /\ tails[l] \in Tuples(k, T)
      BY <1>1
    <3>3. pool[i] = pool[m] /\ tails[j] = tails[l]
      BY <3>1, <3>2, ConsedApart
    <3>4. QED
      BY <1>6, <3>3 DEF IsInjective
  <2>2. \A j \in DOMAIN seqs : IsInjective(seqs[j])
    BY <1>2, <1>3, <2>1 DEF IsInjective
  <2>3. \A j, l \in DOMAIN seqs : j # l => Range(seqs[j]) \cap Range(seqs[l]) = {}
    BY <1>2, <1>3, <2>1 DEF Range
  <2>4. QED
    BY <1>3, <1>4, <2>2, <2>3, FlattenedApart
<1>7. ASSUME NEW y \in Range(Times(pool, tails))
      PROVE  \E x \in Range(pool), t \in Range(tails) : y = Consed(x, t)
  <2>1. PICK j \in DOMAIN seqs : y \in Range(seqs[j])
    BY <1>3, <1>4, FlattenedRange
  <2>2. PICK i \in DOMAIN pool : y = Consed(pool[i], tails[j])
    BY <1>2, <1>3, <2>1 DEF Range
  <2>3. pool[i] \in Range(pool) /\ tails[j] \in Range(tails)
    BY <1>3, <2>1 DEF Range
  <2>4. QED
    BY <2>2, <2>3
<1>8. ASSUME NEW x \in Range(pool), NEW t \in Range(tails)
      PROVE  Consed(x, t) \in Range(Times(pool, tails))
  <2>1. PICK i \in DOMAIN pool : x = pool[i]
    BY DEF Range
  <2>2. PICK j \in DOMAIN tails : t = tails[j]
    BY DEF Range
  <2>3. Consed(x, t) \in Range(seqs[j])
    BY <1>2, <2>1, <2>2 DEF Range
  <2>4. Range(seqs[j]) \subseteq Range(FlattenSeq(seqs))
    BY <1>3, FlattenedRange
  <2>5. QED
    BY <1>4, <2>3, <2>4
<1>9. QED
  BY <1>3, <1>5, <1>6, <1>7, <1>8 DEF seqs, R

LEMMA ProductsAre ==
  ASSUME NEW T, NEW pools \in Seq(Seq(T))
  PROVE  \E f : /\ f[0] = <<<<>>>>
                /\ \A k \in 1 .. Len(pools) : f[k] = Times(pools[Len(pools) + 1 - k], f[k - 1])
                /\ ProductPerPos(pools) = f[Len(pools)]
<1> DEFINE w == Len(pools)
           S == Seq(Seq(T))
           times(k, M) == Times(pools[w + 1 - k], M)
           turn(k, f) == IF k = 0 THEN <<<<>>>> ELSE times(k, f[k - 1])
           F == CHOOSE f : f = [k \in 0 .. w |-> turn(k, f)]
           step == [q \in (1 .. w) \X S |-> times(q[1], q[2])]
<1>1. w \in Nat /\ DOMAIN pools = 1 .. w /\ \A k \in 1 .. w : pools[k] \in Seq(T)
  OBVIOUS
<1>2. ASSUME NEW k \in 1 .. w, NEW M \in S PROVE times(k, M) \in S
  <2> DEFINE pool == pools[w + 1 - k]
             seqs == TimesParts(pool, M)
  <2>1. pool \in Seq(T)
    <3>1. w + 1 - k \in 1 .. w
      BY <1>1
    <3>2. QED
      BY <1>1, <3>1
  <2> HIDE DEF pool, w
  <2>2. /\ Len(pool) \in Nat /\ DOMAIN pool = 1 .. Len(pool) /\ \A i \in DOMAIN pool : pool[i] \in T
        /\ Len(M) \in Nat /\ DOMAIN M = 1 .. Len(M) /\ \A j \in DOMAIN M : M[j] \in Seq(T)
    BY <2>1
  <2>3. ASSUME NEW j \in DOMAIN M PROVE seqs[j] \in Seq(Seq(T))
    <3>1. \A i \in DOMAIN pool : <<pool[i]>> \in Seq(T)
      BY <2>2
    <3>2. \A i \in DOMAIN pool : Consed(pool[i], M[j]) \in Seq(T)
      BY <2>2, <3>1, ConcatProperties DEF Consed
    <3>3. seqs[j] = [i \in DOMAIN pool |-> Consed(pool[i], M[j])]
      BY DEF TimesParts
    <3>4. seqs[j] \in [1 .. Len(pool) -> Seq(T)]
      BY <2>2, <3>2, <3>3
    <3> HIDE DEF seqs
    <3>5. QED
      BY <2>2, <3>4, FunctionIsSeq
  <2>4. seqs = [j \in 1 .. Len(M) |-> seqs[j]]
    BY <2>2 DEF TimesParts
  <2> HIDE DEF seqs
  <2>5. seqs \in [1 .. Len(M) -> Seq(Seq(T))]
    BY <2>2, <2>3, <2>4
  <2>6. seqs \in Seq(Seq(Seq(T)))
    BY <2>2, <2>5, FunctionIsSeq
  <2>7. FlattenSeq(seqs) \in Seq(Seq(T))
    BY <2>6, FlattenedSeq
  <2>8. times(k, M) = FlattenSeq(seqs)
    BY DEF Times, TimesParts, Consed, seqs, pool, w
  <2>9. QED
    BY <2>7, <2>8
<1>3. <<<<>>>> \in S
  OBVIOUS
<1> HIDE DEF S, times, w
<1>4. step \in [(1 .. w) \X S -> S] /\ \A k \in 1 .. w : \A M \in S : step[<<k, M>>] = times(k, M)
  BY <1>2
<1> HIDE DEF step
<1>5. PICK f \in [0 .. w -> S] : Iterated(f, w, <<<<>>>>, step)
  BY <1>1, <1>3, <1>4, Iterates
<1>6. f = [k \in 0 .. w |-> turn(k, f)]
  <2>1. ASSUME NEW k \in 0 .. w, k # 0
        PROVE  step[<<k, f[k - 1]>>] = times(k, f[k - 1])
    <3>1. k \in 1 .. w /\ k - 1 \in 0 .. w
      BY <1>1, <2>1
    <3>2. f[k - 1] \in S
      BY <1>5, <3>1
    <3>3. QED
      BY <1>4, <3>1, <3>2
  <2>2. QED
    BY <1>5, <2>1 DEF Iterated
<1>7. ProductPerPos(pools) = F[w]
  BY DEF ProductPerPos, times, w
<1>8. F = [k \in 0 .. w |-> turn(k, F)]
  <2> HIDE DEF turn
  <2>1. QED
    BY <1>6
<1>9. \A k \in 0 .. w : F[k] = turn(k, F)
  <2> HIDE DEF turn, F
  <2>1. QED
    BY <1>8
<1> HIDE DEF F
<1>10. F[0] = <<<<>>>>
  <2>1. 0 \in 0 .. w
    BY <1>1
  <2>2. QED
    BY <1>9, <2>1
<1>11. ASSUME NEW k \in 1 .. w PROVE F[k] = times(k, F[k - 1])
  <2>1. k \in 0 .. w /\ k # 0
    BY <1>1
  <2>2. QED
    BY <1>9, <2>1
<1>12. QED
  BY <1>7, <1>10, <1>11 DEF times, w

(* The product of pools is the choices of one element of each, none twice  *)
(* when no pool repeats an element.                                        *)
ChoicesFrom(pools, k, T) ==
  {t \in Tuples(k, T) : \A i \in 1 .. k : t[i] \in Range(pools[Len(pools) - k + i])}

LEMMA ChoicesConsed ==
  ASSUME NEW T, NEW pools \in Seq(Seq(T)), NEW k \in Nat, k < Len(pools)
  PROVE  /\ \A x \in Range(pools[Len(pools) - k]), t \in ChoicesFrom(pools, k, T) :
              Consed(x, t) \in ChoicesFrom(pools, k + 1, T)
         /\ \A u \in ChoicesFrom(pools, k + 1, T) :
              \E x \in Range(pools[Len(pools) - k]), t \in ChoicesFrom(pools, k, T) : u = Consed(x, t)
<1> DEFINE w == Len(pools)
<1>1. w \in Nat /\ DOMAIN pools = 1 .. w /\ \A i \in 1 .. w : pools[i] \in Seq(T)
  OBVIOUS
<1>2. w - k \in 1 .. w /\ Range(pools[w - k]) \subseteq T /\ w - (k + 1) + 1 = w - k
  <2>1. w - k \in 1 .. w /\ w - (k + 1) + 1 = w - k
    BY <1>1
  <2>2. pools[w - k] \in Seq(T)
    BY <1>1, <2>1
  <2>3. QED
    BY <2>1, <2>2 DEF Range
<1> HIDE DEF w
<1>3. ASSUME NEW x \in Range(pools[w - k]), NEW t \in ChoicesFrom(pools, k, T)
      PROVE  Consed(x, t) \in ChoicesFrom(pools, k + 1, T)
  <2> DEFINE u == Consed(x, t)
  <2>1. x \in T /\ t \in Tuples(k, T) /\ \A i \in 1 .. k : t[i] \in Range(pools[w - k + i])
    BY <1>2 DEF ChoicesFrom, w
  <2>2. u \in Tuples(k + 1, T) /\ u[1] = x /\ \A i \in 1 .. k : u[i + 1] = t[i]
    BY <2>1, ConsedIs
  <2> HIDE DEF u
  <2>3. ASSUME NEW i \in 1 .. k + 1 PROVE u[i] \in Range(pools[w - (k + 1) + i])
    <3>1. CASE i = 1
      BY <1>2, <2>2, <3>1
    <3>2. CASE i # 1
      <4>1. i - 1 \in 1 .. k /\ (i - 1) + 1 = i /\ w - (k + 1) + i = w - k + (i - 1)
        BY <1>1, <3>2
      <4>2. u[i] = t[i - 1]
        BY <2>2, <4>1
      <4>3. QED
        BY <2>1, <4>1, <4>2
    <3>3. QED
      BY <3>1, <3>2
  <2>4. QED
    BY <2>2, <2>3 DEF ChoicesFrom, u, w
<1>4. ASSUME NEW u \in ChoicesFrom(pools, k + 1, T)
      PROVE  \E x \in Range(pools[w - k]), t \in ChoicesFrom(pools, k, T) : u = Consed(x, t)
  <2> DEFINE t == [i \in 1 .. k |-> u[i + 1]]
  <2>1. u \in [1 .. k + 1 -> T] /\ \A i \in 1 .. k + 1 : u[i] \in Range(pools[w - (k + 1) + i])
    BY DEF ChoicesFrom, Tuples, w
  <2>2. \A i \in 1 .. k : i + 1 \in 1 .. k + 1 /\ w - (k + 1) + (i + 1) = w - k + i
    BY <1>1
  <2>3. t \in Tuples(k, T) /\ \A i \in 1 .. k : t[i] = u[i + 1]
    BY <2>1, <2>2 DEF Tuples
  <2> HIDE DEF t
  <2>4. t \in ChoicesFrom(pools, k, T)
    BY <2>1, <2>2, <2>3 DEF ChoicesFrom, w
  <2>5. 1 \in 1 .. k + 1 /\ u[1] \in T /\ u[1] \in Range(pools[w - k])
    BY <1>2, <2>1
  <2> DEFINE x == u[1]
             v == Consed(x, t)
  <2>0. x \in T /\ t \in Tuples(k, T)
    BY <2>3, <2>5
  <2> HIDE DEF x
  <2>6. v \in Tuples(k + 1, T) /\ v[1] = x /\ \A i \in 1 .. k : v[i + 1] = t[i]
    BY <2>0, ConsedIs
  <2> HIDE DEF v
  <2>7. ASSUME NEW i \in 1 .. k + 1 PROVE u[i] = v[i]
    <3>1. CASE i = 1
      BY <2>6, <3>1 DEF x
    <3>2. CASE i # 1
      <4>1. i - 1 \in 1 .. k /\ (i - 1) + 1 = i
        BY <3>2
      <4>2. v[i] = t[i - 1] /\ t[i - 1] = u[i]
        BY <2>3, <2>6, <4>1
      <4>3. QED
        BY <4>2
    <3>3. QED
      BY <3>1, <3>2
  <2>8. u = v
    BY <2>1, <2>6, <2>7 DEF Tuples
  <2>9. QED
    BY <2>4, <2>5, <2>8 DEF v, x
<1>5. QED
  BY <1>3, <1>4 DEF w

LEMMA ProductSeq ==
  ASSUME NEW T, NEW pools \in Seq(Seq(T))
  PROVE  /\ ProductPerPos(pools) \in Seq(Tuples(Len(pools), T))
         /\ Range(ProductPerPos(pools)) = ChoicesFrom(pools, Len(pools), T)
         /\ (\A k \in DOMAIN pools : IsInjective(pools[k])) => IsInjective(ProductPerPos(pools))
<1> DEFINE w == Len(pools)
           Good(k, s) == /\ s \in Seq(Tuples(k, T))
                         /\ Range(s) = ChoicesFrom(pools, k, T)
                         /\ (\A i \in DOMAIN pools : IsInjective(pools[i])) => IsInjective(s)
<1>1. w \in Nat /\ DOMAIN pools = 1 .. w /\ \A k \in 1 .. w : pools[k] \in Seq(T)
  OBVIOUS
<1>2. PICK f : /\ f[0] = <<<<>>>>
               /\ \A k \in 1 .. w : f[k] = Times(pools[w + 1 - k], f[k - 1])
               /\ ProductPerPos(pools) = f[w]
  BY ProductsAre
<1> HIDE DEF w
<1>3. Good(0, <<<<>>>>)
  <2>1. <<>> \in Tuples(0, T) /\ \A t \in Tuples(0, T) : t = <<>>
    BY DEF Tuples
  <2>2. <<<<>>>> \in Seq(Tuples(0, T))
    BY <2>1
  <2>3. IsInjective(<<<<>>>>)
    BY DEF IsInjective
  <2>4. Range(<<<<>>>>) = {<<>>}
    BY DEF Range
  <2>5. ChoicesFrom(pools, 0, T) = {<<>>}
    BY <2>1 DEF ChoicesFrom
  <2>6. QED
    BY <2>2, <2>3, <2>4, <2>5
<1>4. ASSUME NEW k \in 1 .. w, Good(k - 1, f[k - 1]) PROVE Good(k, f[k])
  <2>1. k - 1 \in Nat /\ (k - 1) + 1 = k /\ w + 1 - k \in DOMAIN pools /\ w + 1 - k = w - (k - 1) /\ k - 1 < w
    BY <1>1
  <2>2. pools[w + 1 - k] \in Seq(T) /\ f[k - 1] \in Seq(Tuples(k - 1, T))
    BY <1>1, <1>4, <2>1
  <2>3. f[k] = Times(pools[w + 1 - k], f[k - 1])
    BY <1>2
  <2> DEFINE j == k - 1
             pool == pools[w - j]
             tails == f[j]
  <2>4. /\ j \in Nat /\ j + 1 = k /\ j < w /\ pool \in Seq(T) /\ tails \in Seq(Tuples(j, T))
        /\ f[k] = Times(pool, tails) /\ Range(tails) = ChoicesFrom(pools, j, T)
    BY <1>4, <2>1, <2>2, <2>3
  <2>5. (\A i \in DOMAIN pools : IsInjective(pools[i])) => IsInjective(pool) /\ IsInjective(tails)
    BY <1>4, <2>1
  <2>6. /\ \A x \in Range(pool), t \in ChoicesFrom(pools, j, T) : Consed(x, t) \in ChoicesFrom(pools, k, T)
        /\ \A u \in ChoicesFrom(pools, k, T) :
             \E x \in Range(pool), t \in ChoicesFrom(pools, j, T) : u = Consed(x, t)
    <3>1. j \in Nat /\ j < Len(pools) /\ j + 1 = k
      BY <2>4 DEF w
    <3> HIDE DEF j
    <3>2. /\ \A x \in Range(pools[Len(pools) - j]), t \in ChoicesFrom(pools, j, T) : Consed(x, t) \in ChoicesFrom(pools, j + 1, T)
          /\ \A u \in ChoicesFrom(pools, j + 1, T) :
               \E x \in Range(pools[Len(pools) - j]), t \in ChoicesFrom(pools, j, T) : u = Consed(x, t)
      BY <3>1, ChoicesConsed
    <3>3. QED
      BY <3>1, <3>2 DEF w
  <2> HIDE DEF j, pool, tails
  <2>7. /\ Times(pool, tails) \in Seq(Tuples(j + 1, T))
        /\ \A y \in Range(Times(pool, tails)) :
             \E x \in Range(pool), t \in Range(tails) : y = Consed(x, t)
        /\ \A x \in Range(pool), t \in Range(tails) : Consed(x, t) \in Range(Times(pool, tails))
        /\ IsInjective(pool) /\ IsInjective(tails) => IsInjective(Times(pool, tails))
    BY <2>4, TimesSeq
  <2>8. Range(Times(pool, tails)) = ChoicesFrom(pools, k, T)
    <3>1. Range(Times(pool, tails)) \subseteq ChoicesFrom(pools, k, T)
      BY <2>4, <2>6, <2>7
    <3>2. ChoicesFrom(pools, k, T) \subseteq Range(Times(pool, tails))
      BY <2>4, <2>6, <2>7
    <3>3. QED
      BY <3>1, <3>2
  <2>9. QED
    BY <2>4, <2>5, <2>7, <2>8
<1> DEFINE Wrong == {k \in 0 .. w : ~Good(k, f[k])}
<1>5. ASSUME Wrong # {} PROVE FALSE
  <2>1. PICK k \in Wrong : \A j \in Wrong : k <= j
    <3>1. Wrong \in SUBSET Nat
      BY <1>1
    <3> HIDE DEF Wrong
    <3>2. QED
      BY <1>5, <3>1, LeastExists
  <2>2. k \in 0 .. w /\ ~Good(k, f[k])
    OBVIOUS
  <2> HIDE DEF Good
  <2>3. k # 0
    BY <1>2, <1>3, <2>2
  <2>4. k \in 1 .. w /\ k - 1 \in 0 .. w /\ k - 1 \notin Wrong
    <3>1. k \in 1 .. w /\ k - 1 \in 0 .. w /\ ~(k <= k - 1)
      BY <1>1, <2>2, <2>3
    <3> HIDE DEF Wrong
    <3>2. QED
      BY <2>1, <3>1
  <2>5. QED
    BY <1>4, <2>2, <2>4
<1>6. Good(w, f[w])
  <2>1. w \in 0 .. w
    BY <1>1
  <2> HIDE DEF Good
  <2>2. QED
    BY <1>5, <2>1
<1>7. QED
  BY <1>2, <1>6 DEF w

---------------------------------------------------------------------------
(* Combinations.                                                           *)

LEMMA RangedIsSeq ==
  ASSUME NEW S, NEW n \in Int, NEW s \in [1 .. n -> S]
  PROVE  s \in Seq(S)
<1>1. CASE n \in Nat
  BY <1>1, FunctionIsSeq
<1>2. CASE n \notin Nat
  <2>1. 1 .. n = 1 .. 0
    BY <1>2
  <2>2. s \in [1 .. 0 -> S]
    BY <2>1
  <2>3. QED
    BY <2>2, FunctionIsSeq
<1>3. QED
  BY <1>1, <1>2

(* What Only keeps, and in what order.                                     *)
RowOf(s, K, m) == [i \in 1 .. 16 |-> IF 16 * m + i \in K THEN <<s[16 * m + i]>> ELSE <<>>]

LEMMA RowIs ==
  ASSUME NEW S, NEW s \in Seq(S), NEW K \in SUBSET DOMAIN s, NEW m \in Nat,
         NEW R, Ordered(R, s)
  PROVE  LET u == FlattenSeq(RowOf(s, K, m)) IN
           /\ u \in Seq({s[j] : j \in K})
           /\ \A y \in Range(u) : \E j \in K : y = s[j] /\ 16 * m < j /\ j <= 16 * m + 16
           /\ \A j \in K : 16 * m < j /\ j <= 16 * m + 16 => s[j] \in Range(u)
           /\ Ordered(R, u)
<1> DEFINE G == {s[j] : j \in K}
           row == RowOf(s, K, m)
           u == FlattenSeq(row)
<1>1. DOMAIN s \subseteq Nat /\ K \subseteq Nat
  OBVIOUS
<1>2. ASSUME NEW i \in 1 .. 16
      PROVE  \/ 16 * m + i \notin K /\ row[i] = <<>>
             \/ 16 * m + i \in K /\ row[i] = <<s[16 * m + i]>>
  BY DEF RowOf
<1>3. DOMAIN row = 1 .. 16 /\ row = [i \in 1 .. 16 |-> row[i]]
  BY DEF RowOf
<1> HIDE DEF row
<1>4. ASSUME NEW i \in 1 .. 16
      PROVE  /\ row[i] \in Seq(G)
             /\ \A x, y \in DOMAIN row[i] : x = y
             /\ \A y \in Range(row[i]) : y = s[16 * m + i] /\ 16 * m + i \in K
             /\ 16 * m + i \in K => s[16 * m + i] \in Range(row[i])
  <2>1. CASE 16 * m + i \notin K /\ row[i] = <<>>
    BY <2>1 DEF Range
  <2>2. CASE 16 * m + i \in K /\ row[i] = <<s[16 * m + i]>>
    <3> DEFINE y == s[16 * m + i]
               one == <<y>>
    <3>1. y \in G
      BY <2>2
    <3> HIDE DEF y, G
    <3>2. one \in Seq(G) /\ DOMAIN one = {1} /\ one[1] = y
      BY <3>1
    <3> HIDE DEF one
    <3>3. Range(one) = {y}
      BY <3>2 DEF Range
    <3>4. row[i] = one
      BY <2>2 DEF one, y
    <3>5. QED
      BY <2>2, <3>2, <3>3, <3>4 DEF y
  <2>3. QED
    BY <1>2, <2>1, <2>2
<1> HIDE DEF G
<1>5. row \in [1 .. 16 -> Seq(G)]
  BY <1>3, <1>4
<1>6. row \in Seq(Seq(G))
  BY <1>5, FunctionIsSeq
<1>7. u \in Seq(G)
  BY <1>6, FlattenedSeq
<1>8. ASSUME NEW y \in Range(u) PROVE \E j \in K : y = s[j] /\ 16 * m < j /\ j <= 16 * m + 16
  <2>1. PICK i \in DOMAIN row : y \in Range(row[i])
    BY <1>6, FlattenedRange
  <2>2. i \in 1 .. 16 /\ y = s[16 * m + i] /\ 16 * m + i \in K
    BY <1>3, <1>4, <2>1
  <2>3. 16 * m < 16 * m + i /\ 16 * m + i <= 16 * m + 16
    BY <2>2
  <2>4. QED
    BY <2>2, <2>3
<1>9. ASSUME NEW j \in K, 16 * m < j, j <= 16 * m + 16 PROVE s[j] \in Range(u)
  <2> DEFINE i == j - 16 * m
  <2>1. i \in 1 .. 16 /\ 16 * m + i = j
    BY <1>1, <1>9
  <2> HIDE DEF i
  <2>2. s[j] \in Range(row[i])
    BY <1>4, <2>1
  <2>3. Range(row[i]) \subseteq Range(u)
    BY <1>3, <1>6, <2>1, FlattenedRange
  <2>4. QED
    BY <2>2, <2>3
<1>10. Ordered(R, u)
  <2>1. \A i \in DOMAIN row : Ordered(R, row[i])
    <3>1. ASSUME NEW i \in 1 .. 16 PROVE Ordered(R, row[i])
      <4>1. row[i] \in Seq(G) /\ \A x, y \in DOMAIN row[i] : x = y
        BY <1>4
      <4>2. \A x \in DOMAIN row[i] : ~(x < x)
        BY <4>1
      <4>3. QED
        BY <4>1, <4>2 DEF Ordered
    <3>2. QED
      BY <1>3, <3>1
  <2>2. ASSUME NEW i \in DOMAIN row, NEW j \in DOMAIN row, i < j
        PROVE  Range(row[i]) \X Range(row[j]) \subseteq R
    <3>1. i \in 1 .. 16 /\ j \in 1 .. 16
      BY <1>3
    <3>2. 16 * m + i < 16 * m + j
      <4> DEFINE base == 16 * m
      <4>1. base \in Nat /\ i \in Int /\ j \in Int
        BY <3>1
      <4> HIDE DEF base
      <4>2. base + i < base + j
        BY <2>2, <4>1
      <4>3. QED
        BY <4>2 DEF base
    <3>3. ASSUME NEW x \in Range(row[i]), NEW y \in Range(row[j]) PROVE <<x, y>> \in R
      <4>1. x = s[16 * m + i] /\ 16 * m + i \in K /\ y = s[16 * m + j] /\ 16 * m + j \in K
        BY <1>4, <3>1, <3>3
      <4>2. QED
        BY <3>2, <4>1 DEF Ordered
    <3>4. QED
      BY <3>3
  <2>3. QED
    BY <1>6, <2>1, <2>2, FlattenedOrder
<1>11. QED
  BY <1>7, <1>8, <1>9, <1>10 DEF u, G, row

LEMMA OnlyIs ==
  ASSUME NEW S, NEW s \in Seq(S), NEW K \in SUBSET DOMAIN s, NEW R, Ordered(R, s)
  PROVE  /\ Only(s, K) \in Seq({s[j] : j \in K})
         /\ Range(Only(s, K)) = {s[j] : j \in K}
         /\ Ordered(R, Only(s, K))
<1> DEFINE G == {s[j] : j \in K}
           w == Len(s) \div 16 + 1
           rows == [m \in 1 .. w |-> FlattenSeq(RowOf(s, K, m - 1))]
           u == FlattenSeq(rows)
<1>1. Len(s) \in Nat /\ DOMAIN s = 1 .. Len(s) /\ K \subseteq Nat
  OBVIOUS
<1>2. w \in Nat /\ Len(s) < 16 * w
  BY <1>1
<1>3. Only(s, K) = u
  BY DEF Only, RowOf
<1> HIDE DEF w
<1>4. ASSUME NEW m \in 1 .. w
      PROVE  /\ rows[m] \in Seq(G)
             /\ \A y \in Range(rows[m]) : \E j \in K : y = s[j] /\ 16 * (m - 1) < j /\ j <= 16 * m
             /\ \A j \in K : 16 * (m - 1) < j /\ j <= 16 * m => s[j] \in Range(rows[m])
             /\ Ordered(R, rows[m])
  <2> DEFINE l == m - 1
             r == FlattenSeq(RowOf(s, K, l))
  <2>1. l \in Nat /\ 16 * l + 16 = 16 * m
    BY <1>2
  <2> HIDE DEF l, r
  <2>2. /\ r \in Seq(G)
        /\ \A y \in Range(r) : \E j \in K : y = s[j] /\ 16 * l < j /\ j <= 16 * l + 16
        /\ \A j \in K : 16 * l < j /\ j <= 16 * l + 16 => s[j] \in Range(r)
        /\ Ordered(R, r)
    BY <2>1, RowIs DEF r
  <2>3. rows[m] = r
    BY DEF r, l
  <2>4. QED
    BY <2>1, <2>2, <2>3 DEF l
<1>5. DOMAIN rows = 1 .. w /\ rows = [m \in 1 .. w |-> rows[m]]
  OBVIOUS
<1> HIDE DEF rows, G
<1>6. rows \in [1 .. w -> Seq(G)]
  BY <1>4, <1>5
<1>7. rows \in Seq(Seq(G))
  BY <1>2, <1>6, FunctionIsSeq
<1>8. u \in Seq(G)
  BY <1>7, FlattenedSeq
<1>9. Range(u) \subseteq G
  <2>1. \A x \in DOMAIN u : u[x] \in G
    BY <1>8
  <2>2. QED
    BY <2>1 DEF Range
<1>10. ASSUME NEW j \in K PROVE s[j] \in Range(u)
  <2> DEFINE m == (j - 1) \div 16 + 1
  <2>1. j \in Nat /\ 1 <= j /\ j <= Len(s)
    BY <1>1
  <2>2. m \in 1 .. w /\ 16 * (m - 1) < j /\ j <= 16 * m
    BY <1>2, <2>1
  <2> HIDE DEF m
  <2>3. s[j] \in Range(rows[m])
    BY <1>4, <2>2
  <2>4. Range(rows[m]) \subseteq Range(u)
    BY <1>5, <1>7, <2>2, FlattenedRange
  <2>5. QED
    BY <2>3, <2>4
<1>11. Ordered(R, u)
  <2>1. ASSUME NEW m \in DOMAIN rows, NEW l \in DOMAIN rows, m < l
        PROVE  Range(rows[m]) \X Range(rows[l]) \subseteq R
    <3>1. m \in 1 .. w /\ l \in 1 .. w /\ 16 * m <= 16 * (l - 1)
      BY <1>2, <1>5, <2>1
    <3>2. ASSUME NEW x \in Range(rows[m]), NEW y \in Range(rows[l]) PROVE <<x, y>> \in R
      <4>1. PICK i \in K : x = s[i] /\ i <= 16 * m
        BY <1>4, <3>1
      <4>2. PICK j \in K : y = s[j] /\ 16 * (l - 1) < j
        BY <1>4, <3>1
      <4>3. i \in DOMAIN s /\ j \in DOMAIN s /\ i < j
        BY <1>1, <1>2, <3>1, <4>1, <4>2
      <4>4. QED
        BY <4>1, <4>2, <4>3 DEF Ordered
    <3>3. QED
      BY <3>2
  <2>2. \A m \in DOMAIN rows : Ordered(R, rows[m])
    BY <1>4, <1>5
  <2>3. QED
    BY <1>7, <2>1, <2>2, FlattenedOrder
<1>12. QED
  BY <1>3, <1>8, <1>9, <1>10, <1>11 DEF G

(* k different positions of n, in ascending order.                         *)
Rising(k, n) == {t \in Tuples(k, 1 .. n) : \A i, j \in 1 .. k : i < j => t[i] < t[j]}

LongerParts(n, acc) ==
  [j \in DOMAIN acc |->
    LET first == (IF acc[j] = <<>> THEN 0 ELSE Last(acc[j])) + 1
    IN [i \in 1 .. n + 1 - first |-> Append(acc[j], first + i - 1)]]

Latest(t) == IF t = <<>> THEN 0 ELSE Last(t)

LEMMA AppendApart ==
  ASSUME NEW a \in Seq(Nat), NEW b \in Seq(Nat), NEW x \in Nat, NEW y \in Nat,
         Append(a, x) = Append(b, y)
  PROVE  a = b /\ x = y
<1> DEFINE u == Append(a, x)
           v == Append(b, y)
<1>1. Len(u) = Len(a) + 1 /\ u[Len(a) + 1] = x /\ \A i \in 1 .. Len(a) : u[i] = a[i]
  BY AppendProperties
<1>2. Len(v) = Len(b) + 1 /\ v[Len(b) + 1] = y /\ \A i \in 1 .. Len(b) : v[i] = b[i]
  BY AppendProperties
<1>3. u = v
  OBVIOUS
<1> HIDE DEF u, v
<1>4. Len(a) = Len(b)
  BY <1>1, <1>2, <1>3
<1>5. x = y /\ \A i \in 1 .. Len(a) : a[i] = b[i]
  BY <1>1, <1>2, <1>3, <1>4
<1>6. a \in [1 .. Len(a) -> Nat] /\ b \in [1 .. Len(a) -> Nat]
  BY <1>4
<1>7. QED
  BY <1>5, <1>6

LEMMA LongerIs ==
  ASSUME NEW n \in Nat, NEW R, NEW acc \in Seq(Seq(Nat)),
         \A j \in DOMAIN acc : \A x \in 1 .. n : x > Latest(acc[j]) => Append(acc[j], x) \in R
  PROVE  /\ Longer(n, acc) \in Seq(R)
         /\ \A j \in DOMAIN acc : \A x \in 1 .. n :
              x > Latest(acc[j]) => Append(acc[j], x) \in Range(Longer(n, acc))
         /\ IsInjective(acc) => IsInjective(Longer(n, acc))
<1> DEFINE seqs == LongerParts(n, acc)
           latest(j) == Latest(acc[j])
           first(j) == latest(j) + 1
<1>1. Len(acc) \in Nat /\ DOMAIN acc = 1 .. Len(acc) /\ \A j \in DOMAIN acc : acc[j] \in Seq(Nat)
  OBVIOUS
<1>2. ASSUME NEW j \in DOMAIN acc PROVE latest(j) \in Nat /\ first(j) = latest(j) + 1
  <2>1. acc[j] \in Seq(Nat)
    BY <1>1
  <2>2. CASE acc[j] # <<>>
    <3>1. Len(acc[j]) \in DOMAIN acc[j]
      BY <2>1, <2>2
    <3>2. Last(acc[j]) \in Nat
      BY <2>1, <3>1 DEF Last
    <3>3. QED
      BY <2>2, <3>2 DEF Latest
  <2>3. QED
    BY <2>2 DEF Latest
<1>3. ASSUME NEW j \in DOMAIN acc
      PROVE  /\ seqs[j] \in Seq(R)
             /\ DOMAIN seqs[j] = 1 .. n + 1 - first(j)
             /\ \A i \in DOMAIN seqs[j] : seqs[j][i] = Append(acc[j], first(j) + i - 1)
  <2> DEFINE s == [i \in 1 .. n + 1 - first(j) |-> Append(acc[j], first(j) + i - 1)]
  <2>1. seqs[j] = s
    BY DEF LongerParts, Latest
  <2>2. ASSUME NEW i \in 1 .. n + 1 - first(j) PROVE Append(acc[j], first(j) + i - 1) \in R
    <3>1. first(j) + i - 1 \in 1 .. n /\ first(j) + i - 1 > first(j) - 1
      <4>1. latest(j) \in Nat /\ first(j) = latest(j) + 1
        BY <1>2
      <4> HIDE DEF first, latest
      <4>2. first(j) \in Nat /\ first(j) > 0 /\ i \in 1 .. n + 1 - first(j)
        BY <2>2, <4>1
      <4>3. QED
        BY <4>2
    <3>2. first(j) - 1 = latest(j)
      <4> HIDE DEF first, latest
      <4>1. QED
        BY <1>2
    <3> HIDE DEF first
    <3>3. QED
      BY <3>1, <3>2
  <2>3. n + 1 - first(j) \in Int
    BY <1>2
  <2>4. s \in [1 .. n + 1 - first(j) -> R]
    BY <2>2
  <2>5. DOMAIN s = 1 .. n + 1 - first(j) /\ \A i \in DOMAIN s : s[i] = Append(acc[j], first(j) + i - 1)
    OBVIOUS
  <2> HIDE DEF s, first, seqs
  <2>6. s \in Seq(R)
    BY <2>3, <2>4, RangedIsSeq
  <2>7. QED
    BY <2>1, <2>5, <2>6
<1>4. seqs = [j \in 1 .. Len(acc) |-> seqs[j]] /\ DOMAIN seqs = DOMAIN acc
  BY <1>1 DEF LongerParts
<1>5. Longer(n, acc) = FlattenSeq(seqs)
  BY DEF Longer, LongerParts
<1> HIDE DEF seqs, first, latest
<1>6. seqs \in [1 .. Len(acc) -> Seq(R)]
  BY <1>1, <1>3, <1>4
<1>7. seqs \in Seq(Seq(R))
  BY <1>1, <1>6, FunctionIsSeq
<1>8. ASSUME NEW j \in DOMAIN acc, NEW x \in 1 .. n, x > Latest(acc[j])
      PROVE  Append(acc[j], x) \in Range(FlattenSeq(seqs))
  <2> DEFINE i == x + 1 - first(j)
  <2>1. first(j) \in Nat /\ x >= first(j)
    <3>1. latest(j) \in Nat /\ first(j) = latest(j) + 1 /\ x > latest(j)
      BY <1>2, <1>8 DEF latest
    <3>2. QED
      BY <3>1
  <2>2. i \in 1 .. n + 1 - first(j) /\ first(j) + i - 1 = x
    BY <2>1
  <2> HIDE DEF i
  <2>3. i \in DOMAIN seqs[j] /\ seqs[j][i] = Append(acc[j], x)
    BY <1>3, <2>2
  <2>4. Append(acc[j], x) \in Range(seqs[j])
    BY <2>3 DEF Range
  <2>5. Range(seqs[j]) \subseteq Range(FlattenSeq(seqs))
    BY <1>4, <1>7, FlattenedRange
  <2>6. QED
    BY <2>4, <2>5
<1>9. ASSUME IsInjective(acc) PROVE IsInjective(FlattenSeq(seqs))
  <2>1. ASSUME NEW j \in DOMAIN acc, NEW l \in DOMAIN acc, NEW i \in DOMAIN seqs[j], NEW m \in DOMAIN seqs[l],
               seqs[j][i] = seqs[l][m]
        PROVE  j = l /\ i = m
    <3> DEFINE a == acc[j]
               c == acc[l]
               x == first(j) + i - 1
               y == first(l) + m - 1
    <3>1. Append(a, x) = Append(c, y) /\ i \in 1 .. n + 1 - first(j) /\ m \in 1 .. n + 1 - first(l)
      BY <1>3, <2>1
    <3>2. first(j) \in Nat /\ first(l) \in Nat
      BY <1>2
    <3>3. a \in Seq(Nat) /\ c \in Seq(Nat)
      BY <1>1
    <3>7. x \in Nat /\ y \in Nat
      <4>1. \A p \in Nat, q \in 1 .. n + 1 - first(j) : p + q - 1 \in Nat
        BY <3>2
      <4>2. \A p \in Nat, q \in 1 .. n + 1 - first(l) : p + q - 1 \in Nat
        BY <3>2
      <4>3. QED
        BY <3>1, <3>2, <4>1, <4>2
    <3> HIDE DEF a, c, x, y
    <3>4. a = c /\ x = y
      BY <3>1, <3>3, <3>7, AppendApart
    <3>5. j = l
      BY <1>9, <3>4 DEF IsInjective, a, c
    <3>6. QED
      BY <3>1, <3>2, <3>4, <3>5 DEF x, y
  <2>2. \A j \in DOMAIN seqs : IsInjective(seqs[j])
    BY <1>4, <2>1 DEF IsInjective
  <2>3. ASSUME NEW j \in DOMAIN seqs, NEW l \in DOMAIN seqs, NEW y \in Range(seqs[j]), y \in Range(seqs[l])
        PROVE  j = l
    <3>1. PICK i \in DOMAIN seqs[j] : y = seqs[j][i]
      BY DEF Range
    <3>2. PICK m \in DOMAIN seqs[l] : y = seqs[l][m]
      BY <2>3 DEF Range
    <3>3. j \in DOMAIN acc /\ l \in DOMAIN acc /\ seqs[j][i] = seqs[l][m]
      BY <1>4, <3>1, <3>2
    <3>4. QED
      BY <2>1, <3>3
  <2>4. QED
    BY <1>7, <2>2, <2>3, FlattenedApart
<1>10. QED
  BY <1>5, <1>7, <1>8, <1>9, FlattenedSeq

LEMMA PositionsAre ==
  ASSUME NEW n \in Nat, NEW k \in Nat
  PROVE  \E f : /\ f[0] = <<<<>>>>
                /\ \A i \in 1 .. k : f[i] = Longer(n, f[i - 1])
                /\ Positions(n, k) = f[k]
<1> DEFINE S == Seq(Seq(Nat))
           turn(i, f) == IF i = 0 THEN <<<<>>>> ELSE Longer(n, f[i - 1])
           F == CHOOSE f : f = [i \in 0 .. k |-> turn(i, f)]
           step == [q \in (1 .. k) \X S |-> Longer(n, q[2])]
<1>1. ASSUME NEW M \in S PROVE Longer(n, M) \in S
  <2>1. ASSUME NEW j \in DOMAIN M, NEW x \in 1 .. n PROVE Append(M[j], x) \in Seq(Nat)
    <3>1. M[j] \in Seq(Nat) /\ x \in Nat
      OBVIOUS
    <3>2. QED
      BY <3>1, AppendProperties
  <2>2. QED
    BY <2>1, LongerIs
<1>2. <<<<>>>> \in S
  OBVIOUS
<1> HIDE DEF S
<1>3. step \in [(1 .. k) \X S -> S] /\ \A i \in 1 .. k : \A M \in S : step[<<i, M>>] = Longer(n, M)
  BY <1>1
<1> HIDE DEF step
<1>4. PICK f \in [0 .. k -> S] : Iterated(f, k, <<<<>>>>, step)
  BY <1>2, <1>3, Iterates
<1>5. f = [i \in 0 .. k |-> turn(i, f)]
  <2>1. ASSUME NEW i \in 0 .. k, i # 0
        PROVE  step[<<i, f[i - 1]>>] = Longer(n, f[i - 1])
    <3>1. i \in 1 .. k /\ i - 1 \in 0 .. k
      BY <2>1
    <3>2. f[i - 1] \in S
      BY <1>4, <3>1
    <3>3. QED
      BY <1>3, <3>1, <3>2
  <2>2. QED
    BY <1>4, <2>1 DEF Iterated
<1>6. Positions(n, k) = F[k]
  BY DEF Positions
<1>7. F = [i \in 0 .. k |-> turn(i, F)]
  <2> HIDE DEF turn
  <2>1. QED
    BY <1>5
<1>8. \A i \in 0 .. k : F[i] = turn(i, F)
  <2> HIDE DEF turn, F
  <2>1. QED
    BY <1>7
<1> HIDE DEF F
<1>9. F[0] = <<<<>>>>
  <2>1. 0 \in 0 .. k
    OBVIOUS
  <2>2. QED
    BY <1>8, <2>1
<1>10. ASSUME NEW i \in 1 .. k PROVE F[i] = Longer(n, F[i - 1])
  <2>1. i \in 0 .. k /\ i # 0
    OBVIOUS
  <2>2. QED
    BY <1>8, <2>1
<1>11. QED
  BY <1>6, <1>9, <1>10

LEMMA RisingOn ==
  ASSUME NEW n \in Nat, NEW k \in Nat, NEW t \in Rising(k, n), NEW x \in 1 .. n,
         x > Latest(t)
  PROVE  Append(t, x) \in Rising(k + 1, n)
<1>1. t \in [1 .. k -> 1 .. n] /\ \A i, j \in 1 .. k : i < j => t[i] < t[j]
  BY DEF Rising, Tuples
<1>2. t \in Seq(1 .. n) /\ Len(t) = k
  BY <1>1
<1> DEFINE u == Append(t, x)
<1>3. /\ u \in Seq(1 .. n) /\ Len(u) = k + 1
      /\ \A i \in 1 .. k : u[i] = t[i]
      /\ u[k + 1] = x
  BY <1>2, AppendProperties
<1> HIDE DEF u
<1>4. u \in [1 .. k + 1 -> 1 .. n]
  BY <1>3
<1>5. ASSUME NEW i \in 1 .. k PROVE t[i] < x
  <2>1. k \in 1 .. k /\ t # <<>> /\ Last(t) = t[k]
    BY <1>2 DEF Last
  <2>2. t[k] < x /\ t[k] \in Int /\ t[i] \in Int
    BY <1>1, <2>1 DEF Latest
  <2>3. i < k => t[i] < t[k]
    BY <1>1, <2>1
  <2>4. QED
    BY <2>2, <2>3
<1>6. ASSUME NEW i \in 1 .. k + 1, NEW j \in 1 .. k + 1, i < j PROVE u[i] < u[j]
  <2>1. i \in 1 .. k
    BY <1>6
  <2>2. CASE j \in 1 .. k
    BY <1>1, <1>3, <1>6, <2>1, <2>2
  <2>3. CASE j = k + 1
    BY <1>3, <1>5, <2>1, <2>3
  <2>4. QED
    BY <2>2, <2>3
<1>7. QED
  BY <1>4, <1>6 DEF Rising, Tuples, u

(* Every rising tuple but the empty one goes on from a shorter one.        *)
LEMMA RisingFrom ==
  ASSUME NEW n \in Nat, NEW k \in Nat, NEW t \in Rising(k + 1, n)
  PROVE  \E u \in Rising(k, n), x \in 1 .. n : x > Latest(u) /\ t = Append(u, x)
<1> DEFINE u == [i \in 1 .. k |-> t[i]]
           x == t[k + 1]
<1>1. t \in [1 .. k + 1 -> 1 .. n] /\ \A i, j \in 1 .. k + 1 : i < j => t[i] < t[j]
  BY DEF Rising, Tuples
<1>2. k + 1 \in 1 .. k + 1 /\ \A i \in 1 .. k : i \in 1 .. k + 1 /\ i < k + 1
  OBVIOUS
<1>3. /\ u \in [1 .. k -> 1 .. n] /\ \A i \in 1 .. k : u[i] = t[i]
      /\ x \in 1 .. n
  BY <1>1, <1>2
<1> HIDE DEF u, x
<1>4. u \in Rising(k, n)
  BY <1>1, <1>2, <1>3 DEF Rising, Tuples
<1>5. u \in Seq(1 .. n) /\ Len(u) = k
  BY <1>3
<1>6. x > Latest(u)
  <2>1. CASE u = <<>>
    BY <1>3, <2>1 DEF Latest
  <2>2. CASE u # <<>>
    <3>1. k \in 1 .. k /\ Last(u) = u[k]
      BY <1>5, <2>2 DEF Last
    <3>2. t[k] < t[k + 1]
      BY <1>1, <1>2, <3>1
    <3>3. u[k] \in Int /\ u[k] < x /\ x \in Int
      BY <1>3, <3>1, <3>2 DEF x
    <3>4. QED
      BY <2>2, <3>1, <3>3 DEF Latest
  <2>3. QED
    BY <2>1, <2>2
<1> DEFINE v == Append(u, x)
<1>7. /\ v \in Seq(1 .. n) /\ Len(v) = k + 1
      /\ \A i \in 1 .. k : v[i] = u[i]
      /\ v[k + 1] = x
  BY <1>3, <1>5, AppendProperties
<1> HIDE DEF v
<1>8. v \in [1 .. k + 1 -> 1 .. n]
  BY <1>7
<1>9. ASSUME NEW i \in 1 .. k + 1 PROVE v[i] = t[i]
  <2>1. CASE i \in 1 .. k
    BY <1>3, <1>7, <2>1
  <2>2. CASE i = k + 1
    BY <1>7, <2>2 DEF x
  <2>3. QED
    BY <2>1, <2>2
<1>10. t = v
  BY <1>1, <1>8, <1>9
<1>11. QED
  BY <1>3, <1>4, <1>6, <1>10 DEF v

LEMMA PositionsRise ==
  ASSUME NEW n \in Nat, NEW k \in Nat
  PROVE  /\ Positions(n, k) \in Seq(Rising(k, n))
         /\ Rising(k, n) \subseteq Range(Positions(n, k))
         /\ IsInjective(Positions(n, k))
<1> DEFINE Good(s, i) == s \in Seq(Rising(i, n)) /\ Rising(i, n) \subseteq Range(s) /\ IsInjective(s)
<1>1. PICK f : /\ f[0] = <<<<>>>>
               /\ \A i \in 1 .. k : f[i] = Longer(n, f[i - 1])
               /\ Positions(n, k) = f[k]
  BY PositionsAre
<1>2. Good(f[0], 0)
  <2>1. Rising(0, n) = {<<>>}
    <3>1. <<>> \in Tuples(0, 1 .. n) /\ \A t \in Tuples(0, 1 .. n) : t = <<>>
      BY DEF Tuples
    <3>2. QED
      BY <3>1 DEF Rising
  <2>2. <<<<>>>> \in Seq({<<>>}) /\ Range(<<<<>>>>) = {<<>>} /\ IsInjective(<<<<>>>>)
    BY DEF Range, IsInjective
  <2>3. QED
    BY <1>1, <2>1, <2>2
<1>3. ASSUME NEW i \in 1 .. k, Good(f[i - 1], i - 1) PROVE Good(f[i], i)
  <2> DEFINE acc == f[i - 1]
             m == i - 1
  <2>1. m \in Nat /\ m + 1 = i /\ Good(acc, m) /\ f[i] = Longer(n, acc)
    BY <1>1, <1>3
  <2> HIDE DEF acc, m
  <2>2. \A j \in DOMAIN acc : acc[j] \in Rising(m, n)
    BY <2>1
  <2>3. acc \in Seq(Seq(Nat))
    <3>1. ASSUME NEW t \in Rising(m, n) PROVE t \in Seq(Nat)
      <4>1. t \in [1 .. m -> 1 .. n]
        BY DEF Rising, Tuples
      <4>2. t \in [1 .. m -> Nat]
        BY <4>1
      <4>3. QED
        BY <2>1, <4>2, FunctionIsSeq
    <3>2. Rising(m, n) \subseteq Seq(Nat)
      BY <3>1
    <3>3. QED
      BY <2>1, <3>2, SeqMonotonic
  <2>4. ASSUME NEW j \in DOMAIN acc, NEW x \in 1 .. n, x > Latest(acc[j])
        PROVE  Append(acc[j], x) \in Rising(m + 1, n)
    BY <2>1, <2>2, <2>4, RisingOn
  <2>5. /\ Longer(n, acc) \in Seq(Rising(m + 1, n))
        /\ \A j \in DOMAIN acc : \A x \in 1 .. n :
             x > Latest(acc[j]) => Append(acc[j], x) \in Range(Longer(n, acc))
        /\ IsInjective(acc) => IsInjective(Longer(n, acc))
    BY <2>3, <2>4, LongerIs
  <2>6. ASSUME NEW t \in Rising(m + 1, n) PROVE t \in Range(Longer(n, acc))
    <3>1. PICK u \in Rising(m, n), x \in 1 .. n : x > Latest(u) /\ t = Append(u, x)
      BY <2>1, RisingFrom
    <3>2. PICK j \in DOMAIN acc : acc[j] = u
      BY <2>1 DEF Range
    <3>3. QED
      BY <2>5, <3>1, <3>2
  <2>7. QED
    BY <2>1, <2>5, <2>6
<1> DEFINE Wrong == {i \in 0 .. k : ~Good(f[i], i)}
<1>4. ASSUME Wrong # {} PROVE FALSE
  <2>1. PICK i \in Wrong : \A j \in Wrong : i <= j
    <3>1. Wrong \in SUBSET Nat
      OBVIOUS
    <3> HIDE DEF Wrong
    <3>2. QED
      BY <1>4, <3>1, LeastExists
  <2>2. i \in 0 .. k /\ ~Good(f[i], i)
    OBVIOUS
  <2> HIDE DEF Good
  <2>3. i # 0
    BY <1>2, <2>2
  <2>4. i \in 1 .. k /\ i - 1 \in 0 .. k /\ i - 1 \notin Wrong
    <3>1. i \in 1 .. k /\ i - 1 \in 0 .. k /\ ~(i <= i - 1)
      BY <2>2, <2>3
    <3> HIDE DEF Wrong
    <3>2. QED
      BY <2>1, <3>1
  <2>5. QED
    BY <1>3, <2>2, <2>4
<1>5. k \in 0 .. k
  OBVIOUS
<1>6. Good(f[k], k)
  <2> HIDE DEF Good
  <2>1. QED
    BY <1>4, <1>5
<1>7. QED
  BY <1>1, <1>6

(* Rising tuples are told apart by what they hold.                         *)
LEMMA RisingApart ==
  ASSUME NEW n \in Nat, NEW k \in Nat, NEW t \in Rising(k, n), NEW u \in Rising(k, n), Range(t) = Range(u)
  PROVE  t = u
<1> DEFINE Differ == {i \in 1 .. k : t[i] # u[i]}
<1>1. /\ t \in [1 .. k -> 1 .. n] /\ \A i, j \in 1 .. k : i < j => t[i] < t[j]
      /\ u \in [1 .. k -> 1 .. n] /\ \A i, j \in 1 .. k : i < j => u[i] < u[j]
  BY DEF Rising, Tuples
<1>2. ASSUME NEW r \in Rising(k, n), NEW s \in Rising(k, n), Range(r) = Range(s),
             NEW i \in 1 .. k, \A j \in 1 .. k : j < i => r[j] = s[j]
      PROVE  ~(r[i] < s[i])
  <2>1. SUFFICES ASSUME r[i] < s[i] PROVE FALSE
    OBVIOUS
  <2>2. /\ r \in [1 .. k -> 1 .. n] /\ \A l, j \in 1 .. k : l < j => r[l] < r[j]
        /\ s \in [1 .. k -> 1 .. n] /\ \A l, j \in 1 .. k : l < j => s[l] < s[j]
    BY DEF Rising, Tuples
  <2>3. r[i] \in Range(s)
    BY <1>2, <2>2 DEF Range
  <2>4. PICK j \in 1 .. k : s[j] = r[i]
    BY <2>2, <2>3 DEF Range
  <2>5. r[i] \in Int /\ s[i] \in Int /\ s[j] \in Int
    BY <2>2
  <2>6. CASE j < i
    <3>1. r[j] = r[i] /\ r[j] < r[i]
      BY <1>2, <2>2, <2>4, <2>6
    <3>2. QED
      BY <2>5, <3>1
  <2>7. CASE ~(j < i)
    <3>1. i < j \/ i = j
      BY <2>7
    <3>2. s[i] < s[j] \/ i = j
      BY <2>2, <3>1
    <3>3. QED
      BY <2>1, <2>4, <2>5, <3>2
  <2>8. QED
    BY <2>6, <2>7
<1>3. ASSUME Differ # {} PROVE FALSE
  <2>1. PICK i \in Differ : \A j \in Differ : i <= j
    <3>1. Differ \in SUBSET Nat
      OBVIOUS
    <3> HIDE DEF Differ
    <3>2. QED
      BY <1>3, <3>1, LeastExists
  <2>2. i \in 1 .. k /\ t[i] # u[i]
    OBVIOUS
  <2>3. \A j \in 1 .. k : j < i => t[j] = u[j] /\ u[j] = t[j]
    <3>1. ASSUME NEW j \in 1 .. k, j < i PROVE j \notin Differ
      <4>1. ~(i <= j)
        BY <2>2, <3>1
      <4> HIDE DEF Differ
      <4>2. QED
        BY <2>1, <4>1
    <3>2. QED
      BY <3>1
  <2>4. ~(t[i] < u[i]) /\ ~(u[i] < t[i])
    BY <1>2, <2>2, <2>3
  <2>5. t[i] \in Int /\ u[i] \in Int
    BY <1>1, <2>2
  <2>6. QED
    BY <2>2, <2>4, <2>5
<1>4. QED
  BY <1>1, <1>3

(* Any k of n positions can be put in ascending order.                     *)
LEMMA SomeRising ==
  ASSUME NEW n \in Nat, NEW k \in Nat, NEW P \in SUBSET (1 .. n), Cardinality(P) = k
  PROVE  \E t \in Rising(k, n) : Range(t) = P
<1> DEFINE Sorts(i) == \A Q \in SUBSET (1 .. n) : Cardinality(Q) = i => \E t \in Rising(i, n) : Range(t) = Q
           Wrong == {i \in Nat : ~Sorts(i)}
<1>0. \A Q \in SUBSET (1 .. n) : IsFiniteSet(Q)
  <2>1. IsFiniteSet(1 .. n)
    BY FS_Interval
  <2>2. QED
    BY <2>1, FS_Subset
<1>1. Sorts(0)
  <2>1. \A Q \in SUBSET (1 .. n) : Cardinality(Q) = 0 => Q = {}
    BY <1>0, FS_EmptySet
  <2>2. <<>> \in Rising(0, n) /\ Range(<<>>) = {}
    BY DEF Rising, Tuples, Range
  <2>3. QED
    BY <2>1, <2>2
<1>2. ASSUME NEW i \in Nat, i # 0, Sorts(i - 1) PROVE Sorts(i)
  <2> SUFFICES ASSUME NEW Q \in SUBSET (1 .. n), Cardinality(Q) = i
               PROVE  \E t \in Rising(i, n) : Range(t) = Q
    OBVIOUS
  <2> DEFINE Back == {n - x : x \in Q}
  <2>1. Q # {}
    BY <1>2, FS_EmptySet
  <2>2. PICK y \in Back : \A z \in Back : y <= z
    <3>0. \A x \in Q : n - x \in Nat
      <4>1. \A x \in 1 .. n : n - x \in Nat
        OBVIOUS
      <4>2. QED
        BY <4>1
    <3>1. Back \in SUBSET Nat /\ Back # {}
      BY <2>1, <3>0
    <3> HIDE DEF Back
    <3>2. QED
      BY <3>1, LeastExists
  <2>3. PICK x \in Q : y = n - x
    OBVIOUS
  <2>4. x \in 1 .. n /\ \A z \in Q : z <= x
    <3>1. \A z \in Q : n - x <= n - z
      BY <2>2, <2>3
    <3>2. \A z \in Q : z \in 1 .. n
      OBVIOUS
    <3>3. QED
      BY <3>1, <3>2
  <2> HIDE DEF Back
  <2> DEFINE less == Q \ {x}
             m == i - 1
  <2>5. less \in SUBSET (1 .. n) /\ Cardinality(less) = m /\ m \in Nat /\ m + 1 = i
    <3>1. IsFiniteSet(Q)
      BY <1>0
    <3>2. Cardinality(less) = Cardinality(Q) - 1
      BY <3>1, FS_RemoveElement
    <3>3. QED
      BY <1>2, <3>2
  <2>6. PICK u \in Rising(m, n) : Range(u) = less
    BY <1>2, <2>5
  <2>7. \A z \in less : z < x
    BY <2>4
  <2> HIDE DEF less, m
  <2>8. u \in Seq(1 .. n) /\ u \in Seq(Nat) /\ Len(u) = m
    <3>1. u \in [1 .. m -> 1 .. n]
      BY DEF Rising, Tuples
    <3>2. u \in Seq(1 .. n)
      BY <2>5, <3>1, FunctionIsSeq
    <3>3. QED
      BY <2>5, <3>1, <3>2
  <2>9. x > Latest(u)
    <3>1. CASE u = <<>>
      BY <2>4, <3>1 DEF Latest
    <3>2. CASE u # <<>>
      <4>1. m \in DOMAIN u /\ Last(u) = u[m]
        BY <2>8, <3>2 DEF Last
      <4>2. u[m] \in less
        BY <2>6, <4>1 DEF Range
      <4>3. u[m] < x /\ u[m] \in Int
        BY <2>7, <2>8, <4>1, <4>2
      <4>4. QED
        BY <2>4, <3>2, <4>1, <4>3 DEF Latest
    <3>3. QED
      BY <3>1, <3>2
  <2>10. Append(u, x) \in Rising(m + 1, n)
    BY <2>4, <2>5, <2>9, RisingOn
  <2>11. Range(Append(u, x)) = less \cup {x}
    <3> DEFINE v == Append(u, x)
    <3>1. Len(v) = m + 1 /\ v \in Seq(Nat) /\ (\A j \in 1 .. m : v[j] = u[j]) /\ v[m + 1] = x
      BY <2>4, <2>8, AppendProperties
    <3> HIDE DEF v
    <3>2. DOMAIN v = 1 .. m + 1 /\ DOMAIN u = 1 .. m
      BY <2>8, <3>1
    <3>3. m \in Nat
      BY <2>5
    <3>4. \A j \in 1 .. m + 1 : j \in 1 .. m \/ j = m + 1
      BY <3>3
    <3>5. m + 1 \in 1 .. m + 1 /\ \A j \in 1 .. m : j \in 1 .. m + 1
      BY <3>3
    <3>6. Range(v) \subseteq Range(u) \cup {x}
      BY <3>1, <3>2, <3>4 DEF Range
    <3>7. Range(u) \cup {x} \subseteq Range(v)
      BY <3>1, <3>2, <3>5 DEF Range
    <3>8. QED
      BY <2>6, <3>6, <3>7 DEF v
  <2>12. QED
    BY <2>5, <2>10, <2>11 DEF less
<1>3. ASSUME Wrong # {} PROVE FALSE
  <2>1. PICK i \in Wrong : \A j \in Wrong : i <= j
    <3>1. Wrong \in SUBSET Nat
      OBVIOUS
    <3> HIDE DEF Wrong
    <3>2. QED
      BY <1>3, <3>1, LeastExists
  <2>2. i \in Nat /\ ~Sorts(i)
    OBVIOUS
  <2> HIDE DEF Sorts
  <2>3. i # 0
    BY <1>1, <2>2
  <2>4. i - 1 \in Nat /\ i - 1 \notin Wrong
    <3>1. i - 1 \in Nat /\ ~(i <= i - 1)
      BY <2>2, <2>3
    <3> HIDE DEF Wrong
    <3>2. QED
      BY <2>1, <3>1
  <2>5. QED
    BY <1>2, <2>2, <2>3, <2>4
<1>4. Sorts(k)
  <2> HIDE DEF Sorts
  <2>1. QED
    BY <1>3
<1>5. QED
  BY <1>4

(* A function without repetitions has as many values as arguments.         *)
LEMMA RangeOfInjective ==
  ASSUME NEW k \in Nat, NEW T, NEW t \in Tuples(k, T), IsInjective(t)
  PROVE  IsFiniteSet(Range(t)) /\ Cardinality(Range(t)) = k
<1>1. t \in [1 .. k -> Range(t)] /\ Range(t) = {t[i] : i \in 1 .. k}
  BY DEF Tuples, Range
<1>2. t \in Bijection(1 .. k, Range(t))
  <2>1. \A i, j \in 1 .. k : t[i] = t[j] => i = j
    BY <1>1 DEF IsInjective
  <2>2. QED
    BY <1>1, <2>1 DEF Bijection, Injection, Surjection
<1>3. ExistsBijection(1 .. k, Range(t))
  BY <1>2 DEF ExistsBijection
<1>4. QED
  BY <1>3, FS_NatBijection, FS_CountingElements

(* The combinations of a sequence that repeats nothing: each choice of k of*)
(* its elements, in one order, and once.                                   *)
LEMMA CombinationsAre ==
  ASSUME NEW X, NEW s \in Seq(X), IsInjective(s), NEW k \in Nat
  PROVE  LET cs == Combinations(s, k) IN
           /\ cs \in Seq({t \in Tuples(k, Range(s)) : IsInjective(t)})
           /\ \A u \in Tuples(k, Range(s)) :
                IsInjective(u) => \E t \in Range(cs) : Range(t) = Range(u)
           /\ \A i, j \in DOMAIN cs : Range(cs[i]) = Range(cs[j]) => i = j
<1> DEFINE n == Len(s)
           ps == Positions(n, k)
           R == {t \in Tuples(k, Range(s)) : IsInjective(t)}
           at(t) == [i \in 1 .. k |-> s[t[i]]]
           cs == [j \in DOMAIN ps |-> at(ps[j])]
<1>1. n \in Nat /\ DOMAIN s = 1 .. n /\ \A i \in 1 .. n : s[i] \in Range(s)
  BY DEF Range
<1> HIDE DEF n
<1>2. ps \in Seq(Rising(k, n)) /\ Rising(k, n) \subseteq Range(ps) /\ IsInjective(ps)
  BY <1>1, PositionsRise
<1>3. Combinations(s, k) = cs
  BY DEF Combinations, n
<1> HIDE DEF ps
<1>4. Len(ps) \in Nat /\ DOMAIN ps = 1 .. Len(ps) /\ \A j \in DOMAIN ps : ps[j] \in Rising(k, n)
  BY <1>2
<1>5. ASSUME NEW t \in Rising(k, n)
      PROVE  /\ t \in [1 .. k -> 1 .. n]
             /\ at(t) \in R
             /\ Range(at(t)) = {s[x] : x \in Range(t)}
  <2>1. t \in [1 .. k -> 1 .. n] /\ \A i, j \in 1 .. k : i < j => t[i] < t[j]
    BY DEF Rising, Tuples
  <2> DEFINE u == at(t)
  <2>2. u \in Tuples(k, Range(s)) /\ DOMAIN u = 1 .. k /\ \A i \in 1 .. k : u[i] = s[t[i]]
    BY <1>1, <2>1 DEF Tuples
  <2> HIDE DEF u
  <2>3. ASSUME NEW i \in 1 .. k, NEW j \in 1 .. k, u[i] = u[j] PROVE i = j
    <3>1. t[i] \in 1 .. n /\ t[j] \in 1 .. n /\ s[t[i]] = s[t[j]]
      BY <2>1, <2>2, <2>3
    <3>2. t[i] = t[j]
      BY <1>1, <3>1 DEF IsInjective
    <3>3. ~(i < j) /\ ~(j < i)
      BY <2>1, <3>1, <3>2
    <3>4. QED
      BY <3>3
  <2>4. IsInjective(u)
    BY <2>2, <2>3 DEF IsInjective
  <2>5. Range(u) = {s[x] : x \in Range(t)}
    <3>1. Range(u) = {u[i] : i \in 1 .. k} /\ Range(t) = {t[i] : i \in 1 .. k}
      BY <2>1, <2>2 DEF Range
    <3>2. QED
      BY <2>2, <3>1
  <2>6. QED
    BY <2>1, <2>2, <2>4, <2>5 DEF u
<1> HIDE DEF R, at
<1>6. cs \in [1 .. Len(ps) -> R] /\ DOMAIN cs = DOMAIN ps /\ \A j \in DOMAIN ps : cs[j] = at(ps[j])
  BY <1>4, <1>5
<1> HIDE DEF cs
<1>7. cs \in Seq(R)
  BY <1>4, <1>6, FunctionIsSeq
<1>8. ASSUME NEW u \in Tuples(k, Range(s)), IsInjective(u) PROVE \E t \in Range(cs) : Range(t) = Range(u)
  <2> DEFINE P == {x \in 1 .. n : s[x] \in Range(u)}
             f == [x \in P |-> s[x]]
  <2>1. Range(u) \subseteq Range(s)
    BY DEF Tuples, Range
  <2>2. f \in Bijection(P, Range(u))
    <3>1. f \in [P -> Range(u)]
      OBVIOUS
    <3>2. \A x, y \in P : f[x] = f[y] => x = y
      BY <1>1 DEF IsInjective
    <3>3. ASSUME NEW y \in Range(u) PROVE \E x \in P : f[x] = y
      <4>1. PICK x \in DOMAIN s : s[x] = y
        BY <2>1 DEF Range
      <4>2. x \in P
        BY <1>1, <4>1
      <4>3. QED
        BY <4>1, <4>2
    <3> HIDE DEF f, P
    <3>4. QED
      BY <3>1, <3>2, <3>3 DEF Bijection, Injection, Surjection, IsInjective
  <2>3. IsFiniteSet(P)
    BY <1>1, FS_Interval, FS_Subset
  <2>4. Cardinality(Range(u)) = Cardinality(P)
    BY <2>2, <2>3, FS_Bijection DEF ExistsBijection
  <2>5. Cardinality(P) = k
    <3>1. Cardinality(Range(u)) = k
      BY <1>8, RangeOfInjective
    <3>2. QED
      BY <2>4, <3>1
  <2>6. PICK t \in Rising(k, n) : Range(t) = P
    BY <1>1, <2>5, SomeRising
  <2>7. PICK j \in DOMAIN ps : ps[j] = t
    BY <1>2 DEF Range
  <2>8. cs[j] \in Range(cs) /\ cs[j] = at(t)
    BY <1>6, <2>7 DEF Range
  <2>9. Range(at(t)) = Range(u)
    <3>1. Range(at(t)) = {s[x] : x \in P}
      BY <1>5, <2>6
    <3>2. \A y \in Range(u) : \E x \in P : s[x] = y
      BY <1>1, <2>1 DEF Range
    <3>3. QED
      BY <3>1, <3>2
  <2>10. QED
    BY <2>8, <2>9
<1>9. ASSUME NEW i \in DOMAIN cs, NEW j \in DOMAIN cs, Range(cs[i]) = Range(cs[j]) PROVE i = j
  <2> DEFINE t == ps[i]
             u == ps[j]
  <2>1. t \in Rising(k, n) /\ u \in Rising(k, n) /\ Range(at(t)) = Range(at(u))
    BY <1>4, <1>6, <1>9
  <2> HIDE DEF t, u
  <2>2. Range(t) \subseteq 1 .. n /\ Range(u) \subseteq 1 .. n
    BY <1>5, <2>1 DEF Range
  <2>3. {s[x] : x \in Range(t)} = {s[x] : x \in Range(u)}
    BY <1>5, <2>1
  <2>4. \A x, y \in 1 .. n : s[x] = s[y] => x = y
    BY <1>1 DEF IsInjective
  <2>5. Range(t) = Range(u)
    <3>1. ASSUME NEW x \in Range(t) PROVE x \in Range(u)
      <4>1. s[x] \in {s[y] : y \in Range(u)}
        BY <2>3
      <4>2. PICK y \in Range(u) : s[x] = s[y]
        BY <4>1
      <4>3. QED
        BY <2>2, <2>4, <4>2
    <3>2. ASSUME NEW x \in Range(u) PROVE x \in Range(t)
      <4>1. s[x] \in {s[y] : y \in Range(t)}
        BY <2>3
      <4>2. PICK y \in Range(t) : s[x] = s[y]
        BY <4>1
      <4>3. QED
        BY <2>2, <2>4, <4>2
    <3>3. QED
      BY <3>1, <3>2
  <2>6. t = u
    BY <1>1, <2>1, <2>5, RisingApart
  <2>7. QED
    BY <1>2, <1>6, <2>6 DEF IsInjective, t, u
<1>10. QED
  BY <1>3, <1>7, <1>8, <1>9 DEF R

---------------------------------------------------------------------------
(* The shape of clauses.                                                   *)

IsTerm(t) == (\E n : t = V(n)) \/ (\E x : t = <<"c", x>>)

IsAtom(a) ==
  \E p, n, args :
    /\ a = [predicate |-> p, args |-> args]
    /\ n \in Nat
    /\ args = [k \in 1 .. n |-> args[k]]
    /\ \A k \in 1 .. n : IsTerm(args[k])

Shaped(c) ==
  /\ IsAtom(c.head)
  /\ \A k \in DOMAIN c.head.args : IsVar(c.head.args[k])
  /\ \E m \in Nat : DOMAIN c.body = 1 .. m
  /\ \A m \in DOMAIN c.body : IsAtom(c.body[m])
  /\ IsInjective(c.body)

LEMMA ClauseIsShaped ==
  ASSUME NEW b \in Biases, NEW c, IsClause(b, c)
  PROVE  Shaped(c)
<1>1. IsAtom(c.head) /\ \A k \in DOMAIN c.head.args : IsVar(c.head.args[k])
  <2>1. PICK h \in Range(b.heads) : c.head = [predicate |-> h.name, args |-> VarPool(h.arity)]
    BY DEF IsClause, HeadAtom
  <2>2. h.arity \in Nat
    BY <2>1, BiasAssumption
  <2> DEFINE args == VarPool(h.arity)
  <2>3. args = [k \in 1 .. h.arity |-> V(k - 1)]
    BY DEF VarPool
  <2>4. args = [k \in 1 .. h.arity |-> args[k]] /\ \A k \in 1 .. h.arity : args[k] = V(k - 1)
    BY <2>3
  <2> HIDE DEF args
  <2>5. \A k \in 1 .. h.arity : IsTerm(args[k]) /\ IsVar(args[k])
    <3>1. \A n : V(n)[1] # "c"
      BY DEF V
    <3>2. QED
      BY <2>4, <3>1 DEF IsTerm, IsVar
  <2>6. c.head = [predicate |-> h.name, args |-> args]
    BY <2>1 DEF args
  <2>7. IsAtom(c.head)
    BY <2>2, <2>4, <2>5, <2>6 DEF IsAtom
  <2>8. c.head.args = args /\ DOMAIN args = 1 .. h.arity
    BY <2>4, <2>6
  <2>9. QED
    BY <2>5, <2>7, <2>8
<1>2. \A a \in BodyAtoms(b) : IsAtom(a)
  <2> SUFFICES ASSUME NEW a \in BodyAtoms(b) PROVE IsAtom(a)
    OBVIOUS
  <2> DEFINE Preds == Range(b.bodies) \cup (IF b.recursion THEN Range(b.heads) ELSE {})
             Terms == {V(n) : n \in 0 .. b.maxVars - 1} \cup {<<"c", x.value>> : x \in Range(b.constants)}
  <2>0. PICK p \in Preds : \E args \in [1 .. p.arity -> Terms] : a = [predicate |-> p.name, args |-> args]
    BY DEF BodyAtoms
  <2>1. PICK args \in [1 .. p.arity -> Terms] : a = [predicate |-> p.name, args |-> args]
    BY <2>0
  <2>2. p.arity \in Nat
    BY <2>0, BiasAssumption
  <2>3. \A t \in Terms : IsTerm(t)
    BY DEF IsTerm
  <2> HIDE DEF Terms, Preds
  <2>4. args = [k \in 1 .. p.arity |-> args[k]] /\ \A k \in 1 .. p.arity : IsTerm(args[k])
    BY <2>1, <2>3
  <2>5. QED
    BY <2>1, <2>2, <2>4 DEF IsAtom
<1>3. c.body \in Seq(BodyAtoms(b)) /\ IsInjective(c.body)
  BY DEF IsClause
<1>4. Len(c.body) \in Nat /\ DOMAIN c.body = 1 .. Len(c.body) /\ \A m \in DOMAIN c.body : c.body[m] \in BodyAtoms(b)
  BY <1>3
<1>5. QED
  BY <1>1, <1>2, <1>3, <1>4 DEF Shaped

LEMMA TermFacts ==
  ASSUME NEW t, IsTerm(t)
  PROVE  /\ IsVar(t) => \E n : t = V(n)
         /\ ~IsVar(t) => \E x : t = <<"c", x>>
         /\ \A n : t # <<"W", n>>
BY DEF IsTerm, IsVar, V

LEMMA AtomFacts ==
  ASSUME NEW a, IsAtom(a)
  PROVE  /\ a = [predicate |-> a.predicate, args |-> a.args]
         /\ a.args = [k \in DOMAIN a.args |-> a.args[k]]
         /\ \E n \in Nat : DOMAIN a.args = 1 .. n
         /\ \A k \in DOMAIN a.args : IsTerm(a.args[k])
<1>1. PICK p, n, args :
        /\ a = [predicate |-> p, args |-> args]
        /\ n \in Nat
        /\ args = [k \in 1 .. n |-> args[k]]
        /\ \A k \in 1 .. n : IsTerm(args[k])
  BY DEF IsAtom
<1>2. a.predicate = p /\ a.args = args
  BY <1>1
<1>3. DOMAIN args = 1 .. n
  BY <1>1
<1>4. args = [k \in DOMAIN args |-> args[k]]
  BY <1>1, <1>3
<1>5. QED
  BY <1>1, <1>2, <1>3, <1>4

Renamed(t, map) == IF t \in DOMAIN map THEN map[t] ELSE t

LEMMA RenamedAtom ==
  ASSUME NEW a, IsAtom(a), NEW map
  PROVE  RenameAtom(a, map) =
           [predicate |-> a.predicate, args |-> [k \in DOMAIN a.args |-> Renamed(a.args[k], map)]]
<1>1. a = [predicate |-> a.predicate, args |-> a.args]
  BY AtomFacts
<1>2. RenameAtom(a, map) = [a EXCEPT !.args = [k \in DOMAIN a.args |-> Renamed(a.args[k], map)]]
  BY DEF RenameAtom, Renamed
<1>3. QED
  BY <1>1, <1>2

LEMMA GroundedAlike ==
  ASSUME NEW a, IsAtom(a), NEW map, NEW g, NEW h,
         \A k \in DOMAIN a.args : Val(Renamed(a.args[k], map), g) = Val(a.args[k], h)
  PROVE  Grounded(RenameAtom(a, map), g) = Grounded(a, h)
<1> DEFINE args == [k \in DOMAIN a.args |-> Renamed(a.args[k], map)]
<1>1. RenameAtom(a, map) = [predicate |-> a.predicate, args |-> args]
  BY RenamedAtom
<1>2. Grounded(RenameAtom(a, map), g) = <<a.predicate, [k \in DOMAIN args |-> Val(args[k], g)]>>
  BY <1>1 DEF Grounded
<1>3. [k \in DOMAIN args |-> Val(args[k], g)] = [k \in DOMAIN a.args |-> Val(a.args[k], h)]
  <2>1. DOMAIN args = DOMAIN a.args /\ \A k \in DOMAIN a.args : args[k] = Renamed(a.args[k], map)
    OBVIOUS
  <2> HIDE DEF args
  <2>2. QED
    BY <2>1
<1>4. QED
  BY <1>2, <1>3 DEF Grounded

---------------------------------------------------------------------------
(* The enumerator.                                                         *)

VarTerms(b)   == {V(n) : n \in 0 .. b.maxVars - 1}
ConstTerms(b) == {<<"c", x.value>> : x \in Range(b.constants)}
BodyPreds(b)  == Range(b.bodies) \cup (IF b.recursion THEN Range(b.heads) ELSE {})

LEMMA PoolIs ==
  ASSUME NEW b \in Biases, NEW n \in 0 .. b.maxVars
  PROVE  VarPool(n) \in Seq(VarTerms(b)) /\ IsInjective(VarPool(n))
<1>1. n \in Nat /\ b.maxVars \in Nat
  BY BiasAssumption
<1> DEFINE pool == [k \in 1 .. n |-> V(k - 1)]
<1>2. VarPool(n) = pool
  BY DEF VarPool
<1>3. \A k \in 1 .. n : V(k - 1) \in VarTerms(b)
  <2>1. \A k \in 1 .. n : k - 1 \in 0 .. b.maxVars - 1
    BY <1>1
  <2>2. QED
    BY <2>1 DEF VarTerms
<1>4. pool \in [1 .. n -> VarTerms(b)]
  BY <1>3
<1>5. \A i, j \in 1 .. n : V(i - 1) = V(j - 1) => i = j
  BY <1>1 DEF V
<1>6. IsInjective(pool)
  BY <1>5 DEF IsInjective
<1> HIDE DEF pool
<1>7. pool \in Seq(VarTerms(b))
  BY <1>1, <1>4, FunctionIsSeq
<1>8. QED
  BY <1>2, <1>6, <1>7

(* The constants of cs that fit an argument.                               *)
FitTerms(b, p, k, cs) ==
  {<<"c", x.value>> : x \in {y \in Range(cs) : \/ TypeAt(b, p, k) = Untyped
                                               \/ y.type \in {Untyped, TypeAt(b, p, k)}}}

LEMMA FittingIs ==
  ASSUME NEW b \in Biases, NEW p, NEW k, NEW cs \in {<<>>, b.constants}
  PROVE  /\ Fitting(b, p, k, cs) \in Seq(ConstTerms(b))
         /\ IsInjective(Fitting(b, p, k, cs))
         /\ Range(Fitting(b, p, k, cs)) = FitTerms(b, p, k, cs)
<1> DEFINE C == Range(b.constants)
           fits(c) == \/ TypeAt(b, p, k) = Untyped
                      \/ c.type \in {Untyped, TypeAt(b, p, k)}
           K == {j \in DOMAIN cs : fits(cs[j])}
           kept == Only(cs, K)
           r == [j \in DOMAIN kept |-> <<"c", kept[j].value>>]
           R == {q \in C \X C : q[1] # q[2]}
<1>1. Fitting(b, p, k, cs) = r
  BY DEF Fitting, Sift
<1>2. b.constants \in Seq(C) /\ \A m, n \in DOMAIN b.constants : b.constants[m].value = b.constants[n].value => m = n
  BY BiasAssumption
<1>3. cs \in Seq(C) /\ \A m, n \in DOMAIN cs : cs[m].value = cs[n].value => m = n
  <2>1. CASE cs = <<>>
    BY <2>1
  <2>2. CASE cs = b.constants
    BY <1>2, <2>2
  <2>3. QED
    BY <2>1, <2>2
<1>4. IsInjective(cs)
  BY <1>3 DEF IsInjective
<1>5. \A x, y \in C : x.value = y.value => x = y
  BY <1>2 DEF Range
<1>0. FitTerms(b, p, k, cs) = {<<"c", cs[j].value>> : j \in K}
  BY DEF FitTerms, Range
<1> HIDE DEF fits, C
<1>6. Ordered(R, cs)
  BY <1>3, <1>4, InjectiveIsOrdered
<1>7. K \in SUBSET DOMAIN cs
  OBVIOUS
<1> HIDE DEF K, R
<1>8. kept \in Seq({cs[j] : j \in K}) /\ Range(kept) = {cs[j] : j \in K} /\ Ordered(R, kept)
  <2>1. cs \in Seq(C)
    BY <1>3
  <2>2. QED
    BY <1>6, <1>7, <2>1, OnlyIs
<1>9. {cs[j] : j \in K} \subseteq C
  BY <1>3, <1>7
<1> HIDE DEF kept
<1>10. kept \in Seq(C)
  BY <1>8, <1>9, SeqMonotonic
<1>11. IsInjective(kept)
  BY <1>8, <1>10, InjectiveIsOrdered DEF R
<1>12. Len(kept) \in Nat /\ DOMAIN kept = 1 .. Len(kept) /\ \A j \in DOMAIN kept : kept[j] \in C
  BY <1>10
<1>13. r \in [1 .. Len(kept) -> ConstTerms(b)] /\ DOMAIN r = DOMAIN kept /\ \A j \in DOMAIN kept : r[j] = <<"c", kept[j].value>>
  BY <1>12 DEF ConstTerms, C
<1>14. \A i, j \in DOMAIN kept : <<"c", kept[i].value>> = <<"c", kept[j].value>> => i = j
  <2>1. ASSUME NEW i \in DOMAIN kept, NEW j \in DOMAIN kept, kept[i].value = kept[j].value PROVE i = j
    <3>1. kept[i] = kept[j]
      BY <1>5, <1>12, <2>1
    <3>2. QED
      BY <1>11, <3>1 DEF IsInjective
  <2>2. QED
    BY <2>1
<1> HIDE DEF r
<1>15. IsInjective(r)
  BY <1>13, <1>14 DEF IsInjective
<1>16. r \in Seq(ConstTerms(b))
  BY <1>12, <1>13, FunctionIsSeq
<1>17. Range(r) = {<<"c", cs[j].value>> : j \in K}
  <2>1. Range(r) = {<<"c", x.value>> : x \in Range(kept)}
    BY <1>13 DEF Range
  <2>2. QED
    BY <1>8, <2>1
<1>18. QED
  BY <1>0, <1>1, <1>15, <1>16, <1>17

LEMMA PoolsApart ==
  ASSUME NEW b \in Biases
  PROVE  VarTerms(b) \cap ConstTerms(b) = {}
BY DEF VarTerms, ConstTerms, V

LEMMA PredicatesAre ==
  ASSUME NEW b \in Biases
  PROVE  /\ BodyPredicates(b) \in Seq(BodyPreds(b))
         /\ \A m, n \in DOMAIN BodyPredicates(b) :
              BodyPredicates(b)[m].name = BodyPredicates(b)[n].name => m = n
         /\ \A p \in BodyPreds(b) : p.arity \in Nat
<1>1. b.heads \in Seq(Range(b.heads)) /\ b.bodies \in Seq(Range(b.bodies))
  BY BiasAssumption
<1>2. BodyPredicates(b) \in Seq(BodyPreds(b))
  <2>1. CASE b.recursion
    <3>1. BodyPreds(b) = Range(b.bodies) \cup Range(b.heads) /\ BodyPredicates(b) = b.bodies \o b.heads
      BY <2>1 DEF BodyPreds, BodyPredicates
    <3>2. b.bodies \in Seq(Range(b.bodies) \cup Range(b.heads)) /\ b.heads \in Seq(Range(b.bodies) \cup Range(b.heads))
      BY <1>1
    <3>3. QED
      BY <3>1, <3>2, ConcatProperties
  <2>2. CASE ~b.recursion
    <3>1. BodyPreds(b) = Range(b.bodies) /\ BodyPredicates(b) = b.bodies \o <<>>
      BY <2>2 DEF BodyPreds, BodyPredicates
    <3>2. QED
      BY <1>1, <3>1, ConcatEmptySeq
  <2>3. QED
    BY <2>1, <2>2
<1>3. QED
  BY <1>2, BiasAssumption DEF BodyPreds

LEMMA RangePredicates ==
  ASSUME NEW b \in Biases
  PROVE  Range(BodyPredicates(b)) = BodyPreds(b)
<1>1. b.heads \in Seq(Range(b.heads)) /\ b.bodies \in Seq(Range(b.bodies))
  BY BiasAssumption
<1>2. CASE b.recursion
  <2>1. BodyPreds(b) = Range(b.bodies) \cup Range(b.heads) /\ BodyPredicates(b) = b.bodies \o b.heads
    BY <1>2 DEF BodyPreds, BodyPredicates
  <2>2. b.bodies \in Seq(Range(b.bodies) \cup Range(b.heads)) /\ b.heads \in Seq(Range(b.bodies) \cup Range(b.heads))
    BY <1>1
  <2>3. QED
    BY <2>1, <2>2, RangeConcatenation
<1>3. CASE ~b.recursion
  <2>1. BodyPreds(b) = Range(b.bodies) /\ BodyPredicates(b) = b.bodies \o <<>>
    BY <1>3 DEF BodyPreds, BodyPredicates
  <2>2. QED
    BY <1>1, <2>1, ConcatEmptySeq
<1>4. QED
  BY <1>2, <1>3

(* The atoms over n variables and the constants of cs.                     *)
PoolTerms(b, p, n, k, cs) == Range(VarPool(n)) \cup FitTerms(b, p.name, k, cs)

ArgsOf(b, p, n, cs) ==
  {t \in Tuples(p.arity, VarTerms(b) \cup ConstTerms(b)) :
     \A k \in 1 .. p.arity : t[k] \in PoolTerms(b, p, n, k, cs)}

AtomsOf(b, n, cs) ==
  UNION {{[predicate |-> p.name, args |-> args] : args \in ArgsOf(b, p, n, cs)} : p \in BodyPreds(b)}

LEMMA AtomOfIs ==
  ASSUME NEW b \in Biases, NEW n, NEW cs, NEW a
  PROVE  a \in AtomsOf(b, n, cs) <=>
           \E p \in BodyPreds(b) : \E args \in ArgsOf(b, p, n, cs) : a = [predicate |-> p.name, args |-> args]
BY DEF AtomsOf

LEMMA AtomsOverIs ==
  ASSUME NEW b \in Biases, NEW n \in 0 .. b.maxVars, NEW cs \in {<<>>, b.constants}
  PROVE  LET s == AtomsOver(b, BodyPredicates(b), n, cs) IN
           s \in Seq(BodyAtoms(b)) /\ IsInjective(s) /\ Range(s) = AtomsOf(b, n, cs)
<1> DEFINE ps == BodyPredicates(b)
           T == VarTerms(b) \cup ConstTerms(b)
           pools(p) == [k \in 1 .. p.arity |-> VarPool(n) \o Fitting(b, p.name, k, cs)]
           tuples(p) == ProductPerPos(pools(p))
           parts == [m \in DOMAIN ps |->
                      [j \in DOMAIN tuples(ps[m]) |-> [predicate |-> ps[m].name, args |-> tuples(ps[m])[j]]]]
<1>1. AtomsOver(b, ps, n, cs) = FlattenSeq(parts)
  BY DEF AtomsOver
<1>2. ps \in Seq(BodyPreds(b)) /\ \A m, l \in DOMAIN ps : ps[m].name = ps[l].name => m = l
  BY PredicatesAre
<1>3. ASSUME NEW p \in BodyPreds(b)
      PROVE  /\ p.arity \in Nat
             /\ tuples(p) \in Seq(Tuples(p.arity, T)) /\ IsInjective(tuples(p))
             /\ Range(tuples(p)) = {t \in Tuples(p.arity, T) : \A k \in 1 .. p.arity : t[k] \in PoolTerms(b, p, n, k, cs)}
  <2>1. p.arity \in Nat
    BY PredicatesAre
  <2>2. ASSUME NEW k \in 1 .. p.arity
        PROVE  /\ VarPool(n) \o Fitting(b, p.name, k, cs) \in Seq(T)
               /\ IsInjective(VarPool(n) \o Fitting(b, p.name, k, cs))
               /\ Range(VarPool(n) \o Fitting(b, p.name, k, cs)) = PoolTerms(b, p, n, k, cs)
    <3> DEFINE s == VarPool(n)
               t == Fitting(b, p.name, k, cs)
    <3>1. s \in Seq(VarTerms(b)) /\ IsInjective(s)
      BY PoolIs
    <3>2. t \in Seq(ConstTerms(b)) /\ IsInjective(t) /\ Range(t) = FitTerms(b, p.name, k, cs)
      BY FittingIs
    <3>0. Range(s) = Range(VarPool(n))
      OBVIOUS
    <3> HIDE DEF s, t
    <3>3. s \in Seq(T) /\ t \in Seq(T)
      BY <3>1, <3>2
    <3>4. Range(s) \cap Range(t) = {}
      <4>1. Range(s) \subseteq VarTerms(b) /\ Range(t) \subseteq ConstTerms(b)
        BY <3>1, <3>2 DEF Range
      <4>2. QED
        BY <4>1, PoolsApart
    <3> HIDE DEF T
    <3>5. s \o t \in Seq(T)
      BY <3>3, ConcatProperties
    <3>6. IsInjective(s \o t)
      BY <3>1, <3>2, <3>3, <3>4, ConcatApart
    <3>7. Range(s \o t) = Range(s) \cup Range(t)
      BY <3>3, RangeConcatenation
    <3>8. QED
      BY <3>0, <3>2, <3>5, <3>6, <3>7 DEF s, t, PoolTerms
  <2> DEFINE q == pools(p)
  <2>3. q \in [1 .. p.arity -> Seq(T)] /\ \A k \in 1 .. p.arity : IsInjective(q[k]) /\ Range(q[k]) = PoolTerms(b, p, n, k, cs)
    BY <2>2
  <2> HIDE DEF q, T
  <2>4. q \in Seq(Seq(T)) /\ Len(q) = p.arity /\ DOMAIN q = 1 .. p.arity
    <3>1. q \in Seq(Seq(T)) /\ DOMAIN q = 1 .. p.arity
      BY <2>1, <2>3, FunctionIsSeq
    <3>2. QED
      BY <2>1, <3>1
  <2>5. /\ ProductPerPos(q) \in Seq(Tuples(Len(q), T)) /\ IsInjective(ProductPerPos(q))
        /\ Range(ProductPerPos(q)) = ChoicesFrom(q, Len(q), T)
    BY <2>3, <2>4, ProductSeq
  <2>6. ChoicesFrom(q, Len(q), T) = {t \in Tuples(p.arity, T) : \A k \in 1 .. p.arity : t[k] \in PoolTerms(b, p, n, k, cs)}
    <3>1. \A k \in 1 .. p.arity : Len(q) - p.arity + k = k
      BY <2>1, <2>4
    <3>2. ChoicesFrom(q, Len(q), T) = {t \in Tuples(p.arity, T) : \A k \in 1 .. p.arity : t[k] \in Range(q[Len(q) - p.arity + k])}
      BY <2>4 DEF ChoicesFrom
    <3>3. QED
      BY <2>3, <3>1, <3>2
  <2>7. QED
    BY <2>1, <2>4, <2>5, <2>6 DEF q
<1> HIDE DEF pools
<1>4. ASSUME NEW m \in DOMAIN ps
      PROVE  /\ parts[m] \in Seq(BodyAtoms(b)) /\ IsInjective(parts[m])
             /\ \A a \in Range(parts[m]) : a.predicate = ps[m].name
             /\ Range(parts[m]) = {[predicate |-> ps[m].name, args |-> args] : args \in Range(tuples(ps[m]))}
  <2> DEFINE p == ps[m]
             ts == tuples(p)
             s == [j \in DOMAIN ts |-> [predicate |-> p.name, args |-> ts[j]]]
  <2>1. p \in BodyPreds(b)
    BY <1>2
  <2>2. parts[m] = s
    OBVIOUS
  <2>3. p.arity \in Nat /\ ts \in Seq(Tuples(p.arity, T)) /\ IsInjective(ts)
    BY <1>3, <2>1
  <2> HIDE DEF p, tuples, parts
  <2> HIDE DEF ts
  <2>4. Len(ts) \in Nat /\ DOMAIN ts = 1 .. Len(ts) /\ \A j \in DOMAIN ts : ts[j] \in [1 .. p.arity -> T]
    BY <2>3 DEF Tuples
  <2>5. ASSUME NEW args \in [1 .. p.arity -> T] PROVE [predicate |-> p.name, args |-> args] \in BodyAtoms(b)
    <3>1. BodyAtoms(b) = UNION {{[predicate |-> q.name, args |-> as] : as \in [1 .. q.arity -> T]} : q \in BodyPreds(b)}
      BY DEF BodyAtoms, BodyPreds, VarTerms, ConstTerms
    <3> HIDE DEF T
    <3>2. QED
      BY <2>1, <3>1
  <2>6. s \in [1 .. Len(ts) -> BodyAtoms(b)]
    BY <2>4, <2>5
  <2>7. \A i, j \in DOMAIN ts : s[i] = s[j] => i = j
    BY <2>3 DEF IsInjective
  <2>8. DOMAIN s = DOMAIN ts /\ \A j \in DOMAIN ts : s[j].predicate = p.name
    OBVIOUS
  <2>0. \A j \in DOMAIN ts : s[j] = [predicate |-> p.name, args |-> ts[j]]
    OBVIOUS
  <2> HIDE DEF s
  <2>9. s \in Seq(BodyAtoms(b))
    BY <2>4, <2>6, FunctionIsSeq
  <2>10. IsInjective(s)
    BY <2>7, <2>8 DEF IsInjective
  <2>11. \A a \in Range(s) : a.predicate = p.name
    BY <2>8 DEF Range
  <2>12. Range(s) = {[predicate |-> p.name, args |-> args] : args \in Range(ts)}
    BY <2>0, <2>8 DEF Range
  <2>13. QED
    BY <2>2, <2>9, <2>10, <2>11, <2>12 DEF p, ts
<1>5. Len(ps) \in Nat /\ DOMAIN ps = 1 .. Len(ps)
  BY <1>2
<1>6. DOMAIN parts = 1 .. Len(ps) /\ parts = [m \in 1 .. Len(ps) |-> parts[m]]
  BY <1>5
<1> HIDE DEF parts, ps
<1>7. parts \in [1 .. Len(ps) -> Seq(BodyAtoms(b))]
  BY <1>4, <1>5, <1>6
<1>8. parts \in Seq(Seq(BodyAtoms(b)))
  BY <1>5, <1>7, FunctionIsSeq
<1>9. \A m \in DOMAIN parts : IsInjective(parts[m])
  BY <1>4, <1>5, <1>6
<1>10. \A m, l \in DOMAIN parts : m # l => Range(parts[m]) \cap Range(parts[l]) = {}
  BY <1>2, <1>4, <1>5, <1>6
<1>11. FlattenSeq(parts) \in Seq(BodyAtoms(b))
  BY <1>8, FlattenedSeq
<1>12. IsInjective(FlattenSeq(parts))
  BY <1>8, <1>9, <1>10, FlattenedApart
<1>13. Range(FlattenSeq(parts)) = AtomsOf(b, n, cs)
  <2> DEFINE atoms(p) == {[predicate |-> p.name, args |-> args] : args \in Range(tuples(p))}
  <2>0. \A p \in BodyPreds(b) : Range(tuples(p)) = ArgsOf(b, p, n, cs)
    BY <1>3 DEF ArgsOf
  <2> HIDE DEF tuples
  <2>1. AtomsOf(b, n, cs) = UNION {atoms(p) : p \in BodyPreds(b)}
    BY <2>0 DEF AtomsOf
  <2>2. \A m \in DOMAIN parts : Range(parts[m]) = atoms(ps[m]) /\ ps[m] \in BodyPreds(b)
    BY <1>2, <1>4, <1>5, <1>6
  <2>3. \A p \in BodyPreds(b) : \E m \in DOMAIN parts : ps[m] = p
    <3>1. Range(ps) = BodyPreds(b)
      BY RangePredicates DEF ps
    <3>2. QED
      BY <1>5, <1>6, <3>1 DEF Range
  <2> HIDE DEF atoms
  <2>4. /\ \A y \in Range(FlattenSeq(parts)) : \E m \in DOMAIN parts : y \in Range(parts[m])
        /\ \A m \in DOMAIN parts : Range(parts[m]) \subseteq Range(FlattenSeq(parts))
    BY <1>8, FlattenedRange
  <2>5. QED
    BY <2>1, <2>2, <2>3, <2>4
<1>14. QED
  BY <1>1, <1>11, <1>12, <1>13 DEF ps

(* The atoms without constants are those the enumerator takes first.       *)
LEMMA ConstFreeAtoms ==
  ASSUME NEW b \in Biases, NEW n \in 0 .. b.maxVars
  PROVE  AtomsOf(b, n, <<>>) =
           {a \in AtomsOf(b, n, b.constants) : \A k \in DOMAIN a.args : IsVar(a.args[k])}
<1> DEFINE T == VarTerms(b) \cup ConstTerms(b)
<1>1. \A t \in Range(VarPool(n)) : IsVar(t)
  <2>1. Range(VarPool(n)) \subseteq VarTerms(b)
    BY PoolIs DEF Range
  <2>2. QED
    BY <2>1 DEF VarTerms, V, IsVar
<1>2. \A p, k : FitTerms(b, p, k, <<>>) = {}
  <2>1. Range(<<>>) = {}
    BY DEF Range
  <2>2. QED
    BY <2>1 DEF FitTerms
<1>3. \A p, k : \A t \in FitTerms(b, p, k, b.constants) : ~IsVar(t)
  BY DEF FitTerms, IsVar
<1>4. \A p, k : \A t : t \in PoolTerms(b, p, n, k, <<>>) <=> t \in PoolTerms(b, p, n, k, b.constants) /\ IsVar(t)
  BY <1>1, <1>2, <1>3 DEF PoolTerms
<1>5. \A p \in BodyPreds(b) : \A args \in Tuples(p.arity, T) : DOMAIN args = 1 .. p.arity
  BY DEF Tuples
<1>6. ASSUME NEW a \in AtomsOf(b, n, <<>>)
      PROVE  a \in AtomsOf(b, n, b.constants) /\ \A k \in DOMAIN a.args : IsVar(a.args[k])
  <2>0. PICK p \in BodyPreds(b) : \E args \in ArgsOf(b, p, n, <<>>) : a = [predicate |-> p.name, args |-> args]
    BY AtomOfIs
  <2>1. PICK args \in Tuples(p.arity, T) :
          /\ a = [predicate |-> p.name, args |-> args]
          /\ \A k \in 1 .. p.arity : args[k] \in PoolTerms(b, p, n, k, <<>>)
    BY <2>0 DEF ArgsOf
  <2>2. \A k \in 1 .. p.arity : args[k] \in PoolTerms(b, p, n, k, b.constants) /\ IsVar(args[k])
    BY <1>4, <2>1
  <2>3. a \in AtomsOf(b, n, b.constants)
    <3>1. args \in ArgsOf(b, p, n, b.constants)
      BY <2>2 DEF ArgsOf
    <3>2. QED
      BY <2>1, <3>1, AtomOfIs
  <2>4. QED
    BY <1>5, <2>1, <2>2, <2>3
<1>7. ASSUME NEW a \in AtomsOf(b, n, b.constants), \A k \in DOMAIN a.args : IsVar(a.args[k])
      PROVE  a \in AtomsOf(b, n, <<>>)
  <2>0. PICK p \in BodyPreds(b) : \E args \in ArgsOf(b, p, n, b.constants) : a = [predicate |-> p.name, args |-> args]
    BY AtomOfIs
  <2>1. PICK args \in Tuples(p.arity, T) :
          /\ a = [predicate |-> p.name, args |-> args]
          /\ \A k \in 1 .. p.arity : args[k] \in PoolTerms(b, p, n, k, b.constants)
    BY <2>0 DEF ArgsOf
  <2>2. \A k \in 1 .. p.arity : args[k] \in PoolTerms(b, p, n, k, <<>>)
    BY <1>4, <1>5, <1>7, <2>1
  <2>3. args \in ArgsOf(b, p, n, <<>>)
    BY <2>2 DEF ArgsOf
  <2>4. QED
    BY <2>1, <2>3, AtomOfIs
<1>8. QED
  BY <1>6, <1>7

(* The clauses of a head and a size, before the biases are applied.        *)
Injectives(k, T) == {t \in Tuples(k, T) : IsInjective(t)}

ClausesOver(b, p, n, k, cs) ==
  {[head |-> HeadAtom(p), body |-> s] : s \in Injectives(k, AtomsOf(b, n, cs))}

(* s has every clause of S, with its body in some order.                   *)
Exhausts(s, S) == \A d \in S : \E c \in Range(s) : AsSet(c) = AsSet(d)

Made(b, p, n, k, cs) ==
  LET bodies == Combinations(AtomsOver(b, BodyPredicates(b), n, cs), k)
  IN [j \in DOMAIN bodies |-> [head |-> HeadAtom(p), body |-> bodies[j]]]

LEMMA MadeIs ==
  ASSUME NEW b \in Biases, NEW p, NEW n \in 0 .. b.maxVars, NEW k \in Nat, NEW cs \in {<<>>, b.constants}
  PROVE  LET made == Made(b, p, n, k, cs) IN
           /\ made \in Seq(ClausesOver(b, p, n, k, cs))
           /\ Exhausts(made, ClausesOver(b, p, n, k, cs))
           /\ \A i, j \in DOMAIN made : AsSet(made[i]) = AsSet(made[j]) => i = j
<1> DEFINE u == AtomsOver(b, BodyPredicates(b), n, cs)
           bodies == Combinations(u, k)
           made == [j \in DOMAIN bodies |-> [head |-> HeadAtom(p), body |-> bodies[j]]]
           A == AtomsOf(b, n, cs)
           G == ClausesOver(b, p, n, k, cs)
<1>1. Made(b, p, n, k, cs) = made
  BY DEF Made
<1>2. u \in Seq(BodyAtoms(b)) /\ IsInjective(u) /\ Range(u) = A
  BY AtomsOverIs
<1> HIDE DEF u, A
<1>3. /\ bodies \in Seq({t \in Tuples(k, Range(u)) : IsInjective(t)})
      /\ \A t \in Tuples(k, Range(u)) : IsInjective(t) => \E s \in Range(bodies) : Range(s) = Range(t)
      /\ \A i, j \in DOMAIN bodies : Range(bodies[i]) = Range(bodies[j]) => i = j
  BY <1>2, CombinationsAre
<1> HIDE DEF bodies
<1>4. /\ bodies \in Seq(Injectives(k, A))
      /\ \A t \in Injectives(k, A) : \E s \in Range(bodies) : Range(s) = Range(t)
  BY <1>2, <1>3 DEF Injectives
<1>5. Len(bodies) \in Nat /\ DOMAIN bodies = 1 .. Len(bodies) /\ \A j \in DOMAIN bodies : bodies[j] \in Injectives(k, A)
  BY <1>4
<1>6. \A t \in Injectives(k, A) : [head |-> HeadAtom(p), body |-> t] \in G
  BY DEF ClausesOver, A
<1>7. \A d \in G : \E t \in Injectives(k, A) : d = [head |-> HeadAtom(p), body |-> t]
  BY DEF ClausesOver, A
<1> HIDE DEF G
<1>8. /\ made \in [1 .. Len(bodies) -> G] /\ DOMAIN made = DOMAIN bodies
      /\ \A j \in DOMAIN bodies : made[j] = [head |-> HeadAtom(p), body |-> bodies[j]]
  BY <1>5, <1>6
<1> HIDE DEF made
<1>9. made \in Seq(G)
  BY <1>5, <1>8, FunctionIsSeq
<1>10. ASSUME NEW d \in G PROVE \E c \in Range(made) : AsSet(c) = AsSet(d)
  <2>1. PICK t \in Injectives(k, A) : d = [head |-> HeadAtom(p), body |-> t]
    BY <1>7
  <2>2. PICK s \in Range(bodies) : Range(s) = Range(t)
    BY <1>4
  <2>3. PICK j \in DOMAIN bodies : bodies[j] = s
    BY <2>2 DEF Range
  <2>0. made[j] = [head |-> HeadAtom(p), body |-> s] /\ made[j] \in Range(made)
    BY <1>8, <2>3 DEF Range
  <2>4. made[j].head = d.head /\ made[j].body = s /\ d.body = t
    BY <2>0, <2>1
  <2>5. QED
    BY <2>0, <2>2, <2>4 DEF AsSet
<1>11. ASSUME NEW i \in DOMAIN made, NEW j \in DOMAIN made, AsSet(made[i]) = AsSet(made[j]) PROVE i = j
  <2>1. Range(made[i].body) = Range(made[j].body)
    BY <1>11 DEF AsSet
  <2>2. made[i].body = bodies[i] /\ made[j].body = bodies[j]
    <3>1. /\ made[i] = [head |-> HeadAtom(p), body |-> bodies[i]]
          /\ made[j] = [head |-> HeadAtom(p), body |-> bodies[j]]
      BY <1>8
    <3>2. QED
      BY <3>1
  <2>3. QED
    BY <1>3, <1>8, <2>1, <2>2
<1>12. QED
  BY <1>1, <1>9, <1>10, <1>11 DEF G, Exhausts

(* What a clause satisfies, it satisfies with its body in any order.       *)
ReachIn(h, B, w) ==
  LET reach[k \in 0 .. w] ==
        IF k = 0 THEN AtomVars(h)
        ELSE reach[k - 1] \cup
             UNION {AtomVars(a) : a \in {b \in B : AtomVars(b) \cap reach[k - 1] # {}}}
  IN reach[w]

BoundIn(bias, G, B, w) ==
  LET bound[k \in 0 .. w] ==
        IF k = 0 THEN G
        ELSE bound[k - 1] \cup
             UNION {AtomVars(a) : a \in {b \in B : Inputs(bias, b) \subseteq bound[k - 1]}}
  IN bound[w]

LEMMA ConnectedIs ==
  ASSUME NEW c
  PROVE  Connected(c) <=>
           \A a \in Range(c.body) : AtomVars(a) \cap ReachIn(c.head, Range(c.body), Len(c.body)) # {}
BY DEF Connected, ReachIn

LEMMA FeasibleIs ==
  ASSUME NEW b, NEW c
  PROVE  WellModedFeasible(b, c) <=>
           \A a \in Range(c.body) :
             Inputs(b, a) \subseteq BoundIn(b, Seed(b, c), Range(c.body), Len(c.body))
BY DEF WellModedFeasible, BoundIn

LEMMA BodyVarsAre ==
  ASSUME NEW c
  PROVE  BodyVars(c) = UNION {AtomVars(a) : a \in Range(c.body)}
BY DEF BodyVars, Range

LEMMA SameClauseVars ==
  ASSUME NEW c, NEW d, AsSet(c) = AsSet(d)
  PROVE  ClauseVars(c) = ClauseVars(d) /\ (HasConst(c) <=> HasConst(d))
<1>1. c.head = d.head /\ Range(c.body) = Range(d.body)
  BY DEF AsSet
<1>2. BodyVars(c) = BodyVars(d)
  BY <1>1, BodyVarsAre
<1>3. QED
  BY <1>1, <1>2 DEF ClauseVars, HasConst

LEMMA KeepAnyOrder ==
  ASSUME NEW b, NEW n, NEW c, NEW d, AsSet(c) = AsSet(d), Len(c.body) = Len(d.body)
  PROVE  Keep(b, c, n) <=> Keep(b, d, n)
<1>1. c.head = d.head /\ Range(c.body) = Range(d.body)
  BY DEF AsSet
<1>2. UsesExactly(c, n) <=> UsesExactly(d, n)
  BY SameClauseVars DEF UsesExactly
<1>3. Connected(c) <=> Connected(d)
  BY <1>1, ConnectedIs
<1>4. WellModedFeasible(b, c) <=> WellModedFeasible(b, d)
  <2>1. Seed(b, c) = Seed(b, d)
    BY <1>1 DEF Seed
  <2>2. QED
    BY <1>1, <2>1, FeasibleIs
<1>5. TypeConsistent(b, c) <=> TypeConsistent(b, d)
  <2>1. Atoms(c) = Atoms(d)
    BY <1>1 DEF Atoms
  <2>2. QED
    BY <2>1 DEF TypeConsistent
<1>6. QED
  BY <1>2, <1>3, <1>4, <1>5 DEF Keep

(* What is kept for a head and a size: each of its clauses, with its body  *)
(* in one order.                                                           *)
Apart(S) == {q \in S \X S : AsSet(q[1]) # AsSet(q[2])}

KeptOver(b, p, n, k, cs) == {c \in ClausesOver(b, p, n, k, cs) : Keep(b, c, n)}

KeptOf(b, p, n, k, cs) ==
  LET made == Made(b, p, n, k, cs)
  IN Only(made, {j \in DOMAIN made : Keep(b, made[j], n)})

LEMMA ClauseOverIs ==
  ASSUME NEW b, NEW p, NEW n, NEW k \in Nat, NEW cs, NEW c \in ClausesOver(b, p, n, k, cs)
  PROVE  /\ c.head = HeadAtom(p)
         /\ c.body \in Injectives(k, AtomsOf(b, n, cs))
         /\ c = [head |-> c.head, body |-> c.body]
         /\ Len(c.body) = k
<1>1. PICK s \in Injectives(k, AtomsOf(b, n, cs)) : c = [head |-> HeadAtom(p), body |-> s]
  BY DEF ClausesOver
<1>2. c.head = HeadAtom(p) /\ c.body = s
  BY <1>1
<1>3. s \in [1 .. k -> AtomsOf(b, n, cs)]
  BY DEF Injectives, Tuples
<1>4. Len(s) = k
  BY <1>3, FunctionIsSeq
<1>5. QED
  BY <1>1, <1>2, <1>4

LEMMA KeptIs ==
  ASSUME NEW b \in Biases, NEW p, NEW n \in 0 .. b.maxVars, NEW k \in Nat, NEW cs \in {<<>>, b.constants}
  PROVE  LET u == KeptOf(b, p, n, k, cs)
             G == KeptOver(b, p, n, k, cs)
         IN /\ u \in Seq(G)
            /\ Exhausts(u, G)
            /\ Ordered(Apart(G), u)
<1> DEFINE made == Made(b, p, n, k, cs)
           K == {j \in DOMAIN made : Keep(b, made[j], n)}
           C == ClausesOver(b, p, n, k, cs)
           G == KeptOver(b, p, n, k, cs)
           u == Only(made, K)
<1>0. KeptOf(b, p, n, k, cs) = u
  BY DEF KeptOf
<1>1. /\ made \in Seq(C)
      /\ Exhausts(made, C)
      /\ \A i, j \in DOMAIN made : AsSet(made[i]) = AsSet(made[j]) => i = j
  <2>1. made \in Seq(C)
    BY MadeIs
  <2>2. Exhausts(made, C)
    BY MadeIs
  <2>3. \A i, j \in DOMAIN made : AsSet(made[i]) = AsSet(made[j]) => i = j
    BY MadeIs
  <2> HIDE DEF made, C
  <2>4. QED
    BY <2>1, <2>2, <2>3
<1> HIDE DEF made
<1>2. Len(made) \in Nat /\ DOMAIN made = 1 .. Len(made) /\ \A j \in DOMAIN made : made[j] \in C
  BY <1>1
<1>3. Ordered(Apart(C), made)
  <2>1. ASSUME NEW x \in DOMAIN made, NEW y \in DOMAIN made, x < y PROVE <<made[x], made[y]>> \in Apart(C)
    <3>1. x # y
      BY <1>2, <2>1
    <3>2. AsSet(made[x]) # AsSet(made[y])
      BY <1>1, <3>1
    <3>3. QED
      BY <1>2, <3>2 DEF Apart
  <2>2. QED
    BY <2>1 DEF Ordered
<1>4. K \in SUBSET DOMAIN made /\ {made[j] : j \in K} \subseteq G
  <2>1. \A j \in K : made[j] \in C /\ Keep(b, made[j], n)
    BY <1>2
  <2>2. QED
    BY <2>1 DEF KeptOver
<1>5. \A j \in DOMAIN made : Keep(b, made[j], n) => j \in K
  OBVIOUS
<1> HIDE DEF K, C
<1>6. u \in Seq({made[j] : j \in K}) /\ Range(u) = {made[j] : j \in K} /\ Ordered(Apart(C), u)
  <2>1. made \in Seq(C) /\ K \in SUBSET DOMAIN made
    BY <1>1, <1>4
  <2>2. QED
    BY <1>3, <2>1, OnlyIs
<1> HIDE DEF u, G
<1>7. u \in Seq(G)
  BY <1>4, <1>6, SeqMonotonic
<1>8. \A d \in G : d \in C /\ Keep(b, d, n)
  BY DEF G, C, KeptOver
<1>9. ASSUME NEW d \in G PROVE \E c \in Range(u) : AsSet(c) = AsSet(d)
  <2>1. PICK j \in DOMAIN made : AsSet(made[j]) = AsSet(d)
    <3>1. d \in C
      BY <1>8
    <3>2. PICK c \in Range(made) : AsSet(c) = AsSet(d)
      BY <1>1, <3>1 DEF Exhausts
    <3>3. QED
      BY <3>2 DEF Range
  <2>2. Len(made[j].body) = k /\ Len(d.body) = k
    <3>1. made[j] \in C /\ d \in C
      BY <1>2, <1>8
    <3>2. QED
      BY <3>1, ClauseOverIs DEF C
  <2>3. Keep(b, made[j], n)
    BY <1>8, <2>1, <2>2, KeepAnyOrder
  <2>4. QED
    BY <1>5, <1>6, <2>1, <2>3
<1>10. Ordered(Apart(G), u)
  <2>1. \A x \in DOMAIN u : u[x] \in G
    BY <1>7
  <2>2. \A x, y \in DOMAIN u : x < y => AsSet(u[x]) # AsSet(u[y])
    BY <1>6 DEF Ordered, Apart
  <2>3. QED
    BY <2>1, <2>2 DEF Ordered, Apart
<1>11. QED
  BY <1>0, <1>7, <1>9, <1>10 DEF G, Exhausts

LEMMA ConcatOrder ==
  ASSUME NEW S, NEW s \in Seq(S), NEW t \in Seq(S), NEW R, Ordered(R, s), Ordered(R, t),
         Range(s) \X Range(t) \subseteq R
  PROVE  Ordered(R, s \o t)
<1> DEFINE a == Len(s)
           b == Len(t)
           u == s \o t
<1>1. a \in Nat /\ b \in Nat /\ DOMAIN s = 1 .. a /\ DOMAIN t = 1 .. b
  OBVIOUS
<1>2. /\ DOMAIN u = 1 .. a + b
      /\ \A i \in 1 .. a : u[i] = s[i]
      /\ \A i \in a + 1 .. a + b : u[i] = t[i - a]
  BY ConcatProperties
<1> HIDE DEF a, b, u
<1>3. ASSUME NEW i \in DOMAIN u, NEW j \in DOMAIN u, i < j PROVE <<u[i], u[j]>> \in R
  <2>1. CASE j \in 1 .. a
    <3>1. i \in 1 .. a
      BY <1>1, <1>2, <1>3, <2>1
    <3>2. <<s[i], s[j]>> \in R
      BY <1>1, <1>3, <2>1, <3>1 DEF Ordered
    <3>3. QED
      BY <1>2, <2>1, <3>1, <3>2
  <2>2. CASE i \in a + 1 .. a + b
    <3>1. j \in a + 1 .. a + b
      BY <1>1, <1>2, <1>3, <2>2
    <3>2. i - a \in 1 .. b /\ j - a \in 1 .. b /\ i - a < j - a
      BY <1>1, <1>3, <2>2, <3>1
    <3>3. <<t[i - a], t[j - a]>> \in R
      BY <1>1, <3>2 DEF Ordered
    <3>4. QED
      BY <1>2, <2>2, <3>1, <3>3
  <2>3. CASE i \in 1 .. a /\ j \in a + 1 .. a + b
    <3>1. j - a \in 1 .. b
      BY <1>1, <2>3
    <3>2. s[i] \in Range(s) /\ t[j - a] \in Range(t)
      BY <1>1, <2>3, <3>1 DEF Range
    <3>3. u[i] = s[i] /\ u[j] = t[j - a]
      BY <1>2, <2>3
    <3>4. QED
      BY <3>2, <3>3
  <2>4. QED
    BY <1>1, <1>2, <1>3, <2>1, <2>2, <2>3
<1>4. QED
  BY <1>3 DEF Ordered, u

(* Those without constants come first.                                     *)
Sized(b, p, n, k) == KeptOver(b, p, n, k, b.constants)

InTurn(S) == {q \in S \X S : AsSet(q[1]) # AsSet(q[2]) /\ (HasConst(q[1]) => HasConst(q[2]))}

LEMMA ConstFreeClauses ==
  ASSUME NEW b \in Biases, NEW p, NEW n \in 0 .. b.maxVars, NEW k \in Nat
  PROVE  KeptOver(b, p, n, k, <<>>) = {c \in Sized(b, p, n, k) : ~HasConst(c)}
<1> DEFINE A == AtomsOf(b, n, <<>>)
           B == AtomsOf(b, n, b.constants)
<1>1. A = {a \in B : \A j \in DOMAIN a.args : IsVar(a.args[j])}
  BY ConstFreeAtoms
<1> HIDE DEF A, B
<1>2. ASSUME NEW s \in Injectives(k, A)
      PROVE  s \in Injectives(k, B) /\ \A a \in Range(s) : \A j \in DOMAIN a.args : IsVar(a.args[j])
  BY <1>1 DEF Injectives, Tuples, Range
<1>3. ASSUME NEW s \in Injectives(k, B), \A a \in Range(s) : \A j \in DOMAIN a.args : IsVar(a.args[j])
      PROVE  s \in Injectives(k, A)
  <2>1. s \in [1 .. k -> B] /\ IsInjective(s)
    BY DEF Injectives, Tuples
  <2>2. \A i \in 1 .. k : s[i] \in Range(s)
    BY <2>1 DEF Range
  <2>3. \A i \in 1 .. k : s[i] \in A
    BY <1>1, <1>3, <2>1, <2>2
  <2>4. QED
    BY <2>1, <2>3 DEF Injectives, Tuples
<1>4. ASSUME NEW c, c \in ClausesOver(b, p, n, k, <<>>)
      PROVE  c \in ClausesOver(b, p, n, k, b.constants) /\ ~HasConst(c)
  <2>1. c.body \in Injectives(k, A) /\ c = [head |-> HeadAtom(p), body |-> c.body]
    BY <1>4, ClauseOverIs DEF A
  <2>2. c.body \in Injectives(k, B) /\ \A a \in Range(c.body) : \A j \in DOMAIN a.args : IsVar(a.args[j])
    BY <1>2, <2>1
  <2>3. c \in ClausesOver(b, p, n, k, b.constants)
    BY <2>1, <2>2 DEF ClausesOver, B
  <2>4. QED
    BY <2>2, <2>3 DEF HasConst
<1>5. ASSUME NEW c, c \in ClausesOver(b, p, n, k, b.constants), ~HasConst(c)
      PROVE  c \in ClausesOver(b, p, n, k, <<>>)
  <2>1. c.body \in Injectives(k, B) /\ c = [head |-> HeadAtom(p), body |-> c.body]
    BY <1>5, ClauseOverIs DEF B
  <2>2. \A a \in Range(c.body) : \A j \in DOMAIN a.args : IsVar(a.args[j])
    BY <1>5 DEF HasConst
  <2>3. c.body \in Injectives(k, A)
    BY <1>3, <2>1, <2>2
  <2>4. QED
    BY <2>1, <2>3 DEF ClausesOver, A
<1>6. QED
  BY <1>4, <1>5 DEF KeptOver, Sized

LEMMA OfSizeIs ==
  ASSUME NEW b \in Biases, NEW p, NEW n \in 0 .. b.maxVars, NEW k \in Nat
  PROVE  LET s == OfSize(b, p, n, k)
             G == Sized(b, p, n, k)
         IN /\ s \in Seq(G)
            /\ Exhausts(s, G)
            /\ Ordered(InTurn(G), s)
<1> DEFINE G == Sized(b, p, n, k)
           u == KeptOf(b, p, n, k, <<>>)
           w == KeptOf(b, p, n, k, b.constants)
           H == {j \in DOMAIN w : HasConst(w[j])}
           v == IF b.constants = <<>> THEN <<>> ELSE Only(w, H)
           G0 == KeptOver(b, p, n, k, <<>>)
<1>1. OfSize(b, p, n, k) = u \o v
  BY DEF OfSize, Sift, KeptOf, Made
<1>2. u \in Seq(G0) /\ Exhausts(u, G0) /\ Ordered(Apart(G0), u)
  <2>1. u \in Seq(G0)
    BY KeptIs
  <2>2. Exhausts(u, G0)
    BY KeptIs
  <2>3. Ordered(Apart(G0), u)
    BY KeptIs
  <2> HIDE DEF u, G0
  <2>4. QED
    BY <2>1, <2>2, <2>3
<1>3. w \in Seq(G) /\ Exhausts(w, G) /\ Ordered(Apart(G), w)
  <2>1. w \in Seq(G)
    BY KeptIs DEF Sized
  <2>2. Exhausts(w, G)
    BY KeptIs DEF Sized
  <2>3. Ordered(Apart(G), w)
    BY KeptIs DEF Sized
  <2> HIDE DEF w, G
  <2>4. QED
    BY <2>1, <2>2, <2>3
<1>4. G0 = {c \in G : ~HasConst(c)}
  BY ConstFreeClauses
<1>5. b.constants = <<>> => \A c \in G : ~HasConst(c)
  BY <1>4 DEF Sized
<1> HIDE DEF G, G0, u, w
<1>6. H \in SUBSET DOMAIN w
  OBVIOUS
<1>7. {w[j] : j \in H} = {c \in Range(w) : HasConst(c)}
  BY DEF Range
<1> HIDE DEF H
<1>8. /\ Only(w, H) \in Seq({w[j] : j \in H})
      /\ Range(Only(w, H)) = {w[j] : j \in H}
      /\ Ordered(Apart(G), Only(w, H))
  BY <1>3, <1>6, OnlyIs
<1>9. Range(w) \subseteq G
  BY <1>3 DEF Range
<1>10. /\ v \in Seq({c \in G : HasConst(c)})
       /\ \A d \in G : HasConst(d) => \E c \in Range(v) : AsSet(c) = AsSet(d)
       /\ Ordered(Apart(G), v)
  <2>1. CASE b.constants = <<>>
    <3>1. v = <<>>
      BY <2>1
    <3>2. QED
      BY <1>5, <2>1, <3>1 DEF Ordered
  <2>2. CASE b.constants # <<>>
    <3>1. v = Only(w, H)
      BY <2>2
    <3>2. {w[j] : j \in H} \subseteq {c \in G : HasConst(c)}
      BY <1>7, <1>9
    <3> HIDE DEF v
    <3>3. v \in Seq({c \in G : HasConst(c)})
      BY <1>8, <3>1, <3>2, SeqMonotonic
    <3>4. ASSUME NEW d \in G, HasConst(d) PROVE \E c \in Range(v) : AsSet(c) = AsSet(d)
      <4>1. PICK c \in Range(w) : AsSet(c) = AsSet(d)
        BY <1>3 DEF Exhausts
      <4>2. HasConst(c)
        BY <3>4, <4>1, SameClauseVars
      <4>3. c \in Range(v)
        BY <1>7, <1>8, <3>1, <4>2
      <4>4. QED
        BY <4>1, <4>3
    <3>5. QED
      BY <1>8, <3>1, <3>3, <3>4
  <2>3. QED
    BY <2>1, <2>2
<1> HIDE DEF v
<1>11. u \in Seq(G) /\ v \in Seq(G)
  <2>1. G0 \subseteq G /\ {c \in G : HasConst(c)} \subseteq G
    BY <1>4
  <2>2. QED
    BY <1>2, <1>10, <2>1, SeqMonotonic
<1>12. u \o v \in Seq(G)
  BY <1>11, ConcatProperties
<1>13. Range(u \o v) = Range(u) \cup Range(v)
  BY <1>11, RangeConcatenation
<1>14. ASSUME NEW d \in G PROVE \E c \in Range(u \o v) : AsSet(c) = AsSet(d)
  <2>1. CASE HasConst(d)
    BY <1>10, <1>13, <2>1
  <2>2. CASE ~HasConst(d)
    BY <1>2, <1>4, <1>13, <2>2 DEF Exhausts
  <2>3. QED
    BY <2>1, <2>2
<1>15. \A c \in Range(u) : c \in G /\ ~HasConst(c)
  BY <1>2, <1>4 DEF Range
<1>16. \A c \in Range(v) : c \in G /\ HasConst(c)
  BY <1>10 DEF Range
<1>17. Ordered(InTurn(G), u \o v)
  <2>1. Ordered(InTurn(G), u)
    <3>1. \A x \in DOMAIN u : u[x] \in Range(u)
      BY DEF Range
    <3>2. \A x, y \in DOMAIN u : x < y => AsSet(u[x]) # AsSet(u[y])
      BY <1>2 DEF Ordered, Apart
    <3>3. QED
      BY <1>15, <3>1, <3>2 DEF Ordered, InTurn
  <2>2. Ordered(InTurn(G), v)
    <3>1. \A x \in DOMAIN v : v[x] \in Range(v)
      BY DEF Range
    <3>2. \A x, y \in DOMAIN v : x < y => AsSet(v[x]) # AsSet(v[y])
      BY <1>10 DEF Ordered, Apart
    <3>3. QED
      BY <1>16, <3>1, <3>2 DEF Ordered, InTurn
  <2>3. Range(u) \X Range(v) \subseteq InTurn(G)
    <3>1. ASSUME NEW c \in Range(u), NEW d \in Range(v) PROVE <<c, d>> \in InTurn(G)
      <4>1. c \in G /\ ~HasConst(c) /\ d \in G /\ HasConst(d)
        BY <1>15, <1>16
      <4>2. AsSet(c) # AsSet(d)
        BY <4>1, SameClauseVars
      <4>3. QED
        BY <4>1, <4>2 DEF InTurn
    <3>2. QED
      BY <3>1
  <2>4. QED
    BY <1>11, <2>1, <2>2, <2>3, ConcatOrder
<1>18. QED
  BY <1>1, <1>12, <1>14, <1>17 DEF G, Exhausts

(* Parts in order, each with every clause of its set.                      *)
LEMMA FlattenedParts ==
  ASSUME NEW m \in Int, NEW F, NEW R, NEW seqs, DOMAIN seqs = 1 .. m, seqs = [j \in 1 .. m |-> seqs[j]],
         \A j \in 1 .. m : seqs[j] \in Seq(F[j]) /\ Exhausts(seqs[j], F[j]) /\ Ordered(R, seqs[j]),
         \A i, j \in 1 .. m : i < j => F[i] \X F[j] \subseteq R
  PROVE  LET G == UNION {F[j] : j \in 1 .. m}
             u == FlattenSeq(seqs)
         IN u \in Seq(G) /\ Exhausts(u, G) /\ Ordered(R, u)
<1> DEFINE G == UNION {F[j] : j \in 1 .. m}
           u == FlattenSeq(seqs)
<1>1. \A j \in 1 .. m : F[j] \subseteq G
  OBVIOUS
<1>2. \A d \in G : \E j \in 1 .. m : d \in F[j]
  OBVIOUS
<1> HIDE DEF G
<1>3. \A j \in 1 .. m : seqs[j] \in Seq(G)
  BY <1>1, SeqMonotonic
<1>4. seqs \in [1 .. m -> Seq(G)]
  BY <1>3
<1>5. seqs \in Seq(Seq(G))
  BY <1>4, RangedIsSeq
<1>6. u \in Seq(G)
  BY <1>5, FlattenedSeq
<1>7. \A j \in DOMAIN seqs : Range(seqs[j]) \subseteq Range(u)
  BY <1>5, FlattenedRange
<1>8. \A j \in 1 .. m : Range(seqs[j]) \subseteq F[j]
  BY DEF Range
<1>9. Ordered(R, u)
  <2>1. \A j \in DOMAIN seqs : Ordered(R, seqs[j])
    OBVIOUS
  <2>2. \A i, j \in DOMAIN seqs : i < j => Range(seqs[i]) \X Range(seqs[j]) \subseteq R
    <3>1. ASSUME NEW i \in 1 .. m, NEW j \in 1 .. m, i < j PROVE Range(seqs[i]) \X Range(seqs[j]) \subseteq R
      <4>1. F[i] \X F[j] \subseteq R /\ Range(seqs[i]) \subseteq F[i] /\ Range(seqs[j]) \subseteq F[j]
        BY <1>8, <3>1
      <4>2. QED
        BY <4>1
    <3>2. QED
      BY <3>1
  <2>3. QED
    BY <1>5, <2>1, <2>2, FlattenedOrder
<1> HIDE DEF u
<1>10. Exhausts(u, G)
  <2>1. ASSUME NEW d \in G PROVE \E c \in Range(u) : AsSet(c) = AsSet(d)
    <3>1. PICK j \in 1 .. m : d \in F[j]
      BY <1>2
    <3>2. PICK c \in Range(seqs[j]) : AsSet(c) = AsSet(d)
      BY <3>1 DEF Exhausts
    <3>3. QED
      BY <1>7, <3>2
  <2>2. QED
    BY <2>1 DEF Exhausts
<1>11. QED
  BY <1>6, <1>9, <1>10 DEF G, u

LEMMA SizedIs ==
  ASSUME NEW b \in Biases, NEW p \in Range(b.heads), NEW n \in 0 .. b.maxVars, NEW k \in Nat,
         NEW c \in Sized(b, p, n, k)
  PROVE  /\ c.head = HeadAtom(p)
         /\ c.body \in Injectives(k, AtomsOf(b, n, b.constants))
         /\ c = [head |-> c.head, body |-> c.body]
         /\ Len(c.body) = k
         /\ Cardinality(Range(c.body)) = k
         /\ Keep(b, c, n)
         /\ ClauseVars(c) = Range(VarPool(n))
         /\ IsFiniteSet(ClauseVars(c)) /\ Cardinality(ClauseVars(c)) = n
<1>1. c \in ClausesOver(b, p, n, k, b.constants) /\ Keep(b, c, n)
  BY DEF Sized, KeptOver
<1>2. /\ c.head = HeadAtom(p)
      /\ c.body \in Injectives(k, AtomsOf(b, n, b.constants))
      /\ c = [head |-> c.head, body |-> c.body]
      /\ Len(c.body) = k
  BY <1>1, ClauseOverIs
<1>3. Cardinality(Range(c.body)) = k
  BY <1>2, RangeOfInjective DEF Injectives
<1>4. ClauseVars(c) = Range(VarPool(n))
  BY <1>1 DEF Keep, UsesExactly
<1>5. IsFiniteSet(Range(VarPool(n))) /\ Cardinality(Range(VarPool(n))) = n
  <2>1. VarPool(n) \in Tuples(n, VarTerms(b)) /\ IsInjective(VarPool(n)) /\ n \in Nat
    <3>1. VarPool(n) \in Seq(VarTerms(b)) /\ IsInjective(VarPool(n)) /\ n \in Nat
      BY PoolIs, BiasAssumption
    <3>2. VarPool(n) = [k_1 \in 1 .. n |-> VarPool(n)[k_1]] /\ DOMAIN VarPool(n) = 1 .. n
      BY DEF VarPool
    <3>3. VarPool(n) \in [1 .. n -> VarTerms(b)]
      BY <3>1, <3>2
    <3>4. QED
      BY <3>1, <3>3 DEF Tuples
  <2>2. QED
    BY <2>1, RangeOfInjective
<1>6. QED
  BY <1>1, <1>2, <1>3, <1>4, <1>5

(* The clauses of a bias, as the order of the enumerator has them.         *)
Single(c) == <<c>>

Later(b, c, d) ==
  /\ AsSet(c) # AsSet(d)
  /\ Len(b.heads) = 1 => ~Below(Complexity(Single(d)), Complexity(Single(c)))

LEMMA SimplerFirst ==
  ASSUME NEW c, NEW d,
         NEW k \in Nat, NEW n \in Nat, NEW i \in Nat, NEW m \in Nat,
         Len(c.body) = k, Cardinality(ClauseVars(c)) = n,
         Len(d.body) = i, Cardinality(ClauseVars(d)) = m,
         \/ k < i
         \/ k = i /\ n < m
         \/ k = i /\ n = m /\ (HasConst(c) => HasConst(d))
  PROVE  ~Below(Complexity(Single(d)), Complexity(Single(c)))
<1> DEFINE x == IF HasConst(c) THEN 1 ELSE 0
           y == IF HasConst(d) THEN 1 ELSE 0
<1>1. Complexity(Single(c)) = <<1, k, n, x>>
  BY DEF Complexity, Single
<1>2. Complexity(Single(d)) = <<1, i, m, y>>
  BY DEF Complexity, Single
<1>3. x \in Nat /\ y \in Nat /\ ((HasConst(c) => HasConst(d)) => x <= y)
  OBVIOUS
<1> HIDE DEF x, y
<1> DEFINE s == <<1, i, m, y>>
           t == <<1, k, n, x>>
<1>4. /\ DOMAIN s = 1 .. 4 /\ s[1] = 1 /\ s[2] = i /\ s[3] = m /\ s[4] = y
      /\ t[1] = 1 /\ t[2] = k /\ t[3] = n /\ t[4] = x
  OBVIOUS
<1> HIDE DEF s, t
<1>5. ASSUME NEW j \in 1 .. 4, s[j] < t[j], \A l \in 1 .. j - 1 : s[l] = t[l] PROVE FALSE
  <2>1. CASE j = 1
    BY <1>4, <1>5, <2>1
  <2>2. CASE j = 2
    BY <1>4, <1>5, <2>2
  <2>3. CASE j = 3
    <3>1. 2 \in 1 .. j - 1
      BY <2>3
    <3>2. i = k
      BY <1>4, <1>5, <3>1
    <3>3. QED
      BY <1>4, <1>5, <2>3, <3>2
  <2>4. CASE j = 4
    <3>1. 2 \in 1 .. j - 1 /\ 3 \in 1 .. j - 1
      BY <2>4
    <3>2. i = k /\ m = n
      BY <1>4, <1>5, <3>1
    <3>3. QED
      BY <1>3, <1>4, <1>5, <2>4, <3>2
  <2>5. QED
    BY <2>1, <2>2, <2>3, <2>4
<1>6. ~Below(s, t)
  BY <1>4, <1>5 DEF Below
<1>7. QED
  BY <1>1, <1>2, <1>6 DEF s, t

LEMMA SizesDiffer ==
  ASSUME NEW b \in Biases,
         NEW p \in Range(b.heads), NEW n \in 0 .. b.maxVars, NEW k \in Nat, NEW c \in Sized(b, p, n, k),
         NEW q \in Range(b.heads), NEW m \in 0 .. b.maxVars, NEW i \in Nat, NEW d \in Sized(b, q, m, i)
  PROVE  /\ k < i => Later(b, c, d)
         /\ k = i /\ n < m => Later(b, c, d)
         /\ k = i /\ n = m /\ <<c, d>> \in InTurn(Sized(b, p, n, k)) => Later(b, c, d)
<1>1. n \in Nat /\ m \in Nat
  BY BiasAssumption
<1>2. /\ c.head = HeadAtom(p) /\ Len(c.body) = k /\ Cardinality(Range(c.body)) = k
      /\ Cardinality(ClauseVars(c)) = n
  BY SizedIs
<1>3. /\ d.head = HeadAtom(q) /\ Len(d.body) = i /\ Cardinality(Range(d.body)) = i
      /\ Cardinality(ClauseVars(d)) = m
  BY SizedIs
<1>4. k # i \/ n # m \/ p.name # q.name => AsSet(c) # AsSet(d)
  <2>1. ASSUME AsSet(c) = AsSet(d) PROVE k = i /\ n = m /\ p.name = q.name
    <3>1. Range(c.body) = Range(d.body) /\ c.head = d.head
      BY <2>1 DEF AsSet
    <3>2. ClauseVars(c) = ClauseVars(d)
      BY <2>1, SameClauseVars
    <3>3. p.name = q.name
      BY <1>2, <1>3, <3>1 DEF HeadAtom
    <3>4. QED
      BY <1>2, <1>3, <3>1, <3>2, <3>3
  <2>2. QED
    BY <2>1
<1>5. (k < i \/ (k = i /\ n < m) \/ (k = i /\ n = m /\ (HasConst(c) => HasConst(d))))
        => ~Below(Complexity(Single(d)), Complexity(Single(c)))
  BY <1>1, <1>2, <1>3, SimplerFirst
<1>6. QED
  BY <1>1, <1>4, <1>5 DEF Later, InTurn

(* The clauses of a head and a length, of a length, and all of them.       *)
OfHead(b, p, k) == UNION {Sized(b, p, n, k) : n \in p.arity .. b.maxVars}

OfLength(b, k) == UNION {OfHead(b, p, k) : p \in Range(b.heads)}

Kept(b) == UNION {OfLength(b, k) : k \in 0 .. b.maxBody}

InOrderOf(b, S) == {q \in S \X S : Later(b, q[1], q[2])}

LEMMA HeadsAre ==
  ASSUME NEW b \in Biases
  PROVE  /\ b.maxBody \in Nat /\ b.maxVars \in Nat
         /\ Len(b.heads) \in Nat /\ DOMAIN b.heads = 1 .. Len(b.heads)
         /\ \A h \in DOMAIN b.heads : b.heads[h] \in Range(b.heads) /\ b.heads[h].arity \in Nat
         /\ \A h, i \in DOMAIN b.heads : b.heads[h].name = b.heads[i].name => h = i
<1>1. /\ b.maxBody \in Nat /\ b.maxVars \in Nat
      /\ b.heads \in Seq(Range(b.heads))
      /\ \A p \in Range(b.heads) : p.arity \in Nat
      /\ \A h, i \in DOMAIN b.heads : b.heads[h].name = b.heads[i].name => h = i
  BY BiasAssumption
<1>2. \A h \in DOMAIN b.heads : b.heads[h] \in Range(b.heads)
  BY DEF Range
<1>3. QED
  BY <1>1, <1>2

LEMMA OfHeadIs ==
  ASSUME NEW b \in Biases, NEW p \in Range(b.heads), NEW k \in 0 .. b.maxBody
  PROVE  LET s == FlattenSeq([n \in 1 .. b.maxVars + 1 - p.arity |-> OfSize(b, p, p.arity + n - 1, k)])
         IN /\ s \in Seq(OfHead(b, p, k))
            /\ Exhausts(s, OfHead(b, p, k))
            /\ Ordered(InOrderOf(b, Kept(b)), s)
<1> DEFINE a == p.arity
           w == b.maxVars + 1 - a
           R == InOrderOf(b, Kept(b))
           F == [n \in 1 .. w |-> Sized(b, p, a + n - 1, k)]
           seqs == [n \in 1 .. w |-> OfSize(b, p, a + n - 1, k)]
           u == FlattenSeq(seqs)
<1>1. a \in Nat /\ b.maxVars \in Nat /\ b.maxBody \in Nat
  BY BiasAssumption
<1>2. OfHead(b, p, k) = UNION {Sized(b, p, n, k) : n \in a .. b.maxVars}
  BY DEF OfHead
<1>3. OfHead(b, p, k) \subseteq Kept(b)
  BY DEF Kept, OfLength
<1>0. FlattenSeq([n \in 1 .. b.maxVars + 1 - p.arity |-> OfSize(b, p, p.arity + n - 1, k)]) = u
  OBVIOUS
<1> HIDE DEF a
<1>4. w \in Int /\ \A n \in 1 .. w : a + n - 1 \in a .. b.maxVars /\ a + n - 1 \in 0 .. b.maxVars
  BY <1>1
<1>5. \A n \in a .. b.maxVars : n - a + 1 \in 1 .. w /\ a + (n - a + 1) - 1 = n
  BY <1>1
<1>6. k \in Nat
  BY <1>1
<1> HIDE DEF w, R
<1>7. ASSUME NEW n \in 1 .. w
      PROVE  F[n] \subseteq Kept(b) /\ seqs[n] \in Seq(F[n]) /\ Exhausts(seqs[n], F[n]) /\ Ordered(R, seqs[n])
  <2> DEFINE m == a + n - 1
             s == OfSize(b, p, m, k)
             G == Sized(b, p, m, k)
  <2>1. m \in a .. b.maxVars /\ m \in 0 .. b.maxVars
    BY <1>4
  <2>2. F[n] = G /\ seqs[n] = s
    OBVIOUS
  <2> HIDE DEF m, F, seqs
  <2>3. s \in Seq(G)
    BY <1>6, <2>1, OfSizeIs
  <2>4. Exhausts(s, G)
    BY <1>6, <2>1, OfSizeIs
  <2>5. Ordered(InTurn(G), s)
    BY <1>6, <2>1, OfSizeIs
  <2>6. G \subseteq Kept(b)
    BY <1>2, <1>3, <2>1
  <2>7. \A q \in InTurn(G) : q \in R
    <3>1. ASSUME NEW c \in G, NEW d \in G, <<c, d>> \in InTurn(G) PROVE <<c, d>> \in R
      <4>1. Later(b, c, d)
        BY <1>6, <2>1, <3>1, SizesDiffer
      <4>2. QED
        BY <2>6, <4>1 DEF InOrderOf, R
    <3> HIDE DEF G
    <3>2. QED
      BY <3>1 DEF InTurn
  <2> HIDE DEF s, G
  <2>8. Ordered(R, s)
    BY <2>5, <2>7 DEF Ordered
  <2>9. QED
    BY <2>2, <2>3, <2>4, <2>6, <2>8
<1>8. ASSUME NEW i \in 1 .. w, NEW j \in 1 .. w, i < j PROVE F[i] \X F[j] \subseteq R
  <2>1. ASSUME NEW c \in F[i], NEW d \in F[j] PROVE <<c, d>> \in R
    <3> DEFINE n == a + i - 1
               m == a + j - 1
    <3>1. n \in 0 .. b.maxVars /\ m \in 0 .. b.maxVars
      BY <1>4
    <3>2. n < m
      BY <1>1, <1>8
    <3>3. c \in Sized(b, p, n, k) /\ d \in Sized(b, p, m, k)
      BY <2>1
    <3>4. c \in Kept(b) /\ d \in Kept(b)
      BY <1>7
    <3> HIDE DEF n, m
    <3>5. Later(b, c, d)
      BY <1>6, <3>1, <3>2, <3>3, SizesDiffer
    <3>6. QED
      BY <3>4, <3>5 DEF R, InOrderOf
  <2>2. QED
    BY <2>1
<1>9. OfHead(b, p, k) = UNION {F[j] : j \in 1 .. w}
  <2>1. \A n \in 1 .. w : F[n] = Sized(b, p, a + n - 1, k)
    OBVIOUS
  <2> HIDE DEF F
  <2>2. ASSUME NEW c \in OfHead(b, p, k) PROVE c \in UNION {F[j] : j \in 1 .. w}
    <3>1. PICK n \in a .. b.maxVars : c \in Sized(b, p, n, k)
      BY <1>2
    <3> DEFINE j == n - a + 1
    <3>2. j \in 1 .. w /\ a + j - 1 = n
      BY <1>5
    <3> HIDE DEF j
    <3>3. c \in F[j]
      BY <2>1, <3>1, <3>2
    <3>4. QED
      BY <3>2, <3>3
  <2>3. ASSUME NEW c \in UNION {F[j] : j \in 1 .. w} PROVE c \in OfHead(b, p, k)
    <3>1. PICK j \in 1 .. w : c \in F[j]
      BY <2>3
    <3>2. QED
      BY <1>2, <1>4, <2>1, <3>1
  <2>4. QED
    BY <2>2, <2>3
<1>10. DOMAIN seqs = 1 .. w /\ seqs = [j \in 1 .. w |-> seqs[j]]
  OBVIOUS
<1> HIDE DEF F, seqs
<1>11. LET G == UNION {F[j] : j \in 1 .. w} IN u \in Seq(G) /\ Exhausts(u, G) /\ Ordered(R, u)
  BY <1>4, <1>7, <1>8, <1>10, FlattenedParts
<1> HIDE DEF u
<1>12. QED
  BY <1>0, <1>9, <1>11 DEF R

LEMMA OfLengthIs ==
  ASSUME NEW b \in Biases, NEW k \in 0 .. b.maxBody
  PROVE  LET s == FlattenSeq([h \in DOMAIN b.heads |->
                     FlattenSeq([n \in 1 .. b.maxVars + 1 - b.heads[h].arity |->
                                   OfSize(b, b.heads[h], b.heads[h].arity + n - 1, k)])])
         IN /\ s \in Seq(OfLength(b, k))
            /\ Exhausts(s, OfLength(b, k))
            /\ Ordered(InOrderOf(b, Kept(b)), s)
<1> DEFINE w == Len(b.heads)
           R == InOrderOf(b, Kept(b))
           part(p) == FlattenSeq([n \in 1 .. b.maxVars + 1 - p.arity |-> OfSize(b, p, p.arity + n - 1, k)])
           F == [h \in 1 .. w |-> OfHead(b, b.heads[h], k)]
           seqs == [h \in 1 .. w |-> part(b.heads[h])]
           u == FlattenSeq(seqs)
<1>1. /\ b.maxBody \in Nat /\ b.maxVars \in Nat
      /\ w \in Nat /\ DOMAIN b.heads = 1 .. w
      /\ \A h \in DOMAIN b.heads : b.heads[h] \in Range(b.heads) /\ b.heads[h].arity \in Nat
      /\ \A h, i \in DOMAIN b.heads : b.heads[h].name = b.heads[i].name => h = i
  BY HeadsAre
<1>2. FlattenSeq([h \in DOMAIN b.heads |->
        FlattenSeq([n \in 1 .. b.maxVars + 1 - b.heads[h].arity |->
                      OfSize(b, b.heads[h], b.heads[h].arity + n - 1, k)])]) = u
  BY <1>1
<1>3. k \in Nat
  BY <1>1
<1> HIDE DEF R
<1>4. ASSUME NEW p \in Range(b.heads)
      PROVE  /\ part(p) \in Seq(OfHead(b, p, k))
             /\ Exhausts(part(p), OfHead(b, p, k))
             /\ Ordered(R, part(p))
  <2>1. part(p) \in Seq(OfHead(b, p, k))
    BY OfHeadIs
  <2>2. Exhausts(part(p), OfHead(b, p, k))
    BY OfHeadIs
  <2>3. Ordered(R, part(p))
    BY OfHeadIs DEF R
  <2> HIDE DEF part
  <2>4. QED
    BY <2>1, <2>2, <2>3
<1> HIDE DEF part
<1>5. \A j \in 1 .. w : seqs[j] \in Seq(F[j]) /\ Exhausts(seqs[j], F[j]) /\ Ordered(R, seqs[j])
  BY <1>1, <1>4
<1>6. \A p \in Range(b.heads) : OfHead(b, p, k) \subseteq Kept(b)
  BY DEF Kept, OfLength
<1>7. ASSUME NEW i \in 1 .. w, NEW j \in 1 .. w, i < j PROVE F[i] \X F[j] \subseteq R
  <2> DEFINE p == b.heads[i]
             q == b.heads[j]
  <2>1. p \in Range(b.heads) /\ q \in Range(b.heads) /\ p.arity \in Nat /\ q.arity \in Nat
    BY <1>1
  <2>2. p.name # q.name
    BY <1>1, <1>7
  <2>3. Len(b.heads) # 1
    BY <1>1, <1>7
  <2>4. F[i] = OfHead(b, p, k) /\ F[j] = OfHead(b, q, k)
    OBVIOUS
  <2> HIDE DEF p, q
  <2>5. ASSUME NEW c \in OfHead(b, p, k), NEW d \in OfHead(b, q, k) PROVE <<c, d>> \in R
    <3>1. PICK n \in p.arity .. b.maxVars : c \in Sized(b, p, n, k)
      BY DEF OfHead
    <3>2. PICK m \in q.arity .. b.maxVars : d \in Sized(b, q, m, k)
      BY DEF OfHead
    <3>3. n \in 0 .. b.maxVars /\ m \in 0 .. b.maxVars
      BY <1>1, <2>1
    <3>4. AsSet(c) # AsSet(d)
      <4>1. c.head = HeadAtom(p)
        BY <1>3, <2>1, <3>1, <3>3, SizedIs
      <4>2. d.head = HeadAtom(q)
        BY <1>3, <2>1, <3>2, <3>3, SizedIs
      <4>3. HeadAtom(p) # HeadAtom(q)
        BY <2>2 DEF HeadAtom
      <4>4. QED
        BY <4>1, <4>2, <4>3 DEF AsSet
    <3>5. c \in Kept(b) /\ d \in Kept(b)
      BY <1>6, <2>1
    <3>6. QED
      BY <2>3, <3>4, <3>5 DEF R, InOrderOf, Later
  <2>6. QED
    BY <2>4, <2>5
<1>8. OfLength(b, k) = UNION {F[j] : j \in 1 .. w}
  <2>1. Range(b.heads) = {b.heads[j] : j \in 1 .. w}
    BY <1>1 DEF Range
  <2>2. QED
    BY <2>1 DEF OfLength
<1>9. DOMAIN seqs = 1 .. w /\ seqs = [j \in 1 .. w |-> seqs[j]]
  OBVIOUS
<1> HIDE DEF F, seqs, w
<1>10. w \in Int
  BY <1>1
<1>11. LET G == UNION {F[j] : j \in 1 .. w} IN u \in Seq(G) /\ Exhausts(u, G) /\ Ordered(R, u)
  BY <1>5, <1>7, <1>9, <1>10, FlattenedParts
<1> HIDE DEF u
<1>12. QED
  BY <1>2, <1>8, <1>11 DEF R

LEMMA EnumeratedIs ==
  ASSUME NEW b \in Biases
  PROVE  /\ EnumerateClauses(b) \in Seq(Kept(b))
         /\ Exhausts(EnumerateClauses(b), Kept(b))
         /\ Ordered(InOrderOf(b, Kept(b)), EnumerateClauses(b))
<1> DEFINE w == b.maxBody + 1
           R == InOrderOf(b, Kept(b))
           part(k) == FlattenSeq([h \in DOMAIN b.heads |->
                        FlattenSeq([n \in 1 .. b.maxVars + 1 - b.heads[h].arity |->
                                      OfSize(b, b.heads[h], b.heads[h].arity + n - 1, k)])])
           F == [j \in 1 .. w |-> OfLength(b, j - 1)]
           seqs == [j \in 1 .. w |-> part(j - 1)]
           u == FlattenSeq(seqs)
<1>1. EnumerateClauses(b) = u
  BY DEF EnumerateClauses
<1>2. b.maxBody \in Nat /\ b.maxVars \in Nat /\ \A p \in Range(b.heads) : p.arity \in Nat
  BY BiasAssumption
<1>3. w \in Int /\ (\A j \in 1 .. w : j - 1 \in 0 .. b.maxBody) /\ \A k \in 0 .. b.maxBody : k + 1 \in 1 .. w /\ (k + 1) - 1 = k
  BY <1>2
<1> HIDE DEF R
<1>4. ASSUME NEW k \in 0 .. b.maxBody
      PROVE  part(k) \in Seq(OfLength(b, k)) /\ Exhausts(part(k), OfLength(b, k)) /\ Ordered(R, part(k))
  <2>1. part(k) \in Seq(OfLength(b, k))
    BY OfLengthIs
  <2>2. Exhausts(part(k), OfLength(b, k))
    BY OfLengthIs
  <2>3. Ordered(R, part(k))
    BY OfLengthIs DEF R
  <2> HIDE DEF part
  <2>4. QED
    BY <2>1, <2>2, <2>3
<1> HIDE DEF part, w
<1>5. \A j \in 1 .. w : seqs[j] \in Seq(F[j]) /\ Exhausts(seqs[j], F[j]) /\ Ordered(R, seqs[j])
  BY <1>3, <1>4
<1>6. \A k \in 0 .. b.maxBody : OfLength(b, k) \subseteq Kept(b)
  BY DEF Kept
<1>7. ASSUME NEW i \in 1 .. w, NEW j \in 1 .. w, i < j PROVE F[i] \X F[j] \subseteq R
  <2> DEFINE k == i - 1
             l == j - 1
  <2>1. k \in 0 .. b.maxBody /\ l \in 0 .. b.maxBody /\ k < l /\ k \in Nat /\ l \in Nat
    BY <1>2, <1>3, <1>7
  <2>2. F[i] = OfLength(b, k) /\ F[j] = OfLength(b, l)
    OBVIOUS
  <2> HIDE DEF k, l
  <2>3. ASSUME NEW c \in OfLength(b, k), NEW d \in OfLength(b, l) PROVE <<c, d>> \in R
    <3>1. PICK p \in Range(b.heads) : c \in OfHead(b, p, k)
      BY DEF OfLength
    <3>2. PICK n \in p.arity .. b.maxVars : c \in Sized(b, p, n, k)
      BY <3>1 DEF OfHead
    <3>3. PICK q \in Range(b.heads) : d \in OfHead(b, q, l)
      BY DEF OfLength
    <3>4. PICK m \in q.arity .. b.maxVars : d \in Sized(b, q, m, l)
      BY <3>3 DEF OfHead
    <3>5. n \in 0 .. b.maxVars /\ m \in 0 .. b.maxVars
      BY <1>2
    <3>6. Later(b, c, d)
      BY <2>1, <3>2, <3>4, <3>5, SizesDiffer
    <3>7. c \in Kept(b) /\ d \in Kept(b)
      BY <1>6, <2>1
    <3>8. QED
      BY <3>6, <3>7 DEF R, InOrderOf
  <2>4. QED
    BY <2>2, <2>3
<1>8. Kept(b) = UNION {F[j] : j \in 1 .. w}
  <2>1. \A j \in 1 .. w : F[j] = OfLength(b, j - 1)
    OBVIOUS
  <2> HIDE DEF F
  <2>2. ASSUME NEW c \in Kept(b) PROVE c \in UNION {F[j] : j \in 1 .. w}
    <3>1. PICK k \in 0 .. b.maxBody : c \in OfLength(b, k)
      BY DEF Kept
    <3>2. c \in F[k + 1] /\ k + 1 \in 1 .. w
      BY <1>3, <2>1, <3>1
    <3>3. QED
      BY <3>2
  <2>3. ASSUME NEW c \in UNION {F[j] : j \in 1 .. w} PROVE c \in Kept(b)
    BY <1>3, <1>6, <2>1, <2>3
  <2>4. QED
    BY <2>2, <2>3
<1>9. DOMAIN seqs = 1 .. w /\ seqs = [j \in 1 .. w |-> seqs[j]]
  OBVIOUS
<1> HIDE DEF F, seqs
<1>10. LET G == UNION {F[j] : j \in 1 .. w} IN u \in Seq(G) /\ Exhausts(u, G) /\ Ordered(R, u)
  BY <1>3, <1>5, <1>7, <1>9, FlattenedParts
<1> HIDE DEF u
<1>11. QED
  BY <1>1, <1>8, <1>10 DEF R

LEMMA KeptFacts ==
  ASSUME NEW b \in Biases, NEW c \in Kept(b)
  PROVE  \E p \in Range(b.heads), n \in 0 .. b.maxVars, k \in 0 .. b.maxBody :
           p.arity <= n /\ c \in Sized(b, p, n, k)
<1>1. PICK k \in 0 .. b.maxBody : c \in OfLength(b, k)
  BY DEF Kept
<1>2. PICK p \in Range(b.heads) : c \in OfHead(b, p, k)
  BY <1>1 DEF OfLength
<1>3. PICK n \in p.arity .. b.maxVars : c \in Sized(b, p, n, k)
  BY <1>2 DEF OfHead
<1>4. p.arity \in Nat /\ b.maxVars \in Nat
  BY BiasAssumption
<1>5. n \in 0 .. b.maxVars /\ p.arity <= n
  BY <1>4
<1>6. QED
  BY <1>3, <1>5

LEMMA AtomsAreBodyAtoms ==
  ASSUME NEW b \in Biases, NEW n, NEW cs
  PROVE  AtomsOf(b, n, cs) \subseteq BodyAtoms(b)
<1> DEFINE T == VarTerms(b) \cup ConstTerms(b)
<1>1. BodyAtoms(b) = UNION {{[predicate |-> p.name, args |-> as] : as \in [1 .. p.arity -> T]} : p \in BodyPreds(b)}
  BY DEF BodyAtoms, BodyPreds, VarTerms, ConstTerms
<1>2. SUFFICES ASSUME NEW a \in AtomsOf(b, n, cs) PROVE a \in BodyAtoms(b)
  OBVIOUS
<1>3. PICK p \in BodyPreds(b) : \E args \in ArgsOf(b, p, n, cs) : a = [predicate |-> p.name, args |-> args]
  BY AtomOfIs
<1>4. PICK args \in ArgsOf(b, p, n, cs) : a = [predicate |-> p.name, args |-> args]
  BY <1>3
<1>5. args \in [1 .. p.arity -> T]
  BY DEF ArgsOf, Tuples
<1> HIDE DEF T
<1>6. QED
  BY <1>1, <1>4, <1>5

LEMMA KeptIsClause ==
  ASSUME NEW b \in Biases, NEW c \in Kept(b)
  PROVE  IsClause(b, c)
<1>1. PICK p \in Range(b.heads), n \in 0 .. b.maxVars, k \in 0 .. b.maxBody : c \in Sized(b, p, n, k)
  BY KeptFacts
<1>2. k \in Nat
  BY BiasAssumption
<1>3. c.head = HeadAtom(p) /\ c.body \in Injectives(k, AtomsOf(b, n, b.constants))
  BY <1>1, <1>2, SizedIs
<1>4. c.body \in [1 .. k -> BodyAtoms(b)] /\ IsInjective(c.body)
  BY <1>3, AtomsAreBodyAtoms DEF Injectives, Tuples
<1>5. c.body \in Seq(BodyAtoms(b))
  BY <1>2, <1>4, FunctionIsSeq
<1>6. QED
  BY <1>3, <1>4, <1>5 DEF IsClause

(* typeConsistent of the enumerator and isTypeUnsatisfiable of the learner,*)
(* which read the declarations differently, agree.                         *)
LEMMA ConsistentIsWellTyped ==
  ASSUME NEW b \in Biases, NEW c, TypeConsistent(b, c)
  PROVE  ~IsTypeUnsatisfiable(c, b.types)
<1> SUFFICES ASSUME NEW v \in ClauseVars(c) PROVE ~(Cardinality(VarTypes(c, b.types, v)) > 1)
  BY DEF IsTypeUnsatisfiable
<1> DEFINE Ts == VarTypes(c, b.types, v)
<1>1. ASSUME NEW x \in Ts, NEW y \in Ts PROVE x = y
  <2>1. ASSUME NEW z \in Ts
        PROVE  \E a \in Atoms(c) : \E k \in DOMAIN a.args :
                 a.args[k] = v /\ z = TypeAt(b, a.predicate, k) /\ z # Untyped
    <3>1. PICK a \in {d \in Atoms(c) : d.predicate \in DOMAIN b.types} :
            z \in {b.types[a.predicate][k] :
                     k \in {n \in DOMAIN a.args \cap DOMAIN b.types[a.predicate] : a.args[n] = v}}
      BY DEF VarTypes
    <3>2. PICK k \in DOMAIN a.args \cap DOMAIN b.types[a.predicate] : a.args[k] = v /\ z = b.types[a.predicate][k]
      BY <3>1
    <3>3. z = TypeAt(b, a.predicate, k)
      BY <3>1, <3>2 DEF TypeAt
    <3>4. z # Untyped
      BY <3>1, <3>2, BiasAssumption
    <3>5. QED
      BY <3>1, <3>2, <3>3, <3>4
  <2> HIDE DEF Ts
  <2>2. PICK a \in Atoms(c) : \E k \in DOMAIN a.args :
          a.args[k] = v /\ x = TypeAt(b, a.predicate, k) /\ x # Untyped
    BY <2>1
  <2>3. PICK k \in DOMAIN a.args : a.args[k] = v /\ x = TypeAt(b, a.predicate, k) /\ x # Untyped
    BY <2>2
  <2>4. PICK d \in Atoms(c) : \E j \in DOMAIN d.args :
          d.args[j] = v /\ y = TypeAt(b, d.predicate, j) /\ y # Untyped
    BY <2>1
  <2>5. PICK j \in DOMAIN d.args : d.args[j] = v /\ y = TypeAt(b, d.predicate, j) /\ y # Untyped
    BY <2>4
  <2>6. IsVar(v)
    BY DEF ClauseVars, BodyVars, AtomVars
  <2>7. QED
    BY <2>3, <2>5, <2>6 DEF TypeConsistent
<1> HIDE DEF Ts
<1>2. CASE Ts = {}
  BY <1>2, FS_EmptySet DEF Ts
<1>3. CASE Ts # {}
  <2>1. PICK x : Ts = {x}
    BY <1>1, <1>3
  <2>2. Cardinality(Ts) = 1
    BY <2>1, FS_Singleton
  <2>3. QED
    BY <2>2 DEF Ts
<1>4. QED
  BY <1>2, <1>3

(* Whatever the enumerator yields, a head of the bias with a body of       *)
(* different atoms, well typed by the learner's own test.                  *)
THEOREM EnumeratorIsSoundHolds == EnumeratorIsSound
<1> SUFFICES ASSUME NEW b \in Biases, NEW n \in DOMAIN ClausesOf[b]
             PROVE  IsClause(b, ClausesOf[b][n]) /\ ~IsTypeUnsatisfiable(ClausesOf[b][n], b.types)
  BY DEF EnumeratorIsSound
<1> DEFINE cs == EnumerateClauses(b)
           c  == cs[n]
<1>1. ClausesOf[b] = cs
  BY DEF ClausesOf
<1>2. cs \in Seq(Kept(b))
  BY EnumeratedIs
<1> HIDE DEF cs
<1>3. n \in DOMAIN cs /\ c \in Kept(b)
  BY <1>1, <1>2
<1> HIDE DEF c
<1>4. IsClause(b, c)
  BY <1>3, KeptIsClause
<1>5. PICK p \in Range(b.heads), m \in 0 .. b.maxVars, k \in 0 .. b.maxBody : c \in Sized(b, p, m, k)
  BY <1>3, KeptFacts
<1>6. Keep(b, c, m)
  <2>1. k \in Nat
    BY BiasAssumption
  <2>2. QED
    BY <1>5, <2>1, SizedIs
<1>7. ~IsTypeUnsatisfiable(c, b.types)
  BY <1>6, ConsistentIsWellTyped DEF Keep
<1>8. QED
  BY <1>1, <1>4, <1>7 DEF c

---------------------------------------------------------------------------
(* The programs.                                                           *)

LEMMA FlattenedOne ==
  ASSUME NEW S, NEW seqs \in Seq(Seq(S)), Len(seqs) = 1
  PROVE  FlattenSeq(seqs) = seqs[1]
<1>1. PICK f : Flattening(f, seqs, S) /\ FlattenSeq(seqs) = f[Len(seqs)]
  BY Flattens
<1>2. f[0] = <<>> /\ (\A i \in 1 .. 1 : f[i] = f[i - 1] \o seqs[i]) /\ FlattenSeq(seqs) = f[1]
  BY <1>1 DEF Flattening
<1>3. f[1] = <<>> \o seqs[1]
  <2>1. 1 \in 1 .. 1 /\ 1 - 1 = 0
    OBVIOUS
  <2>2. f[1] = f[0] \o seqs[1]
    BY <1>2, <2>1
  <2>3. QED
    BY <1>2, <2>2
<1>4. seqs[1] \in Seq(S)
  OBVIOUS
<1>5. QED
  BY <1>2, <1>3, <1>4, ConcatEmptySeq

LEMMA CombinationsOfOne ==
  ASSUME NEW X, NEW s \in Seq(X)
  PROVE  /\ DOMAIN Combinations(s, 1) = DOMAIN s
         /\ \A j \in DOMAIN s : Combinations(s, 1)[j] = <<s[j]>>
<1> DEFINE n == Len(s)
           ps == Positions(n, 1)
           acc == <<<<>>>>
           t == [i \in 1 .. n |-> Append(<<>>, i)]
<1>1. n \in Nat /\ DOMAIN s = 1 .. n
  OBVIOUS
<1> HIDE DEF n
<1>2. ps = Longer(n, acc)
  <2>1. PICK f : f[0] = acc /\ (\A i \in 1 .. 1 : f[i] = Longer(n, f[i - 1])) /\ ps = f[1]
    <3>1. 1 \in Nat
      OBVIOUS
    <3>2. \E f : /\ f[0] = <<<<>>>>
                /\ \A i \in 1 .. 1 : f[i] = Longer(n, f[i - 1])
                /\ Positions(n, 1) = f[1]
      BY <1>1, <3>1, PositionsAre
    <3>3. QED
      BY <3>2
  <2>2. 1 \in 1 .. 1 /\ 1 - 1 = 0
    OBVIOUS
  <2>3. QED
    BY <2>1, <2>2
<1> DEFINE first(a) == (IF a = <<>> THEN 0 ELSE Last(a)) + 1
           row(a) == [i \in 1 .. n + 1 - first(a) |-> Append(a, first(a) + i - 1)]
           rows == [j \in DOMAIN acc |-> row(acc[j])]
<1>3. Longer(n, acc) = FlattenSeq(rows)
  BY DEF Longer
<1>4. row(<<>>) = t
  <2>1. first(<<>>) = 1
    OBVIOUS
  <2> HIDE DEF first
  <2>2. n + 1 - first(<<>>) = n /\ \A i \in 1 .. n : first(<<>>) + i - 1 = i
    BY <1>1, <2>1
  <2>3. QED
    BY <2>2
<1> HIDE DEF row
<1>5. DOMAIN rows = 1 .. 1 /\ rows[1] = row(<<>>) /\ rows = [j \in 1 .. 1 |-> rows[j]]
  OBVIOUS
<1>6. t \in [1 .. n -> Seq(Nat)] /\ \A i \in 1 .. n : t[i] = <<i>>
  <2>1. \A i \in 1 .. n : Append(<<>>, i) = <<i>> /\ i \in Nat
    BY <1>1
  <2>2. QED
    BY <2>1
<1> HIDE DEF t, rows, acc
<1>7. t \in Seq(Seq(Nat))
  BY <1>1, <1>6, FunctionIsSeq
<1>8. rows \in [1 .. 1 -> Seq(Seq(Nat))]
  BY <1>4, <1>5, <1>7
<1>9. rows \in Seq(Seq(Seq(Nat))) /\ Len(rows) = 1
  BY <1>5, <1>8, FunctionIsSeq
<1>10. FlattenSeq(rows) = t
  BY <1>4, <1>5, <1>9, FlattenedOne
<1>11. ps = t /\ DOMAIN t = 1 .. n
  BY <1>2, <1>3, <1>6, <1>10
<1>12. Combinations(s, 1) = [j \in DOMAIN ps |-> [i \in 1 .. 1 |-> s[ps[j][i]]]]
  BY DEF Combinations, n
<1> HIDE DEF ps
<1>13. ASSUME NEW j \in 1 .. n PROVE Combinations(s, 1)[j] = <<s[j]>>
  <2>1. ps[j] = <<j>>
    BY <1>6, <1>11
  <2>2. Combinations(s, 1)[j] = [i \in 1 .. 1 |-> s[ps[j][i]]]
    BY <1>11, <1>12
  <2>3. \A i \in 1 .. 1 : s[ps[j][i]] = s[j]
    BY <2>1
  <2>4. QED
    BY <2>2, <2>3
<1>14. QED
  BY <1>1, <1>11, <1>12, <1>13

(* What the enumerator yields of clauses.                                  *)
LEMMA ClausesAre ==
  ASSUME NEW b \in Biases
  PROVE  LET cs == EnumerateClauses(b) IN
           /\ cs \in Seq(Range(cs)) /\ IsInjective(cs)
           /\ Range(cs) \subseteq Kept(b)
           /\ \A c, d \in Range(cs) : AsSet(c) = AsSet(d) => c = d
           /\ \A i, j \in DOMAIN cs : i < j => Later(b, cs[i], cs[j])
<1> DEFINE cs == EnumerateClauses(b)
<1>1. cs \in Seq(Kept(b)) /\ Ordered(InOrderOf(b, Kept(b)), cs)
  BY EnumeratedIs
<1> HIDE DEF cs
<1>2. \A i, j \in DOMAIN cs : i < j => Later(b, cs[i], cs[j])
  BY <1>1 DEF Ordered, InOrderOf
<1>3. Len(cs) \in Nat /\ DOMAIN cs = 1 .. Len(cs) /\ (\A i \in DOMAIN cs : cs[i] \in Range(cs)) /\ Range(cs) \subseteq Kept(b)
  BY <1>1 DEF Range
<1>4. \A i, j \in DOMAIN cs : AsSet(cs[i]) = AsSet(cs[j]) => i = j
  <2>1. \A i, j \in DOMAIN cs : i < j => AsSet(cs[i]) # AsSet(cs[j])
    BY <1>2 DEF Later
  <2>2. \A i, j \in DOMAIN cs : i < j \/ j < i \/ i = j
    BY <1>3
  <2>3. QED
    BY <2>1, <2>2
<1>5. IsInjective(cs)
  BY <1>4 DEF IsInjective
<1>6. \A c, d \in Range(cs) : AsSet(c) = AsSet(d) => c = d
  BY <1>4 DEF Range
<1>7. cs = [i \in 1 .. Len(cs) |-> cs[i]]
  BY <1>1, <1>3
<1>8. cs \in Seq(Range(cs))
  <2>1. cs \in [1 .. Len(cs) -> Range(cs)]
    BY <1>3, <1>7
  <2>2. QED
    BY <1>3, <2>1, FunctionIsSeq
<1>9. QED
  BY <1>2, <1>3, <1>5, <1>6, <1>8 DEF cs

ProgramsFrom(b) == UNION {Injectives(k, Range(EnumerateClauses(b))) : k \in 1 .. b.maxClauses}

Follows(b, x, y) ==
  /\ Unordered(x) # Unordered(y)
  /\ Len(b.heads) = 1 /\ Len(y) = 1 => Len(x) = 1 /\ ~Below(Complexity(y), Complexity(x))

ProgramOrder(b) == {q \in ProgramsFrom(b) \X ProgramsFrom(b) : Follows(b, q[1], q[2])}

(* Two programs of the same clauses but for the order of their bodies are  *)
(* programs of the same clauses.                                           *)
LEMMA SameUnordered ==
  ASSUME NEW S, \A c, d \in S : AsSet(c) = AsSet(d) => c = d,
         NEW x, NEW y, Range(x) \subseteq S, Range(y) \subseteq S, Unordered(x) = Unordered(y)
  PROVE  Range(x) = Range(y)
<1>1. ASSUME NEW c \in Range(x) PROVE c \in Range(y)
  <2>1. AsSet(c) \in Unordered(y)
    BY DEF Unordered
  <2>2. PICK d \in Range(y) : AsSet(c) = AsSet(d)
    BY <2>1 DEF Unordered
  <2>3. QED
    BY <2>2
<1>2. ASSUME NEW c \in Range(y) PROVE c \in Range(x)
  <2>1. AsSet(c) \in Unordered(x)
    BY DEF Unordered
  <2>2. PICK d \in Range(x) : AsSet(c) = AsSet(d)
    BY <2>1 DEF Unordered
  <2>3. QED
    BY <2>2
<1>3. QED
  BY <1>1, <1>2

LEMMA ProgramsAre ==
  ASSUME NEW b \in Biases
  PROVE  LET cs == EnumerateClauses(b)
             u  == Programs(b)
         IN /\ u \in Seq(ProgramsFrom(b))
            /\ \A k \in 1 .. b.maxClauses : \A t \in Injectives(k, Range(cs)) :
                 \E x \in Range(u) : Range(x) = Range(t)
            /\ Ordered(ProgramOrder(b), u)
<1> DEFINE cs == EnumerateClauses(b)
           w == b.maxClauses
           P == ProgramsFrom(b)
           R == ProgramOrder(b)
           F(k) == Injectives(k, Range(cs))
           seqs == [k \in 1 .. w |-> Combinations(cs, k)]
           u == FlattenSeq(seqs)
<1>1. Programs(b) = u
  BY DEF Programs
<1>2. w \in Nat
  BY BiasAssumption
<1>3. P = UNION {F(k) : k \in 1 .. w}
  BY DEF ProgramsFrom
<1>4. /\ cs \in Seq(Range(cs)) /\ IsInjective(cs)
      /\ \A c, d \in Range(cs) : AsSet(c) = AsSet(d) => c = d
      /\ \A i, j \in DOMAIN cs : i < j => Later(b, cs[i], cs[j])
  <2>1. cs \in Seq(Range(cs)) /\ IsInjective(cs)
    BY ClausesAre
  <2>2. \A c, d \in Range(cs) : AsSet(c) = AsSet(d) => c = d
    BY ClausesAre
  <2>3. \A i, j \in DOMAIN cs : i < j => Later(b, cs[i], cs[j])
    BY ClausesAre
  <2> HIDE DEF cs
  <2>4. QED
    BY <2>1, <2>2, <2>3
<1> HIDE DEF cs, w, P, R
<1>5. ASSUME NEW k \in 1 .. w
      PROVE  /\ Combinations(cs, k) \in Seq(F(k))
             /\ \A t \in F(k) : \E x \in Range(Combinations(cs, k)) : Range(x) = Range(t)
             /\ \A i, j \in DOMAIN Combinations(cs, k) :
                  Range(Combinations(cs, k)[i]) = Range(Combinations(cs, k)[j]) => i = j
  <2>0. k \in Nat /\ cs \in Seq(Range(cs)) /\ IsInjective(cs)
    BY <1>2, <1>4
  <2> DEFINE v == Combinations(cs, k)
  <2>1. /\ v \in Seq({t \in Tuples(k, Range(cs)) : IsInjective(t)})
        /\ \A t_1 \in Tuples(k, Range(cs)) : IsInjective(t_1) => \E t \in Range(v) : Range(t) = Range(t_1)
        /\ \A i, j \in DOMAIN v : Range(v[i]) = Range(v[j]) => i = j
    BY <2>0, CombinationsAre
  <2> HIDE DEF v
  <2>4. QED
    BY <2>1 DEF Injectives, v
<1>6. ASSUME NEW k \in 1 .. w, NEW x \in F(k)
      PROVE  /\ Len(x) = k /\ Range(x) \subseteq Range(cs) /\ Cardinality(Range(x)) = k
             /\ x \in P
  <2>1. k \in Nat /\ x \in Tuples(k, Range(cs)) /\ IsInjective(x)
    BY <1>2 DEF Injectives
  <2>2. x \in [1 .. k -> Range(cs)]
    BY <2>1 DEF Tuples
  <2>3. Len(x) = k
    BY <2>1, <2>2, FunctionIsSeq
  <2>4. Range(x) \subseteq Range(cs)
    BY <2>2 DEF Range
  <2>5. Cardinality(Range(x)) = k
    BY <2>1, RangeOfInjective
  <2>6. QED
    BY <1>3, <2>3, <2>4, <2>5
<1> HIDE DEF F
<1>7. \A k \in 1 .. w : F(k) \subseteq P
  BY <1>6
<1>8. seqs \in [1 .. w -> Seq(P)]
  <2>1. \A k \in 1 .. w : Combinations(cs, k) \in Seq(P)
    BY <1>5, <1>7, SeqMonotonic
  <2>2. QED
    BY <2>1
<1>9. \A k \in 1 .. w : seqs[k] = Combinations(cs, k)
  OBVIOUS
<1>10. DOMAIN seqs = 1 .. w
  OBVIOUS
<1> HIDE DEF seqs
<1>11. seqs \in Seq(Seq(P))
  BY <1>2, <1>8, FunctionIsSeq
<1>12. u \in Seq(P)
  BY <1>11, FlattenedSeq
<1>13. \A x, y \in P : Range(x) # Range(y) /\ Range(x) \subseteq Range(cs) /\ Range(y) \subseteq Range(cs)
         => Unordered(x) # Unordered(y)
  BY <1>4, SameUnordered
<1>14. ASSUME NEW k \in 1 .. w PROVE Ordered(R, seqs[k])
  <2> DEFINE v == Combinations(cs, k)
  <2>1. /\ v \in Seq(F(k))
        /\ \A i, j \in DOMAIN v : Range(v[i]) = Range(v[j]) => i = j
    BY <1>5
  <2>2. seqs[k] = v
    BY <1>9
  <2>3. k = 1 => /\ DOMAIN v = DOMAIN cs
                 /\ \A j \in DOMAIN cs : v[j] = <<cs[j]>>
    <3>1. cs \in Seq(Range(cs))
      BY <1>4
    <3>2. QED
      BY <3>1, CombinationsOfOne
  <2> HIDE DEF v
  <2>4. DOMAIN v \subseteq Nat /\ \A i \in DOMAIN v : v[i] \in F(k)
    BY <2>1
  <2>5. ASSUME NEW i \in DOMAIN v, NEW j \in DOMAIN v, i < j PROVE <<v[i], v[j]>> \in R
    <3> DEFINE x == v[i]
               y == v[j]
    <3>1. x \in F(k) /\ y \in F(k)
      BY <2>4
    <3>2. i # j
      BY <2>4, <2>5
    <3>3. Range(x) # Range(y)
      BY <2>1, <3>2
    <3>4. k = 1 => Later(b, cs[i], cs[j]) /\ x = Single(cs[i]) /\ y = Single(cs[j])
      BY <1>4, <2>3, <2>5 DEF Single
    <3> HIDE DEF x, y
    <3>5. x \in P /\ y \in P /\ Unordered(x) # Unordered(y) /\ Len(x) = k /\ Len(y) = k
      BY <1>6, <1>13, <3>1, <3>3
    <3>6. k = 1 /\ Len(b.heads) = 1 => ~Below(Complexity(y), Complexity(x))
      BY <3>4 DEF Later
    <3>7. Follows(b, x, y)
      BY <3>5, <3>6 DEF Follows
    <3>8. QED
      BY <3>5, <3>7 DEF ProgramOrder, P, R, x, y
  <2>6. QED
    BY <2>2, <2>5 DEF Ordered
<1>15. ASSUME NEW k \in 1 .. w, NEW l \in 1 .. w, k < l PROVE Range(seqs[k]) \X Range(seqs[l]) \subseteq R
  <2>1. Range(seqs[k]) \subseteq F(k) /\ Range(seqs[l]) \subseteq F(l)
    BY <1>5, <1>9 DEF Range
  <2>2. ASSUME NEW x \in F(k), NEW y \in F(l) PROVE <<x, y>> \in R
    <3>1. x \in P /\ Len(x) = k /\ Range(x) \subseteq Range(cs) /\ Cardinality(Range(x)) = k
      BY <1>6
    <3>2. y \in P /\ Len(y) = l /\ Range(y) \subseteq Range(cs) /\ Cardinality(Range(y)) = l
      BY <1>6
    <3>3. k # l /\ l # 1
      BY <1>2, <1>15
    <3>4. Unordered(x) # Unordered(y)
      BY <1>13, <3>1, <3>2, <3>3
    <3>5. Follows(b, x, y)
      BY <3>2, <3>3, <3>4 DEF Follows
    <3>6. QED
      BY <3>1, <3>2, <3>5 DEF ProgramOrder, P, R
  <2>3. QED
    BY <2>1, <2>2
<1>16. Ordered(R, u)
  BY <1>10, <1>11, <1>14, <1>15, FlattenedOrder
<1>17. ASSUME NEW k \in 1 .. w, NEW t \in F(k) PROVE \E x \in Range(u) : Range(x) = Range(t)
  <2>1. PICK x \in Range(seqs[k]) : Range(x) = Range(t)
    BY <1>5, <1>9
  <2>2. Range(seqs[k]) \subseteq Range(u)
    BY <1>10, <1>11, FlattenedRange
  <2>3. QED
    BY <2>1, <2>2
<1> HIDE DEF u
<1>18. QED
  <2>1. \A k \in 1 .. w : \A t \in F(k) : \E x \in Range(u) : Range(x) = Range(t)
    BY <1>17
  <2>2. QED
    BY <1>1, <1>12, <1>16, <2>1 DEF P, R, F, w, cs

---------------------------------------------------------------------------
(* Orders of a body.  What an atom needs is told by the sets of variables  *)
(* it may be added to.                                                     *)

AllVars(G, E) == G \cup UNION {AtomVars(a) : a \in E}

Seen(G, t, m) == G \cup UNION {AtomVars(t[n]) : n \in 1 .. m}

Goes(t, k, G, ready) == \A m \in 1 .. k : <<t[m], Seen(G, t, m - 1)>> \in ready

(* The rounds of the enumerator.                                           *)
Filling(f, E, G, w, ready) ==
  /\ f[0] = G
  /\ \A k \in 1 .. w : f[k] = f[k - 1] \cup UNION {AtomVars(a) : a \in {x \in E : <<x, f[k - 1]>> \in ready}}

Rises(ready, Whole) ==
  \A a : \A U, W \in SUBSET Whole : <<a, U>> \in ready /\ U \subseteq W => <<a, W>> \in ready

LEMMA SeenOn ==
  ASSUME NEW G, NEW k \in Nat, NEW t, NEW u, \A n \in 1 .. k : u[n] = t[n]
  PROVE  \A m \in 0 .. k : Seen(G, u, m) = Seen(G, t, m)
<1> SUFFICES ASSUME NEW m \in 0 .. k PROVE Seen(G, u, m) = Seen(G, t, m)
  OBVIOUS
<1>1. \A n \in 1 .. m : u[n] = t[n]
  OBVIOUS
<1>2. {AtomVars(u[n]) : n \in 1 .. m} = {AtomVars(t[n]) : n \in 1 .. m}
  BY <1>1
<1>3. QED
  BY <1>2 DEF Seen

(* Where something can always be added, there is an order of all.          *)
LEMMA OrderExists ==
  ASSUME NEW E, IsFiniteSet(E), NEW G, NEW ready,
         \A k \in Nat : \A t \in Injectives(k, E) : Goes(t, k, G, ready) /\ Range(t) # E =>
           \E a \in E : a \notin Range(t) /\ <<a, Seen(G, t, k)>> \in ready
  PROVE  \E t \in Injectives(Cardinality(E), E) : Range(t) = E /\ Goes(t, Cardinality(E), G, ready)
<1> DEFINE w == Cardinality(E)
           Bad == {k \in 0 .. w : ~\E t \in Injectives(k, E) : Goes(t, k, G, ready)}
<1>1. w \in Nat
  BY FS_CardinalityType
<1>2. \A k \in Nat : \A t \in Injectives(k, E) :
        /\ t \in [1 .. k -> E] /\ IsInjective(t) /\ Range(t) \subseteq E
        /\ Cardinality(Range(t)) = k
  <2> SUFFICES ASSUME NEW k \in Nat, NEW t \in Injectives(k, E)
               PROVE  /\ t \in [1 .. k -> E] /\ IsInjective(t) /\ Range(t) \subseteq E
                      /\ Cardinality(Range(t)) = k
    OBVIOUS
  <2>1. t \in Tuples(k, E) /\ IsInjective(t)
    BY DEF Injectives
  <2>2. t \in [1 .. k -> E]
    BY <2>1 DEF Tuples
  <2>3. Range(t) \subseteq E
    BY <2>2 DEF Range
  <2>4. Cardinality(Range(t)) = k
    BY <2>1, RangeOfInjective
  <2>5. QED
    BY <2>1, <2>2, <2>3, <2>4
<1> HIDE DEF w
<1>3. ASSUME Bad # {} PROVE FALSE
  <2>1. PICK k \in Bad : \A j \in Bad : k <= j
    <3>1. Bad \in SUBSET Nat
      BY <1>1
    <3> HIDE DEF Bad
    <3>2. QED
      BY <1>3, <3>1, LeastExists
  <2>2. k \in 0 .. w /\ k \in Nat /\ ~\E t \in Injectives(k, E) : Goes(t, k, G, ready)
    BY <1>1
  <2>3. k # 0
    <3>1. ASSUME k = 0 PROVE FALSE
      <4>1. <<>> \in [1 .. 0 -> E] /\ IsInjective(<<>>)
        BY DEF IsInjective
      <4>2. <<>> \in Injectives(0, E)
        BY <4>1 DEF Injectives, Tuples
      <4>3. Goes(<<>>, 0, G, ready)
        BY DEF Goes
      <4>4. QED
        BY <2>2, <3>1, <4>2, <4>3
    <3>2. QED
      BY <3>1
  <2>4. PICK t \in Injectives(k - 1, E) : Goes(t, k - 1, G, ready)
    <3>1. k - 1 \in 0 .. w /\ ~(k <= k - 1)
      BY <1>1, <2>2, <2>3
    <3>2. k - 1 \notin Bad
      BY <2>1, <3>1
    <3>3. QED
      BY <3>1, <3>2
  <2> DEFINE l == k - 1
  <2>5. l \in Nat /\ l < w /\ k = l + 1
    BY <1>1, <2>2, <2>3
  <2>6. t \in Injectives(l, E) /\ Goes(t, l, G, ready)
    BY <2>4
  <2> HIDE DEF l, Bad
  <2>7. t \in [1 .. l -> E] /\ IsInjective(t) /\ Range(t) \subseteq E /\ Cardinality(Range(t)) = l
    BY <1>2, <2>5, <2>6
  <2>8. Range(t) # E
    BY <2>5, <2>7 DEF w
  <2>9. PICK a \in E : a \notin Range(t) /\ <<a, Seen(G, t, l)>> \in ready
    BY <2>5, <2>6, <2>8
  <2> DEFINE u == [i \in 1 .. k |-> IF i = k THEN a ELSE t[i]]
  <2>10. DOMAIN u = 1 .. k /\ u[k] = a /\ \A i \in 1 .. l : u[i] = t[i]
    BY <2>2, <2>5
  <2>11. u \in [1 .. k -> E]
    <3>1. \A i \in 1 .. k : i # k => i \in 1 .. l
      BY <2>2, <2>5
    <3>2. QED
      BY <2>7, <3>1
  <2> HIDE DEF u
  <2>12. \A i \in 1 .. k : i = k \/ i \in 1 .. l
    BY <2>2, <2>5
  <2>13. IsInjective(u)
    <3>1. \A i \in 1 .. l : t[i] # a
      BY <2>7, <2>9 DEF Range
    <3>2. \A i, j \in 1 .. l : t[i] = t[j] => i = j
      BY <2>7 DEF IsInjective
    <3>3. \A i, j \in 1 .. k : u[i] = u[j] => i = j
      BY <2>10, <2>12, <3>1, <3>2
    <3>4. QED
      BY <2>10, <3>3 DEF IsInjective
  <2>14. u \in Injectives(k, E)
    BY <2>11, <2>13 DEF Injectives, Tuples
  <2>15. \A m \in 0 .. l : Seen(G, u, m) = Seen(G, t, m)
    BY <2>5, <2>10, SeenOn
  <2>16. Goes(u, k, G, ready)
    <3> SUFFICES ASSUME NEW m \in 1 .. k PROVE <<u[m], Seen(G, u, m - 1)>> \in ready
      BY DEF Goes
    <3>1. CASE m = k
      <4>1. m - 1 = l /\ l \in 0 .. l
        BY <2>5, <3>1
      <4>2. QED
        BY <2>9, <2>10, <2>15, <3>1, <4>1
    <3>2. CASE m \in 1 .. l
      <4>1. m - 1 \in 0 .. l
        BY <2>5, <3>2
      <4>2. <<t[m], Seen(G, t, m - 1)>> \in ready
        BY <2>6, <3>2 DEF Goes
      <4>3. u[m] = t[m] /\ Seen(G, u, m - 1) = Seen(G, t, m - 1)
        BY <2>10, <2>15, <3>2, <4>1
      <4>4. QED
        BY <4>2, <4>3
    <3>3. QED
      BY <2>12, <3>1, <3>2
  <2>17. QED
    BY <2>2, <2>14, <2>16
<1>4. PICK t \in Injectives(w, E) : Goes(t, w, G, ready)
  <2>1. w \in 0 .. w
    BY <1>1
  <2>2. QED
    BY <1>3, <2>1
<1>5. Range(t) = E
  <2>1. Range(t) \subseteq E /\ Cardinality(Range(t)) = w
    BY <1>1, <1>2
  <2>2. QED
    BY <2>1, FS_Subset DEF w
<1>6. QED
  BY <1>4, <1>5 DEF w

LEMMA FillingGrows ==
  ASSUME NEW w \in Nat, NEW E, NEW G, NEW ready, NEW f, Filling(f, E, G, w, ready)
  PROVE  \A k \in 0 .. w : f[k] \subseteq f[w]
<1> DEFINE Bad == {j \in 0 .. w : ~(f[w - j] \subseteq f[w])}
<1>1. ASSUME Bad # {} PROVE FALSE
  <2>1. PICK j \in Bad : \A i \in Bad : j <= i
    <3>1. Bad \in SUBSET Nat
      OBVIOUS
    <3> HIDE DEF Bad
    <3>2. QED
      BY <1>1, <3>1, LeastExists
  <2>2. j \in 0 .. w /\ j \in Nat /\ ~(f[w - j] \subseteq f[w])
    OBVIOUS
  <2>3. j # 0
    <3>1. ASSUME j = 0 PROVE FALSE
      <4>1. w - j = w
        BY <3>1
      <4>2. QED
        BY <2>2, <4>1
    <3>2. QED
      BY <3>1
  <2>4. f[w - (j - 1)] \subseteq f[w]
    <3>1. j - 1 \in 0 .. w /\ ~(j <= j - 1)
      BY <2>2, <2>3
    <3>2. j - 1 \notin Bad
      BY <2>1, <3>1
    <3>3. QED
      BY <3>1, <3>2
  <2> DEFINE k == w - (j - 1)
  <2>5. k \in 1 .. w /\ k - 1 = w - j
    BY <2>2, <2>3
  <2> HIDE DEF k
  <2>6. f[k - 1] \subseteq f[k]
    BY <2>5 DEF Filling
  <2>7. QED
    BY <2>2, <2>4, <2>5, <2>6 DEF k
<1>2. ASSUME NEW k \in 0 .. w PROVE f[k] \subseteq f[w]
  <2>1. w - k \in 0 .. w /\ w - (w - k) = k
    OBVIOUS
  <2>2. w - k \notin Bad
    BY <1>1
  <2>3. f[w - (w - k)] \subseteq f[w]
    BY <2>1, <2>2
  <2>4. QED
    BY <2>1, <2>3
<1>3. QED
  BY <1>2

(* As many rounds as an order has atoms reach what the order reaches.      *)
LEMMA OrderFills ==
  ASSUME NEW w \in Nat, NEW E, NEW G, NEW ready, Rises(ready, AllVars(G, E)),
         NEW f \in [0 .. w -> SUBSET AllVars(G, E)], Filling(f, E, G, w, ready),
         NEW t \in [1 .. w -> E], Goes(t, w, G, ready)
  PROVE  \A m \in 1 .. w : <<t[m], f[w]>> \in ready
<1> DEFINE Whole == AllVars(G, E)
           Bad == {m \in 0 .. w : ~(Seen(G, t, m) \subseteq f[m])}
<1>1. \A m \in 0 .. w : Seen(G, t, m) \in SUBSET Whole
  BY DEF Seen, AllVars
<1> HIDE DEF Whole
<1>2. ASSUME NEW m \in 1 .. w, Seen(G, t, m - 1) \subseteq f[m - 1] PROVE <<t[m], f[m - 1]>> \in ready
  <2>1. <<t[m], Seen(G, t, m - 1)>> \in ready
    BY DEF Goes
  <2>2. m - 1 \in 0 .. w
    OBVIOUS
  <2>3. f[m - 1] \in SUBSET Whole /\ Seen(G, t, m - 1) \in SUBSET Whole
    BY <1>1, <2>2 DEF Whole
  <2>4. QED
    BY <1>2, <2>1, <2>3 DEF Rises, Whole
<1>3. ASSUME Bad # {} PROVE FALSE
  <2>1. PICK m \in Bad : \A i \in Bad : m <= i
    <3>1. Bad \in SUBSET Nat
      OBVIOUS
    <3> HIDE DEF Bad
    <3>2. QED
      BY <1>3, <3>1, LeastExists
  <2>2. m \in 0 .. w /\ m \in Nat /\ ~(Seen(G, t, m) \subseteq f[m])
    OBVIOUS
  <2>3. m # 0
    <3>1. Seen(G, t, 0) = G
      BY DEF Seen
    <3>2. f[0] = G
      BY DEF Filling
    <3>3. QED
      BY <2>2, <3>1, <3>2
  <2>4. m \in 1 .. w
    BY <2>2, <2>3
  <2>5. Seen(G, t, m - 1) \subseteq f[m - 1]
    <3>1. m - 1 \in 0 .. w /\ ~(m <= m - 1)
      BY <2>2, <2>3
    <3>2. m - 1 \notin Bad
      BY <2>1, <3>1
    <3>3. QED
      BY <3>1, <3>2
  <2>6. <<t[m], f[m - 1]>> \in ready /\ t[m] \in E
    BY <1>2, <2>4, <2>5
  <2>7. f[m] = f[m - 1] \cup UNION {AtomVars(a) : a \in {x \in E : <<x, f[m - 1]>> \in ready}}
    BY <2>4 DEF Filling
  <2>8. AtomVars(t[m]) \subseteq f[m]
    BY <2>6, <2>7
  <2>9. Seen(G, t, m) \subseteq Seen(G, t, m - 1) \cup AtomVars(t[m])
    <3>1. \A n \in 1 .. m : n = m \/ n \in 1 .. m - 1
      BY <2>2
    <3>2. QED
      BY <3>1 DEF Seen
  <2>10. QED
    BY <2>2, <2>5, <2>7, <2>8, <2>9
<1>4. ASSUME NEW m \in 1 .. w PROVE <<t[m], f[w]>> \in ready
  <2>1. m - 1 \in 0 .. w /\ w \in 0 .. w
    OBVIOUS
  <2>2. Seen(G, t, m - 1) \subseteq f[m - 1]
    BY <1>3, <2>1
  <2>3. <<t[m], f[m - 1]>> \in ready
    BY <1>2, <2>2
  <2>4. f[m - 1] \subseteq f[w]
    BY <2>1, FillingGrows
  <2>5. f[m - 1] \in SUBSET Whole /\ f[w] \in SUBSET Whole
    BY <2>1 DEF Whole
  <2>6. QED
    BY <2>3, <2>4, <2>5 DEF Rises, Whole
<1>5. QED
  BY <1>4

(* And where the rounds leave nothing out, there is an order.              *)
LEMMA FillsOrdered ==
  ASSUME NEW w \in Nat, NEW E, IsFiniteSet(E), NEW G, NEW ready, Rises(ready, AllVars(G, E)),
         NEW f \in [0 .. w -> SUBSET AllVars(G, E)], Filling(f, E, G, w, ready),
         \A a \in E : <<a, f[w]>> \in ready
  PROVE  \E t \in Injectives(Cardinality(E), E) : Range(t) = E /\ Goes(t, Cardinality(E), G, ready)
<1> DEFINE Whole == AllVars(G, E)
<1>1. ASSUME NEW k \in Nat, NEW t \in Injectives(k, E), Range(t) # E,
             \A a \in E : <<a, Seen(G, t, k)>> \in ready => a \in Range(t)
      PROVE  FALSE
  <2> DEFINE B == Seen(G, t, k)
             Bad == {j \in 0 .. w : ~(f[j] \subseteq B)}
  <2>1. t \in [1 .. k -> E]
    BY DEF Injectives, Tuples
  <2>2. B \in SUBSET Whole /\ G \subseteq B
    BY <2>1 DEF Seen, AllVars
  <2>3. \A a \in Range(t) : AtomVars(a) \subseteq B
    BY <2>1 DEF Seen, Range
  <2>4. \A a \in E : <<a, B>> \in ready => a \in Range(t)
    BY <1>1
  <2> HIDE DEF B
  <2>5. ASSUME Bad # {} PROVE FALSE
    <3>1. PICK j \in Bad : \A i \in Bad : j <= i
      <4>1. Bad \in SUBSET Nat
        OBVIOUS
      <4> HIDE DEF Bad
      <4>2. QED
        BY <2>5, <4>1, LeastExists
    <3>2. j \in 0 .. w /\ j \in Nat /\ ~(f[j] \subseteq B)
      OBVIOUS
    <3>3. j # 0
      BY <2>2, <3>2 DEF Filling
    <3>4. j \in 1 .. w /\ j - 1 \in 0 .. w
      BY <3>2, <3>3
    <3>5. f[j - 1] \subseteq B
      <4>1. ~(j <= j - 1)
        BY <3>2
      <4>2. j - 1 \notin Bad
        BY <3>1, <4>1
      <4>3. QED
        BY <3>4, <4>2
    <3>6. \A a \in E : <<a, f[j - 1]>> \in ready => AtomVars(a) \subseteq B
      <4>1. f[j - 1] \in SUBSET Whole
        BY <3>4
      <4>2. QED
        BY <2>2, <2>3, <2>4, <3>5, <4>1 DEF Rises
    <3>7. f[j] = f[j - 1] \cup UNION {AtomVars(a) : a \in {x \in E : <<x, f[j - 1]>> \in ready}}
      BY <3>4 DEF Filling
    <3>8. QED
      BY <3>2, <3>5, <3>6, <3>7
  <2>6. f[w] \subseteq B /\ f[w] \in SUBSET Whole
    <3>1. w \in 0 .. w
      OBVIOUS
    <3>2. QED
      BY <2>5, <3>1
  <2>7. PICK a \in E : a \notin Range(t)
    BY <1>1, <2>1 DEF Range
  <2>8. <<a, B>> \in ready
    BY <2>2, <2>6 DEF Rises
  <2>9. QED
    BY <2>4, <2>7, <2>8
<1>2. QED
  BY <1>1, OrderExists

(* What an atom needs to be added: a variable in common, or its inputs.    *)
Touching(h, B) ==
  {q \in B \X SUBSET AllVars(AtomVars(h), B) : AtomVars(q[1]) \cap q[2] # {}}

Served(b, G, B) ==
  {q \in B \X SUBSET AllVars(G, B) : Inputs(b, q[1]) \subseteq q[2]}

LEMMA TouchingRises ==
  ASSUME NEW h, NEW B
  PROVE  Rises(Touching(h, B), AllVars(AtomVars(h), B))
BY DEF Rises, Touching

LEMMA ServedRises ==
  ASSUME NEW b, NEW G, NEW B
  PROVE  Rises(Served(b, G, B), AllVars(G, B))
BY DEF Rises, Served

LEMMA StaysIn ==
  ASSUME NEW w \in Nat, NEW g, NEW S, g[0] \subseteq S,
         \A k \in 1 .. w : g[k - 1] \subseteq S => g[k] \subseteq S
  PROVE  \A k \in 0 .. w : g[k] \subseteq S
<1> DEFINE Bad == {k \in 0 .. w : ~(g[k] \subseteq S)}
<1>1. ASSUME Bad # {} PROVE FALSE
  <2>1. PICK k \in Bad : \A j \in Bad : k <= j
    <3>1. Bad \in SUBSET Nat
      OBVIOUS
    <3> HIDE DEF Bad
    <3>2. QED
      BY <1>1, <3>1, LeastExists
  <2>2. k \in 0 .. w /\ k \in Nat /\ ~(g[k] \subseteq S)
    OBVIOUS
  <2>3. k # 0
    BY <2>2
  <2>4. k \in 1 .. w /\ k - 1 \in 0 .. w /\ ~(k <= k - 1)
    BY <2>2, <2>3
  <2>5. k - 1 \notin Bad
    BY <2>1, <2>4
  <2>6. g[k - 1] \subseteq S
    BY <2>4, <2>5
  <2>7. QED
    BY <2>2, <2>4, <2>6
<1>2. QED
  BY <1>1

LEMMA ReachInFills ==
  ASSUME NEW h, NEW B, NEW w \in Nat
  PROVE  \E f \in [0 .. w -> SUBSET AllVars(AtomVars(h), B)] :
           f[w] = ReachIn(h, B, w) /\ Filling(f, B, AtomVars(h), w, Touching(h, B))
<1> DEFINE V1 == AllVars(AtomVars(h), B)
           S == SUBSET V1
           next1(M) == M \cup UNION {AtomVars(a) : a \in {x \in B : AtomVars(x) \cap M # {}}}
           turn(k, f) == IF k = 0 THEN AtomVars(h) ELSE next1(f[k - 1])
           step == [q \in (1 .. w) \X S |-> next1(q[2])]
<1>1. \A M \in S : next1(M) \in S
  BY DEF AllVars
<1>2. AtomVars(h) \in S
  BY DEF AllVars
<1>3. step \in [(1 .. w) \X S -> S] /\ \A k \in 1 .. w : \A M \in S : step[<<k, M>>] = next1(M)
  <2> HIDE DEF S, next1
  <2>1. QED
    BY <1>1
<1> HIDE DEF step, S, next1
<1>4. PICK f \in [0 .. w -> S] : Iterated(f, w, AtomVars(h), step)
  BY <1>2, <1>3, Iterates
<1>5. f = [k \in 0 .. w |-> turn(k, f)]
  <2>1. ASSUME NEW k \in 0 .. w, k # 0
        PROVE  step[<<k, f[k - 1]>>] = next1(f[k - 1])
    <3>1. k \in 1 .. w /\ k - 1 \in 0 .. w
      BY <2>1
    <3>2. f[k - 1] \in S
      BY <1>4, <3>1
    <3>3. QED
      BY <1>3, <3>1, <3>2
  <2>2. QED
    BY <1>4, <2>1 DEF Iterated
<1> DEFINE g == CHOOSE h1 : h1 = [k \in 0 .. w |-> turn(k, h1)]
<1>6. ReachIn(h, B, w) = g[w]
  BY DEF ReachIn, next1
<1>7. g = [k \in 0 .. w |-> turn(k, g)]
  <2> HIDE DEF turn
  <2>1. QED
    BY <1>5
<1> HIDE DEF g
<1>8. DOMAIN g = 0 .. w /\ g[0] = AtomVars(h)
  <2>1. 0 \in 0 .. w
    OBVIOUS
  <2>2. QED
    BY <1>7, <2>1
<1>9. \A k \in 1 .. w : g[k] = next1(g[k - 1])
  <2> SUFFICES ASSUME NEW k \in 1 .. w PROVE g[k] = next1(g[k - 1])
    OBVIOUS
  <2>1. k \in 0 .. w /\ k # 0
    OBVIOUS
  <2>2. QED
    BY <1>7, <2>1
<1>10. \A k \in 0 .. w : g[k] \in S
  <2>1. g[0] \subseteq V1
    BY <1>2, <1>8 DEF S
  <2>2. \A k \in 1 .. w : g[k - 1] \subseteq V1 => g[k] \subseteq V1
    BY <1>1, <1>9 DEF S
  <2> HIDE DEF V1
  <2>3. \A k \in 0 .. w : g[k] \subseteq V1
    BY <2>1, <2>2, StaysIn
  <2>4. QED
    BY <2>3 DEF S
<1>11. g \in [0 .. w -> S]
  BY <1>7, <1>8, <1>10
<1>12. ASSUME NEW k \in 1 .. w
       PROVE  g[k] = g[k - 1] \cup UNION {AtomVars(a) : a \in {x \in B : <<x, g[k - 1]>> \in Touching(h, B)}}
  <2>1. k - 1 \in 0 .. w
    OBVIOUS
  <2>2. g[k - 1] \in S
    BY <1>10, <2>1
  <2>3. {x \in B : <<x, g[k - 1]>> \in Touching(h, B)} = {x \in B : AtomVars(x) \cap g[k - 1] # {}}
    BY <2>2 DEF Touching, S
  <2>4. QED
    BY <1>9, <2>3 DEF next1
<1>13. Filling(g, B, AtomVars(h), w, Touching(h, B))
  BY <1>8, <1>12 DEF Filling
<1>14. QED
  BY <1>6, <1>11, <1>13 DEF S

LEMMA BoundInFills ==
  ASSUME NEW b, NEW G, NEW B, NEW w \in Nat
  PROVE  \E f \in [0 .. w -> SUBSET AllVars(G, B)] :
           f[w] = BoundIn(b, G, B, w) /\ Filling(f, B, G, w, Served(b, G, B))
<1> DEFINE V1 == AllVars(G, B)
           S == SUBSET V1
           next1(M) == M \cup UNION {AtomVars(a) : a \in {x \in B : Inputs(b, x) \subseteq M}}
           turn(k, f) == IF k = 0 THEN G ELSE next1(f[k - 1])
           step == [q \in (1 .. w) \X S |-> next1(q[2])]
<1>1. \A M \in S : next1(M) \in S
  BY DEF AllVars
<1>2. G \in S
  BY DEF AllVars
<1>3. step \in [(1 .. w) \X S -> S] /\ \A k \in 1 .. w : \A M \in S : step[<<k, M>>] = next1(M)
  <2> HIDE DEF S, next1
  <2>1. QED
    BY <1>1
<1> HIDE DEF step, S, next1
<1>4. PICK f \in [0 .. w -> S] : Iterated(f, w, G, step)
  BY <1>2, <1>3, Iterates
<1>5. f = [k \in 0 .. w |-> turn(k, f)]
  <2>1. ASSUME NEW k \in 0 .. w, k # 0
        PROVE  step[<<k, f[k - 1]>>] = next1(f[k - 1])
    <3>1. k \in 1 .. w /\ k - 1 \in 0 .. w
      BY <2>1
    <3>2. f[k - 1] \in S
      BY <1>4, <3>1
    <3>3. QED
      BY <1>3, <3>1, <3>2
  <2>2. QED
    BY <1>4, <2>1 DEF Iterated
<1> DEFINE g == CHOOSE h1 : h1 = [k \in 0 .. w |-> turn(k, h1)]
<1>6. BoundIn(b, G, B, w) = g[w]
  BY DEF BoundIn, next1
<1>7. g = [k \in 0 .. w |-> turn(k, g)]
  <2> HIDE DEF turn
  <2>1. QED
    BY <1>5
<1> HIDE DEF g
<1>8. DOMAIN g = 0 .. w /\ g[0] = G
  <2>1. 0 \in 0 .. w
    OBVIOUS
  <2>2. QED
    BY <1>7, <2>1
<1>9. \A k \in 1 .. w : g[k] = next1(g[k - 1])
  <2> SUFFICES ASSUME NEW k \in 1 .. w PROVE g[k] = next1(g[k - 1])
    OBVIOUS
  <2>1. k \in 0 .. w /\ k # 0
    OBVIOUS
  <2>2. QED
    BY <1>7, <2>1
<1>10. \A k \in 0 .. w : g[k] \in S
  <2>1. g[0] \subseteq V1
    BY <1>2, <1>8 DEF S
  <2>2. \A k \in 1 .. w : g[k - 1] \subseteq V1 => g[k] \subseteq V1
    BY <1>1, <1>9 DEF S
  <2> HIDE DEF V1
  <2>3. \A k \in 0 .. w : g[k] \subseteq V1
    BY <2>1, <2>2, StaysIn
  <2>4. QED
    BY <2>3 DEF S
<1>11. g \in [0 .. w -> S]
  BY <1>7, <1>8, <1>10
<1>12. ASSUME NEW k \in 1 .. w
       PROVE  g[k] = g[k - 1] \cup UNION {AtomVars(a) : a \in {x \in B : <<x, g[k - 1]>> \in Served(b, G, B)}}
  <2>1. k - 1 \in 0 .. w
    OBVIOUS
  <2>2. g[k - 1] \in S
    BY <1>10, <2>1
  <2>3. {x \in B : <<x, g[k - 1]>> \in Served(b, G, B)} = {x \in B : Inputs(b, x) \subseteq g[k - 1]}
    BY <2>2 DEF Served, S
  <2>4. QED
    BY <1>9, <2>3 DEF next1
<1>13. Filling(g, B, G, w, Served(b, G, B))
  BY <1>8, <1>12 DEF Filling
<1>14. QED
  BY <1>6, <1>11, <1>13 DEF S

---------------------------------------------------------------------------
(* The space of a bias.                                                    *)

(* What the rounds from the head do not leave out is no island.            *)
LEMMA ConnectedHasNoIsland ==
  ASSUME NEW c, Len(c.body) \in Nat, Connected(c)
  PROVE  NoIsland(c)
<1> DEFINE E == Range(c.body)
           w == Len(c.body)
           G == AtomVars(c.head)
<1>1. PICK f \in [0 .. w -> SUBSET AllVars(G, E)] :
        f[w] = ReachIn(c.head, E, w) /\ Filling(f, E, G, w, Touching(c.head, E))
  BY ReachInFills
<1>2. \A a \in E : AtomVars(a) \cap f[w] # {}
  BY <1>1, ConnectedIs
<1> HIDE DEF E, w, G
<1> SUFFICES ASSUME NEW S \in SUBSET E, S # {},
                    (UNION {AtomVars(a) : a \in S}) \cap (G \cup UNION {AtomVars(a) : a \in E \ S}) = {}
             PROVE  FALSE
  BY DEF NoIsland, E, G
<1> DEFINE U == UNION {AtomVars(a) : a \in S}
           W == AllVars(G, E) \ U
<1> DEFINE Rest == UNION {AtomVars(a) : a \in E \ S}
<1>0. U \cap (G \cup Rest) = {}
  OBVIOUS
<1>10. \A a \in E : a \notin S => AtomVars(a) \subseteq Rest
  OBVIOUS
<1> HIDE DEF Rest
<1>3. w \in Nat
  BY DEF w
<1>4. f[0] \subseteq W
  <2>1. f[0] = G
    BY <1>1 DEF Filling
  <2> HIDE DEF U
  <2>2. QED
    BY <1>0, <2>1 DEF AllVars
<1>5. ASSUME NEW k \in 1 .. w, f[k - 1] \subseteq W PROVE f[k] \subseteq W
  <2>1. f[k] = f[k - 1] \cup UNION {AtomVars(a) : a \in {x \in E : <<x, f[k - 1]>> \in Touching(c.head, E)}}
    BY <1>1 DEF Filling
  <2>2. ASSUME NEW a \in E, <<a, f[k - 1]>> \in Touching(c.head, E) PROVE AtomVars(a) \subseteq W
    <3>1. AtomVars(a) \cap f[k - 1] # {}
      BY <2>2 DEF Touching
    <3>2. a \notin S
      BY <1>5, <3>1
    <3>3. AtomVars(a) \cap U = {}
      <4> HIDE DEF U
      <4>1. QED
        BY <1>0, <1>10, <3>2
    <3>4. AtomVars(a) \subseteq AllVars(G, E)
      BY DEF AllVars
    <3> HIDE DEF U
    <3>5. QED
      BY <3>3, <3>4
  <2> DEFINE X == {x \in E : <<x, f[k - 1]>> \in Touching(c.head, E)}
  <2>3. \A a \in X : AtomVars(a) \subseteq W
    BY <2>2
  <2>4. f[k] = f[k - 1] \cup UNION {AtomVars(a) : a \in X}
    BY <2>1
  <2> HIDE DEF W, X
  <2>5. QED
    BY <1>5, <2>3, <2>4
<1>6. f[w] \subseteq W
  <2> HIDE DEF W
  <2>1. \A k \in 0 .. w : f[k] \subseteq W
    BY <1>3, <1>4, <1>5, StaysIn
  <2>2. QED
    BY <1>3, <2>1
<1>7. PICK a \in S : TRUE
  OBVIOUS
<1>8. AtomVars(a) \cap f[w] = {}
  <2>1. AtomVars(a) \subseteq U
    BY <1>7
  <2> HIDE DEF U
  <2>2. QED
    BY <1>6, <2>1
<1>9. QED
  BY <1>2, <1>7, <1>8

LEMMA ReadsAreInputs ==
  ASSUME NEW b, NEW a
  PROVE  Reads(b, a) = Inputs(b, a)
<1>1. CASE a.predicate \in DOMAIN b.modes
  BY <1>1 DEF Reads, Inputs
<1>2. CASE a.predicate \notin DOMAIN b.modes
  BY <1>2 DEF Reads, Inputs
<1>3. QED
  BY <1>1, <1>2

LEMMA GivenIsSeed ==
  ASSUME NEW b, NEW c
  PROVE  Given(b, c) = Seed(b, c)
BY ReadsAreInputs DEF Given, Seed

(* An order of a body serves every input when it goes by Served.           *)
LEMMA ServedInOrder ==
  ASSUME NEW b, NEW c, NEW E, NEW k \in Nat, NEW t \in [1 .. k -> E]
  PROVE  InOrder(b, c, t) <=> Goes(t, k, Seed(b, c), Served(b, Seed(b, c), E))
<1> DEFINE G == Seed(b, c)
<1>1. ASSUME NEW m \in 1 .. k
      PROVE  <<t[m], Seen(G, t, m - 1)>> \in Served(b, G, E) <=>
               Reads(b, t[m]) \subseteq Given(b, c) \cup UNION {AtomVars(t[n]) : n \in 1 .. m - 1}
  <2>1. Seen(G, t, m - 1) = Given(b, c) \cup UNION {AtomVars(t[n]) : n \in 1 .. m - 1}
    BY GivenIsSeed DEF Seen
  <2>2. Seen(G, t, m - 1) \in SUBSET AllVars(G, E)
    <3>1. \A n \in 1 .. m - 1 : n \in 1 .. k
      OBVIOUS
    <3>2. QED
      BY <3>1 DEF Seen, AllVars
  <2>3. t[m] \in E
    OBVIOUS
  <2> HIDE DEF G
  <2>4. <<t[m], Seen(G, t, m - 1)>> \in Served(b, G, E) <=> Inputs(b, t[m]) \subseteq Seen(G, t, m - 1)
    BY <2>2, <2>3 DEF Served
  <2>5. QED
    BY <2>1, <2>4, ReadsAreInputs
<1>2. DOMAIN t = 1 .. k
  OBVIOUS
<1> HIDE DEF G
<1>3. InOrder(b, c, t) <=> Goes(t, k, G, Served(b, G, E))
  BY <1>1, <1>2 DEF InOrder, Goes
<1>4. QED
  BY <1>3 DEF G

LEMMA OrdersAre ==
  ASSUME NEW E
  PROVE  SetToSeqs(E) = Injectives(Cardinality(E), E)
<1>1. SetToSeqs(E) \subseteq Injectives(Cardinality(E), E)
  BY DEF SetToSeqs, Injectives, Tuples, IsInjective
<1>2. Injectives(Cardinality(E), E) \subseteq SetToSeqs(E)
  BY DEF SetToSeqs, Injectives, Tuples, IsInjective
<1>3. QED
  BY <1>1, <1>2

(* What the rounds of the modes do not leave out can be put in order.      *)
LEMMA FeasibleHasOrder ==
  ASSUME NEW b, NEW c, Len(c.body) \in Nat, IsFiniteSet(Range(c.body)), WellModedFeasible(b, c)
  PROVE  SomeOrder(b, c)
<1> DEFINE E == Range(c.body)
           w == Len(c.body)
           G == Seed(b, c)
           ready == Served(b, G, E)
<1>1. PICK f \in [0 .. w -> SUBSET AllVars(G, E)] :
        f[w] = BoundIn(b, G, E, w) /\ Filling(f, E, G, w, ready)
  BY BoundInFills
<1>2. \A a \in E : Inputs(b, a) \subseteq f[w]
  BY <1>1, FeasibleIs
<1>3. w \in Nat /\ IsFiniteSet(E) /\ Rises(ready, AllVars(G, E))
  BY ServedRises
<1>4. Range(c.body) = E /\ Seed(b, c) = G /\ Served(b, G, E) = ready
  OBVIOUS
<1> HIDE DEF E, w, G, ready
<1>5. \A a \in E : <<a, f[w]>> \in ready
  <2>1. f[w] \in SUBSET AllVars(G, E)
    BY <1>3
  <2>2. QED
    BY <1>2, <1>4, <2>1 DEF Served
<1>6. PICK t \in Injectives(Cardinality(E), E) : Range(t) = E /\ Goes(t, Cardinality(E), G, ready)
  BY <1>1, <1>3, <1>5, FillsOrdered
<1>7. Cardinality(E) \in Nat /\ t \in [1 .. Cardinality(E) -> E]
  BY <1>3, <1>6, FS_CardinalityType DEF Injectives, Tuples
<1>8. InOrder(b, c, t)
  BY <1>4, <1>6, <1>7, ServedInOrder
<1>9. t \in SetToSeqs(E)
  BY <1>6, OrdersAre
<1>10. QED
  BY <1>4, <1>8, <1>9 DEF SomeOrder

(* The constants of the enumerator's atoms fit.                            *)
LEMMA AtomsFit ==
  ASSUME NEW b \in Biases, NEW n \in 0 .. b.maxVars, NEW a \in AtomsOf(b, n, b.constants),
         a.predicate \in DOMAIN b.types, NEW k \in DOMAIN a.args \cap DOMAIN b.types[a.predicate]
  PROVE  FitsType(b, a.args[k], b.types[a.predicate][k])
<1>0. PICK p \in BodyPreds(b) :
        \E args \in ArgsOf(b, p, n, b.constants) : a = [predicate |-> p.name, args |-> args]
  BY DEF AtomsOf
<1>1. PICK args \in ArgsOf(b, p, n, b.constants) : a = [predicate |-> p.name, args |-> args]
  BY <1>0
<1>2. a.predicate = p.name /\ a.args = args
  BY <1>1
<1>3. args \in [1 .. p.arity -> VarTerms(b) \cup ConstTerms(b)]
  BY DEF ArgsOf, Tuples
<1>4. k \in 1 .. p.arity /\ k \in DOMAIN b.types[p.name] /\ p.name \in DOMAIN b.types
  BY <1>2, <1>3
<1>5. args[k] \in Range(VarPool(n)) \cup FitTerms(b, p.name, k, b.constants)
  BY <1>4 DEF ArgsOf, PoolTerms
<1> DEFINE type == b.types[p.name][k]
<1>6. TypeAt(b, p.name, k) = type /\ type # Untyped
  BY <1>4, BiasAssumption DEF TypeAt
<1> HIDE DEF type
<1>7. CASE args[k] \in Range(VarPool(n))
  <2>1. args[k] \in VarTerms(b)
    <3>1. VarPool(n) \in Seq(VarTerms(b))
      BY PoolIs
    <3>2. QED
      BY <1>7, <3>1, RangeOfSeq
  <2>2. IsVar(args[k])
    BY <2>1 DEF VarTerms, V, IsVar
  <2>3. QED
    BY <1>2, <2>2 DEF FitsType
<1>8. CASE args[k] \in FitTerms(b, p.name, k, b.constants)
  <2>1. PICK x \in Range(b.constants) :
          /\ args[k] = <<"c", x.value>>
          /\ TypeAt(b, p.name, k) = Untyped \/ x.type \in {Untyped, TypeAt(b, p.name, k)}
    BY <1>8 DEF FitTerms
  <2>2. args[k][2] = x.value
    BY <2>1
  <2>3. x.type \in {Untyped, type}
    BY <1>6, <2>1
  <2>4. FitsType(b, args[k], type)
    BY <2>2, <2>3 DEF FitsType
  <2>5. QED
    BY <1>2, <2>4 DEF type
<1>9. QED
  BY <1>5, <1>7, <1>8

(* What the enumerator keeps is in the space.                              *)
LEMMA KeptInSpace ==
  ASSUME NEW b \in Biases, NEW c \in Kept(b)
  PROVE  InSpace(b, c) /\ Len(c.body) <= b.maxBody /\ Cardinality(ClauseVars(c)) <= b.maxVars
<1>1. PICK p \in Range(b.heads), n \in 0 .. b.maxVars, k \in 0 .. b.maxBody :
        p.arity <= n /\ c \in Sized(b, p, n, k)
  BY KeptFacts
<1>2. k \in Nat /\ k <= b.maxBody /\ n <= b.maxVars
  BY BiasAssumption
<1>3. /\ c.body \in Injectives(k, AtomsOf(b, n, b.constants))
      /\ Len(c.body) = k
      /\ Keep(b, c, n)
      /\ Cardinality(ClauseVars(c)) = n
  BY <1>1, <1>2, SizedIs
<1>4. IsClause(b, c)
  BY KeptIsClause
<1>5. NoIsland(c)
  BY <1>2, <1>3, ConnectedHasNoIsland DEF Keep
<1>6. c.body \in Tuples(k, AtomsOf(b, n, b.constants)) /\ IsInjective(c.body)
  BY <1>3 DEF Injectives
<1>7. SomeOrder(b, c)
  <2>1. IsFiniteSet(Range(c.body))
    BY <1>2, <1>6, RangeOfInjective
  <2>2. QED
    BY <1>2, <1>3, <2>1, FeasibleHasOrder DEF Keep
<1>8. ~IsTypeUnsatisfiable(c, b.types)
  BY <1>3, ConsistentIsWellTyped DEF Keep
<1>9. ConstantsFit(b, c)
  <2>1. \A a \in Range(c.body) : a \in AtomsOf(b, n, b.constants)
    BY <1>6 DEF Tuples, Range
  <2>2. QED
    BY <2>1, AtomsFit DEF ConstantsFit
<1>10. QED
  BY <1>2, <1>3, <1>4, <1>5, <1>7, <1>8, <1>9 DEF InSpace

(* Nothing of the space is lost to the tests of the enumerator.            *)
LEMMA NoIslandIsConnected ==
  ASSUME NEW c, Len(c.body) \in Nat, IsFiniteSet(Range(c.body)), Len(c.body) = Cardinality(Range(c.body)),
         NoIsland(c)
  PROVE  Connected(c)
<1> DEFINE E == Range(c.body)
           w == Len(c.body)
           G == AtomVars(c.head)
           ready == Touching(c.head, E)
<1>1. PICK f \in [0 .. w -> SUBSET AllVars(G, E)] :
        f[w] = ReachIn(c.head, E, w) /\ Filling(f, E, G, w, ready)
  BY ReachInFills
<1>2. Connected(c) <=> \A a \in E : AtomVars(a) \cap f[w] # {}
  BY <1>1, ConnectedIs
<1>3. w \in Nat /\ IsFiniteSet(E) /\ w = Cardinality(E) /\ Rises(ready, AllVars(G, E))
  BY TouchingRises
<1> HIDE DEF w, ready, E, G
<1>4. ASSUME NEW k \in Nat, NEW t \in Injectives(k, E), Range(t) # E
      PROVE  \E a \in E : a \notin Range(t) /\ <<a, Seen(G, t, k)>> \in ready
  <2>1. t \in [1 .. k -> E]
    BY DEF Injectives, Tuples
  <2>2. Range(t) = {t[i] : i \in 1 .. k} /\ Range(t) \subseteq E
    BY <2>1 DEF Range
  <2> DEFINE S == E \ Range(t)
  <2>3. S \in SUBSET E /\ S # {} /\ E \ S = Range(t)
    BY <1>4, <2>2
  <2>4. (UNION {AtomVars(a) : a \in S}) \cap (G \cup UNION {AtomVars(a) : a \in E \ S}) # {}
    <3> HIDE DEF S
    <3>1. QED
      BY <2>3 DEF NoIsland, E, G
  <2>5. PICK a \in S : AtomVars(a) \cap (G \cup UNION {AtomVars(e) : e \in Range(t)}) # {}
    BY <2>3, <2>4
  <2>6. Seen(G, t, k) = G \cup UNION {AtomVars(e) : e \in Range(t)}
    BY <2>2 DEF Seen
  <2>7. Seen(G, t, k) \in SUBSET AllVars(G, E)
    BY <2>2, <2>6 DEF AllVars
  <2>8. <<a, Seen(G, t, k)>> \in ready
    BY <2>5, <2>6, <2>7 DEF ready, Touching, G
  <2>9. QED
    BY <2>5, <2>8
<1>5. PICK t \in Injectives(Cardinality(E), E) : Range(t) = E /\ Goes(t, Cardinality(E), G, ready)
  BY <1>3, <1>4, OrderExists
<1>6. t \in [1 .. w -> E]
  BY <1>3, <1>5 DEF Injectives, Tuples
<1>7. \A m \in 1 .. w : <<t[m], f[w]>> \in ready
  BY <1>1, <1>3, <1>5, <1>6, OrderFills
<1>8. ASSUME NEW a \in E PROVE AtomVars(a) \cap f[w] # {}
  <2>1. PICK m \in 1 .. w : t[m] = a
    BY <1>5, <1>6 DEF Range
  <2>2. <<a, f[w]>> \in ready
    BY <1>7, <2>1
  <2>3. QED
    BY <2>2 DEF ready, Touching
<1>9. QED
  BY <1>2, <1>8

LEMMA OrderedIsFeasible ==
  ASSUME NEW b, NEW c, Len(c.body) \in Nat, IsFiniteSet(Range(c.body)), Len(c.body) = Cardinality(Range(c.body)),
         SomeOrder(b, c)
  PROVE  WellModedFeasible(b, c)
<1> DEFINE E == Range(c.body)
           w == Len(c.body)
           G == Seed(b, c)
           ready == Served(b, G, E)
<1>1. PICK f \in [0 .. w -> SUBSET AllVars(G, E)] :
        f[w] = BoundIn(b, G, E, w) /\ Filling(f, E, G, w, ready)
  BY BoundInFills
<1>2. WellModedFeasible(b, c) <=> \A a \in E : Inputs(b, a) \subseteq f[w]
  BY <1>1, FeasibleIs
<1>3. w \in Nat /\ IsFiniteSet(E) /\ w = Cardinality(E) /\ Rises(ready, AllVars(G, E))
  BY ServedRises
<1>4. PICK t \in SetToSeqs(E) : InOrder(b, c, t)
  BY DEF SomeOrder
<1>5. Served(b, Seed(b, c), E) = ready /\ Seed(b, c) = G
  OBVIOUS
<1> HIDE DEF w, ready, E, G
<1>6. t \in Tuples(w, E) /\ IsInjective(t) /\ t \in [1 .. w -> E]
  BY <1>3, <1>4, OrdersAre DEF Injectives, Tuples
<1>7. Goes(t, w, G, ready)
  BY <1>3, <1>4, <1>5, <1>6, ServedInOrder
<1>8. Range(t) = E
  <2>1. Range(t) \in SUBSET E
    BY <1>6 DEF Range
  <2>2. Cardinality(Range(t)) = w
    BY <1>3, <1>6, RangeOfInjective
  <2>3. QED
    BY <1>3, <2>1, <2>2, FS_Subset
<1>9. \A m \in 1 .. w : <<t[m], f[w]>> \in ready
  BY <1>1, <1>3, <1>6, <1>7, OrderFills
<1>10. ASSUME NEW a \in E PROVE Inputs(b, a) \subseteq f[w]
  <2>1. PICK m \in 1 .. w : t[m] = a
    BY <1>6, <1>8 DEF Range
  <2>2. <<a, f[w]>> \in ready
    BY <1>9, <2>1
  <2>3. QED
    BY <2>2 DEF ready, Served
<1>11. QED
  BY <1>2, <1>10

LEMMA ImageIsFinite ==
  ASSUME NEW S, IsFiniteSet(S), NEW f
  PROVE  IsFiniteSet({f[x] : x \in S})
<1> DEFINE T == {f[x] : x \in S}
           g == [x \in S |-> f[x]]
<1>1. g \in [S -> T] /\ \A y \in T : \E x \in S : g[x] = y
  OBVIOUS
<1>2. g \in Surjection(S, T)
  <2> HIDE DEF g, T
  <2>1. QED
    BY <1>1 DEF Surjection
<1> HIDE DEF g, T
<1>3. IsFiniteSet(T)
  BY <1>2, FS_Surjection
<1>4. QED
  BY <1>3 DEF T

LEMMA VarTypesAreFinite ==
  ASSUME NEW c, NEW A, c.body \in Seq(A), \A a \in Atoms(c) : IsFiniteSet(DOMAIN a.args), NEW types, NEW v
  PROVE  IsFiniteSet(VarTypes(c, types, v))
<1> DEFINE B == {a \in Atoms(c) : a.predicate \in DOMAIN types}
           K(a) == {k \in DOMAIN a.args \cap DOMAIN types[a.predicate] : a.args[k] = v}
           of == [a \in B |-> {types[a.predicate][k] : k \in K(a)}]
           Sets == {of[a] : a \in B}
<1>1. IsFiniteSet(Atoms(c))
  <2>1. Len(c.body) \in Nat /\ DOMAIN c.body = 1 .. Len(c.body)
    OBVIOUS
  <2>2. IsFiniteSet(1 .. Len(c.body))
    BY <2>1, FS_Interval
  <2>3. IsFiniteSet({c.body[x] : x \in 1 .. Len(c.body)})
    BY <2>2, ImageIsFinite
  <2>4. Range(c.body) = {c.body[x] : x \in 1 .. Len(c.body)}
    BY <2>1 DEF Range
  <2>5. IsFiniteSet({c.head})
    BY FS_Singleton
  <2>6. QED
    BY <2>3, <2>4, <2>5, FS_Union DEF Atoms
<1>2. IsFiniteSet(B)
  BY <1>1, FS_Subset
<1>3. IsFiniteSet(Sets)
  <2> HIDE DEF B, of
  <2>1. QED
    BY <1>2, ImageIsFinite
<1>4. ASSUME NEW a \in B PROVE IsFiniteSet(of[a])
  <2> DEFINE g == types[a.predicate]
  <2>1. IsFiniteSet(K(a))
    <3>1. IsFiniteSet(DOMAIN a.args) /\ K(a) \in SUBSET DOMAIN a.args
      OBVIOUS
    <3> HIDE DEF K
    <3>2. QED
      BY <3>1, FS_Subset
  <2>2. of[a] = {g[k] : k \in K(a)}
    OBVIOUS
  <2> HIDE DEF K, of, g
  <2>3. IsFiniteSet({g[x] : x \in K(a)})
    BY <2>1, ImageIsFinite
  <2>4. QED
    BY <2>2, <2>3
<1>5. \A S \in Sets : IsFiniteSet(S)
  <2> HIDE DEF of, B
  <2>1. QED
    BY <1>4
<1>6. VarTypes(c, types, v) = UNION Sets
  BY DEF VarTypes
<1> HIDE DEF Sets
<1>7. QED
  BY <1>3, <1>5, <1>6, FS_UNION

LEMMA WellTypedIsConsistent ==
  ASSUME NEW b, NEW c, NEW A, c.body \in Seq(A), \A a \in Atoms(c) : IsFiniteSet(DOMAIN a.args),
         ~IsTypeUnsatisfiable(c, b.types)
  PROVE  TypeConsistent(b, c)
<1> SUFFICES ASSUME NEW a \in Atoms(c), NEW e \in Atoms(c), NEW k \in DOMAIN a.args, NEW j \in DOMAIN e.args,
                    IsVar(a.args[k]), a.args[k] = e.args[j],
                    TypeAt(b, a.predicate, k) # Untyped, TypeAt(b, e.predicate, j) # Untyped
             PROVE  TypeAt(b, a.predicate, k) = TypeAt(b, e.predicate, j)
  BY DEF TypeConsistent
<1> DEFINE v == a.args[k]
           S == VarTypes(c, b.types, v)
           x == TypeAt(b, a.predicate, k)
           y == TypeAt(b, e.predicate, j)
<1>1. v \in ClauseVars(c)
  <2>1. v \in AtomVars(a)
    BY DEF AtomVars
  <2>2. CASE a = c.head
    BY <2>1, <2>2 DEF ClauseVars
  <2>3. CASE a \in Range(c.body)
    BY <2>1, <2>3 DEF ClauseVars, BodyVars, Range
  <2>4. QED
    BY <2>2, <2>3 DEF Atoms
<1>2. /\ a.predicate \in DOMAIN b.types /\ k \in DOMAIN b.types[a.predicate] /\ x = b.types[a.predicate][k]
      /\ e.predicate \in DOMAIN b.types /\ j \in DOMAIN b.types[e.predicate] /\ y = b.types[e.predicate][j]
  BY DEF TypeAt
<1>3. x \in S
  BY <1>2 DEF VarTypes
<1>4. y \in S
  BY <1>2 DEF VarTypes
<1>5. IsFiniteSet(S)
  BY VarTypesAreFinite
<1>6. ~(Cardinality(S) > 1)
  BY <1>1 DEF IsTypeUnsatisfiable
<1> HIDE DEF S, x, y, v
<1>7. ASSUME x # y PROVE FALSE
  <2>1. IsFiniteSet({x}) /\ Cardinality({x}) = 1
    BY FS_Singleton
  <2>2. Cardinality({x} \cup {y}) = 2 /\ IsFiniteSet({x} \cup {y})
    <3>1. y \notin {x}
      BY <1>7
    <3>2. /\ IsFiniteSet({x} \cup {y})
          /\ Cardinality({x} \cup {y}) = IF y \in {x} THEN Cardinality({x}) ELSE Cardinality({x}) + 1
      BY <2>1, FS_AddElement
    <3>3. QED
      BY <2>1, <3>1, <3>2
  <2>3. Cardinality({x} \cup {y}) <= Cardinality(S)
    <3>1. {x} \cup {y} \in SUBSET S
      BY <1>3, <1>4
    <3>2. QED
      BY <1>5, <3>1, FS_Subset
  <2>4. Cardinality(S) \in Nat
    BY <1>5, FS_CardinalityType
  <2>5. 2 <= Cardinality(S)
    BY <2>2, <2>3
  <2>6. QED
    BY <1>6, <2>4, <2>5
<1>8. QED
  BY <1>7 DEF x, y

---------------------------------------------------------------------------
(* Subsumption and coverage.                                               *)

LEMMA VarsAreVars ==
  ASSUME NEW c, NEW v \in ClauseVars(c)
  PROVE  IsVar(v)
BY DEF ClauseVars, BodyVars, AtomVars

(* What satisfies the body of the more special clause satisfies, read      *)
(* through the substitution, that of the more general one.                 *)
LEMMA Generalizes ==
  ASSUME NEW c, NEW d, Shaped(c), Shaped(d), Subsumes(c, d),
         NEW facts, NEW g \in Solutions(facts, d)
  PROVE  \E h \in Solutions(facts, c) : Grounded(c.head, h) = Grounded(d.head, g)
<1>1. PICK map \in [ClauseVars(c) -> ClauseVars(d) \cup Range(d.head.args)] :
        /\ RenameAtom(c.head, map) = d.head
        /\ Range(RenameBody(c, map)) \subseteq Range(d.body)
  BY DEF Subsumes
<1>2. \A v \in ClauseVars(c) : map[v] \in ClauseVars(d) /\ IsVar(map[v])
  <2>1. \A k \in DOMAIN d.head.args : d.head.args[k] \in ClauseVars(d)
    BY DEF Shaped, ClauseVars, AtomVars
  <2>2. Range(d.head.args) \subseteq ClauseVars(d)
    BY <2>1 DEF Range
  <2>3. QED
    BY <1>1, <2>2, VarsAreVars
<1>3. g \in [ClauseVars(d) -> D] /\ \A m \in DOMAIN d.body : Grounded(d.body[m], g) \in facts
  BY DEF Solutions
<1> DEFINE h == [v \in ClauseVars(c) |-> g[map[v]]]
<1>4. h \in [ClauseVars(c) -> D]
  BY <1>2, <1>3
<1>5. ASSUME NEW a, IsAtom(a), AtomVars(a) \subseteq ClauseVars(c)
      PROVE  Grounded(RenameAtom(a, map), g) = Grounded(a, h)
  <2>1. ASSUME NEW k \in DOMAIN a.args
        PROVE  Val(Renamed(a.args[k], map), g) = Val(a.args[k], h)
    <3>1. DOMAIN map = ClauseVars(c)
      BY <1>1
    <3>2. CASE IsVar(a.args[k])
      <4>1. a.args[k] \in ClauseVars(c)
        BY <1>5, <3>2 DEF AtomVars
      <4>2. Renamed(a.args[k], map) = map[a.args[k]] /\ IsVar(map[a.args[k]])
        BY <1>2, <3>1, <4>1 DEF Renamed
      <4>3. QED
        BY <3>2, <4>1, <4>2 DEF Val
    <3>3. CASE ~IsVar(a.args[k])
      <4>1. a.args[k] \notin ClauseVars(c)
        BY <3>3, VarsAreVars
      <4>2. QED
        BY <3>1, <3>3, <4>1 DEF Renamed, Val
    <3>4. QED
      BY <3>2, <3>3
  <2> HIDE DEF h
  <2>2. QED
    BY <1>5, <2>1, GroundedAlike
<1>6. Grounded(c.head, h) = Grounded(d.head, g)
  <2>1. IsAtom(c.head) /\ AtomVars(c.head) \subseteq ClauseVars(c)
    BY DEF Shaped, ClauseVars
  <2>2. QED
    BY <1>1, <1>5, <2>1
<1>7. ASSUME NEW m \in DOMAIN c.body PROVE Grounded(c.body[m], h) \in facts
  <2>1. IsAtom(c.body[m]) /\ AtomVars(c.body[m]) \subseteq ClauseVars(c)
    BY DEF Shaped, ClauseVars, BodyVars
  <2>2. RenameAtom(c.body[m], map) \in Range(d.body)
    BY <1>1 DEF RenameBody, Range
  <2>3. PICK j \in DOMAIN d.body : RenameAtom(c.body[m], map) = d.body[j]
    BY <2>2 DEF Range
  <2>4. Grounded(c.body[m], h) = Grounded(d.body[j], g)
    BY <1>5, <2>1, <2>3
  <2>5. QED
    BY <1>3, <2>4
<1>8. h \in Solutions(facts, c)
  BY <1>4, <1>7 DEF Solutions
<1>9. QED
  BY <1>6, <1>8

---------------------------------------------------------------------------
(* Canonical forms.                                                        *)

Names(c, m) == m \in Bijection(BodyOnly(c), CanonicalNames(c))

IsMark(t) == \E n : t = <<"W", n>>

LEMMA NamesFacts ==
  ASSUME NEW c, NEW m, Names(c, m)
  PROVE  /\ DOMAIN m = BodyOnly(c)
         /\ \A v \in BodyOnly(c) : IsMark(m[v])
         /\ \A v, w \in BodyOnly(c) : m[v] = m[w] => v = w
<1>1. m \in [BodyOnly(c) -> CanonicalNames(c)] /\ IsInjective(m)
  BY DEF Names, Bijection, Injection
<1>2. \A x \in CanonicalNames(c) : IsMark(x)
  BY DEF CanonicalNames, IsMark
<1>3. QED
  BY <1>1, <1>2 DEF IsInjective

LEMMA RenamedMark ==
  ASSUME NEW c, NEW m, Names(c, m), NEW t, IsTerm(t)
  PROVE  /\ t \in BodyOnly(c) => Renamed(t, m) = m[t] /\ IsMark(Renamed(t, m))
         /\ t \notin BodyOnly(c) => Renamed(t, m) = t /\ ~IsMark(Renamed(t, m))
<1>1. ~IsMark(t)
  BY TermFacts DEF IsMark
<1>2. QED
  BY <1>1, NamesFacts DEF Renamed

LEMMA SameRenamed ==
  ASSUME NEW a, IsAtom(a), NEW b, IsAtom(b), NEW m, NEW n, RenameAtom(a, m) = RenameAtom(b, n)
  PROVE  /\ a.predicate = b.predicate /\ DOMAIN a.args = DOMAIN b.args
         /\ \A k \in DOMAIN a.args : Renamed(a.args[k], m) = Renamed(b.args[k], n)
<1> DEFINE as == [k \in DOMAIN a.args |-> Renamed(a.args[k], m)]
           bs == [k \in DOMAIN b.args |-> Renamed(b.args[k], n)]
<1>1. [predicate |-> a.predicate, args |-> as] = [predicate |-> b.predicate, args |-> bs]
  BY RenamedAtom
<1>2. a.predicate = b.predicate /\ as = bs
  <2> HIDE DEF as, bs
  <2> QED
    BY <1>1
<1>3. DOMAIN as = DOMAIN a.args /\ DOMAIN bs = DOMAIN b.args
  OBVIOUS
<1>4. \A k \in DOMAIN a.args : as[k] = Renamed(a.args[k], m)
  OBVIOUS
<1>5. \A k \in DOMAIN b.args : bs[k] = Renamed(b.args[k], n)
  OBVIOUS
<1> HIDE DEF as, bs
<1>6. QED
  BY <1>2, <1>3, <1>4, <1>5

LEMMA SameAtoms ==
  ASSUME NEW c, NEW d, Shaped(c), Shaped(d), NEW m, NEW n, Names(c, m), Names(d, n),
         NEW i \in DOMAIN c.body, NEW j \in DOMAIN d.body,
         RenameAtom(c.body[i], m) = RenameAtom(d.body[j], n)
  PROVE  /\ c.body[i].predicate = d.body[j].predicate
         /\ DOMAIN c.body[i].args = DOMAIN d.body[j].args
         /\ \A k \in DOMAIN c.body[i].args :
              LET s == c.body[i].args[k]
                  t == d.body[j].args[k]
              IN \/ s \in BodyOnly(c) /\ t \in BodyOnly(d) /\ m[s] = n[t]
                 \/ s \notin BodyOnly(c) /\ t \notin BodyOnly(d) /\ s = t
<1>1. IsAtom(c.body[i]) /\ IsAtom(d.body[j])
  BY DEF Shaped
<1>2. /\ c.body[i].predicate = d.body[j].predicate /\ DOMAIN c.body[i].args = DOMAIN d.body[j].args
      /\ \A k \in DOMAIN c.body[i].args : Renamed(c.body[i].args[k], m) = Renamed(d.body[j].args[k], n)
  BY <1>1, SameRenamed
<1>3. ASSUME NEW k \in DOMAIN c.body[i].args
      PROVE  LET s == c.body[i].args[k]
                 t == d.body[j].args[k]
             IN \/ s \in BodyOnly(c) /\ t \in BodyOnly(d) /\ m[s] = n[t]
                \/ s \notin BodyOnly(c) /\ t \notin BodyOnly(d) /\ s = t
  <2>1. IsTerm(c.body[i].args[k]) /\ IsTerm(d.body[j].args[k])
    BY <1>1, <1>2, AtomFacts
  <2>2. Renamed(c.body[i].args[k], m) = Renamed(d.body[j].args[k], n)
    BY <1>2
  <2>3. /\ c.body[i].args[k] \in BodyOnly(c) =>
             Renamed(c.body[i].args[k], m) = m[c.body[i].args[k]] /\ IsMark(Renamed(c.body[i].args[k], m))
        /\ c.body[i].args[k] \notin BodyOnly(c) =>
             Renamed(c.body[i].args[k], m) = c.body[i].args[k] /\ ~IsMark(Renamed(c.body[i].args[k], m))
    BY <2>1, RenamedMark
  <2>4. /\ d.body[j].args[k] \in BodyOnly(d) =>
             Renamed(d.body[j].args[k], n) = n[d.body[j].args[k]] /\ IsMark(Renamed(d.body[j].args[k], n))
        /\ d.body[j].args[k] \notin BodyOnly(d) =>
             Renamed(d.body[j].args[k], n) = d.body[j].args[k] /\ ~IsMark(Renamed(d.body[j].args[k], n))
    BY <2>1, RenamedMark
  <2>5. QED
    BY <2>2, <2>3, <2>4
<1>4. QED
  BY <1>2, <1>3

LEMMA BodyOnlyOccurs ==
  ASSUME NEW c, NEW v \in BodyOnly(c)
  PROVE  \E i \in DOMAIN c.body : \E k \in DOMAIN c.body[i].args : c.body[i].args[k] = v
BY DEF BodyOnly, BodyVars, AtomVars

LEMMA Met ==
  ASSUME NEW c, NEW d, Shaped(c), Shaped(d), NEW m, NEW n, Names(c, m), Names(d, n),
         Range(RenameBody(c, m)) \subseteq Range(RenameBody(d, n)), NEW v \in BodyOnly(c)
  PROVE  \E w \in BodyOnly(d) : m[v] = n[w]
<1>1. PICK i \in DOMAIN c.body : \E k \in DOMAIN c.body[i].args : c.body[i].args[k] = v
  BY BodyOnlyOccurs
<1>2. PICK k \in DOMAIN c.body[i].args : c.body[i].args[k] = v
  BY <1>1
<1>3. RenameAtom(c.body[i], m) \in Range(RenameBody(d, n))
  BY DEF RenameBody, Range
<1>4. PICK j \in DOMAIN d.body : RenameAtom(c.body[i], m) = RenameAtom(d.body[j], n)
  BY <1>3 DEF RenameBody, Range
<1>5. QED
  BY <1>2, <1>4, SameAtoms

(* c becomes d when its body variables are renamed and its body reordered. *)
Alike(c, d, map) ==
  /\ map \in Bijection(BodyOnly(c), BodyOnly(d))
  /\ c.head = d.head
  /\ Range(RenameBody(c, map)) = Range(d.body)

LEMMA AlikeFacts ==
  ASSUME NEW c, NEW d, NEW map, Alike(c, d, map)
  PROVE  /\ map \in [BodyOnly(c) -> BodyOnly(d)]
         /\ \A v, w \in BodyOnly(c) : map[v] = map[w] => v = w
         /\ \A w \in BodyOnly(d) : \E v \in BodyOnly(c) : map[v] = w
         /\ c.head = d.head
         /\ Range(RenameBody(c, map)) = Range(d.body)
<1>1. map \in [BodyOnly(c) -> BodyOnly(d)] /\ IsInjective(map)
  BY DEF Alike, Bijection, Injection
<1>2. \A w \in BodyOnly(d) : \E v \in BodyOnly(c) : map[v] = w
  BY DEF Alike, Bijection, Surjection
<1>3. QED
  BY <1>1, <1>2 DEF Alike, IsInjective

(* The head's variables are none of the body only, so no map of those      *)
(* changes the head.                                                       *)
LEMMA HeadIsKept ==
  ASSUME NEW c, Shaped(c), NEW map, DOMAIN map = BodyOnly(c)
  PROVE  RenameAtom(c.head, map) = c.head
<1>1. IsAtom(c.head) /\ \A k \in DOMAIN c.head.args : IsVar(c.head.args[k])
  BY DEF Shaped
<1>2. \A k \in DOMAIN c.head.args : c.head.args[k] \notin BodyOnly(c)
  BY <1>1 DEF BodyOnly, AtomVars
<1>3. \A k \in DOMAIN c.head.args : Renamed(c.head.args[k], map) = c.head.args[k]
  BY <1>2 DEF Renamed
<1>4. RenameAtom(c.head, map) =
        [predicate |-> c.head.predicate, args |-> [k \in DOMAIN c.head.args |-> Renamed(c.head.args[k], map)]]
  BY <1>1, RenamedAtom
<1>5. [k \in DOMAIN c.head.args |-> Renamed(c.head.args[k], map)] = [k \in DOMAIN c.head.args |-> c.head.args[k]]
  BY <1>3
<1>6. QED
  BY <1>1, <1>4, <1>5, AtomFacts

(* One rendering is enough to find the renaming.                           *)
LEMMA SameRendering ==
  ASSUME NEW c, NEW d, Shaped(c), Shaped(d), NEW m, NEW n, Names(c, m), Names(d, n),
         Rendering(c, m) = Rendering(d, n)
  PROVE  \E map : Alike(c, d, map)
<1>1. RenameAtom(c.head, m) = RenameAtom(d.head, n) /\ Sorted(RenameBody(c, m)) = Sorted(RenameBody(d, n))
  BY DEF Rendering
<1>2. c.head = d.head
  BY <1>1, HeadIsKept, NamesFacts
<1>3. Range(RenameBody(c, m)) = Range(RenameBody(d, n))
  <2>1. \A s : DOMAIN Sorted(s) = Range(s)
    BY DEF Sorted
  <2>2. QED
    BY <1>1, <2>1
<1>4. \A v \in BodyOnly(c) : \E w \in BodyOnly(d) : m[v] = n[w]
  BY <1>3, Met
<1>5. \A w \in BodyOnly(d) : \E v \in BodyOnly(c) : n[w] = m[v]
  BY <1>3, Met
<1> DEFINE map == [v \in BodyOnly(c) |-> CHOOSE w \in BodyOnly(d) : m[v] = n[w]]
<1>6. \A v \in BodyOnly(c) : map[v] \in BodyOnly(d) /\ m[v] = n[map[v]]
  BY <1>4
<1>7. DOMAIN map = BodyOnly(c) /\ map \in [BodyOnly(c) -> BodyOnly(d)]
  BY <1>6
<1> HIDE DEF map
<1>8. \A v \in BodyOnly(c), w \in BodyOnly(d) : m[v] = n[w] => map[v] = w
  BY <1>6, NamesFacts
<1>9. map \in Bijection(BodyOnly(c), BodyOnly(d))
  <2>1. \A v, w \in BodyOnly(c) : map[v] = map[w] => v = w
    BY <1>6, NamesFacts
  <2>2. \A w \in BodyOnly(d) : \E v \in BodyOnly(c) : map[v] = w
    BY <1>5, <1>8
  <2>3. QED
    BY <1>7, <2>1, <2>2 DEF Bijection, Injection, Surjection, IsInjective
<1>10. ASSUME NEW i \in DOMAIN c.body, NEW j \in DOMAIN d.body,
              RenameAtom(c.body[i], m) = RenameAtom(d.body[j], n)
       PROVE  RenameAtom(c.body[i], map) = d.body[j]
  <2>1. IsAtom(c.body[i]) /\ IsAtom(d.body[j])
    BY DEF Shaped
  <2>2. /\ c.body[i].predicate = d.body[j].predicate /\ DOMAIN c.body[i].args = DOMAIN d.body[j].args
        /\ \A k \in DOMAIN c.body[i].args :
             \/ /\ c.body[i].args[k] \in BodyOnly(c) /\ d.body[j].args[k] \in BodyOnly(d)
                /\ m[c.body[i].args[k]] = n[d.body[j].args[k]]
             \/ c.body[i].args[k] \notin BodyOnly(c) /\ c.body[i].args[k] = d.body[j].args[k]
    BY <1>10, SameAtoms
  <2>3. \A k \in DOMAIN c.body[i].args : Renamed(c.body[i].args[k], map) = d.body[j].args[k]
    BY <1>7, <1>8, <2>2 DEF Renamed
  <2>4. [k \in DOMAIN c.body[i].args |-> Renamed(c.body[i].args[k], map)] =
          [k \in DOMAIN d.body[j].args |-> d.body[j].args[k]]
    BY <2>2, <2>3
  <2>5. RenameAtom(c.body[i], map) =
          [predicate |-> c.body[i].predicate,
           args |-> [k \in DOMAIN c.body[i].args |-> Renamed(c.body[i].args[k], map)]]
    BY <2>1, RenamedAtom
  <2>6. d.body[j] = [predicate |-> d.body[j].predicate, args |-> d.body[j].args]
        /\ d.body[j].args = [k \in DOMAIN d.body[j].args |-> d.body[j].args[k]]
    BY <2>1, AtomFacts
  <2>7. QED
    BY <2>2, <2>4, <2>5, <2>6
<1>11. Range(RenameBody(c, map)) = Range(d.body)
  <2>1. ASSUME NEW i \in DOMAIN c.body PROVE \E j \in DOMAIN d.body : RenameAtom(c.body[i], map) = d.body[j]
    <3>1. RenameAtom(c.body[i], m) \in Range(RenameBody(d, n))
      BY <1>3 DEF RenameBody, Range
    <3>2. PICK j \in DOMAIN d.body : RenameAtom(c.body[i], m) = RenameAtom(d.body[j], n)
      BY <3>1 DEF RenameBody, Range
    <3>3. QED
      BY <1>10, <3>2
  <2>2. ASSUME NEW j \in DOMAIN d.body PROVE \E i \in DOMAIN c.body : RenameAtom(c.body[i], map) = d.body[j]
    <3>1. RenameAtom(d.body[j], n) \in Range(RenameBody(c, m))
      BY <1>3 DEF RenameBody, Range
    <3>2. PICK i \in DOMAIN c.body : RenameAtom(d.body[j], n) = RenameAtom(c.body[i], m)
      BY <3>1 DEF RenameBody, Range
    <3>3. QED
      BY <1>10, <3>2
  <2>3. Range(RenameBody(c, map)) \subseteq Range(d.body)
    BY <2>1 DEF RenameBody, Range
  <2>4. Range(d.body) \subseteq Range(RenameBody(c, map))
    BY <2>2 DEF RenameBody, Range
  <2>5. QED
    BY <2>3, <2>4
<1>12. QED
  BY <1>2, <1>9, <1>11 DEF Alike

LEMMA AlikeSubsumes ==
  ASSUME NEW c, NEW d, Shaped(c), Shaped(d), NEW map, Alike(c, d, map)
  PROVE  Subsumes(c, d)
<1> DEFINE whole == [v \in ClauseVars(c) |-> Renamed(v, map)]
<1>1. DOMAIN map = BodyOnly(c) /\ \A v \in BodyOnly(c) : map[v] \in BodyOnly(d)
  BY AlikeFacts
<1>2. c.head = d.head /\ Range(RenameBody(c, map)) = Range(d.body)
  BY AlikeFacts
<1>3. \A v \in ClauseVars(c) : Renamed(v, map) \in ClauseVars(d)
  BY <1>1, <1>2 DEF Renamed, ClauseVars, BodyOnly
<1>4. \A t : Renamed(t, whole) = Renamed(t, map)
  BY <1>1 DEF Renamed, ClauseVars, BodyOnly
<1>5. whole \in [ClauseVars(c) -> ClauseVars(d) \cup Range(d.head.args)]
  BY <1>3
<1>6. \A v \in BodyOnly(c) : whole[v] \in ClauseVars(d)
  BY <1>3 DEF BodyOnly, ClauseVars
<1> HIDE DEF whole
<1>7. ASSUME NEW a PROVE RenameAtom(a, whole) = RenameAtom(a, map)
  <2>1. [k \in DOMAIN a.args |-> Renamed(a.args[k], whole)] = [k \in DOMAIN a.args |-> Renamed(a.args[k], map)]
    BY <1>4
  <2>2. QED
    BY <2>1 DEF RenameAtom, Renamed
<1>8. RenameAtom(c.head, whole) = d.head
  BY <1>1, <1>2, <1>7, HeadIsKept
<1>9. RenameBody(c, whole) = RenameBody(c, map)
  BY <1>7 DEF RenameBody
<1>10. c.head.predicate = d.head.predicate /\ Len(c.head.args) = Len(d.head.args)
  BY <1>2
<1>11. QED
  BY <1>2, <1>5, <1>6, <1>8, <1>9, <1>10 DEF Subsumes

LEMMA BodyOnlyIsFinite ==
  ASSUME NEW c, Shaped(c)
  PROVE  IsFiniteSet(BodyOnly(c))
<1>1. PICK w \in Nat : DOMAIN c.body = 1 .. w
  BY DEF Shaped
<1> DEFINE of == [m \in 1 .. w |-> AtomVars(c.body[m])]
           Sets == {AtomVars(c.body[m]) : m \in DOMAIN c.body}
<1>2. of \in Surjection(1 .. w, Sets)
  BY <1>1 DEF Surjection
<1>3. IsFiniteSet(1 .. w)
  BY <1>1, FS_Interval
<1>4. IsFiniteSet(Sets)
  <2> HIDE DEF of, Sets
  <2>1. QED
    BY <1>2, <1>3, FS_Surjection
<1>5. ASSUME NEW m \in DOMAIN c.body PROVE IsFiniteSet(AtomVars(c.body[m]))
  <2> DEFINE args == c.body[m].args
  <2>1. PICK n \in Nat : DOMAIN args = 1 .. n
    BY AtomFacts DEF Shaped
  <2>2. [k \in 1 .. n |-> args[k]] \in Surjection(1 .. n, {args[k] : k \in 1 .. n})
    BY DEF Surjection
  <2>3. IsFiniteSet({args[k] : k \in 1 .. n})
    <3>1. IsFiniteSet(1 .. n)
      BY FS_Interval
    <3>2. QED
      BY <2>2, <3>1, FS_Surjection
  <2>4. AtomVars(c.body[m]) \in SUBSET {args[k] : k \in 1 .. n}
    BY <2>1 DEF AtomVars
  <2>5. QED
    BY <2>3, <2>4, FS_Subset
<1>6. \A T \in Sets : IsFiniteSet(T)
  BY <1>5
<1>7. BodyVars(c) = UNION Sets
  BY DEF BodyVars
<1>8. IsFiniteSet(BodyVars(c))
  <2> HIDE DEF Sets
  <2>1. QED
    BY <1>4, <1>6, <1>7, FS_UNION
<1>9. BodyOnly(c) \in SUBSET BodyVars(c)
  BY DEF BodyOnly
<1>10. QED
  BY <1>8, <1>9, FS_Subset

LEMMA NamesExist ==
  ASSUME NEW c, Shaped(c)
  PROVE  \E m : Names(c, m)
<1> DEFINE w == Cardinality(BodyOnly(c))
<1>1. w \in Nat /\ IsFiniteSet(BodyOnly(c))
  BY BodyOnlyIsFinite, FS_CardinalityType
<1>2. PICK f : f \in Bijection(BodyOnly(c), 1 .. w)
  <2>1. IsFiniteSet(1 .. w) /\ Cardinality(1 .. w) = w
    <3> HIDE DEF w
    <3>1. QED
      BY <1>1, FS_Interval
  <2>2. ExistsBijection(BodyOnly(c), 1 .. w)
    BY <1>1, <2>1, FS_SameCardinalityBij
  <2>3. QED
    BY <2>2 DEF ExistsBijection
<1>3. /\ f \in [BodyOnly(c) -> 1 .. w]
      /\ \A u, v \in BodyOnly(c) : f[u] = f[v] => u = v
      /\ \A n \in 1 .. w : \E v \in BodyOnly(c) : f[v] = n
  BY <1>2 DEF Bijection, Injection, Surjection, IsInjective
<1> HIDE DEF w
<1> DEFINE m == [v \in BodyOnly(c) |-> <<"W", f[v] - 1>>]
<1>4. \A v \in BodyOnly(c) : m[v] = <<"W", f[v] - 1>> /\ f[v] \in 1 .. w
  BY <1>3
<1>5. CanonicalNames(c) = {<<"W", n>> : n \in 0 .. w - 1}
  BY DEF CanonicalNames, w
<1>6. m \in [BodyOnly(c) -> CanonicalNames(c)]
  <2>1. \A n \in 1 .. w : n - 1 \in 0 .. w - 1
    BY <1>1
  <2>2. QED
    BY <1>3, <1>5, <2>1
<1>7. \A u, v \in BodyOnly(c) : m[u] = m[v] => u = v
  <2>1. ASSUME NEW u \in BodyOnly(c), NEW v \in BodyOnly(c), m[u] = m[v] PROVE u = v
    <3>1. f[u] - 1 = f[v] - 1
      BY <1>4, <2>1
    <3>2. f[u] \in Int /\ f[v] \in Int
      <4>1. f[u] \in 1 .. w /\ f[v] \in 1 .. w
        BY <1>4
      <4>2. QED
        BY <1>1, <4>1
    <3>3. QED
      BY <1>3, <3>1, <3>2
  <2>2. QED
    BY <2>1
<1>8. \A x \in CanonicalNames(c) : \E v \in BodyOnly(c) : m[v] = x
  <2>1. ASSUME NEW n \in 0 .. w - 1 PROVE \E v \in BodyOnly(c) : m[v] = <<"W", n>>
    <3>1. n + 1 \in 1 .. w /\ (n + 1) - 1 = n
      BY <1>1
    <3>2. PICK v \in BodyOnly(c) : f[v] = n + 1
      BY <1>3, <3>1
    <3>3. QED
      BY <1>4, <3>1, <3>2
  <2>2. QED
    BY <1>5, <2>1
<1> HIDE DEF m
<1>9. QED
  BY <1>6, <1>7, <1>8 DEF Names, Bijection, Injection, Surjection, IsInjective

LEMMA FormIsRendering ==
  ASSUME NEW c, Shaped(c)
  PROVE  \E m : Names(c, m) /\ CanonicalClause(c) = Rendering(c, m)
<1>1. CanonicalClause(c) \in {Rendering(c, m) : m \in Bijection(BodyOnly(c), CanonicalNames(c))}
  BY NamesExist DEF CanonicalClause, Names
<1>2. QED
  BY <1>1 DEF Names

(* Clauses of one form are alike.                                          *)
LEMMA SameForm ==
  ASSUME NEW c, NEW d, Shaped(c), Shaped(d), CanonicalClause(c) = CanonicalClause(d)
  PROVE  \E map : Alike(c, d, map)
<1>1. PICK m : Names(c, m) /\ CanonicalClause(c) = Rendering(c, m)
  BY FormIsRendering
<1>2. PICK n : Names(d, n) /\ CanonicalClause(d) = Rendering(d, n)
  BY FormIsRendering
<1>3. QED
  BY <1>1, <1>2, SameRendering

(* A renaming can be taken back.                                           *)
LEMMA AlikeBack ==
  ASSUME NEW c, NEW d, Shaped(c), Shaped(d), NEW map, Alike(c, d, map)
  PROVE  \E back : Alike(d, c, back)
<1>1. /\ map \in [BodyOnly(c) -> BodyOnly(d)]
      /\ \A v, w \in BodyOnly(c) : map[v] = map[w] => v = w
      /\ \A w \in BodyOnly(d) : \E v \in BodyOnly(c) : map[v] = w
      /\ c.head = d.head
      /\ Range(RenameBody(c, map)) = Range(d.body)
  BY AlikeFacts
<1> DEFINE back == [w \in BodyOnly(d) |-> CHOOSE v \in BodyOnly(c) : map[v] = w]
<1>2. \A w \in BodyOnly(d) : back[w] \in BodyOnly(c) /\ map[back[w]] = w
  BY <1>1
<1>3. DOMAIN back = BodyOnly(d) /\ back \in [BodyOnly(d) -> BodyOnly(c)]
  BY <1>2
<1> HIDE DEF back
<1>4. \A v \in BodyOnly(c) : back[map[v]] = v
  BY <1>1, <1>2
<1>5. back \in Bijection(BodyOnly(d), BodyOnly(c))
  <2>1. \A v, w \in BodyOnly(d) : back[v] = back[w] => v = w
    BY <1>2
  <2>2. \A v \in BodyOnly(c) : \E w \in BodyOnly(d) : back[w] = v
    BY <1>1, <1>4
  <2>3. QED
    BY <1>3, <2>1, <2>2 DEF Bijection, Injection, Surjection, IsInjective
<1>6. ASSUME NEW i \in DOMAIN c.body, NEW j \in DOMAIN d.body, RenameAtom(c.body[i], map) = d.body[j]
      PROVE  RenameAtom(d.body[j], back) = c.body[i]
  <2> DEFINE as == c.body[i].args
             bs == d.body[j].args
  <2>1. IsAtom(c.body[i]) /\ IsAtom(d.body[j])
    BY DEF Shaped
  <2>2. d.body[j].predicate = c.body[i].predicate /\ bs = [k \in DOMAIN as |-> Renamed(as[k], map)]
    BY <1>6, <2>1, RenamedAtom
  <2>3. ASSUME NEW k \in DOMAIN as PROVE Renamed(bs[k], back) = as[k]
    <3>1. bs[k] = Renamed(as[k], map)
      BY <2>2
    <3>2. CASE as[k] \in BodyOnly(c)
      <4>1. bs[k] = map[as[k]] /\ map[as[k]] \in BodyOnly(d)
        BY <1>1, <3>1, <3>2 DEF Renamed
      <4>2. QED
        BY <1>3, <1>4, <3>2, <4>1 DEF Renamed
    <3>3. CASE as[k] \notin BodyOnly(c)
      <4>1. bs[k] = as[k]
        BY <1>1, <3>1, <3>3 DEF Renamed
      <4>2. as[k] \notin BodyOnly(d)
        <5>1. as[k] \in BodyVars(c) \/ ~IsVar(as[k])
          BY DEF BodyVars, AtomVars
        <5>2. as[k] \in AtomVars(c.head) \/ ~IsVar(as[k])
          BY <3>3, <5>1 DEF BodyOnly
        <5>3. \A v \in BodyOnly(d) : IsVar(v)
          BY DEF BodyOnly, BodyVars, AtomVars
        <5>4. QED
          BY <1>1, <5>2, <5>3 DEF BodyOnly
      <4>3. QED
        BY <1>3, <4>1, <4>2 DEF Renamed
    <3>4. QED
      BY <3>2, <3>3
  <2>4. DOMAIN bs = DOMAIN as
    BY <2>2
  <2>5. RenameAtom(d.body[j], back) =
          [predicate |-> d.body[j].predicate, args |-> [k \in DOMAIN bs |-> Renamed(bs[k], back)]]
    BY <2>1, RenamedAtom
  <2>6. c.body[i] = [predicate |-> c.body[i].predicate, args |-> as] /\ as = [k \in DOMAIN as |-> as[k]]
    BY <2>1, AtomFacts
  <2> HIDE DEF as, bs
  <2>7. [k \in DOMAIN bs |-> Renamed(bs[k], back)] = [k \in DOMAIN as |-> as[k]]
    BY <2>3, <2>4
  <2>8. QED
    BY <2>2, <2>5, <2>6, <2>7
<1>7. Range(RenameBody(d, back)) \subseteq Range(c.body)
  <2>1. ASSUME NEW j \in DOMAIN d.body PROVE RenameAtom(d.body[j], back) \in Range(c.body)
    <3>1. d.body[j] \in Range(RenameBody(c, map))
      BY <1>1 DEF Range
    <3>2. PICK i \in DOMAIN c.body : RenameAtom(c.body[i], map) = d.body[j]
      BY <3>1 DEF RenameBody, Range
    <3>3. QED
      BY <1>6, <3>2 DEF Range
  <2>2. QED
    BY <2>1 DEF RenameBody, Range
<1>8. Range(c.body) \subseteq Range(RenameBody(d, back))
  <2>1. ASSUME NEW i \in DOMAIN c.body PROVE c.body[i] \in Range(RenameBody(d, back))
    <3>1. RenameAtom(c.body[i], map) \in Range(d.body)
      BY <1>1 DEF RenameBody, Range
    <3>2. PICK j \in DOMAIN d.body : RenameAtom(c.body[i], map) = d.body[j]
      BY <3>1 DEF Range
    <3>3. RenameAtom(d.body[j], back) = c.body[i]
      BY <1>6, <3>2
    <3>4. QED
      BY <3>3 DEF RenameBody, Range
  <2>2. QED
    BY <2>1 DEF Range
<1>9. Range(RenameBody(d, back)) = Range(c.body)
  BY <1>7, <1>8
<1>10. d.head = c.head
  BY <1>1
<1>11. QED
  BY <1>5, <1>9, <1>10 DEF Alike

---------------------------------------------------------------------------
(* Alike clauses have the same renderings.                                 *)

LEMMA RenderedOnce ==
  ASSUME NEW c, Shaped(c), NEW m, Names(c, m)
  PROVE  Sorted(RenameBody(c, m)) = [x \in Range(RenameBody(c, m)) |-> 1]
<1> DEFINE s == RenameBody(c, m)
<1>1. DOMAIN s = DOMAIN c.body /\ \A i \in DOMAIN c.body : s[i] = RenameAtom(c.body[i], m)
  BY DEF RenameBody
<1>2. ASSUME NEW i \in DOMAIN c.body, NEW j \in DOMAIN c.body, s[i] = s[j] PROVE i = j
  <2> DEFINE as == c.body[i].args
             bs == c.body[j].args
  <2>1. IsAtom(c.body[i]) /\ IsAtom(c.body[j])
    BY DEF Shaped
  <2>2. RenameAtom(c.body[i], m) = RenameAtom(c.body[j], m)
    BY <1>1, <1>2
  <2>3. /\ c.body[i].predicate = c.body[j].predicate /\ DOMAIN as = DOMAIN bs
        /\ \A k \in DOMAIN as : \/ as[k] \in BodyOnly(c) /\ bs[k] \in BodyOnly(c) /\ m[as[k]] = m[bs[k]]
                                \/ as[k] = bs[k]
    BY <2>2, SameAtoms
  <2>4. \A k \in DOMAIN as : as[k] = bs[k]
    BY <2>3, NamesFacts
  <2>5. /\ c.body[i] = [predicate |-> c.body[i].predicate, args |-> as] /\ as = [k \in DOMAIN as |-> as[k]]
        /\ c.body[j] = [predicate |-> c.body[j].predicate, args |-> bs] /\ bs = [k \in DOMAIN bs |-> bs[k]]
    BY <2>1, AtomFacts
  <2> HIDE DEF as, bs
  <2>6. as = bs
    BY <2>3, <2>4, <2>5
  <2>7. c.body[i] = c.body[j]
    BY <2>3, <2>5, <2>6
  <2>8. QED
    BY <2>7 DEF Shaped, IsInjective
<1> HIDE DEF s
<1>3. ASSUME NEW x \in Range(s) PROVE Cardinality({k \in DOMAIN s : s[k] = x}) = 1
  <2>1. PICK i \in DOMAIN s : s[i] = x
    BY DEF Range
  <2>2. {k \in DOMAIN s : s[k] = x} = {i}
    BY <1>1, <1>2, <2>1
  <2>3. QED
    BY <2>2, FS_Singleton
<1>4. Sorted(s) = [x \in Range(s) |-> 1]
  BY <1>3 DEF Sorted
<1>5. QED
  BY <1>4 DEF s

LEMMA AlikeRenders ==
  ASSUME NEW c, NEW d, Shaped(c), Shaped(d), NEW map, Alike(c, d, map), NEW n, Names(d, n)
  PROVE  \E m : Names(c, m) /\ Rendering(c, m) = Rendering(d, n)
<1>1. /\ map \in [BodyOnly(c) -> BodyOnly(d)]
      /\ \A v, w \in BodyOnly(c) : map[v] = map[w] => v = w
      /\ \A w \in BodyOnly(d) : \E v \in BodyOnly(c) : map[v] = w
      /\ c.head = d.head
      /\ Range(RenameBody(c, map)) = Range(d.body)
  BY AlikeFacts
<1>2. CanonicalNames(c) = CanonicalNames(d)
  <2>1. IsFiniteSet(BodyOnly(c)) /\ ExistsBijection(BodyOnly(c), BodyOnly(d))
    BY BodyOnlyIsFinite DEF Alike, ExistsBijection
  <2>2. Cardinality(BodyOnly(d)) = Cardinality(BodyOnly(c))
    BY <2>1, FS_Bijection
  <2>3. QED
    BY <2>2 DEF CanonicalNames
<1>3. /\ n \in [BodyOnly(d) -> CanonicalNames(d)]
      /\ \A v, w \in BodyOnly(d) : n[v] = n[w] => v = w
      /\ \A x \in CanonicalNames(d) : \E w \in BodyOnly(d) : n[w] = x
  BY DEF Names, Bijection, Injection, Surjection, IsInjective
<1> DEFINE m == [v \in BodyOnly(c) |-> n[map[v]]]
<1>4. DOMAIN m = BodyOnly(c) /\ \A v \in BodyOnly(c) : m[v] = n[map[v]]
  OBVIOUS
<1>5. Names(c, m)
  <2>1. m \in [BodyOnly(c) -> CanonicalNames(c)]
    BY <1>1, <1>2, <1>3
  <2> HIDE DEF m
  <2>2. \A v, w \in BodyOnly(c) : m[v] = m[w] => v = w
    BY <1>1, <1>3, <1>4
  <2>3. \A x \in CanonicalNames(c) : \E v \in BodyOnly(c) : m[v] = x
    BY <1>1, <1>2, <1>3, <1>4
  <2>4. QED
    BY <2>1, <2>2, <2>3 DEF Names, Bijection, Injection, Surjection, IsInjective
<1> HIDE DEF m
<1>6. ASSUME NEW i \in DOMAIN c.body, NEW j \in DOMAIN d.body, RenameAtom(c.body[i], map) = d.body[j]
      PROVE  RenameAtom(c.body[i], m) = RenameAtom(d.body[j], n)
  <2> DEFINE as == c.body[i].args
             bs == d.body[j].args
  <2>1. IsAtom(c.body[i]) /\ IsAtom(d.body[j])
    BY DEF Shaped
  <2>2. d.body[j].predicate = c.body[i].predicate /\ bs = [k \in DOMAIN as |-> Renamed(as[k], map)]
    BY <1>6, <2>1, RenamedAtom
  <2>3. ASSUME NEW k \in DOMAIN as PROVE Renamed(as[k], m) = Renamed(bs[k], n)
    <3>1. bs[k] = Renamed(as[k], map)
      BY <2>2
    <3>2. CASE as[k] \in BodyOnly(c)
      <4>1. bs[k] = map[as[k]] /\ map[as[k]] \in BodyOnly(d)
        BY <1>1, <3>1, <3>2 DEF Renamed
      <4>2. Renamed(as[k], m) = n[bs[k]]
        BY <1>4, <3>2, <4>1 DEF Renamed
      <4>3. Renamed(bs[k], n) = n[bs[k]]
        BY <1>3, <4>1 DEF Renamed
      <4>4. QED
        BY <4>2, <4>3
    <3>3. CASE as[k] \notin BodyOnly(c)
      <4>1. bs[k] = as[k]
        BY <1>1, <3>1, <3>3 DEF Renamed
      <4>2. as[k] \notin BodyOnly(d)
        <5>1. as[k] \in BodyVars(c) \/ ~IsVar(as[k])
          BY DEF BodyVars, AtomVars
        <5>2. as[k] \in AtomVars(c.head) \/ ~IsVar(as[k])
          BY <3>3, <5>1 DEF BodyOnly
        <5>3. \A v \in BodyOnly(d) : IsVar(v)
          BY DEF BodyOnly, BodyVars, AtomVars
        <5>4. QED
          BY <1>1, <5>2, <5>3 DEF BodyOnly
      <4>3. Renamed(as[k], m) = as[k]
        BY <1>4, <3>3 DEF Renamed
      <4>4. Renamed(bs[k], n) = bs[k]
        BY <1>3, <4>1, <4>2 DEF Renamed
      <4>5. QED
        BY <4>1, <4>3, <4>4
    <3>4. QED
      BY <3>2, <3>3
  <2>4. DOMAIN bs = DOMAIN as
    BY <2>2
  <2> HIDE DEF as, bs
  <2>5. [k \in DOMAIN as |-> Renamed(as[k], m)] = [k \in DOMAIN bs |-> Renamed(bs[k], n)]
    BY <2>3, <2>4
  <2>6. RenameAtom(c.body[i], m) =
          [predicate |-> c.body[i].predicate, args |-> [k \in DOMAIN as |-> Renamed(as[k], m)]]
    BY <2>1, RenamedAtom DEF as
  <2>7. RenameAtom(d.body[j], n) =
          [predicate |-> d.body[j].predicate, args |-> [k \in DOMAIN bs |-> Renamed(bs[k], n)]]
    BY <2>1, RenamedAtom DEF bs
  <2>8. QED
    BY <2>2, <2>5, <2>6, <2>7
<1>7. Range(RenameBody(c, m)) \subseteq Range(RenameBody(d, n))
  <2>1. ASSUME NEW i \in DOMAIN c.body PROVE RenameAtom(c.body[i], m) \in Range(RenameBody(d, n))
    <3>1. RenameAtom(c.body[i], map) \in Range(d.body)
      BY <1>1 DEF RenameBody, Range
    <3>2. PICK j \in DOMAIN d.body : RenameAtom(c.body[i], map) = d.body[j]
      BY <3>1 DEF Range
    <3>3. RenameAtom(c.body[i], m) = RenameAtom(d.body[j], n)
      BY <1>6, <3>2
    <3>4. QED
      BY <3>3 DEF RenameBody, Range
  <2>2. QED
    BY <2>1 DEF RenameBody, Range
<1>8. Range(RenameBody(d, n)) \subseteq Range(RenameBody(c, m))
  <2>1. ASSUME NEW j \in DOMAIN d.body PROVE RenameAtom(d.body[j], n) \in Range(RenameBody(c, m))
    <3>1. d.body[j] \in Range(RenameBody(c, map))
      BY <1>1 DEF Range
    <3>2. PICK i \in DOMAIN c.body : RenameAtom(c.body[i], map) = d.body[j]
      BY <3>1 DEF RenameBody, Range
    <3>3. RenameAtom(c.body[i], m) = RenameAtom(d.body[j], n)
      BY <1>6, <3>2
    <3>4. QED
      BY <3>3 DEF RenameBody, Range
  <2>2. QED
    BY <2>1 DEF RenameBody, Range
<1>9. Sorted(RenameBody(c, m)) = Sorted(RenameBody(d, n))
  BY <1>5, <1>7, <1>8, RenderedOnce
<1>10. RenameAtom(c.head, m) = RenameAtom(d.head, n)
  BY <1>1, <1>3, <1>4, HeadIsKept
<1>11. QED
  BY <1>5, <1>9, <1>10 DEF Rendering

LEMMA AlikeForms ==
  ASSUME NEW c, NEW d, Shaped(c), Shaped(d), NEW map, Alike(c, d, map)
  PROVE  CanonicalClause(c) = CanonicalClause(d)
<1> DEFINE Of(x) == {Rendering(x, m) : m \in Bijection(BodyOnly(x), CanonicalNames(x))}
<1>1. Of(d) \subseteq Of(c)
  BY AlikeRenders DEF Names
<1>2. PICK back : Alike(d, c, back)
  BY AlikeBack
<1>3. Of(c) \subseteq Of(d)
  BY <1>2, AlikeRenders DEF Names
<1>4. Of(c) = Of(d)
  BY <1>1, <1>3
<1>5. QED
  BY <1>4 DEF CanonicalClause

---------------------------------------------------------------------------
(* Variants.                                                               *)

LEMMA BodyVarsAreNumbered ==
  ASSUME NEW b \in Biases, NEW c, IsClause(b, c), NEW v \in BodyOnly(c)
  PROVE  v \in Range(VarPool(b.maxVars)) /\ v \notin AtomVars(c.head)
<1> DEFINE Vs == {V(n) : n \in 0 .. b.maxVars - 1}
           Cs == {<<"c", x.value>> : x \in Range(b.constants)}
           Preds == Range(b.bodies) \cup (IF b.recursion THEN Range(b.heads) ELSE {})
<1>1. PICK i \in DOMAIN c.body : \E k \in DOMAIN c.body[i].args : c.body[i].args[k] = v
  BY BodyOnlyOccurs
<1>2. c.body[i] \in BodyAtoms(b)
  BY <1>1 DEF IsClause
<1>3. \E p \in Preds : \E args \in [1 .. p.arity -> Vs \cup Cs] : c.body[i] = [predicate |-> p.name, args |-> args]
  BY <1>2 DEF BodyAtoms
<1>4. v \in Vs \cup Cs
  <2> HIDE DEF Vs, Cs, Preds
  <2>1. PICK p \in Preds : \E args \in [1 .. p.arity -> Vs \cup Cs] : c.body[i] = [predicate |-> p.name, args |-> args]
    BY <1>3
  <2>2. PICK args \in [1 .. p.arity -> Vs \cup Cs] : c.body[i] = [predicate |-> p.name, args |-> args]
    BY <2>1
  <2>3. c.body[i].args = args
    BY <2>2
  <2>4. QED
    BY <1>1, <2>2, <2>3
<1>5. IsVar(v)
  BY DEF BodyOnly, BodyVars, AtomVars
<1>6. v \in Vs
  BY <1>4, <1>5 DEF IsVar
<1>7. b.maxVars \in Nat
  BY BiasAssumption
<1>8. PICK n \in 0 .. b.maxVars - 1 : v = V(n)
  BY <1>6
<1>9. v \in Range(VarPool(b.maxVars))
  <2> DEFINE pool == [k \in 1 .. b.maxVars |-> V(k - 1)]
  <2>1. n + 1 \in DOMAIN pool /\ pool[n + 1] = V(n)
    BY <1>7
  <2>2. pool = VarPool(b.maxVars)
    BY DEF VarPool
  <2>3. QED
    BY <1>8, <2>1, <2>2 DEF Range
<1>10. QED
  BY <1>9 DEF BodyOnly

LEMMA AlikeIsVariant ==
  ASSUME NEW b \in Biases, NEW c, NEW d, IsClause(b, c), IsClause(b, d), NEW map, Alike(c, d, map)
  PROVE  AsSet(d) \in Variants(b, c)
<1>1. /\ map \in [BodyOnly(c) -> BodyOnly(d)]
      /\ \A v, w \in BodyOnly(c) : map[v] = map[w] => v = w
      /\ c.head = d.head
      /\ Range(RenameBody(c, map)) = Range(d.body)
  BY AlikeFacts
<1>2. BodyOnly(d) \subseteq Range(VarPool(b.maxVars)) \ AtomVars(c.head)
  BY <1>1, BodyVarsAreNumbered
<1>3. map \in Injection(BodyOnly(c), Range(VarPool(b.maxVars)) \ AtomVars(c.head))
  BY <1>1, <1>2 DEF Injection, IsInjective
<1>4. AsSet(d) = [head |-> c.head, body |-> Range(RenameBody(c, map))]
  BY <1>1 DEF AsSet
<1>5. QED
  BY <1>3, <1>4 DEF Variants

LEMMA VariantIsAlike ==
  ASSUME NEW b \in Biases, NEW c, NEW d, IsClause(b, c), IsClause(b, d), AsSet(d) \in Variants(b, c)
  PROVE  \E map : Alike(c, d, map)
<1> DEFINE Pool == Range(VarPool(b.maxVars)) \ AtomVars(c.head)
<1>1. PICK map \in Injection(BodyOnly(c), Pool) :
        AsSet(d) = [head |-> c.head, body |-> Range(RenameBody(c, map))]
  BY DEF Variants
<1>2. map \in [BodyOnly(c) -> Pool] /\ \A v, w \in BodyOnly(c) : map[v] = map[w] => v = w
  BY <1>1 DEF Injection, IsInjective
<1>3. c.head = d.head /\ Range(RenameBody(c, map)) = Range(d.body)
  BY <1>1 DEF AsSet
<1>4. Shaped(c) /\ Shaped(d)
  BY ClauseIsShaped
<1>5. \A x \in Pool : IsVar(x) /\ x \notin AtomVars(c.head)
  <2>1. VarPool(b.maxVars) = [k \in 1 .. b.maxVars |-> V(k - 1)] /\ \A n : IsVar(V(n))
    BY DEF VarPool, IsVar, V
  <2>2. \A x \in Range(VarPool(b.maxVars)) : IsVar(x)
    BY <2>1 DEF Range
  <2>3. QED
    BY <2>2
<1> HIDE DEF Pool
<1>6. ASSUME NEW i \in DOMAIN c.body, NEW j \in DOMAIN d.body, RenameAtom(c.body[i], map) = d.body[j]
      PROVE  /\ DOMAIN d.body[j].args = DOMAIN c.body[i].args
             /\ \A k \in DOMAIN c.body[i].args : d.body[j].args[k] = Renamed(c.body[i].args[k], map)
  <2> DEFINE args == [k \in DOMAIN c.body[i].args |-> Renamed(c.body[i].args[k], map)]
  <2>1. RenameAtom(c.body[i], map) = [predicate |-> c.body[i].predicate, args |-> args]
    BY <1>4, RenamedAtom DEF Shaped
  <2>2. d.body[j].args = args
    BY <1>6, <2>1
  <2>3. QED
    BY <2>2
<1>7. ASSUME NEW v \in BodyOnly(c) PROVE map[v] \in BodyOnly(d)
  <2>1. PICK i \in DOMAIN c.body : \E k \in DOMAIN c.body[i].args : c.body[i].args[k] = v
    BY BodyOnlyOccurs
  <2>2. PICK k \in DOMAIN c.body[i].args : c.body[i].args[k] = v
    BY <2>1
  <2>3. RenameAtom(c.body[i], map) \in Range(d.body)
    BY <1>3 DEF RenameBody, Range
  <2>4. PICK j \in DOMAIN d.body : RenameAtom(c.body[i], map) = d.body[j]
    BY <2>3 DEF Range
  <2>5. k \in DOMAIN d.body[j].args /\ d.body[j].args[k] = map[v]
    BY <1>2, <1>6, <2>2, <2>4 DEF Renamed
  <2>6. IsVar(map[v]) /\ map[v] \notin AtomVars(d.head)
    BY <1>2, <1>3, <1>5
  <2>7. map[v] \in AtomVars(d.body[j])
    BY <2>5, <2>6 DEF AtomVars
  <2>8. QED
    BY <2>6, <2>7 DEF BodyOnly, BodyVars
<1>8. ASSUME NEW w \in BodyOnly(d) PROVE \E v \in BodyOnly(c) : map[v] = w
  <2>1. PICK j \in DOMAIN d.body : \E k \in DOMAIN d.body[j].args : d.body[j].args[k] = w
    BY BodyOnlyOccurs
  <2>2. PICK k \in DOMAIN d.body[j].args : d.body[j].args[k] = w
    BY <2>1
  <2>3. d.body[j] \in Range(RenameBody(c, map))
    BY <1>3 DEF Range
  <2>4. PICK i \in DOMAIN c.body : RenameAtom(c.body[i], map) = d.body[j]
    BY <2>3 DEF RenameBody, Range
  <2>5. k \in DOMAIN c.body[i].args /\ w = Renamed(c.body[i].args[k], map)
    BY <1>6, <2>2, <2>4
  <2>6. IsVar(w) /\ w \notin AtomVars(c.head)
    BY <1>3 DEF BodyOnly, BodyVars, AtomVars
  <2>7. CASE c.body[i].args[k] \in BodyOnly(c)
    BY <1>2, <2>5, <2>7 DEF Renamed
  <2>8. CASE c.body[i].args[k] \notin BodyOnly(c)
    <3>1. w = c.body[i].args[k]
      BY <1>2, <2>5, <2>8 DEF Renamed
    <3>2. w \in AtomVars(c.body[i])
      BY <2>5, <2>6, <3>1 DEF AtomVars
    <3>3. QED
      BY <2>6, <2>8, <3>1, <3>2 DEF BodyOnly, BodyVars
  <2>9. QED
    BY <2>7, <2>8
<1>9. map \in Bijection(BodyOnly(c), BodyOnly(d))
  <2>1. map \in [BodyOnly(c) -> BodyOnly(d)]
    BY <1>2, <1>7
  <2>2. QED
    BY <1>2, <1>8, <2>1 DEF Bijection, Injection, Surjection, IsInjective
<1>10. QED
  BY <1>3, <1>9 DEF Alike

(* Canonical forms tell the clauses of a space apart up to their body      *)
(* variables and the order of their bodies.                                *)
LEMMA FormTellsVariants ==
  ASSUME NEW b \in Biases, NEW c, NEW d, IsClause(b, c), IsClause(b, d)
  PROVE  CanonicalClause(c) = CanonicalClause(d) <=> AsSet(d) \in Variants(b, c)
<1>1. Shaped(c) /\ Shaped(d)
  BY ClauseIsShaped
<1>2. ASSUME CanonicalClause(c) = CanonicalClause(d) PROVE AsSet(d) \in Variants(b, c)
  BY <1>1, <1>2, SameForm, AlikeIsVariant
<1>3. ASSUME AsSet(d) \in Variants(b, c) PROVE CanonicalClause(c) = CanonicalClause(d)
  <2>1. PICK map : Alike(c, d, map)
    BY <1>3, VariantIsAlike
  <2>2. QED
    BY <1>1, <2>1, AlikeForms
<1>4. QED
  BY <1>2, <1>3

---------------------------------------------------------------------------
(* Every clause of the space is met with its body variables renamed to the *)
(* first of the pool.                                                      *)

Spreads(c, map, n) == map \in Bijection(BodyOnly(c), Range(VarPool(n)) \ AtomVars(c.head))

Moved(c, map) == [head |-> c.head, body |-> RenameBody(c, map)]

LEMMA PoolVars ==
  ASSUME NEW n, NEW v \in Range(VarPool(n))
  PROVE  IsVar(v)
BY DEF Range, VarPool, V, IsVar

LEMMA SpreadFacts ==
  ASSUME NEW c, NEW n, NEW map, Spreads(c, map, n)
  PROVE  /\ DOMAIN map = BodyOnly(c)
         /\ \A v \in BodyOnly(c) : map[v] \in Range(VarPool(n)) /\ map[v] \notin AtomVars(c.head)
         /\ \A v \in BodyOnly(c) : IsVar(map[v])
         /\ \A v, w \in BodyOnly(c) : map[v] = map[w] => v = w
         /\ \A x \in Range(VarPool(n)) : x \notin AtomVars(c.head) => \E v \in BodyOnly(c) : map[v] = x
<1> DEFINE T == Range(VarPool(n)) \ AtomVars(c.head)
<1>1. map \in [BodyOnly(c) -> T] /\ IsInjective(map) /\ \A x \in T : \E v \in BodyOnly(c) : map[v] = x
  BY DEF Spreads, Bijection, Injection, Surjection
<1>2. \A v \in BodyOnly(c) : map[v] \in T
  BY <1>1
<1>3. \A v \in BodyOnly(c) : IsVar(map[v])
  BY <1>2, PoolVars
<1>4. \A v, w \in BodyOnly(c) : map[v] = map[w] => v = w
  BY <1>1 DEF IsInjective
<1>5. QED
  BY <1>1, <1>2, <1>3, <1>4

LEMMA AtomVarsAreVars ==
  ASSUME NEW a, NEW v \in AtomVars(a)
  PROVE  IsVar(v)
BY DEF AtomVars

LEMMA ClauseVarsAreVars ==
  ASSUME NEW c, NEW v \in ClauseVars(c)
  PROVE  IsVar(v)
BY AtomVarsAreVars DEF ClauseVars, BodyVars

LEMMA SpreadTerms ==
  ASSUME NEW c, NEW n, NEW map, Spreads(c, map, n)
  PROVE  /\ \A t : IsVar(Renamed(t, map)) <=> IsVar(t)
         /\ \A t : ~IsVar(t) => Renamed(t, map) = t
         /\ \A v \in AtomVars(c.head) : Renamed(v, map) = v
         /\ \A s, t : /\ IsVar(s) => s \in ClauseVars(c)
                      /\ IsVar(t) => t \in ClauseVars(c)
                      /\ Renamed(s, map) = Renamed(t, map)
                      => s = t
<1>1. DOMAIN map = BodyOnly(c)
  BY SpreadFacts
<1>2. \A v \in BodyOnly(c) : IsVar(map[v]) /\ map[v] \notin AtomVars(c.head)
  BY SpreadFacts
<1>3. \A v, w \in BodyOnly(c) : map[v] = map[w] => v = w
  BY SpreadFacts
<1>4. \A v \in BodyOnly(c) : IsVar(v) /\ v \notin AtomVars(c.head)
  BY ClauseVarsAreVars DEF BodyOnly, ClauseVars
<1>5. \A t : t \in BodyOnly(c) => Renamed(t, map) = map[t]
  BY <1>1 DEF Renamed
<1>6. \A t : t \notin BodyOnly(c) => Renamed(t, map) = t
  BY <1>1 DEF Renamed
<1>7. \A t : IsVar(Renamed(t, map)) <=> IsVar(t)
  BY <1>2, <1>4, <1>5, <1>6
<1>8. \A t : ~IsVar(t) => Renamed(t, map) = t
  BY <1>4, <1>6
<1>9. \A v \in AtomVars(c.head) : Renamed(v, map) = v
  BY <1>4, <1>6
<1>10. \A v \in ClauseVars(c) : v \in BodyOnly(c) \/ v \in AtomVars(c.head)
  BY DEF ClauseVars, BodyOnly
<1>11. ASSUME NEW s, NEW t,
              IsVar(s) => s \in ClauseVars(c), IsVar(t) => t \in ClauseVars(c),
              Renamed(s, map) = Renamed(t, map)
       PROVE  s = t
  <2>1. CASE ~IsVar(s)
    <3>1. ~IsVar(t)
      BY <1>7, <1>11, <2>1
    <3>2. QED
      BY <1>8, <1>11, <2>1, <3>1
  <2>2. CASE IsVar(s)
    <3>1. IsVar(t)
      BY <1>7, <1>11, <2>2
    <3>2. s \in ClauseVars(c) /\ t \in ClauseVars(c)
      BY <1>11, <2>2, <3>1
    <3>3. CASE s \in BodyOnly(c) /\ t \in BodyOnly(c)
      BY <1>3, <1>5, <1>11, <3>3
    <3>4. CASE s \notin BodyOnly(c) /\ t \notin BodyOnly(c)
      BY <1>6, <1>11, <3>4
    <3>5. CASE s \in BodyOnly(c) /\ t \notin BodyOnly(c)
      BY <1>2, <1>5, <1>6, <1>10, <1>11, <3>2, <3>5
    <3>6. CASE s \notin BodyOnly(c) /\ t \in BodyOnly(c)
      BY <1>2, <1>5, <1>6, <1>10, <1>11, <3>2, <3>6
    <3>7. QED
      BY <3>3, <3>4, <3>5, <3>6
  <2>3. QED
    BY <2>1, <2>2
<1>12. QED
  BY <1>7, <1>8, <1>9, <1>11

LEMMA MovedAtom ==
  ASSUME NEW c, NEW n, NEW map, Spreads(c, map, n), NEW a, IsAtom(a)
  PROVE  /\ RenameAtom(a, map).predicate = a.predicate
         /\ DOMAIN RenameAtom(a, map).args = DOMAIN a.args
         /\ \A k \in DOMAIN a.args : RenameAtom(a, map).args[k] = Renamed(a.args[k], map)
         /\ AtomVars(RenameAtom(a, map)) = {Renamed(v, map) : v \in AtomVars(a)}
         /\ \A b : Reads(b, RenameAtom(a, map)) = {Renamed(v, map) : v \in Reads(b, a)}
<1> DEFINE args == [k \in DOMAIN a.args |-> Renamed(a.args[k], map)]
           x == RenameAtom(a, map)
<1>1. x = [predicate |-> a.predicate, args |-> args]
  BY RenamedAtom
<1>2. x.predicate = a.predicate /\ DOMAIN x.args = DOMAIN a.args
  BY <1>1
<1>3. \A k \in DOMAIN a.args : x.args[k] = Renamed(a.args[k], map)
  BY <1>1
<1>4. \A t : IsVar(Renamed(t, map)) <=> IsVar(t)
  BY SpreadTerms
<1> HIDE DEF x, args
<1>5. {k \in DOMAIN x.args : IsVar(x.args[k])} = {k \in DOMAIN a.args : IsVar(a.args[k])}
  BY <1>2, <1>3, <1>4
<1>6. AtomVars(x) = {Renamed(v, map) : v \in AtomVars(a)}
  <2> DEFINE K == {k \in DOMAIN a.args : IsVar(a.args[k])}
  <2>1. AtomVars(x) = {x.args[k] : k \in K}
    BY <1>5 DEF AtomVars
  <2>2. AtomVars(a) = {a.args[k] : k \in K}
    BY DEF AtomVars
  <2>3. \A k \in K : x.args[k] = Renamed(a.args[k], map)
    BY <1>3
  <2> HIDE DEF K
  <2>4. QED
    BY <2>1, <2>2, <2>3
<1>7. ASSUME NEW b PROVE Reads(b, x) = {Renamed(v, map) : v \in Reads(b, a)}
  <2> DEFINE K == {k \in DOMAIN a.args :
                     /\ a.predicate \in DOMAIN b.modes /\ k \in DOMAIN b.modes[a.predicate]
                     /\ b.modes[a.predicate][k] = "in" /\ IsVar(a.args[k])}
  <2>1. {k \in DOMAIN x.args :
           /\ x.predicate \in DOMAIN b.modes /\ k \in DOMAIN b.modes[x.predicate]
           /\ b.modes[x.predicate][k] = "in" /\ IsVar(x.args[k])} = K
    BY <1>2, <1>3, <1>4
  <2>2. Reads(b, x) = {x.args[k] : k \in K}
    BY <2>1 DEF Reads
  <2>3. Reads(b, a) = {a.args[k] : k \in K}
    BY DEF Reads
  <2>4. \A k \in K : x.args[k] = Renamed(a.args[k], map)
    BY <1>3
  <2> HIDE DEF K
  <2>5. QED
    BY <2>2, <2>3, <2>4
<1>8. QED
  BY <1>2, <1>3, <1>6, <1>7 DEF x

(* Different atoms of the body stay different.                             *)
LEMMA MovedApart ==
  ASSUME NEW c, Shaped(c), NEW n, NEW map, Spreads(c, map, n),
         NEW a \in Range(c.body), NEW b \in Range(c.body), RenameAtom(a, map) = RenameAtom(b, map)
  PROVE  a = b
<1>1. IsAtom(a) /\ IsAtom(b)
  BY DEF Shaped, Range
<1>2. /\ a.predicate = b.predicate /\ DOMAIN a.args = DOMAIN b.args
      /\ \A k \in DOMAIN a.args : Renamed(a.args[k], map) = Renamed(b.args[k], map)
  BY <1>1, SameRenamed
<1>3. AtomVars(a) \subseteq ClauseVars(c) /\ AtomVars(b) \subseteq ClauseVars(c)
  BY DEF ClauseVars, BodyVars, Range
<1>4. ASSUME NEW k \in DOMAIN a.args PROVE a.args[k] = b.args[k]
  <2>1. IsVar(a.args[k]) => a.args[k] \in ClauseVars(c)
    BY <1>3 DEF AtomVars
  <2>2. IsVar(b.args[k]) => b.args[k] \in ClauseVars(c)
    BY <1>2, <1>3 DEF AtomVars
  <2>3. Renamed(a.args[k], map) = Renamed(b.args[k], map)
    BY <1>2
  <2>4. \A s, t : /\ IsVar(s) => s \in ClauseVars(c)
                  /\ IsVar(t) => t \in ClauseVars(c)
                  /\ Renamed(s, map) = Renamed(t, map)
                  => s = t
    BY SpreadTerms
  <2>5. QED
    BY <2>1, <2>2, <2>3, <2>4
<1>5. a = [predicate |-> a.predicate, args |-> a.args] /\ a.args = [k \in DOMAIN a.args |-> a.args[k]]
  BY <1>1, AtomFacts
<1>6. b = [predicate |-> b.predicate, args |-> b.args] /\ b.args = [k \in DOMAIN b.args |-> b.args[k]]
  BY <1>1, AtomFacts
<1>7. a.args = b.args
  BY <1>2, <1>4, <1>5, <1>6
<1>8. QED
  BY <1>2, <1>5, <1>6, <1>7

LEMMA MovedBody ==
  ASSUME NEW c, Shaped(c), NEW n, NEW map, Spreads(c, map, n)
  PROVE  /\ DOMAIN Moved(c, map).body = DOMAIN c.body
         /\ \A m \in DOMAIN c.body : Moved(c, map).body[m] = RenameAtom(c.body[m], map)
         /\ Range(Moved(c, map).body) = {RenameAtom(a, map) : a \in Range(c.body)}
         /\ IsInjective(Moved(c, map).body)
         /\ Moved(c, map).head = c.head
<1> DEFINE d == Moved(c, map)
<1>1. d.head = c.head /\ d.body = [m \in DOMAIN c.body |-> RenameAtom(c.body[m], map)]
  BY DEF Moved, RenameBody
<1> HIDE DEF d
<1>2. DOMAIN d.body = DOMAIN c.body /\ \A m \in DOMAIN c.body : d.body[m] = RenameAtom(c.body[m], map)
  BY <1>1
<1>3. Range(d.body) = {RenameAtom(a, map) : a \in Range(c.body)}
  BY <1>2 DEF Range
<1>4. ASSUME NEW i \in DOMAIN c.body, NEW j \in DOMAIN c.body, d.body[i] = d.body[j] PROVE i = j
  <2>1. c.body[i] \in Range(c.body) /\ c.body[j] \in Range(c.body)
    BY DEF Range
  <2>2. RenameAtom(c.body[i], map) = RenameAtom(c.body[j], map)
    BY <1>2, <1>4
  <2>3. c.body[i] = c.body[j]
    BY <2>1, <2>2, MovedApart
  <2>4. QED
    BY <2>3 DEF Shaped, IsInjective
<1>5. IsInjective(d.body)
  BY <1>2, <1>4 DEF IsInjective
<1>6. QED
  BY <1>1, <1>2, <1>3, <1>5 DEF d

LEMMA MovedVars ==
  ASSUME NEW c, Shaped(c), NEW n, NEW map, Spreads(c, map, n), AtomVars(c.head) \subseteq Range(VarPool(n))
  PROVE  ClauseVars(Moved(c, map)) = Range(VarPool(n))
<1> DEFINE d == Moved(c, map)
           P1 == Range(VarPool(n))
<1>1. Range(d.body) = {RenameAtom(a, map) : a \in Range(c.body)} /\ d.head = c.head
  BY MovedBody
<1>2. \A a \in Range(c.body) : IsAtom(a)
  BY DEF Shaped, Range
<1>3. \A a \in Range(c.body) : AtomVars(RenameAtom(a, map)) = {Renamed(v, map) : v \in AtomVars(a)}
  BY <1>2, MovedAtom
<1>4. BodyVars(d) = UNION {AtomVars(a) : a \in Range(d.body)} /\ BodyVars(c) = UNION {AtomVars(a) : a \in Range(c.body)}
  BY BodyVarsAre
<1> HIDE DEF d
<1>5. BodyVars(d) = {Renamed(v, map) : v \in BodyVars(c)}
  BY <1>1, <1>3, <1>4
<1>6. \A v \in BodyOnly(c) : Renamed(v, map) = map[v]
  BY SpreadFacts DEF Renamed
<1>7. \A v \in AtomVars(c.head) : Renamed(v, map) = v
  BY SpreadTerms
<1>8. ASSUME NEW x \in ClauseVars(d) PROVE x \in P1
  <2>1. CASE x \in AtomVars(d.head)
    BY <1>1, <2>1
  <2>2. CASE x \in BodyVars(d)
    <3>1. PICK v \in BodyVars(c) : x = Renamed(v, map)
      BY <1>5, <2>2
    <3>2. CASE v \in AtomVars(c.head)
      BY <1>7, <3>1, <3>2
    <3>3. CASE v \in BodyOnly(c)
      BY <1>6, <3>1, <3>3, SpreadFacts
    <3>4. QED
      BY <3>2, <3>3 DEF BodyOnly
  <2>3. QED
    BY <2>1, <2>2 DEF ClauseVars
<1>9. ASSUME NEW x \in P1 PROVE x \in ClauseVars(d)
  <2>1. CASE x \in AtomVars(c.head)
    BY <1>1, <2>1 DEF ClauseVars
  <2>2. CASE x \notin AtomVars(c.head)
    <3>1. PICK v \in BodyOnly(c) : map[v] = x
      BY <2>2, SpreadFacts
    <3>2. v \in BodyVars(c)
      BY DEF BodyOnly
    <3>3. x \in BodyVars(d)
      BY <1>5, <1>6, <3>1, <3>2
    <3>4. QED
      BY <3>3 DEF ClauseVars
  <2>3. QED
    BY <2>1, <2>2
<1>10. QED
  BY <1>8, <1>9 DEF d

LEMMA MovedHasNoIsland ==
  ASSUME NEW c, Shaped(c), NEW n, NEW map, Spreads(c, map, n), NoIsland(c)
  PROVE  NoIsland(Moved(c, map))
<1> DEFINE d == Moved(c, map)
           E == Range(c.body)
<1>1. Range(d.body) = {RenameAtom(a, map) : a \in E} /\ d.head = c.head
  BY MovedBody
<1>2. \A a \in E : IsAtom(a)
  BY DEF Shaped, Range
<1>3. \A a \in E : AtomVars(RenameAtom(a, map)) = {Renamed(v, map) : v \in AtomVars(a)}
  BY <1>2, MovedAtom
<1>4. \A v \in AtomVars(c.head) : Renamed(v, map) = v
  BY SpreadTerms
<1> HIDE DEF d
<1> SUFFICES ASSUME NEW T \in SUBSET Range(d.body), T # {}
             PROVE  (UNION {AtomVars(a) : a \in T}) \cap
                      (AtomVars(d.head) \cup UNION {AtomVars(a) : a \in Range(d.body) \ T}) # {}
  BY DEF NoIsland, d
<1> DEFINE S == {a \in E : RenameAtom(a, map) \in T}
<1>5. S \in SUBSET E /\ S # {}
  BY <1>1
<1>6. (UNION {AtomVars(a) : a \in S}) \cap (AtomVars(c.head) \cup UNION {AtomVars(a) : a \in E \ S}) # {}
  <2> HIDE DEF S
  <2>1. QED
    BY <1>5 DEF NoIsland
<1>0. PICK a \in S : \E v \in AtomVars(a) : v \in AtomVars(c.head) \/ \E e \in E \ S : v \in AtomVars(e)
  BY <1>6
<1>7. PICK v \in AtomVars(a) : v \in AtomVars(c.head) \/ \E e \in E \ S : v \in AtomVars(e)
  BY <1>0
<1>8. RenameAtom(a, map) \in T /\ Renamed(v, map) \in AtomVars(RenameAtom(a, map))
  BY <1>3, <1>7
<1>9. CASE v \in AtomVars(c.head)
  BY <1>1, <1>4, <1>8, <1>9
<1>10. CASE \E e \in E \ S : v \in AtomVars(e)
  <2>1. PICK e \in E \ S : v \in AtomVars(e)
    BY <1>10
  <2>2. RenameAtom(e, map) \in Range(d.body) \ T
    BY <1>1
  <2>3. Renamed(v, map) \in AtomVars(RenameAtom(e, map))
    BY <1>3, <2>1
  <2>4. QED
    BY <1>8, <2>2, <2>3
<1>11. QED
  BY <1>7, <1>9, <1>10

LEMMA MovedInOrder ==
  ASSUME NEW b, NEW c, Shaped(c), NEW n, NEW map, Spreads(c, map, n),
         NEW k \in Nat, NEW t \in [1 .. k -> Range(c.body)], InOrder(b, c, t)
  PROVE  InOrder(b, Moved(c, map), [m \in 1 .. k |-> RenameAtom(t[m], map)])
<1> DEFINE d == Moved(c, map)
           u == [m \in 1 .. k |-> RenameAtom(t[m], map)]
<1>1. d.head = c.head
  BY MovedBody
<1>2. DOMAIN u = 1 .. k /\ DOMAIN t = 1 .. k /\ \A m \in 1 .. k : u[m] = RenameAtom(t[m], map)
  OBVIOUS
<1>3. \A m \in 1 .. k : IsAtom(t[m])
  BY DEF Shaped, Range
<1>4. \A m \in 1 .. k : AtomVars(u[m]) = {Renamed(v, map) : v \in AtomVars(t[m])}
  BY <1>2, <1>3, MovedAtom
<1>5. \A m \in 1 .. k : Reads(b, u[m]) = {Renamed(v, map) : v \in Reads(b, t[m])}
  BY <1>2, <1>3, MovedAtom
<1>6. \A v \in AtomVars(c.head) : Renamed(v, map) = v
  BY SpreadTerms
<1>7. Given(b, d) = Given(b, c) /\ Given(b, c) \subseteq AtomVars(c.head)
  <2>1. Reads(b, c.head) \subseteq AtomVars(c.head)
    BY DEF Reads, AtomVars
  <2>2. QED
    BY <1>1, <2>1 DEF Given
<1> HIDE DEF d, u
<1>8. ASSUME NEW m \in 1 .. k, NEW x \in Reads(b, u[m])
      PROVE  x \in Given(b, d) \cup UNION {AtomVars(u[j]) : j \in 1 .. m - 1}
  <2>1. PICK v \in Reads(b, t[m]) : x = Renamed(v, map)
    BY <1>5, <1>8
  <2>2. v \in Given(b, c) \cup UNION {AtomVars(t[j]) : j \in 1 .. m - 1}
    BY <1>2, <2>1 DEF InOrder
  <2>3. CASE v \in Given(b, c)
    BY <1>6, <1>7, <2>1, <2>3
  <2>4. CASE \E j \in 1 .. m - 1 : v \in AtomVars(t[j])
    <3>1. PICK j \in 1 .. m - 1 : v \in AtomVars(t[j])
      BY <2>4
    <3>2. j \in 1 .. k
      OBVIOUS
    <3>3. x \in AtomVars(u[j])
      BY <1>4, <2>1, <3>1, <3>2
    <3>4. QED
      BY <3>3
  <2>5. QED
    BY <2>2, <2>3, <2>4
<1>9. InOrder(b, d, u)
  BY <1>2, <1>8 DEF InOrder
<1>10. QED
  BY <1>9 DEF d, u

LEMMA MovedHasOrder ==
  ASSUME NEW b, NEW c, Shaped(c), NEW A, c.body \in Seq(A), NEW n, NEW map, Spreads(c, map, n), SomeOrder(b, c)
  PROVE  SomeOrder(b, Moved(c, map))
<1> DEFINE d == Moved(c, map)
           E == Range(c.body)
           X == Range(d.body)
           k == Len(c.body)
<1>1. k \in Nat /\ c.body \in [1 .. k -> E] /\ IsInjective(c.body)
  BY DEF Shaped, Range
<1>2. DOMAIN d.body = 1 .. k /\ IsInjective(d.body) /\ X = {RenameAtom(a, map) : a \in E}
  BY <1>1, MovedBody
<1>3. d.body \in [1 .. k -> X]
  <2>1. d.body = [m \in DOMAIN c.body |-> RenameAtom(c.body[m], map)]
    BY DEF Moved, RenameBody
  <2>2. QED
    BY <1>2, <2>1 DEF Range
<1> HIDE DEF d, k
<1>4. Cardinality(E) = k /\ Cardinality(X) = k
  <2>1. c.body \in Tuples(k, E) /\ d.body \in Tuples(k, X)
    BY <1>1, <1>3 DEF Tuples
  <2>2. QED
    BY <1>1, <1>2, <2>1, RangeOfInjective
<1>5. PICK t \in SetToSeqs(E) : InOrder(b, c, t)
  BY DEF SomeOrder
<1>6. t \in [1 .. k -> E] /\ IsInjective(t)
  BY <1>4, <1>5, OrdersAre DEF Injectives, Tuples
<1> DEFINE u == [m \in 1 .. k |-> RenameAtom(t[m], map)]
<1>7. InOrder(b, d, u)
  BY <1>1, <1>5, <1>6, MovedInOrder DEF d
<1>8. u \in [1 .. k -> X]
  BY <1>2, <1>6
<1>9. \A i, j \in 1 .. k : u[i] = u[j] => i = j
  <2> SUFFICES ASSUME NEW i \in 1 .. k, NEW j \in 1 .. k, u[i] = u[j] PROVE i = j
    OBVIOUS
  <2>1. t[i] \in E /\ t[j] \in E /\ RenameAtom(t[i], map) = RenameAtom(t[j], map)
    BY <1>6
  <2>2. t[i] = t[j]
    BY <2>1, MovedApart
  <2>3. QED
    BY <1>6, <2>2 DEF IsInjective
<1>10. u \in SetToSeqs(X)
  <2>1. IsInjective(u)
    BY <1>9 DEF IsInjective
  <2> HIDE DEF u
  <2>2. u \in Injectives(k, X)
    BY <1>8, <2>1 DEF Injectives, Tuples
  <2>3. QED
    BY <1>4, <2>2, OrdersAre
<1> HIDE DEF u
<1>11. SomeOrder(b, d)
  BY <1>7, <1>10 DEF SomeOrder
<1>12. QED
  BY <1>11 DEF d

LEMMA MovedIsConsistent ==
  ASSUME NEW b, NEW c, Shaped(c), NEW n, NEW map, Spreads(c, map, n), TypeConsistent(b, c)
  PROVE  TypeConsistent(b, Moved(c, map))
<1> DEFINE d == Moved(c, map)
<1>1. Range(d.body) = {RenameAtom(a, map) : a \in Range(c.body)} /\ d.head = c.head
  BY MovedBody
<1>2. RenameAtom(c.head, map) = c.head
  BY SpreadFacts, HeadIsKept
<1> HIDE DEF d
<1>3. Atoms(d) = {RenameAtom(a, map) : a \in Atoms(c)}
  BY <1>1, <1>2 DEF Atoms
<1>4. \A a \in Atoms(c) : IsAtom(a) /\ AtomVars(a) \subseteq ClauseVars(c)
  BY DEF Atoms, Shaped, Range, ClauseVars, BodyVars
<1>5. ASSUME NEW a \in Atoms(c), NEW e \in Atoms(c), NEW k \in DOMAIN a.args, NEW j \in DOMAIN e.args,
             IsVar(Renamed(a.args[k], map)), Renamed(a.args[k], map) = Renamed(e.args[j], map)
      PROVE  \/ Untyped \in {TypeAt(b, a.predicate, k), TypeAt(b, e.predicate, j)}
             \/ TypeAt(b, a.predicate, k) = TypeAt(b, e.predicate, j)
  <2>1. \A t : IsVar(Renamed(t, map)) <=> IsVar(t)
    BY SpreadTerms
  <2>2. IsVar(a.args[k]) /\ IsVar(e.args[j])
    BY <1>5, <2>1
  <2>3. a.args[k] \in ClauseVars(c) /\ e.args[j] \in ClauseVars(c)
    BY <1>4, <2>2 DEF AtomVars
  <2>4. \A s, t : /\ IsVar(s) => s \in ClauseVars(c)
                  /\ IsVar(t) => t \in ClauseVars(c)
                  /\ Renamed(s, map) = Renamed(t, map)
                  => s = t
    BY SpreadTerms
  <2>5. a.args[k] = e.args[j]
    BY <1>5, <2>3, <2>4
  <2>6. QED
    BY <2>2, <2>5 DEF TypeConsistent
<1> SUFFICES ASSUME NEW x \in Atoms(d), NEW y \in Atoms(d), NEW k \in DOMAIN x.args, NEW j \in DOMAIN y.args,
                    IsVar(x.args[k]), x.args[k] = y.args[j]
             PROVE  \/ Untyped \in {TypeAt(b, x.predicate, k), TypeAt(b, y.predicate, j)}
                    \/ TypeAt(b, x.predicate, k) = TypeAt(b, y.predicate, j)
  BY DEF TypeConsistent, d
<1>6. PICK a \in Atoms(c) : x = RenameAtom(a, map)
  BY <1>3
<1>7. PICK e \in Atoms(c) : y = RenameAtom(e, map)
  BY <1>3
<1>8. /\ x.predicate = a.predicate /\ DOMAIN x.args = DOMAIN a.args
      /\ \A i \in DOMAIN a.args : x.args[i] = Renamed(a.args[i], map)
  BY <1>4, <1>6, MovedAtom
<1>9. /\ y.predicate = e.predicate /\ DOMAIN y.args = DOMAIN e.args
      /\ \A i \in DOMAIN e.args : y.args[i] = Renamed(e.args[i], map)
  BY <1>4, <1>7, MovedAtom
<1>10. QED
  BY <1>5, <1>8, <1>9

LEMMA PoolFacts ==
  ASSUME NEW b \in Biases, NEW n \in 0 .. b.maxVars
  PROVE  /\ n \in Nat /\ IsFiniteSet(Range(VarPool(n))) /\ Cardinality(Range(VarPool(n))) = n
         /\ Range(VarPool(n)) = {V(j) : j \in 0 .. n - 1}
<1>1. VarPool(n) \in Seq(VarTerms(b)) /\ IsInjective(VarPool(n))
  BY PoolIs
<1>2. n \in Nat
  BY BiasAssumption
<1> DEFINE f == [k \in 1 .. n |-> V(k - 1)]
<1>3. VarPool(n) = f
  BY DEF VarPool
<1>4. f \in Tuples(n, Range(f)) /\ IsInjective(f)
  BY <1>1, <1>3 DEF Tuples, Range
<1>5. Range(f) = {V(k - 1) : k \in 1 .. n}
  BY DEF Range
<1> HIDE DEF f
<1>6. IsFiniteSet(Range(f)) /\ Cardinality(Range(f)) = n
  BY <1>2, <1>4, RangeOfInjective
<1>7. {V(k - 1) : k \in 1 .. n} = {V(j) : j \in 0 .. n - 1}
  <2>1. \A k \in 1 .. n : k - 1 \in 0 .. n - 1
    BY <1>2
  <2>2. \A j \in 0 .. n - 1 : j + 1 \in 1 .. n /\ j = (j + 1) - 1
    BY <1>2
  <2>3. ASSUME NEW x \in {V(k - 1) : k \in 1 .. n} PROVE x \in {V(j) : j \in 0 .. n - 1}
    BY <2>1
  <2>4. ASSUME NEW j \in 0 .. n - 1 PROVE V(j) \in {V(k - 1) : k \in 1 .. n}
    <3>1. j + 1 \in 1 .. n /\ V(j) = V((j + 1) - 1)
      BY <2>2
    <3>2. QED
      BY <3>1
  <2>5. QED
    BY <2>3, <2>4
<1>8. QED
  BY <1>2, <1>3, <1>5, <1>6, <1>7

LEMMA SpreadExists ==
  ASSUME NEW b \in Biases, NEW n \in 0 .. b.maxVars, NEW c,
         IsFiniteSet(ClauseVars(c)), Cardinality(ClauseVars(c)) = n,
         AtomVars(c.head) \subseteq Range(VarPool(n))
  PROVE  \E map : Spreads(c, map, n)
<1> DEFINE S == ClauseVars(c)
           H == AtomVars(c.head)
           T == Range(VarPool(n))
<1>1. n \in Nat /\ IsFiniteSet(T) /\ Cardinality(T) = n
  BY PoolFacts
<1>2. H \subseteq S /\ BodyOnly(c) = S \ H
  BY DEF ClauseVars, BodyOnly
<1>3. IsFiniteSet(S) /\ Cardinality(S) = n /\ H \subseteq T
  OBVIOUS
<1>0. BodyOnly(c) = S \ H /\ Range(VarPool(n)) \ AtomVars(c.head) = T \ H
  BY <1>2
<1> HIDE DEF S, H, T
<1>4. S \cap H = H /\ T \cap H = H
  BY <1>2, <1>3
<1>5. IsFiniteSet(S \ H) /\ Cardinality(S \ H) = Cardinality(S) - Cardinality(S \cap H)
  BY <1>3, FS_Difference
<1>6. IsFiniteSet(T \ H) /\ Cardinality(T \ H) = Cardinality(T) - Cardinality(T \cap H)
  BY <1>1, FS_Difference
<1>7. Cardinality(S \ H) = Cardinality(T \ H)
  BY <1>1, <1>3, <1>4, <1>5, <1>6
<1>8. ExistsBijection(S \ H, T \ H)
  BY <1>5, <1>6, <1>7, FS_SameCardinalityBij
<1>9. QED
  BY <1>0, <1>8 DEF ExistsBijection, Spreads

(* A body of the space has at most maxBody atoms.                          *)
LEMMA SpaceBody ==
  ASSUME NEW b \in Biases, NEW S \in Bodies(b)
  PROVE  DOMAIN SetToSeq(S) \in {1 .. k : k \in 0 .. b.maxBody}
<1>0. b.maxBody \in Nat
  BY BiasAssumption
<1>1. IsFiniteSet(S) /\ Cardinality(S) \in 0 .. b.maxBody
  <2>1. CASE S = {}
    BY <1>0, <2>1, FS_EmptySet
  <2>2. CASE \E t \in [1 .. b.maxBody -> BodyAtoms(b)] : S = Range(t)
    <3>1. PICK t \in [1 .. b.maxBody -> BodyAtoms(b)] : S = Range(t)
      BY <2>2
    <3>2. t \in Surjection(1 .. b.maxBody, S)
      BY <3>1 DEF Surjection, Range
    <3>3. IsFiniteSet(1 .. b.maxBody) /\ Cardinality(1 .. b.maxBody) = b.maxBody
      BY <1>0, FS_Interval
    <3>4. IsFiniteSet(S) /\ Cardinality(S) <= Cardinality(1 .. b.maxBody)
      BY <3>2, <3>3, FS_Surjection
    <3>5. Cardinality(S) \in Nat
      BY <3>4, FS_CardinalityType
    <3>6. QED
      BY <1>0, <3>3, <3>4, <3>5
  <2>3. QED
    BY <2>1, <2>2 DEF Bodies
<1>2. \E f \in [1 .. Cardinality(S) -> S] : IsInjective(f)
  <2>1. PICK f : f \in Bijection(1 .. Cardinality(S), S)
    BY <1>1, FS_CardinalityType DEF ExistsBijection
  <2>2. QED
    BY <2>1 DEF Bijection, Injection
<1>3. SetToSeq(S) \in [1 .. Cardinality(S) -> S]
  BY <1>2 DEF SetToSeq
<1>4. QED
  BY <1>1, <1>3

LEMMA SpaceFacts ==
  ASSUME NEW b \in Biases, NEW c \in Space(b)
  PROVE  /\ InSpace(b, c) /\ Shaped(c)
         /\ c.body \in Seq(BodyAtoms(b)) /\ Len(c.body) \in 0 .. b.maxBody
         /\ IsFiniteSet(ClauseVars(c)) /\ Cardinality(ClauseVars(c)) \in 0 .. b.maxVars
<1>1. InSpace(b, c) /\ Cardinality(ClauseVars(c)) <= b.maxVars
  BY DEF Space
<1>2. Shaped(c) /\ c.body \in Seq(BodyAtoms(b))
  BY <1>1, ClauseIsShaped DEF InSpace, IsClause
<1>3. Len(c.body) \in 0 .. b.maxBody
  <2>1. PICK S \in Bodies(b) : c.body = SetToSeq(S)
    <3>1. PICK h \in Range(b.heads), S \in Bodies(b) : c = [head |-> HeadAtom(h), body |-> SetToSeq(S)]
      BY DEF Space
    <3>2. QED
      BY <3>1
  <2>2. PICK k \in 0 .. b.maxBody : DOMAIN c.body = 1 .. k
    BY <2>1, SpaceBody
  <2>3. b.maxBody \in Nat
    BY BiasAssumption
  <2>4. k \in Nat /\ c.body \in Seq(BodyAtoms(b)) /\ DOMAIN c.body = 1 .. k
    BY <1>2, <2>2, <2>3
  <2>5. Len(c.body) = k
    BY <2>4
  <2>6. QED
    BY <2>5
<1>4. IsFiniteSet(ClauseVars(c))
  <2>1. IsFiniteSet(BodyOnly(c))
    BY <1>2, BodyOnlyIsFinite
  <2>2. IsFiniteSet(AtomVars(c.head))
    <3> DEFINE K == {k \in DOMAIN c.head.args : IsVar(c.head.args[k])}
               f == c.head.args
    <3>1. PICK n \in Nat : DOMAIN c.head.args = 1 .. n
      BY <1>2, AtomFacts DEF Shaped
    <3>2. IsFiniteSet(1 .. n)
      BY <3>1, FS_Interval
    <3>3. IsFiniteSet(K)
      <4>1. K \in SUBSET (1 .. n)
        BY <3>1
      <4> HIDE DEF K
      <4>2. QED
        BY <3>2, <4>1, FS_Subset
    <3>4. AtomVars(c.head) = {f[x] : x \in K}
      BY DEF AtomVars
    <3> HIDE DEF K, f
    <3>5. IsFiniteSet({f[x] : x \in K})
      BY <3>3, ImageIsFinite
    <3>6. QED
      BY <3>4, <3>5
  <2>3. ClauseVars(c) = AtomVars(c.head) \cup BodyOnly(c)
    BY DEF ClauseVars, BodyOnly
  <2>4. QED
    BY <2>1, <2>2, <2>3, FS_Union
<1>5. Cardinality(ClauseVars(c)) \in Nat
  BY <1>4, FS_CardinalityType
<1>6. Cardinality(ClauseVars(c)) \in 0 .. b.maxVars
  BY <1>1, <1>5, BiasAssumption
<1>7. QED
  BY <1>1, <1>2, <1>3, <1>4, <1>6

LEMMA MovedFits ==
  ASSUME NEW b \in Biases, NEW n \in 0 .. b.maxVars, NEW c, Shaped(c), ConstantsFit(b, c),
         AtomVars(c.head) \subseteq Range(VarPool(n)), NEW map, Spreads(c, map, n),
         NEW a \in Range(c.body), a \in BodyAtoms(b)
  PROVE  RenameAtom(a, map) \in AtomsOf(b, n, b.constants)
<1> DEFINE T == VarTerms(b) \cup ConstTerms(b)
<1>0. BodyAtoms(b) = UNION {{[predicate |-> p.name, args |-> as] : as \in [1 .. p.arity -> T]} : p \in BodyPreds(b)}
  BY DEF BodyAtoms, BodyPreds, VarTerms, ConstTerms
<1>1. PICK p \in BodyPreds(b) : \E as \in [1 .. p.arity -> T] : a = [predicate |-> p.name, args |-> as]
  BY <1>0
<1>2. PICK as \in [1 .. p.arity -> T] : a = [predicate |-> p.name, args |-> as]
  BY <1>1
<1>3. a.predicate = p.name /\ a.args = as /\ DOMAIN as = 1 .. p.arity
  BY <1>2
<1> DEFINE args == [k \in 1 .. p.arity |-> Renamed(as[k], map)]
<1>4. RenameAtom(a, map) = [predicate |-> p.name, args |-> args]
  <2>0. IsAtom(a)
    BY DEF Shaped, Range
  <2>1. RenameAtom(a, map) = [predicate |-> a.predicate, args |-> [k \in DOMAIN a.args |-> Renamed(a.args[k], map)]]
    BY <2>0, RenamedAtom
  <2>2. QED
    BY <1>3, <2>1
<1>5. ASSUME NEW k \in 1 .. p.arity PROVE args[k] \in PoolTerms(b, p, n, k, b.constants)
  <2>0. args[k] = Renamed(as[k], map)
    OBVIOUS
  <2>1. CASE IsVar(as[k])
    <3>1. as[k] \in ClauseVars(c)
      <4>1. as[k] \in AtomVars(a)
        BY <1>3, <2>1 DEF AtomVars
      <4>2. as[k] \in BodyVars(c)
        BY <4>1, BodyVarsAre
      <4>3. QED
        BY <4>2 DEF ClauseVars
    <3>2. CASE as[k] \in BodyOnly(c)
      <4>0. DOMAIN map = BodyOnly(c)
        BY SpreadFacts
      <4>1. Renamed(as[k], map) = map[as[k]]
        BY <3>2, <4>0 DEF Renamed
      <4>2. map[as[k]] \in Range(VarPool(n))
        BY <3>2, SpreadFacts
      <4>3. QED
        BY <2>0, <4>1, <4>2 DEF PoolTerms
    <3>3. CASE as[k] \in AtomVars(c.head)
      <4>1. Renamed(as[k], map) = as[k]
        BY <3>3, SpreadTerms
      <4>2. QED
        BY <2>0, <3>3, <4>1 DEF PoolTerms
    <3>4. QED
      BY <3>1, <3>2, <3>3 DEF ClauseVars, BodyOnly
  <2>2. CASE ~IsVar(as[k])
    <3>1. Renamed(as[k], map) = as[k]
      BY <2>2, SpreadTerms
    <3>2. PICK x \in Range(b.constants) : as[k] = <<"c", x.value>>
      <4>0. \A t \in VarTerms(b) : IsVar(t)
        BY DEF VarTerms, V, IsVar
      <4>1. as[k] \in ConstTerms(b)
        BY <1>2, <2>2, <4>0
      <4>2. QED
        BY <4>1 DEF ConstTerms
    <3>3. CASE TypeAt(b, p.name, k) = Untyped
      BY <2>0, <3>1, <3>2, <3>3 DEF PoolTerms, FitTerms
    <3>4. CASE TypeAt(b, p.name, k) # Untyped
      <4>1. /\ p.name \in DOMAIN b.types /\ k \in DOMAIN b.types[p.name]
            /\ TypeAt(b, p.name, k) = b.types[p.name][k]
        BY <3>4 DEF TypeAt
      <4>2. FitsType(b, as[k], b.types[p.name][k])
        BY <1>3, <4>1 DEF ConstantsFit
      <4>3. PICK y \in Range(b.constants) : y.value = as[k][2] /\ y.type \in {Untyped, b.types[p.name][k]}
        BY <2>2, <4>2 DEF FitsType
      <4>4. as[k] = <<"c", y.value>>
        BY <3>2, <4>3
      <4>5. QED
        BY <2>0, <3>1, <4>1, <4>3, <4>4 DEF PoolTerms, FitTerms
    <3>5. QED
      BY <3>3, <3>4
  <2>3. QED
    BY <2>1, <2>2
<1>6. ASSUME NEW k \in 1 .. p.arity PROVE args[k] \in T
  <2>1. Range(VarPool(n)) \subseteq VarTerms(b)
    <3>1. VarPool(n) \in Seq(VarTerms(b))
      BY PoolIs
    <3>2. QED
      BY <3>1, RangeOfSeq
  <2>2. FitTerms(b, p.name, k, b.constants) \subseteq ConstTerms(b)
    BY DEF FitTerms, ConstTerms
  <2> HIDE DEF args
  <2>3. QED
    BY <1>5, <2>1, <2>2 DEF PoolTerms
<1>7. args \in ArgsOf(b, p, n, b.constants)
  <2>1. args \in [1 .. p.arity -> T]
    BY <1>6
  <2> HIDE DEF args
  <2>2. QED
    BY <1>5, <2>1 DEF ArgsOf, Tuples
<1> HIDE DEF args
<1>8. QED
  BY <1>4, <1>7 DEF AtomsOf

(* Completeness up to renaming, of the clauses the enumerator keeps.       *)
LEMMA SpaceIsMet ==
  ASSUME NEW b \in Biases, NEW c \in Space(b)
  PROVE  \E d \in Kept(b) : AsSet(d) \in Variants(b, c)
<1> DEFINE n == Cardinality(ClauseVars(c))
           k == Len(c.body)
           E == Range(c.body)
<1>1. /\ InSpace(b, c) /\ Shaped(c)
      /\ c.body \in Seq(BodyAtoms(b)) /\ k \in 0 .. b.maxBody
      /\ IsFiniteSet(ClauseVars(c)) /\ n \in 0 .. b.maxVars
  BY SpaceFacts
<1>2. k \in Nat /\ n \in Nat /\ b.maxVars \in Nat /\ n <= b.maxVars
  BY <1>1, BiasAssumption
<1>3. PICK h \in Range(b.heads) : c.head = HeadAtom(h)
  BY <1>1 DEF InSpace, IsClause
<1>4. h.arity \in Nat
  BY <1>3, BiasAssumption
<1>5. AtomVars(c.head) = Range(VarPool(h.arity))
  <2>1. c.head.args = VarPool(h.arity)
    BY <1>3 DEF HeadAtom
  <2>2. \A j \in DOMAIN VarPool(h.arity) : IsVar(VarPool(h.arity)[j])
    BY PoolVars DEF Range
  <2>3. QED
    BY <2>1, <2>2 DEF AtomVars, Range
<1>6. h.arity <= n
  <2> DEFINE f == VarPool(h.arity)
  <2>1. f \in Tuples(h.arity, Range(f))
    BY DEF VarPool, Tuples, Range
  <2>2. IsInjective(f)
    <3>1. \A i, j \in 1 .. h.arity : V(i - 1) = V(j - 1) => i = j
      BY <1>4 DEF V
    <3>2. QED
      BY <3>1 DEF VarPool, IsInjective
  <2> HIDE DEF f
  <2>3. IsFiniteSet(Range(f)) /\ Cardinality(Range(f)) = h.arity
    BY <1>4, <2>1, <2>2, RangeOfInjective
  <2>4. Range(f) \in SUBSET ClauseVars(c)
    BY <1>5 DEF ClauseVars, f
  <2>5. Cardinality(Range(f)) <= Cardinality(ClauseVars(c))
    BY <1>1, <2>4, FS_Subset
  <2>6. QED
    BY <2>3, <2>5
<1>7. AtomVars(c.head) \subseteq Range(VarPool(n))
  <2>1. h.arity \in 0 .. b.maxVars
    BY <1>2, <1>4, <1>6
  <2>2. Range(VarPool(h.arity)) = {V(j) : j \in 0 .. h.arity - 1}
    BY <2>1, PoolFacts
  <2>3. Range(VarPool(n)) = {V(j) : j \in 0 .. n - 1}
    BY <1>1, PoolFacts
  <2>4. \A j \in 0 .. h.arity - 1 : j \in 0 .. n - 1
    BY <1>2, <1>4, <1>6
  <2>5. QED
    BY <1>5, <2>2, <2>3, <2>4
<1>8. PICK map : Spreads(c, map, n)
  BY <1>1, <1>7, SpreadExists
<1> HIDE DEF n
<1> DEFINE d == Moved(c, map)
           A == AtomsOf(b, n, b.constants)
<1>9. /\ DOMAIN d.body = DOMAIN c.body
      /\ \A m \in DOMAIN c.body : d.body[m] = RenameAtom(c.body[m], map)
      /\ Range(d.body) = {RenameAtom(a, map) : a \in E}
      /\ IsInjective(d.body)
      /\ d.head = c.head
  BY <1>1, <1>8, MovedBody
<1>10. d = [head |-> HeadAtom(h), body |-> d.body] /\ d.body = [m \in DOMAIN c.body |-> RenameAtom(c.body[m], map)]
  BY <1>3 DEF Moved, RenameBody
<1> HIDE DEF d
<1>11. DOMAIN c.body = 1 .. k /\ \A m \in DOMAIN c.body : c.body[m] \in BodyAtoms(b) /\ c.body[m] \in E
  BY <1>1 DEF Range
<1>12. d.body \in Injectives(k, A)
  <2>1. ASSUME NEW m \in 1 .. k PROVE RenameAtom(c.body[m], map) \in A
    <3>1. c.body[m] \in E /\ c.body[m] \in BodyAtoms(b)
      BY <1>11
    <3>2. ConstantsFit(b, c)
      BY <1>1 DEF InSpace
    <3>3. QED
      BY <1>1, <1>7, <1>8, <3>1, <3>2, MovedFits
  <2>2. d.body \in [1 .. k -> A]
    BY <1>10, <1>11, <2>1
  <2>3. QED
    BY <1>9, <2>2 DEF Injectives, Tuples
<1>13. Len(d.body) = k /\ IsFiniteSet(Range(d.body)) /\ Cardinality(Range(d.body)) = k
  <2>1. d.body \in Tuples(k, A) /\ IsInjective(d.body)
    BY <1>12 DEF Injectives
  <2>2. IsFiniteSet(Range(d.body)) /\ Cardinality(Range(d.body)) = k
    BY <1>2, <2>1, RangeOfInjective
  <2>3. d.body \in Seq(A) /\ Len(d.body) = k
    BY <1>2, <2>1, FunctionIsSeq DEF Tuples
  <2>4. QED
    BY <2>2, <2>3
<1>14. Len(d.body) \in Nat /\ Len(d.body) = Cardinality(Range(d.body))
  BY <1>2, <1>13
<1>15. UsesExactly(d, n)
  BY <1>1, <1>7, <1>8, MovedVars DEF UsesExactly, d
<1>16. Connected(d)
  <2>1. NoIsland(c)
    BY <1>1 DEF InSpace
  <2>2. NoIsland(d)
    BY <1>1, <1>8, <2>1, MovedHasNoIsland DEF d
  <2>3. QED
    BY <1>13, <1>14, <2>2, NoIslandIsConnected
<1>17. WellModedFeasible(b, d)
  <2>1. SomeOrder(b, c)
    BY <1>1 DEF InSpace
  <2>2. SomeOrder(b, d)
    BY <1>1, <1>8, <2>1, MovedHasOrder DEF d
  <2>3. QED
    BY <1>13, <1>14, <2>2, OrderedIsFeasible
<1>18. TypeConsistent(b, d)
  <2>1. ~IsTypeUnsatisfiable(c, b.types)
    BY <1>1 DEF InSpace
  <2>2. \A a \in Atoms(c) : IsAtom(a)
    BY <1>1 DEF Atoms, Shaped, Range
  <2>3. ASSUME NEW a \in Atoms(c) PROVE IsFiniteSet(DOMAIN a.args)
    <3>1. PICK j \in Nat : DOMAIN a.args = 1 .. j
      BY <2>2, AtomFacts
    <3>2. 1 \in Int /\ j \in Int
      OBVIOUS
    <3>3. IsFiniteSet(1 .. j)
      BY <3>2, FS_Interval
    <3>4. QED
      BY <3>1, <3>3
  <2>4. TypeConsistent(b, c)
    BY <1>1, <2>1, <2>3, WellTypedIsConsistent
  <2>5. QED
    BY <1>1, <1>8, <2>4, MovedIsConsistent DEF d
<1>19. Keep(b, d, n)
  BY <1>15, <1>16, <1>17, <1>18 DEF Keep
<1>20. d \in Sized(b, h, n, k)
  BY <1>10, <1>12, <1>19 DEF Sized, KeptOver, ClausesOver
<1>21. d \in Kept(b)
  <2>1. n \in h.arity .. b.maxVars
    BY <1>2, <1>4, <1>6 DEF n
  <2>2. d \in OfHead(b, h, k)
    BY <1>20, <2>1 DEF OfHead
  <2>3. d \in OfLength(b, k)
    BY <1>3, <2>2 DEF OfLength
  <2>4. QED
    BY <1>1, <2>3 DEF Kept
<1>22. AsSet(d) \in Variants(b, c)
  <2>1. map \in Injection(BodyOnly(c), Range(VarPool(b.maxVars)) \ AtomVars(c.head))
    <3>1. Range(VarPool(n)) \subseteq Range(VarPool(b.maxVars))
      <4>1. n \in 0 .. b.maxVars /\ b.maxVars \in 0 .. b.maxVars
        BY <1>1, <1>2 DEF n
      <4>2. Range(VarPool(n)) = {V(j) : j \in 0 .. n - 1}
        BY <4>1, PoolFacts
      <4>3. Range(VarPool(b.maxVars)) = {V(j) : j \in 0 .. b.maxVars - 1}
        BY <4>1, PoolFacts
      <4>4. \A j \in 0 .. n - 1 : j \in 0 .. b.maxVars - 1
        BY <1>2 DEF n
      <4>5. QED
        BY <4>2, <4>3, <4>4
    <3>2. map \in [BodyOnly(c) -> Range(VarPool(n)) \ AtomVars(c.head)] /\ IsInjective(map)
      BY <1>8 DEF Spreads, Bijection, Injection
    <3>3. QED
      BY <3>1, <3>2 DEF Injection
  <2>2. AsSet(d) = [head |-> c.head, body |-> Range(RenameBody(c, map))]
    BY DEF AsSet, d, Moved
  <2>3. QED
    BY <2>1, <2>2 DEF Variants
<1>23. QED
  BY <1>21, <1>22

---------------------------------------------------------------------------
(* Coverage grows with the program.                                        *)

(* Each clause of P has a more general one in Q.                           *)
Covers(Q, P) == \A c \in P : \E d \in Q : Subsumes(d, c)

Plain(b, P) == \A c \in P : Shaped(c) /\ Runs(b, c)

LEMMA MoreFollows ==
  ASSUME NEW b, NEW P, NEW Q, Plain(b, P), Plain(b, Q), Covers(Q, P), NEW F, NEW G, F \subseteq G
  PROVE  Consequences(b, F, P) \subseteq Consequences(b, G, Q)
<1> SUFFICES ASSUME NEW x \in Consequences(b, F, P) PROVE x \in Consequences(b, G, Q)
  OBVIOUS
<1>1. PICK c \in P : \E g \in Solutions(F, c) : x = Grounded(c.head, g)
  BY DEF Consequences
<1>2. PICK g \in Solutions(F, c) : x = Grounded(c.head, g)
  BY <1>1
<1>3. g \in Solutions(G, c)
  BY DEF Solutions
<1>4. PICK d \in Q : Subsumes(d, c)
  BY DEF Covers
<1>5. Shaped(c) /\ Shaped(d) /\ Runs(b, d)
  BY DEF Plain
<1>6. PICK h \in Solutions(G, d) : Grounded(d.head, h) = Grounded(c.head, g)
  BY <1>3, <1>4, <1>5, Generalizes
<1>7. QED
  BY <1>2, <1>5, <1>6 DEF Consequences

LEMMA RiseDef ==
  ASSUME NEW b, Rounds(b) \in Nat, NEW F, NEW P
  PROVE  /\ Rise(b, F, P)[0] = F
         /\ \A n \in 1 .. Rounds(b) :
              Rise(b, F, P)[n] = F \cup Consequences(b, Rise(b, F, P)[n - 1], P)
<1> DEFINE w == Rounds(b)
           S == SUBSET (F \cup UNION {{Grounded(c.head, g) : g \in [ClauseVars(c) -> D]} : c \in P})
           next1(M) == F \cup Consequences(b, M, P)
           turn(n, f) == IF n = 0 THEN F ELSE next1(f[n - 1])
           step == [q \in (1 .. w) \X S |-> next1(q[2])]
<1>1. w \in Nat
  OBVIOUS
<1>2. \A M : next1(M) \in S
  BY DEF Consequences, Solutions
<1>3. F \in S
  OBVIOUS
<1>4. step \in [(1 .. w) \X S -> S] /\ \A n \in 1 .. w : \A M \in S : step[<<n, M>>] = next1(M)
  <2> HIDE DEF S, next1
  <2>1. QED
    BY <1>2
<1> HIDE DEF step, S, next1, w
<1>5. PICK f \in [0 .. w -> S] : Iterated(f, w, F, step)
  BY <1>1, <1>3, <1>4, Iterates
<1>6. f = [n \in 0 .. w |-> turn(n, f)]
  <2>1. ASSUME NEW n \in 0 .. w, n # 0
        PROVE  step[<<n, f[n - 1]>>] = next1(f[n - 1])
    <3>1. n \in 1 .. w /\ n - 1 \in 0 .. w
      BY <1>1, <2>1
    <3>2. f[n - 1] \in S
      BY <1>5, <3>1
    <3>3. QED
      BY <1>4, <3>1, <3>2
  <2>2. QED
    BY <1>5, <2>1 DEF Iterated
<1>7. Rise(b, F, P) = CHOOSE g : g = [n \in 0 .. w |-> turn(n, g)]
  BY DEF Rise, next1, w
<1>8. Rise(b, F, P) = [n \in 0 .. w |-> turn(n, Rise(b, F, P))]
  <2> HIDE DEF turn
  <2>1. QED
    BY <1>6, <1>7
<1>9. \A n \in 0 .. w : Rise(b, F, P)[n] = turn(n, Rise(b, F, P))
  <2> HIDE DEF turn
  <2>1. QED
    BY <1>8
<1>10. Rise(b, F, P)[0] = F
  <2>1. 0 \in 0 .. w
    BY <1>1
  <2>2. QED
    BY <1>9, <2>1
<1>11. ASSUME NEW n \in 1 .. w
       PROVE  Rise(b, F, P)[n] = F \cup Consequences(b, Rise(b, F, P)[n - 1], P)
  <2>1. n \in 0 .. w /\ n # 0
    BY <1>1
  <2>2. Rise(b, F, P)[n] = next1(Rise(b, F, P)[n - 1])
    BY <1>9, <2>1
  <2>3. QED
    BY <2>2 DEF next1
<1>12. QED
  BY <1>10, <1>11 DEF w

LEMMA MoreIsCovered ==
  ASSUME NEW b, Rounds(b) \in Nat, NEW P, NEW Q, Plain(b, P), Plain(b, Q), Covers(Q, P), NEW F
  PROVE  CoveredBy(b, F, P) \subseteq CoveredBy(b, F, Q)
<1> DEFINE w == Rounds(b)
           Bad == {n \in 0 .. w : ~(Rise(b, F, P)[n] \subseteq Rise(b, F, Q)[n])}
<1>1. w \in Nat
  OBVIOUS
<1>2. ASSUME Bad # {} PROVE FALSE
  <2>1. PICK n \in Bad : \A j \in Bad : n <= j
    <3>1. Bad \in SUBSET Nat
      BY <1>1
    <3> HIDE DEF Bad
    <3>2. QED
      BY <1>2, <3>1, LeastExists
  <2>2. n \in 0 .. w /\ n \in Nat /\ ~(Rise(b, F, P)[n] \subseteq Rise(b, F, Q)[n])
    BY <1>1
  <2>3. n # 0
    <3>1. Rise(b, F, P)[0] = F
      BY RiseDef
    <3>2. Rise(b, F, Q)[0] = F
      BY RiseDef
    <3>3. QED
      BY <2>2, <3>1, <3>2
  <2>4. n - 1 \in 0 .. w /\ n - 1 \notin Bad
    <3> HIDE DEF Bad, w
    <3>1. n - 1 \in 0 .. w /\ ~(n <= n - 1)
      BY <1>1, <2>2, <2>3
    <3>2. QED
      BY <2>1, <3>1
  <2>5. Rise(b, F, P)[n - 1] \subseteq Rise(b, F, Q)[n - 1]
    BY <2>4
  <2>6. Consequences(b, Rise(b, F, P)[n - 1], P) \subseteq Consequences(b, Rise(b, F, Q)[n - 1], Q)
    BY <2>5, MoreFollows
  <2>0. n \in 1 .. Rounds(b)
    BY <2>2, <2>3
  <2>7. Rise(b, F, P)[n] = F \cup Consequences(b, Rise(b, F, P)[n - 1], P)
    BY <2>0, RiseDef
  <2>8. Rise(b, F, Q)[n] = F \cup Consequences(b, Rise(b, F, Q)[n - 1], Q)
    BY <2>0, RiseDef
  <2>9. QED
    BY <2>2, <2>6, <2>7, <2>8
<1>3. w \in 0 .. w /\ w \notin Bad
  BY <1>1, <1>2
<1>4. Model(b, F, P) \subseteq Model(b, F, Q)
  BY <1>3 DEF Model
<1>5. QED
  BY <1>4 DEF CoveredBy

---------------------------------------------------------------------------
(* Problems.                                                               *)

LEMMA ProblemIs ==
  ASSUME NEW p \in Problem
  PROVE  /\ p.bias \in Biases
         /\ p.key = Keys(ClausesOf[p.bias])
         /\ p.subsumes = Subsuming(ClausesOf[p.bias])
         /\ p.illTyped = IllTyped(ClausesOf[p.bias], p.bias.types)
         /\ p.moded = IsModed(p.bias)
         /\ \A i \in Index(p) :
              p.covered[i] = CoveredBy(p.bias, p.facts, Rules(p, ClausesOf[p.bias], i))
BY ClausesAssumption

LEMMA KeyIsForm ==
  ASSUME NEW p \in Problem, NEW n \in DOMAIN ClausesOf[p.bias], NEW m \in DOMAIN ClausesOf[p.bias]
  PROVE  p.key[n] = p.key[m] <=>
           CanonicalClause(ClausesOf[p.bias][n]) = CanonicalClause(ClausesOf[p.bias][m])
<1> DEFINE cs == ClausesOf[p.bias]
           forms == [k \in DOMAIN cs |-> CanonicalClause(cs[k])]
           first(k) == CHOOSE j \in DOMAIN cs : forms[j] = forms[k]
<1>1. p.key = [k \in DOMAIN cs |-> first(k)]
  BY ProblemIs DEF Keys
<1>2. p.key[n] = first(n) /\ p.key[m] = first(m)
  BY <1>1
<1>3. forms[n] = CanonicalClause(cs[n]) /\ forms[m] = CanonicalClause(cs[m])
  OBVIOUS
<1> HIDE DEF cs, forms
<1>4. forms[n] = forms[m] => first(n) = first(m)
  OBVIOUS
<1>5. forms[first(n)] = forms[n] /\ forms[first(m)] = forms[m]
  BY DEF cs
<1> HIDE DEF first
<1>6. first(n) = first(m) => forms[n] = forms[m]
  BY <1>5
<1>7. QED
  BY <1>2, <1>3, <1>4, <1>6 DEF cs

LEMMA RulesAre ==
  ASSUME NEW p \in Problem, NEW i \in Index(p)
  PROVE  /\ \A c \in Rules(p, ClausesOf[p.bias], i) :
              \E m \in DOMAIN p.clauses[i] : c = ClausesOf[p.bias][p.clauses[i][m]]
         /\ \A m \in DOMAIN p.clauses[i] :
              /\ p.clauses[i][m] \in DOMAIN ClausesOf[p.bias]
              /\ ClausesOf[p.bias][p.clauses[i][m]] \in Rules(p, ClausesOf[p.bias], i)
<1>1. p.clauses[i] \in Seq(DOMAIN p.key)
  BY ProblemFacts
<1>2. DOMAIN p.key = DOMAIN ClausesOf[p.bias]
  <2> DEFINE cs == ClausesOf[p.bias]
             forms == [k \in DOMAIN cs |-> CanonicalClause(cs[k])]
             first(k) == CHOOSE j \in DOMAIN cs : forms[j] = forms[k]
  <2>1. p.key = [k \in DOMAIN cs |-> first(k)]
    BY ProblemIs DEF Keys
  <2> HIDE DEF cs, first
  <2>2. DOMAIN p.key = DOMAIN cs
    BY <2>1
  <2>3. QED
    BY <2>2 DEF cs
<1>3. \A m \in DOMAIN p.clauses[i] : p.clauses[i][m] \in DOMAIN ClausesOf[p.bias]
  BY <1>1, <1>2
<1>4. QED
  BY <1>3 DEF Rules, Range

LEMMA RulesArePlain ==
  ASSUME NEW p \in Problem, ~p.moded, NEW i \in Index(p)
  PROVE  Plain(p.bias, Rules(p, ClausesOf[p.bias], i))
<1>1. p.bias \in Biases /\ ~IsModed(p.bias)
  BY ProblemIs
<1>2. ASSUME NEW c \in Rules(p, ClausesOf[p.bias], i)
      PROVE  Shaped(c) /\ Runs(p.bias, c)
  <2>1. PICK m \in DOMAIN p.clauses[i] : c = ClausesOf[p.bias][p.clauses[i][m]]
    BY RulesAre
  <2>2. IsClause(p.bias, c)
    BY <1>1, <2>1, RulesAre, EnumeratorIsSoundHolds DEF EnumeratorIsSound
  <2>3. Shaped(c)
    BY <1>1, <2>2, ClauseIsShaped
  <2>4. ASSUME NEW k \in DOMAIN c.body, External(p.bias, c.body[k])
        PROVE  Inputs(p.bias, c.body[k]) = {}
    BY <1>1, <2>4 DEF Inputs, External, IsModed
  <2>5. QED
    BY <2>3, <2>4 DEF Runs
<1>3. QED
  BY <1>2 DEF Plain

(* Programs whose keys are among those of another have a more general      *)
(* clause there for each of theirs.                                        *)
LEMMA KeysCover ==
  ASSUME NEW p \in Problem, ~p.moded, NEW i \in Index(p), NEW j \in Index(p),
         KeySet(p, i) \subseteq KeySet(p, j)
  PROVE  p.covered[i] \subseteq p.covered[j]
<1> DEFINE cs == ClausesOf[p.bias]
<1>1. ASSUME NEW c \in Rules(p, cs, i) PROVE \E d \in Rules(p, cs, j) : Subsumes(d, c)
  <2>1. PICK m \in DOMAIN p.clauses[i] : c = cs[p.clauses[i][m]]
    BY RulesAre
  <2>2. p.key[p.clauses[i][m]] \in KeySet(p, j)
    BY DEF KeySet
  <2>3. PICK k \in DOMAIN p.clauses[j] : p.key[p.clauses[j][k]] = p.key[p.clauses[i][m]]
    BY <2>2 DEF KeySet
  <2>4. p.clauses[i][m] \in DOMAIN cs /\ p.clauses[j][k] \in DOMAIN cs /\ cs[p.clauses[j][k]] \in Rules(p, cs, j)
    BY RulesAre
  <2>5. CanonicalClause(cs[p.clauses[j][k]]) = CanonicalClause(c)
    BY <2>1, <2>3, <2>4, KeyIsForm
  <2>6. Shaped(c) /\ Shaped(cs[p.clauses[j][k]])
    BY <2>4, RulesArePlain DEF Plain
  <2>7. PICK map : Alike(cs[p.clauses[j][k]], c, map)
    BY <2>5, <2>6, SameForm
  <2>8. Subsumes(cs[p.clauses[j][k]], c)
    BY <2>6, <2>7, AlikeSubsumes
  <2>9. QED
    BY <2>4, <2>8
<1>2. Covers(Rules(p, cs, j), Rules(p, cs, i))
  BY <1>1 DEF Covers
<1>3. Plain(p.bias, Rules(p, cs, i)) /\ Plain(p.bias, Rules(p, cs, j))
  BY RulesArePlain
<1>4. Rounds(p.bias) \in Nat
  BY ProblemIs, BiasAssumption
<1> HIDE DEF cs
<1>5. CoveredBy(p.bias, p.facts, Rules(p, cs, i)) \subseteq CoveredBy(p.bias, p.facts, Rules(p, cs, j))
  BY <1>2, <1>3, <1>4, MoreIsCovered
<1>6. QED
  BY <1>5, ProblemIs DEF cs

LEMMA SubsumesCovers ==
  ASSUME NEW p \in Problem, ~p.moded, NEW i \in Index(p), NEW j \in Index(p),
         IsSingle(p, i), IsSingle(p, j), <<p.clauses[i][1], p.clauses[j][1]>> \in p.subsumes
  PROVE  p.covered[j] \subseteq p.covered[i]
<1> DEFINE cs == ClausesOf[p.bias]
<1>1. p.clauses[i] \in Seq(DOMAIN p.key) /\ p.clauses[j] \in Seq(DOMAIN p.key)
  BY ProblemFacts
<1>2. DOMAIN p.clauses[i] = {1} /\ DOMAIN p.clauses[j] = {1}
  BY <1>1 DEF IsSingle
<1>3. Subsumes(cs[p.clauses[i][1]], cs[p.clauses[j][1]])
  BY ProblemIs DEF Subsuming
<1>4. cs[p.clauses[i][1]] \in Rules(p, cs, i)
  BY <1>2, RulesAre
<1>5. \A c \in Rules(p, cs, j) : c = cs[p.clauses[j][1]]
  BY <1>2, RulesAre
<1>6. Covers(Rules(p, cs, i), Rules(p, cs, j))
  BY <1>3, <1>4, <1>5 DEF Covers
<1>7. Plain(p.bias, Rules(p, cs, i)) /\ Plain(p.bias, Rules(p, cs, j))
  BY RulesArePlain
<1>8. Rounds(p.bias) \in Nat
  BY ProblemIs, BiasAssumption
<1> HIDE DEF cs
<1>9. CoveredBy(p.bias, p.facts, Rules(p, cs, j)) \subseteq CoveredBy(p.bias, p.facts, Rules(p, cs, i))
  BY <1>6, <1>7, <1>8, MoreIsCovered
<1>10. QED
  BY <1>9, ProblemIs DEF cs

LEMMA NoneIsIllTyped ==
  ASSUME NEW p \in Problem, NEW i \in Index(p)
  PROVE  ~HasIllTyped(p, i)
<1>1. p.bias \in Biases /\ p.illTyped = {}
  BY ProblemIs, EnumeratorIsSoundHolds DEF IllTyped, EnumeratorIsSound
<1>2. QED
  BY <1>1 DEF HasIllTyped

LEMMA PlainProblemIsSound ==
  ASSUME PlainQuestions, NEW p \in Problem, p.constrained
  PROVE  SoundPruning(p) /\ WellTypedFirst(p)
<1>1. ~p.moded /\ p.targetPct >= 100
  BY DEF PlainQuestions
<1>2. KeyFaithful(p)
  <2>1. ASSUME NEW i \in Index(p), NEW j \in Index(p), ProgramKey(p, i) = ProgramKey(p, j)
        PROVE  p.covered[i] = p.covered[j] /\ p.lowers[i] = p.lowers[j]
    <3>1. \A k \in Index(p) : DOMAIN ProgramKey(p, k) = KeySet(p, k)
      BY DEF ProgramKey
    <3>2. KeySet(p, i) = KeySet(p, j)
      BY <2>1, <3>1
    <3>3. p.covered[i] \subseteq p.covered[j] /\ p.covered[j] \subseteq p.covered[i]
      BY <1>1, <3>2, KeysCover
    <3>4. p.lowers[i] = p.lowers[j]
      BY <2>1 DEF PlainQuestions
    <3>5. QED
      BY <3>3, <3>4
  <2>2. QED
    BY <2>1 DEF KeyFaithful
<1>3. ClauseMonotone(p)
  BY <1>1, KeysCover DEF ClauseMonotone
<1>4. SubsumesMonotone(p)
  BY <1>1, SubsumesCovers DEF SubsumesMonotone
<1>5. IllTypedDispensable(p)
  BY NoneIsIllTyped DEF IllTypedDispensable
<1>6. FullTarget(p)
  BY <1>1 DEF FullTarget
<1>7. WellTypedFirst(p)
  <2>1. \A i \in Index(p) : i <= i
    BY ProblemFacts
  <2>2. QED
    BY <2>1, NoneIsIllTyped DEF WellTypedFirst
<1>8. QED
  BY <1>2, <1>3, <1>4, <1>5, <1>6, <1>7 DEF SoundPruning

---------------------------------------------------------------------------
(* Theorems.                                                               *)

(* Two clauses the search has pulled have one key exactly when they differ *)
(* in the names of body variables and the order of the body: canonicalClause*)
(* neither merges two clauses nor misses a duplicate.                      *)
THEOREM KeysTellVariantsHolds ==
  Spec => []KeysTellVariants
<1>1. Init => TypeInv
  BY InitTypeInv
<1>2. TypeInv /\ [Next]_vars => TypeInv'
  BY StepTypeInv
<1>3. TypeInv => KeysTellVariants
  <2> SUFFICES ASSUME TypeInv, Pulled > 0, NEW i \in 1 .. Pulled - 1
               PROVE  LET n == problem.clauses[i][1]
                          m == problem.clauses[Pulled][1]
                      IN problem.key[n] = problem.key[m] <=>
                           AsSet(ClausesOf[Bias][m]) \in Variants(Bias, ClausesOf[Bias][n])
    BY DEF KeysTellVariants
  <2>1. problem \in Problem /\ next \in 1 .. Len(problem.clauses) + 1
    BY DEF TypeInv, TypeOK
  <2>2. i \in Index(problem) /\ Pulled \in Index(problem)
    BY <2>1, ProblemFacts DEF Pulled
  <2>3. ASSUME NEW j \in Index(problem) PROVE problem.clauses[j][1] \in DOMAIN ClausesOf[Bias]
    <3>1. problem.clauses[j] \in Seq(DOMAIN problem.key) /\ problem.clauses[j] # <<>>
      BY <2>1, ProblemFacts, ClausesAssumption
    <3>2. 1 \in DOMAIN problem.clauses[j]
      BY <3>1
    <3>3. QED
      BY <2>1, <3>2, RulesAre DEF Bias
  <2> DEFINE n == problem.clauses[i][1]
             m == problem.clauses[Pulled][1]
  <2>4. n \in DOMAIN ClausesOf[Bias] /\ m \in DOMAIN ClausesOf[Bias]
    BY <2>2, <2>3
  <2> HIDE DEF n, m
  <2>5. Bias \in Biases
    BY <2>1, ProblemIs DEF Bias
  <2>6. IsClause(Bias, ClausesOf[Bias][n]) /\ IsClause(Bias, ClausesOf[Bias][m])
    BY <2>4, <2>5, EnumeratorIsSoundHolds DEF EnumeratorIsSound
  <2>7. problem.key[n] = problem.key[m] <=>
          CanonicalClause(ClausesOf[Bias][n]) = CanonicalClause(ClausesOf[Bias][m])
    BY <2>1, <2>4, KeyIsForm DEF Bias
  <2>8. CanonicalClause(ClausesOf[Bias][n]) = CanonicalClause(ClausesOf[Bias][m]) <=>
          AsSet(ClausesOf[Bias][m]) \in Variants(Bias, ClausesOf[Bias][n])
    BY <2>5, <2>6, FormTellsVariants
  <2>9. QED
    BY <2>7, <2>8 DEF n, m
<1>4. QED
  BY <1>1, <1>2, <1>3, PTL DEF Spec

(* Whatever the background and the examples, the real keys, subsumptions   *)
(* and types of the learner mean for coverage what its constraints take    *)
(* them to mean, when every positive is asked for and no predicate of the  *)
(* background has an input.                                                *)
THEOREM PruningIsSoundHolds ==
  ASSUME PlainQuestions
  PROVE  Spec => []PruningIsSound
<1>1. Init => TypeInv
  BY InitTypeInv
<1>2. TypeInv /\ [Next]_vars => TypeInv'
  BY StepTypeInv
<1>3. TypeInv => PruningIsSound
  BY PlainProblemIsSound DEF TypeInv, PruningIsSound
<1>4. QED
  BY <1>1, <1>2, <1>3, PTL DEF Spec

(* And so a search that learns finds the first solution of the enumeration,*)
(* and one that exhausts it leaves none, whatever it pruned: nothing is    *)
(* assumed of coverage, keys or subsumption any more.                      *)
THEOREM LearningLosesNothing ==
  ASSUME PlainQuestions
  PROVE  Spec => []FirstSolutionIsFound
<1>1. \A p \in Problem : p.constrained => SoundPruning(p) /\ WellTypedFirst(p)
  BY PlainProblemIsSound
<1>2. QED
  BY <1>1, FirstSolutionIsFoundHolds

---------------------------------------------------------------------------
(* The stream of candidates.                                               *)

LEMMA PulledIs ==
  ASSUME TypeInv
  PROVE  /\ Bias \in Biases
         /\ Yielded = Programs(Bias)
         /\ Yielded \in Seq(ProgramsFrom(Bias)) /\ Ordered(ProgramOrder(Bias), Yielded)
         /\ Pulled \in 0 .. Len(Yielded)
<1>1. problem \in Problem /\ next \in 1 .. Len(problem.clauses) + 1
  BY DEF TypeInv, TypeOK
<1>2. Bias \in Biases
  BY <1>1, ProblemIs DEF Bias
<1>3. Yielded = Programs(Bias)
  BY <1>2 DEF Yielded, Candidates
<1>4. Len(problem.clauses) = Len(Yielded)
  BY <1>1, ClausesAssumption DEF Yielded, Bias, IsYielded
<1>5. Yielded \in Seq(ProgramsFrom(Bias)) /\ Ordered(ProgramOrder(Bias), Yielded)
  <2>1. Programs(Bias) \in Seq(ProgramsFrom(Bias))
    BY <1>2, ProgramsAre
  <2>2. Ordered(ProgramOrder(Bias), Programs(Bias))
    BY <1>2, ProgramsAre
  <2>3. QED
    BY <1>3, <2>1, <2>2
<1>6. Pulled \in 0 .. Len(Yielded)
  <2>1. Len(Yielded) \in Nat
    BY <1>5
  <2>2. QED
    BY <1>1, <1>4, <2>1 DEF Pulled
<1>7. QED
  BY <1>2, <1>3, <1>5, <1>6

(* Whatever the bias of one head predicate, no single clause is proposed   *)
(* after one that is longer, has more variables or has a constant where it *)
(* has none, nor after a program of several.                               *)
THEOREM SimplestFirstHolds ==
  Spec => []SimplestFirst
<1>1. Init => TypeInv
  BY InitTypeInv
<1>2. TypeInv /\ [Next]_vars => TypeInv'
  BY StepTypeInv
<1>3. TypeInv => SimplestFirst
  <2> SUFFICES ASSUME TypeInv, Pulled > 1, Len(Bias.heads) = 1, Len(Yielded[Pulled]) = 1
               PROVE  /\ ~Below(Complexity(Yielded[Pulled]), Complexity(Yielded[Pulled - 1]))
                      /\ Len(Yielded[Pulled - 1]) = 1
    BY DEF SimplestFirst
  <2>1. /\ Ordered(ProgramOrder(Bias), Yielded)
        /\ Pulled \in 0 .. Len(Yielded) /\ Yielded \in Seq(ProgramsFrom(Bias))
    BY PulledIs
  <2>2. Len(Yielded) \in Nat /\ DOMAIN Yielded = 1 .. Len(Yielded)
    BY <2>1
  <2>3. Pulled - 1 \in DOMAIN Yielded /\ Pulled \in DOMAIN Yielded /\ Pulled - 1 < Pulled
    BY <2>1, <2>2
  <2>4. <<Yielded[Pulled - 1], Yielded[Pulled]>> \in ProgramOrder(Bias)
    BY <2>1, <2>3 DEF Ordered
  <2>5. Follows(Bias, Yielded[Pulled - 1], Yielded[Pulled])
    BY <2>4 DEF ProgramOrder
  <2>6. QED
    BY <2>5 DEF Follows
<1>4. QED
  BY <1>1, <1>2, <1>3, PTL DEF Spec

LEMMA ProgramIs ==
  ASSUME NEW b \in Biases, NEW x \in ProgramsFrom(b)
  PROVE  /\ Len(x) \in Nat /\ DOMAIN x = 1 .. Len(x)
         /\ Range(x) \subseteq Range(EnumerateClauses(b))
         /\ IsFiniteSet(Range(x)) /\ Cardinality(Range(x)) = Len(x)
<1> DEFINE S == Range(EnumerateClauses(b))
<1>1. PICK k \in 1 .. b.maxClauses : x \in Injectives(k, S)
  BY DEF ProgramsFrom
<1>2. k \in Nat
  BY BiasAssumption
<1> HIDE DEF S
<1>3. x \in Tuples(k, S) /\ IsInjective(x)
  BY <1>1 DEF Injectives
<1>4. x \in [1 .. k -> S]
  BY <1>3 DEF Tuples
<1>5. Len(x) = k
  BY <1>2, <1>4, FunctionIsSeq
<1>6. IsFiniteSet(Range(x)) /\ Cardinality(Range(x)) = k
  BY <1>2, <1>3, RangeOfInjective
<1>7. Range(x) \subseteq S
  BY <1>4 DEF Range
<1>8. QED
  BY <1>2, <1>4, <1>5, <1>6, <1>7 DEF S

(* Every clause is a program of its own, and any two are one.              *)
LEMMA ProgramsOfOneAndTwo ==
  ASSUME NEW b \in Biases, NEW u, u = Programs(b),
         NEW c \in Range(EnumerateClauses(b)), NEW d \in Range(EnumerateClauses(b))
  PROVE  /\ b.maxClauses > 0 => \E i \in DOMAIN u : Len(u[i]) = 1 /\ u[i][1] = c
         /\ b.maxClauses > 1 /\ c # d => \E i \in DOMAIN u : Range(u[i]) = {c, d}
<1> DEFINE S == Range(EnumerateClauses(b))
<1>1. u \in Seq(ProgramsFrom(b))
  BY ProgramsAre
<1>2. \A k \in 1 .. b.maxClauses : \A t \in Injectives(k, S) : \E x \in Range(u) : Range(x) = Range(t)
  BY ProgramsAre
<1>3. b.maxClauses \in Nat
  BY BiasAssumption
<1>4. \A i \in DOMAIN u : u[i] \in ProgramsFrom(b)
  BY <1>1
<1>5. c \in S /\ d \in S
  OBVIOUS
<1> HIDE DEF S
<1>6. ASSUME b.maxClauses > 0 PROVE \E i \in DOMAIN u : Len(u[i]) = 1 /\ u[i][1] = c
  <2> DEFINE t == [i \in 1 .. 1 |-> c]
  <2>1. t \in Injectives(1, S)
    BY <1>5 DEF Injectives, Tuples, IsInjective
  <2>2. Range(t) = {c}
    BY DEF Range
  <2> HIDE DEF t
  <2>3. 1 \in 1 .. b.maxClauses
    BY <1>3, <1>6
  <2>4. PICK x \in Range(u) : Range(x) = {c}
    BY <1>2, <2>1, <2>2, <2>3
  <2>5. PICK i \in DOMAIN u : u[i] = x
    BY <2>4 DEF Range
  <2>6. x \in ProgramsFrom(b)
    BY <1>4, <2>5
  <2>7. DOMAIN x = 1 .. Len(x) /\ Cardinality(Range(x)) = Len(x)
    BY <2>6, ProgramIs
  <2>8. Cardinality({c}) = 1
    BY FS_Singleton
  <2>9. Len(x) = 1
    BY <2>4, <2>7, <2>8
  <2>10. x[1] \in Range(x)
    BY <2>7, <2>9 DEF Range
  <2>11. QED
    BY <2>4, <2>5, <2>9, <2>10
<1>7. ASSUME b.maxClauses > 1, c # d PROVE \E i \in DOMAIN u : Range(u[i]) = {c, d}
  <2> DEFINE t == [i \in 1 .. 2 |-> IF i = 1 THEN c ELSE d]
  <2>1. t \in Injectives(2, S)
    <3>1. \A i, j \in 1 .. 2 : t[i] = t[j] => i = j
      BY <1>7
    <3>2. t \in [1 .. 2 -> S]
      BY <1>5
    <3>3. QED
      BY <3>1, <3>2 DEF Injectives, Tuples, IsInjective
  <2>2. Range(t) = {c, d}
    <3>1. t[1] = c /\ t[2] = d /\ DOMAIN t = {1, 2}
      OBVIOUS
    <3> HIDE DEF t
    <3>2. QED
      BY <3>1 DEF Range
  <2> HIDE DEF t
  <2>3. 2 \in 1 .. b.maxClauses
    BY <1>3, <1>7
  <2>4. PICK x \in Range(u) : Range(x) = {c, d}
    BY <1>2, <2>1, <2>2, <2>3
  <2>5. PICK i \in DOMAIN u : u[i] = x
    BY <2>4 DEF Range
  <2>6. QED
    BY <2>4, <2>5
<1>8. QED
  BY <1>6, <1>7

(* A search without a learner evaluates a variant of every clause of the   *)
(* space before it reports the space exhausted, nothing outside the space, *)
(* and nothing twice, whatever the bias and its bounds.                    *)
THEOREM StreamIsTheSpaceHolds ==
  Spec => []StreamIsTheSpace
<1>1. Init => TypeInv /\ LosslessInv
  BY InitTypeInv, InitLosslessInv
<1>2. TypeInv /\ LosslessInv /\ [Next]_vars => (TypeInv /\ LosslessInv)'
  BY StepTypeInv, StepLosslessInv
<1>3. ASSUME TypeInv, LosslessInv PROVE StreamIsTheSpace
  <2> DEFINE found == Range(EnumerateClauses(Bias))
  <2>1. Bias \in Biases /\ Yielded = Programs(Bias)
    BY <1>3, PulledIs
  <2>2. Yielded \in Seq(ProgramsFrom(Bias)) /\ Ordered(ProgramOrder(Bias), Yielded)
    BY <1>3, PulledIs
  <2>3. Pulled \in 0 .. Len(Yielded)
    BY <1>3, PulledIs
  <2>4. /\ Len(Yielded) \in Nat /\ DOMAIN Yielded = 1 .. Len(Yielded)
        /\ \A i \in DOMAIN Yielded : Yielded[i] \in ProgramsFrom(Bias)
    BY <2>2
  <2>5. found \subseteq Kept(Bias)
    BY <2>1, ClausesAre
  <2>6. ASSUME NEW i \in DOMAIN Yielded PROVE Range(Yielded[i]) \subseteq found
    BY <2>1, <2>4, <2>6, ProgramIs
  <2>7. SpaceIsCovered
    <3> SUFFICES ASSUME Judged, pc = "exhausted"
                 PROVE  /\ Bias.maxClauses > 0 =>
                             \A c \in Space(Bias) : Variants(Bias, c) \cap {AsSet(d) : d \in Singles} # {}
                        /\ Bias.maxClauses > 1 => \A c, d \in Singles : c # d =>
                             \E i \in 1 .. Pulled : Range(Yielded[i]) = {c, d}
      BY DEF SpaceIsCovered
    <3>1. Pulled = Len(Yielded)
      <4>1. Sound(problem)
        BY DEF Sound, Judged
      <4>2. next \notin Index(problem)
        BY <1>3, <4>1 DEF LosslessInv
      <4>3. problem \in Problem /\ next \in 1 .. Len(problem.clauses) + 1
        BY <1>3 DEF TypeInv, TypeOK
      <4>4. Index(problem) = 1 .. Len(problem.clauses) /\ Len(problem.clauses) \in Nat
        BY <4>3, ProblemFacts
      <4>5. Len(problem.clauses) = Len(Yielded)
        BY <4>3, ClausesAssumption DEF Yielded, Bias, IsYielded
      <4>6. QED
        BY <4>2, <4>3, <4>4, <4>5 DEF Pulled
    <3>2. DOMAIN Yielded = 1 .. Pulled
      BY <2>4, <3>1
    <3>3. ASSUME Bias.maxClauses > 0, NEW c \in Space(Bias)
          PROVE  Variants(Bias, c) \cap {AsSet(d) : d \in Singles} # {}
      <4>1. PICK d \in Kept(Bias) : AsSet(d) \in Variants(Bias, c)
        BY <2>1, SpaceIsMet
      <4>2. Exhausts(EnumerateClauses(Bias), Kept(Bias))
        BY <2>1, EnumeratedIs
      <4>3. PICK e \in found : AsSet(e) = AsSet(d)
        BY <4>2 DEF Exhausts
      <4>4. PICK i \in DOMAIN Yielded : Len(Yielded[i]) = 1 /\ Yielded[i][1] = e
        BY <2>1, <3>3, <4>3, ProgramsOfOneAndTwo
      <4>5. e \in Singles
        BY <3>2, <4>4 DEF Singles
      <4>6. QED
        BY <4>1, <4>3, <4>5
    <3>4. ASSUME Bias.maxClauses > 1, NEW c \in Singles, NEW d \in Singles, c # d
          PROVE  \E i \in 1 .. Pulled : Range(Yielded[i]) = {c, d}
      <4>1. ASSUME NEW e \in Singles PROVE e \in found
        <5>1. PICK i \in 1 .. Pulled : Len(Yielded[i]) = 1 /\ e = Yielded[i][1]
          BY <4>1 DEF Singles
        <5>2. DOMAIN Yielded[i] = 1 .. 1
          <6>1. Yielded[i] \in ProgramsFrom(Bias)
            BY <2>4, <3>2
          <6>2. DOMAIN Yielded[i] = 1 .. Len(Yielded[i])
            BY <2>1, <6>1, ProgramIs
          <6>3. QED
            BY <5>1, <6>2
        <5>3. e \in Range(Yielded[i])
          BY <5>1, <5>2 DEF Range
        <5>4. QED
          BY <2>6, <3>2, <5>3
      <4>2. c \in found /\ d \in found
        BY <3>4, <4>1
      <4>3. PICK i \in DOMAIN Yielded : Range(Yielded[i]) = {c, d}
        BY <2>1, <3>4, <4>2, ProgramsOfOneAndTwo
      <4>4. QED
        BY <3>2, <4>3
    <3>5. QED
      BY <3>3, <3>4
  <2>8. CandidateIsInSpace
    <3> SUFFICES ASSUME Pulled > 0, NEW c \in Range(Yielded[Pulled])
                 PROVE  InSpace(Bias, c) /\ Len(c.body) <= Bias.maxBody
                        /\ Cardinality(ClauseVars(c)) <= Bias.maxVars
      BY DEF CandidateIsInSpace
    <3>1. Pulled \in DOMAIN Yielded
      BY <2>3, <2>4
    <3>2. c \in Kept(Bias)
      BY <2>5, <2>6, <3>1
    <3>3. QED
      BY <2>1, <3>2, KeptInSpace
  <2>9. EachCandidateIsNew
    <3> SUFFICES ASSUME NEW i \in 1 .. Pulled - 1
                 PROVE  Unordered(Yielded[i]) # Unordered(Yielded[Pulled])
      BY DEF EachCandidateIsNew
    <3>1. i \in DOMAIN Yielded /\ Pulled \in DOMAIN Yielded /\ i < Pulled
      BY <2>3, <2>4
    <3>2. <<Yielded[i], Yielded[Pulled]>> \in ProgramOrder(Bias)
      BY <2>2, <3>1 DEF Ordered
    <3>3. QED
      BY <3>2 DEF ProgramOrder, Follows
  <2>10. QED
    BY <2>7, <2>8, <2>9 DEF StreamIsTheSpace
<1>4. QED
  BY <1>1, <1>2, <1>3, PTL DEF Spec

=============================================================================
