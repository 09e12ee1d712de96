--------------------------- MODULE SequenceFacts ---------------------------
(***************************************************************************)
(* Facts that the proofs about streams, archives and records share:         *)
(* induction on numbers, functions defined by recursion on an interval, and *)
(* what FlattenSeq does to a sequence that grows or shrinks.                *)
(*                                                                         *)
(* Induction is stated for a set of numbers instead of a predicate, and     *)
(* recursion for a step that is a function: no operator is a parameter.     *)
(***************************************************************************)
EXTENDS Integers, Sequences, SequencesExt, TLAPS, SequenceTheorems, WellFoundedInduction

(* A set of numbers has a least element.  *)
LEMMA LeastNumber ==
  ASSUME NEW T, T \subseteq Nat, T # {}
  PROVE  \E m \in T : \A k \in T : m =< k
<1>1. IsWellFoundedOn(OpToRel(<, Nat), Nat)
  BY NatLessThanWellFounded
<1>2. PICK m \in T : \A k \in T : ~(<<k, m>> \in OpToRel(<, Nat))
  BY <1>1, WFMin, ZenonT(30)
<1>3. \A k \in T : ~(k < m)
  BY <1>2 DEF OpToRel
<1>4. \A k \in T : m \in Nat /\ k \in Nat
  OBVIOUS
<1>5. \A k \in T : m =< k
  BY <1>3, <1>4
<1> QED  BY <1>5

(* What is closed under the successor holds all numbers.  *)
LEMMA SetInduction ==
  ASSUME NEW S, 0 \in S, \A n \in Nat : n \in S => n + 1 \in S
  PROVE  Nat \subseteq S
<1> SUFFICES ASSUME Nat \ S # {} PROVE FALSE
  OBVIOUS
<1>1. PICK m \in Nat \ S : \A k \in Nat \ S : m =< k
  BY LeastNumber
<1>2. m # 0 /\ m \in Nat
  OBVIOUS
<1>3. m - 1 \in Nat /\ m - 1 \in S
  BY <1>1, <1>2
<1> QED  BY <1>1, <1>2, <1>3

(* The same up to a bound.  *)
LEMMA IntervalInduction ==
  ASSUME NEW N \in Nat, NEW S, 0 \in S, \A n \in 0..(N - 1) : n \in S => n + 1 \in S
  PROVE  0..N \subseteq S
<1> DEFINE T == {n \in Nat : n =< N => n \in S}
<1>1. 0 \in T
  OBVIOUS
<1>2. \A n \in Nat : n \in T => n + 1 \in T
  <2> SUFFICES ASSUME NEW n \in Nat, n \in T, n + 1 =< N PROVE n + 1 \in S
    OBVIOUS
  <2>1. n =< N /\ n \in 0..(N - 1)
    OBVIOUS
  <2> QED  BY <2>1
<1>3. Nat \subseteq T
  BY <1>1, <1>2, SetInduction
<1> QED  BY <1>3

(* g begins with d and goes on with step.  *)
Recurses(g, d, N, step, D) ==
  g \in [0..N -> D] /\ g[0] = d /\ \A n \in 1..N : g[n] = step[n][g[n - 1]]

Steps(step, N, D) == \A n \in 1..N : step[n] \in [D -> D]

(* A value may be defined step by step.  *)
LEMMA Recursion ==
  ASSUME NEW D, NEW d \in D, NEW N \in Nat, NEW step, Steps(step, N, D)
  PROVE  \E g : Recurses(g, d, N, step, D)
<1> USE DEF Steps, Recurses
<1> DEFINE S == {m \in 0..N : \E g \in [0..m -> D] :
                                g[0] = d /\ \A n \in 1..m : g[n] = step[n][g[n - 1]]}
<1>1. 0 \in S
  <2> DEFINE g == [n \in 0..0 |-> d]
  <2>1. g \in [0..0 -> D] /\ g[0] = d
    OBVIOUS
  <2>2. \A n \in 1..0 : g[n] = step[n][g[n - 1]]
    OBVIOUS
  <2> HIDE DEF g
  <2> QED  BY <2>1, <2>2
<1>2. ASSUME NEW m \in 0..(N - 1), m \in S PROVE m + 1 \in S
  <2>1. PICK g \in [0..m -> D] : g[0] = d /\ \A n \in 1..m : g[n] = step[n][g[n - 1]]
    BY <1>2
  <2> DEFINE h == [n \in 0..(m + 1) |-> IF n = m + 1 THEN step[m + 1][g[m]] ELSE g[n]]
  <2>0. g[m] \in D /\ step[m + 1] \in [D -> D]
    OBVIOUS
  <2>2. h \in [0..(m + 1) -> D]
    BY <2>0
  <2>3. h[0] = d /\ h[m + 1] = step[m + 1][g[m]] /\ \A n \in 0..m : h[n] = g[n]
    BY <2>1
  <2> HIDE DEF h
  <2>4. \A n \in 1..(m + 1) : h[n] = step[n][h[n - 1]]
    <3> TAKE n \in 1..(m + 1)
    <3>1. CASE n = m + 1
      BY <3>1, <2>3
    <3>2. CASE n # m + 1
      BY <3>2, <2>3, <2>1
    <3> QED  BY <3>1, <3>2
  <2>5. m + 1 \in 0..N
    OBVIOUS
  <2> QED  BY <2>2, <2>3, <2>4, <2>5
<1>3. 0..N \subseteq S
  <2> HIDE DEF S
  <2> QED  BY <1>1, <1>2, IntervalInduction
<1>4. N \in S
  BY <1>3
<1> QED  BY <1>4

-----------------------------------------------------------------------------
(* FlattenSeq.                                                               *)

(* g[n] is what the first n sequences of s give.  *)
Flattens(g, s, S) ==
  /\ g \in [0..Len(s) -> Seq(S)]
  /\ g[0] = <<>>
  /\ \A n \in 1..Len(s) : g[n] = g[n - 1] \o s[n]

(* The first n sequences give something, for every n.  *)
LEMMA FlattenExists ==
  ASSUME NEW S, NEW s \in Seq(Seq(S))
  PROVE  \E g : Flattens(g, s, S)
<1> DEFINE step == [n \in 1..Len(s) |-> [x \in Seq(S) |-> x \o s[n]]]
<1>1. \A n \in 1..Len(s) : step[n] \in [Seq(S) -> Seq(S)]
  OBVIOUS
<1>2. Len(s) \in Nat /\ <<>> \in Seq(S)
  OBVIOUS
<1>3. \A n \in 1..Len(s), x \in Seq(S) : step[n][x] = x \o s[n]
  OBVIOUS
<1> HIDE DEF step
<1>a. Steps(step, Len(s), Seq(S))
  BY <1>1 DEF Steps
<1>b. \E g : Recurses(g, <<>>, Len(s), step, Seq(S))
  BY <1>a, <1>2, Recursion, Zenon
<1>4. PICK g \in [0..Len(s) -> Seq(S)] :
        g[0] = <<>> /\ \A n \in 1..Len(s) : g[n] = step[n][g[n - 1]]
  BY <1>b DEF Recurses
<1>5. \A n \in 1..Len(s) : g[n] = g[n - 1] \o s[n]
  <2> TAKE n \in 1..Len(s)
  <2>1. n - 1 \in 0..Len(s)
    OBVIOUS
  <2> QED  BY <1>3, <1>4, <2>1
<1> QED  BY <1>4, <1>5 DEF Flattens

(* What it computes.  *)
LEMMA FlattenIs ==
  ASSUME NEW S, NEW s \in Seq(Seq(S))
  PROVE  \E g : Flattens(g, s, S) /\ FlattenSeq(s) = g[Len(s)]
<1>1. PICK g : Flattens(g, s, S)
  BY FlattenExists
<1>2. Len(s) \in Nat
  OBVIOUS
<1>3. CASE Len(s) = 0
  <2>1. s = <<>>
    BY <1>3
  <2>2. FlattenSeq(s) = s
    BY <1>3 DEF FlattenSeq
  <2>3. g[Len(s)] = <<>>
    BY <1>1, <1>3 DEF Flattens
  <2> QED  BY <1>1, <2>1, <2>2, <2>3
<1>4. CASE Len(s) # 0
  <2> DEFINE f == [i \in 1..Len(s) |-> g[i]]
             flatten[i \in 1..Len(s)] == IF i = 1 THEN s[i] ELSE flatten[i - 1] \o s[i]
  <2>1. f = [i \in 1..Len(s) |-> IF i = 1 THEN s[i] ELSE f[i - 1] \o s[i]]
    <3>1. \A i \in 1..Len(s) : f[i] = IF i = 1 THEN s[i] ELSE f[i - 1] \o s[i]
      <4> TAKE i \in 1..Len(s)
      <4>1. f[i] = g[i] /\ g[i] = g[i - 1] \o s[i]
        BY <1>1 DEF Flattens
      <4>2. CASE i = 1
        <5>1. g[0] = <<>> /\ <<>> \o s[1] = s[1]
          BY <1>1, <4>2, <1>4 DEF Flattens
        <5>2. g[i - 1] = g[0] /\ s[i] = s[1]
          BY <4>2
        <5> QED  BY <4>1, <4>2, <5>1, <5>2
      <4>3. CASE i # 1
        <5>1. i - 1 \in 1..Len(s)
          BY <4>3
        <5>2. f[i - 1] = g[i - 1]
          BY <5>1
        <5> QED  BY <4>1, <4>3, <5>2
      <4> QED  BY <4>2, <4>3
    <3> HIDE DEF f
    <3>2. f = [i \in 1..Len(s) |-> f[i]]
      BY DEF f
    <3> QED  BY <3>1, <3>2
  <2> HIDE DEF f
  <2>2. flatten = [i \in 1..Len(s) |-> IF i = 1 THEN s[i] ELSE flatten[i - 1] \o s[i]]
    BY <2>1, Zenon DEF flatten
  <2>3. FlattenSeq(s) = flatten[Len(s)]
    BY <1>4, Zenon DEF FlattenSeq, flatten
  <2> HIDE DEF flatten
  <2> DEFINE T == {n \in 0..Len(s) : n # 0 => flatten[n] = g[n]}
  <2>4. 0 \in T
    OBVIOUS
  <2>5. ASSUME NEW n \in 0..(Len(s) - 1), n \in T PROVE n + 1 \in T
    <3>1. flatten[n + 1] = IF n + 1 = 1 THEN s[n + 1] ELSE flatten[n] \o s[n + 1]
      <4>1. n + 1 \in 1..Len(s) /\ (n + 1) - 1 = n
        OBVIOUS
      <4> QED  BY <2>2, <4>1
    <3>2. g[n + 1] = g[n] \o s[n + 1]
      <4>1. n + 1 \in 1..Len(s) /\ (n + 1) - 1 = n
        OBVIOUS
      <4> QED  BY <1>1, <4>1 DEF Flattens
    <3>3. CASE n = 0
      <4>1. g[0] = <<>> /\ <<>> \o s[1] = s[1]
        BY <1>1, <1>4 DEF Flattens
      <4> QED  BY <3>1, <3>2, <3>3, <4>1
    <3>4. CASE n # 0
      <4>1. n \in T => flatten[n] = g[n]
        BY <3>4
      <4>2. n + 1 # 1
        BY <3>4
      <4>3. flatten[n + 1] = g[n + 1]
        BY <3>1, <3>2, <4>1, <4>2, <2>5
      <4> QED  BY <4>3
    <3> QED  BY <3>3, <3>4
  <2>6. 0..Len(s) \subseteq T
    <3> HIDE DEF T
    <3> QED  BY <2>4, <2>5, <1>2, IntervalInduction
  <2>7. flatten[Len(s)] = g[Len(s)]
    BY <2>6, <1>4, <1>2
  <2> QED  BY <1>1, <2>3, <2>7
<1> QED  BY <1>3, <1>4

(* It depends on the sequences it has met only.  *)
LEMMA FlattenAgrees ==
  ASSUME NEW S, NEW s \in Seq(Seq(S)), NEW t \in Seq(Seq(S)), NEW g, NEW h,
         Flattens(g, s, S), Flattens(h, t, S),
         NEW N \in Nat, N =< Len(s), N =< Len(t), \A i \in 1..N : s[i] = t[i]
  PROVE  g[N] = h[N]
<1> DEFINE T == {n \in 0..N : g[n] = h[n]}
<1>1. 0 \in T
  BY DEF Flattens
<1>2. ASSUME NEW n \in 0..(N - 1), n \in T PROVE n + 1 \in T
  <2>1. n + 1 \in 1..Len(s) /\ n + 1 \in 1..Len(t) /\ n + 1 \in 1..N /\ (n + 1) - 1 = n
    OBVIOUS
  <2>2. g[n + 1] = g[n] \o s[n + 1] /\ h[n + 1] = h[n] \o t[n + 1]
    BY <2>1 DEF Flattens
  <2>3. g[n + 1] = h[n + 1]
    BY <1>2, <2>1, <2>2
  <2> QED  BY <2>1, <2>3
<1>3. 0..N \subseteq T
  <2> HIDE DEF T
  <2> QED  BY <1>1, <1>2, IntervalInduction
<1>4. N \in 0..N
  OBVIOUS
<1> QED  BY <1>3, <1>4

(* Its elements are those of the sequences.  *)
LEMMA FlattenType ==
  ASSUME NEW S, NEW s \in Seq(Seq(S))
  PROVE  FlattenSeq(s) \in Seq(S)
<1>1. PICK g : Flattens(g, s, S) /\ FlattenSeq(s) = g[Len(s)]
  BY FlattenIs
<1>2. Len(s) \in 0..Len(s)
  OBVIOUS
<1> QED  BY <1>1, <1>2 DEF Flattens

(* Nothing comes of nothing.  *)
LEMMA FlattenEmpty == FlattenSeq(<<>>) = <<>>
BY DEF FlattenSeq

(* A sequence at the end comes out at the end.  *)
LEMMA FlattenAppend ==
  ASSUME NEW S, NEW s \in Seq(Seq(S)), NEW x \in Seq(S)
  PROVE  FlattenSeq(Append(s, x)) = FlattenSeq(s) \o x
<1> DEFINE t == Append(s, x)
<1>1. /\ t \in Seq(Seq(S)) /\ Len(t) = Len(s) + 1 /\ t[Len(s) + 1] = x /\ Len(s) \in Nat
      /\ \A i \in 1..Len(s) : s[i] = t[i]
  BY AppendProperties
<1> HIDE DEF t
<1>2. PICK g : Flattens(g, s, S) /\ FlattenSeq(s) = g[Len(s)]
  BY FlattenIs
<1>3. PICK h : Flattens(h, t, S) /\ FlattenSeq(t) = h[Len(t)]
  BY <1>1, FlattenIs
<1>4. g[Len(s)] = h[Len(s)]
  <2>1. Len(s) =< Len(s) /\ Len(s) =< Len(t)
    BY <1>1
  <2> DEFINE N == Len(s)
  <2>2. /\ N \in Nat /\ N =< Len(s) /\ N =< Len(t) /\ (\A i \in 1..N : s[i] = t[i])
        /\ Flattens(g, s, S) /\ Flattens(h, t, S) /\ t \in Seq(Seq(S))
    BY <1>1, <1>2, <1>3, <2>1
  <2> HIDE DEF N
  <2>3. g[N] = h[N]
    BY <2>2, FlattenAgrees
  <2> QED  BY <2>3 DEF N
<1>5. h[Len(s) + 1] = h[Len(s)] \o x
  <2>1. Len(s) + 1 \in 1..Len(t) /\ (Len(s) + 1) - 1 = Len(s)
    BY <1>1
  <2> QED  BY <1>1, <1>3, <2>1 DEF Flattens
<1> QED  BY <1>1, <1>2, <1>3, <1>4, <1>5 DEF t

(* The first sequence comes out first.  *)
LEMMA FlattenFirst ==
  ASSUME NEW S, NEW s \in Seq(Seq(S)), s # <<>>
  PROVE  FlattenSeq(s) = Head(s) \o FlattenSeq(Tail(s))
<1> DEFINE t == Tail(s)
<1>1. /\ t \in Seq(Seq(S)) /\ Len(t) = Len(s) - 1 /\ Len(s) \in Nat /\ Len(t) \in Nat
      /\ Head(s) = s[1] /\ s[1] \in Seq(S)
      /\ \A i \in 1..Len(t) : t[i] = s[i + 1]
  BY HeadTailProperties
<1> HIDE DEF t
<1>2. PICK g : Flattens(g, s, S) /\ FlattenSeq(s) = g[Len(s)]
  BY FlattenIs
<1>3. PICK h : Flattens(h, t, S) /\ FlattenSeq(t) = h[Len(t)]
  BY <1>1, FlattenIs
<1> DEFINE T == {n \in 0..Len(t) : g[n + 1] = s[1] \o h[n]}
<1>4. 0 \in T
  <2>1. g[1] = g[0] \o s[1]
    <3>1. 1 \in 1..Len(s) /\ 1 - 1 = 0
      BY <1>1
    <3> QED  BY <1>2, <3>1 DEF Flattens
  <2>2. g[0] = <<>> /\ h[0] = <<>>
    BY <1>2, <1>3 DEF Flattens
  <2>3. <<>> \o s[1] = s[1] /\ s[1] \o <<>> = s[1]
    BY <1>1, ConcatEmptySeq
  <2>4. g[0 + 1] = s[1] \o h[0]
    BY <2>1, <2>2, <2>3
  <2>5. 0 \in 0..Len(t)
    BY <1>1
  <2> QED  BY <2>4, <2>5
<1>5. ASSUME NEW n \in 0..(Len(t) - 1), n \in T PROVE n + 1 \in T
  <2>1. /\ n + 1 \in 1..Len(t) /\ (n + 1) - 1 = n /\ n + 1 \in 0..Len(t)
        /\ (n + 1) + 1 \in 1..Len(s) /\ ((n + 1) + 1) - 1 = n + 1 /\ n \in 0..Len(t)
    BY <1>1
  <2>2. g[(n + 1) + 1] = g[n + 1] \o s[(n + 1) + 1]
    BY <1>2, <2>1 DEF Flattens
  <2>3. h[n + 1] = h[n] \o t[n + 1] /\ h[n] \in Seq(S)
    BY <1>3, <2>1 DEF Flattens
  <2>4. t[n + 1] = s[(n + 1) + 1] /\ t[n + 1] \in Seq(S)
    BY <1>1, <2>1
  <2>5. g[n + 1] = s[1] \o h[n]
    BY <1>5
  <2>6. g[(n + 1) + 1] = (s[1] \o h[n]) \o t[n + 1]
    BY <2>2, <2>4, <2>5
  <2>7. (s[1] \o h[n]) \o t[n + 1] = s[1] \o (h[n] \o t[n + 1])
    <3>1. s[1] \in Seq(S) /\ h[n] \in Seq(S) /\ t[n + 1] \in Seq(S)
      BY <1>1, <2>3, <2>4
    <3> DEFINE a == s[1]
               b == h[n]
               c == t[n + 1]
    <3> HIDE DEF a, b, c
    <3>2. a \in Seq(S) /\ b \in Seq(S) /\ c \in Seq(S)
      BY <3>1 DEF a, b, c
    <3>3. (a \o b) \o c = a \o (b \o c)
      BY <3>2
    <3> QED  BY <3>3 DEF a, b, c
  <2>8. g[(n + 1) + 1] = s[1] \o h[n + 1]
    BY <2>3, <2>6, <2>7
  <2> QED  BY <2>1, <2>8
<1>6. 0..Len(t) \subseteq T
  <2> HIDE DEF T
  <2> QED  BY <1>1, <1>4, <1>5, IntervalInduction
<1>7. Len(t) \in 0..Len(t) /\ Len(t) + 1 = Len(s)
  BY <1>1
<1>8. g[Len(t) + 1] = s[1] \o h[Len(t)]
  BY <1>6, <1>7
<1> QED  BY <1>1, <1>2, <1>3, <1>7, <1>8 DEF t

(* The i-th sequence comes out whole, behind what the ones before it give.  *)
LEMMA FlattenPiece ==
  ASSUME NEW S, NEW s \in Seq(Seq(S)), NEW g, Flattens(g, s, S), NEW i \in 1..Len(s)
  PROVE  \A j \in 1..Len(s[i]) : /\ Len(g[i - 1]) + j \in 1..Len(g[Len(s)])
                                 /\ g[Len(s)][Len(g[i - 1]) + j] = s[i][j]
<1> DEFINE p == Len(g[i - 1])
           Whole(n) == \A j \in 1..Len(s[i]) : p + j \in 1..Len(g[n]) /\ g[n][p + j] = s[i][j]
           T == {n \in 0..Len(s) : n >= i => Whole(n)}
<1>a. i - 1 \in 0..Len(s) /\ Len(s) \in Nat /\ \A n \in 1..Len(s) : s[n] \in Seq(S)
  OBVIOUS
<1>b. \A n \in 0..Len(s) : g[n] \in Seq(S)
  BY DEF Flattens
<1>0. i - 1 \in 0..Len(s) /\ Len(s) \in Nat /\ s[i] \in Seq(S) /\ g[i - 1] \in Seq(S) /\ p \in Nat
  <2>1. g[i - 1] \in Seq(S)
    BY <1>a, <1>b
  <2> QED  BY <1>a, <2>1
<1>1. 0 \in T
  BY <1>0
<1>2. ASSUME NEW n \in 0..(Len(s) - 1), n \in T PROVE n + 1 \in T
  <2>1. n + 1 \in 1..Len(s) /\ n \in 0..Len(s) /\ n + 1 \in 0..Len(s) /\ (n + 1) - 1 = n
    BY <1>0
  <2>2. g[n + 1] = g[n] \o s[n + 1] /\ g[n] \in Seq(S) /\ s[n + 1] \in Seq(S)
    <3>1. g[n + 1] = g[n] \o s[n + 1]
      BY <2>1 DEF Flattens
    <3> QED  BY <2>1, <3>1, <1>a, <1>b
  <2>3. CASE n + 1 = i
    <3>1. i - 1 = n
      BY <2>3, <2>1
    <3> DEFINE a == g[n]
               b == s[i]
    <3>2. p = Len(a) /\ g[n + 1] = a \o b /\ a \in Seq(S) /\ b \in Seq(S)
      BY <3>1, <2>2, <2>3
    <3> HIDE DEF a, b
    <3>3. \A j \in 1..Len(b) : Len(a) + j \in 1..Len(a \o b) /\ (a \o b)[Len(a) + j] = b[j]
      BY <3>2
    <3>4. Whole(n + 1)
      BY <3>2, <3>3 DEF b
    <3> QED  BY <3>4, <2>1
  <2>4. CASE n >= i
    <3>1. Whole(n)
      BY <1>2, <2>4
    <3> DEFINE a == g[n]
               b == s[n + 1]
    <3>2. g[n + 1] = a \o b /\ a \in Seq(S) /\ b \in Seq(S)
      BY <2>2
    <3>3. \A j \in 1..Len(s[i]) : p + j \in 1..Len(a) /\ a[p + j] = s[i][j]
      BY <3>1
    <3> HIDE DEF a, b
    <3>4. \A k \in 1..Len(a) : k \in 1..Len(a \o b) /\ (a \o b)[k] = a[k]
      BY <3>2
    <3>5. Whole(n + 1)
      BY <3>2, <3>3, <3>4
    <3> QED  BY <3>5, <2>1
  <2>5. CASE n + 1 < i
    BY <2>5, <2>1
  <2>6. n + 1 = i \/ n >= i \/ n + 1 < i
    BY <2>1
  <2> QED  BY <2>3, <2>4, <2>5, <2>6
<1>3. 0..Len(s) \subseteq T
  <2> HIDE DEF T
  <2> QED  BY <1>0, <1>1, <1>2, IntervalInduction
<1>4. Len(s) \in 0..Len(s) /\ Len(s) >= i
  BY <1>0
<1> QED  BY <1>3, <1>4

(* The more sequences, the more they give.  *)
LEMMA FlattenGrows ==
  ASSUME NEW S, NEW s \in Seq(Seq(S)), NEW g, Flattens(g, s, S),
         NEW m \in 0..Len(s), NEW n \in 0..Len(s), m =< n
  PROVE  Len(g[m]) =< Len(g[n]) /\ Len(g[m]) \in Nat /\ Len(g[n]) \in Nat
<1>0. Len(s) \in Nat /\ \A k \in 0..Len(s) : g[k] \in Seq(S) /\ Len(g[k]) \in Nat
  <2>1. \A k \in 0..Len(s) : g[k] \in Seq(S)
    BY DEF Flattens
  <2> QED  BY <2>1
<1> DEFINE T == {k \in 0..Len(s) : m =< k => Len(g[m]) =< Len(g[k])}
<1>1. 0 \in T
  <2>1. m =< 0 => m = 0
    BY <1>0
  <2> QED  BY <1>0, <2>1
<1>2. ASSUME NEW k \in 0..(Len(s) - 1), k \in T PROVE k + 1 \in T
  <2>1. k + 1 \in 1..Len(s) /\ k \in 0..Len(s) /\ k + 1 \in 0..Len(s) /\ (k + 1) - 1 = k
    BY <1>0
  <2>2. g[k + 1] = g[k] \o s[k + 1]
    BY <2>1 DEF Flattens
  <2>3. g[k] \in Seq(S) /\ s[k + 1] \in Seq(S)
    BY <2>1, <1>0
  <2>4. Len(g[k + 1]) = Len(g[k]) + Len(s[k + 1]) /\ Len(s[k + 1]) \in Nat
    BY <2>2, <2>3
  <2>5. CASE m = k + 1
    BY <2>5, <2>1, <1>0
  <2>6. CASE m # k + 1
    <3>1. m =< k + 1 => m =< k
      BY <2>6, <2>1
    <3>2. m =< k => Len(g[m]) =< Len(g[k])
      BY <1>2
    <3>3. Len(g[m]) \in Nat /\ Len(g[k]) \in Nat
      BY <2>1, <1>0
    <3>4. m =< k + 1 => Len(g[m]) =< Len(g[k + 1])
      <4> DEFINE a == Len(g[m])
                 b == Len(g[k])
                 c == Len(s[k + 1])
                 d == Len(g[k + 1])
      <4>1. a \in Nat /\ b \in Nat /\ c \in Nat /\ d = b + c /\ (m =< k + 1 => a =< b)
        BY <2>4, <3>1, <3>2, <3>3
      <4> HIDE DEF a, b, c, d
      <4>2. m =< k + 1 => a =< d
        BY <4>1
      <4> QED  BY <4>2 DEF a, d
    <3> QED  BY <2>1, <3>4
  <2> QED  BY <2>5, <2>6
<1>3. 0..Len(s) \subseteq T
  <2> HIDE DEF T
  <2> QED  BY <1>0, <1>1, <1>2, IntervalInduction
<1> QED  BY <1>0, <1>3

(* Position i is position j of the k-th sequence, for some j and k.  *)
OfPiece(i, g, s) == \E k \in 1..Len(s) : \E j \in 1..Len(s[k]) : i = Len(g[k - 1]) + j

(* Whatever comes out is of one of them.  *)
LEMMA FlattenPlace ==
  ASSUME NEW S, NEW s \in Seq(Seq(S)), NEW g, Flattens(g, s, S), NEW i \in 1..Len(g[Len(s)])
  PROVE  OfPiece(i, g, s)
<1>0. Len(s) \in Nat /\ \A k \in 0..Len(s) : g[k] \in Seq(S) /\ Len(g[k]) \in Nat
  <2>1. \A k \in 0..Len(s) : g[k] \in Seq(S)
    BY DEF Flattens
  <2> QED  BY <2>1
<1> DEFINE Found(p) == \E k \in 1..Len(s) : \E j \in 1..Len(s[k]) : p = Len(g[k - 1]) + j
           T == {n \in 0..Len(s) : \A p \in 1..Len(g[n]) : Found(p)}
<1>1. 0 \in T
  <2>1. Len(g[0]) = 0
    BY DEF Flattens
  <2> QED  BY <1>0, <2>1
<1>2. ASSUME NEW n \in 0..(Len(s) - 1), n \in T PROVE n + 1 \in T
  <2>1. n + 1 \in 1..Len(s) /\ n \in 0..Len(s) /\ n + 1 \in 0..Len(s) /\ (n + 1) - 1 = n
    BY <1>0
  <2>2. g[n + 1] = g[n] \o s[n + 1]
    BY <2>1 DEF Flattens
  <2>3. g[n] \in Seq(S) /\ s[n + 1] \in Seq(S)
    BY <2>1, <1>0
  <2>4. Len(g[n + 1]) = Len(g[n]) + Len(s[n + 1]) /\ Len(s[n + 1]) \in Nat
    BY <2>2, <2>3
  <2>5. ASSUME NEW p \in 1..Len(g[n + 1]) PROVE Found(p)
    <3>1. CASE p \in 1..Len(g[n])
      BY <1>2, <3>1
    <3>2. CASE p \notin 1..Len(g[n])
      <4>1. p - Len(g[n]) \in 1..Len(s[n + 1]) /\ p = Len(g[n]) + (p - Len(g[n]))
        <5>1. Len(g[n]) \in Nat /\ p \in 1..(Len(g[n]) + Len(s[n + 1]))
          BY <2>1, <2>4, <1>0
        <5> DEFINE a == Len(g[n])
                   b == Len(s[n + 1])
        <5>2. a \in Nat /\ b \in Nat /\ p \in 1..(a + b) /\ p \notin 1..a
          BY <3>2, <2>4, <5>1
        <5> HIDE DEF a, b
        <5>3. p - a \in 1..b /\ p = a + (p - a)
          BY <5>2
        <5> QED  BY <5>3 DEF a, b
      <4>2. p = Len(g[(n + 1) - 1]) + (p - Len(g[n]))
        BY <2>1, <4>1
      <4> QED  BY <2>1, <4>1, <4>2
    <3> QED  BY <3>1, <3>2
  <2> QED  BY <2>1, <2>5
<1>3. 0..Len(s) \subseteq T
  <2> HIDE DEF T
  <2> QED  BY <1>0, <1>1, <1>2, IntervalInduction
<1>4. Len(s) \in 0..Len(s)
  BY <1>0
<1> QED  BY <1>3, <1>4 DEF OfPiece

-----------------------------------------------------------------------------
(* Cutting and joining.                                                      *)

(* A sequence cut after its first n elements.  *)
LEMMA Cut ==
  ASSUME NEW S, NEW s \in Seq(S), NEW n \in 0..Len(s)
  PROVE  /\ SubSeq(s, 1, n) \in Seq(S) /\ Len(SubSeq(s, 1, n)) = n
         /\ SubSeq(s, n + 1, Len(s)) \in Seq(S) /\ Len(SubSeq(s, n + 1, Len(s))) = Len(s) - n
         /\ \A i \in 1..n : SubSeq(s, 1, n)[i] = s[i]
         /\ \A i \in 1..(Len(s) - n) : SubSeq(s, n + 1, Len(s))[i] = s[n + i]
         /\ SubSeq(s, 1, n) \o SubSeq(s, n + 1, Len(s)) = s
<1>0. Len(s) \in Nat /\ n \in Nat /\ n =< Len(s)
  OBVIOUS
<1>1. /\ SubSeq(s, 1, n) \in Seq(S) /\ Len(SubSeq(s, 1, n)) = n
      /\ \A i \in 1..n : SubSeq(s, 1, n)[i] = s[i]
  <2>1. \A i \in 1..n : s[i] \in S
    BY <1>0
  <2>2. /\ SubSeq(s, 1, n) \in Seq(S)
        /\ Len(SubSeq(s, 1, n)) = IF 1 <= n THEN n - 1 + 1 ELSE 0
        /\ \A i \in 1 .. n - 1 + 1 : SubSeq(s, 1, n)[i] = s[1 + i - 1]
    BY <1>0, <2>1, SubSeqProperties
  <2> QED  BY <1>0, <2>2
<1>2. /\ SubSeq(s, n + 1, Len(s)) \in Seq(S) /\ Len(SubSeq(s, n + 1, Len(s))) = Len(s) - n
      /\ \A i \in 1..(Len(s) - n) : SubSeq(s, n + 1, Len(s))[i] = s[n + i]
  <2>1. \A i \in (n + 1)..Len(s) : s[i] \in S
    BY <1>0
  <2>2. /\ SubSeq(s, n + 1, Len(s)) \in Seq(S)
        /\ Len(SubSeq(s, n + 1, Len(s))) = IF n + 1 <= Len(s) THEN Len(s) - (n + 1) + 1 ELSE 0
        /\ \A i \in 1 .. Len(s) - (n + 1) + 1 : SubSeq(s, n + 1, Len(s))[i] = s[n + 1 + i - 1]
    BY <1>0, <2>1, SubSeqProperties
  <2> QED  BY <1>0, <2>2
<1>3. SubSeq(s, 1, n) \o SubSeq(s, n + 1, Len(s)) = s
  <2> DEFINE a == SubSeq(s, 1, n)
             b == SubSeq(s, n + 1, Len(s))
             t == a \o b
  <2>1. /\ a \in Seq(S) /\ Len(a) = n /\ b \in Seq(S) /\ Len(b) = Len(s) - n
        /\ \A i \in 1..n : a[i] = s[i]
        /\ \A i \in 1..(Len(s) - n) : b[i] = s[n + i]
    BY <1>1, <1>2
  <2> HIDE DEF a, b
  <2>2. t \in Seq(S) /\ Len(t) = Len(s)
    BY <1>0, <2>1
  <2>3. \A i \in 1..Len(s) : t[i] = s[i]
    <3> TAKE i \in 1..Len(s)
    <3>1. CASE i =< n
      BY <3>1, <1>0, <2>1
    <3>2. CASE ~(i =< n)
      <4>1. i - n \in 1..(Len(s) - n) /\ n + (i - n) = i
        BY <3>2, <1>0
      <4>2. b[i - n] = s[i]
        BY <2>1, <4>1
      <4>3. t[i] = b[i - n]
        BY <3>2, <1>0, <2>1
      <4> QED  BY <4>2, <4>3
    <3> QED  BY <3>1, <3>2
  <2> HIDE DEF t
  <2>4. t = s
    BY <2>2, <2>3, SeqEqual
  <2> QED  BY <2>4 DEF t, a, b
<1> QED  BY <1>1, <1>2, <1>3

(* Joining keeps the kind of the elements and is associative.  *)
LEMMA ConcatType ==
  ASSUME NEW S, NEW p \in Seq(S), NEW q \in Seq(S) PROVE p \o q \in Seq(S)
  OBVIOUS
LEMMA ConcatAssoc ==
  ASSUME NEW S, NEW p \in Seq(S), NEW q \in Seq(S), NEW r \in Seq(S)
  PROVE  (p \o q) \o r = p \o (q \o r)
  OBVIOUS
LEMMA ConcatEmpty ==
  ASSUME NEW S, NEW p \in Seq(S) PROVE p \o <<>> = p /\ <<>> \o p = p
  OBVIOUS

(* Lengths add up.  *)
LEMMA LenOfConcat ==
  ASSUME NEW S, NEW p \in Seq(S), NEW q \in Seq(S) PROVE Len(p \o q) = Len(p) + Len(q)
  OBVIOUS

(* A function on an initial interval is a sequence.  *)
LEMMA SeqOfFunction ==
  ASSUME NEW S, NEW n \in Nat, NEW f \in [1..n -> S]
  PROVE  f \in Seq(S) /\ Len(f) = n
  OBVIOUS

(* Element by element, one sequence is two joined.  *)
LEMMA JoinIs ==
  ASSUME NEW S, NEW a \in Seq(S), NEW b \in Seq(S), NEW e \in Seq(S), Len(e) = Len(a) + Len(b),
         \A i \in 1..Len(a) : e[i] = a[i], \A i \in 1..Len(b) : e[Len(a) + i] = b[i]
  PROVE  a \o b = e
<1>1. a \o b \in Seq(S) /\ Len(a \o b) = Len(e)
  BY LenOfConcat
<1>2. ASSUME NEW i \in 1..Len(a \o b) PROVE (a \o b)[i] = e[i]
  <2>1. CASE i \in 1..Len(a)
    BY <2>1
  <2>2. CASE i \notin 1..Len(a)
    <3>1. i - Len(a) \in 1..Len(b) /\ i = Len(a) + (i - Len(a))
      BY <1>1, <2>2
    <3>2. (a \o b)[i] = b[i - Len(a)]
      BY <2>2, <3>1
    <3> QED  BY <3>1, <3>2
  <2> QED  BY <2>1, <2>2
<1> QED  BY <1>1, <1>2, SeqEqual

(* Two ways of cutting one sequence at the same place.  *)
LEMMA SameCut ==
  ASSUME NEW S, NEW a \in Seq(S), NEW b \in Seq(S), NEW c \in Seq(S), NEW d \in Seq(S),
         a \o b = c \o d, Len(a) = Len(c)
  PROVE  a = c /\ b = d
<1>0. Len(a \o b) = Len(a) + Len(b) /\ Len(c \o d) = Len(c) + Len(d)
  BY LenOfConcat, Zenon
<1>1. Len(b) = Len(d)
  BY <1>0
<1>2. \A i \in 1..Len(a) : a[i] = c[i]
  <2> TAKE i \in 1..Len(a)
  <2>1. (a \o b)[i] = a[i] /\ (c \o d)[i] = c[i]
    OBVIOUS
  <2> QED  BY <2>1
<1>3. \A i \in 1..Len(b) : b[i] = d[i]
  <2> TAKE i \in 1..Len(b)
  <2>1. (a \o b)[Len(a) + i] = b[i]
    OBVIOUS
  <2>2. i \in 1..Len(d) 
    BY <1>1
  <2>3. (c \o d)[Len(c) + i] = d[i]
    BY <2>2
  <2> QED  BY <2>1, <2>3
<1> QED  BY <1>1, <1>2, <1>3, SeqEqual

(* A prefix is what something can be put behind.  *)
LEMMA PrefixJoin ==
  ASSUME NEW S, NEW a \in Seq(S), NEW b \in Seq(S)
  PROVE  IsPrefix(a, a \o b)
<1>1. Len(a) =< Len(a \o b)
  OBVIOUS
<1>2. SubSeq(a, 1, Len(a)) = a
  BY SubSeqFull
<1> DEFINE s == a \o b
           n == Len(a)
           c == SubSeq(s, 1, n)
<1>3. s \in Seq(S) /\ n \in 0..Len(s)
  OBVIOUS
<1>4. c \in Seq(S) /\ Len(c) = n /\ \A i \in 1..n : c[i] = s[i]
  <2> HIDE DEF s, n
  <2> QED  BY <1>3, Cut
<1>5. \A i \in 1..n : c[i] = a[i]
  BY <1>4
<1> HIDE DEF c
<1>6. c = a
  BY <1>4, <1>5, SeqEqual
<1> QED  BY <1>1, <1>2, <1>6 DEF IsPrefix, c

(* What can be put behind it.  *)
LEMMA PrefixRest ==
  ASSUME NEW S, NEW a \in Seq(S), NEW s \in Seq(S), IsPrefix(a, s)
  PROVE  \E b \in Seq(S) : s = a \o b
<1>1. Len(a) \in 0..Len(s) /\ SubSeq(a, 1, Len(a)) = a
  BY SubSeqFull DEF IsPrefix
<1>2. SubSeq(s, 1, Len(a)) = a
  BY <1>1 DEF IsPrefix
<1> DEFINE b == SubSeq(s, Len(a) + 1, Len(s))
<1>3. b \in Seq(S) /\ SubSeq(s, 1, Len(a)) \o b = s
  BY <1>1, Cut
<1> QED  BY <1>2, <1>3

(* A length is a number.  *)
LEMMA LenIsNat == ASSUME NEW S, NEW s \in Seq(S) PROVE Len(s) \in Nat
OBVIOUS

(* What a concatenation holds.  *)
JoinAt(a, b, c) ==
  /\ c \in Seq(Nat) /\ Len(c) = Len(a) + Len(b)
  /\ \A i \in 1..Len(a) : c[i] = a[i]
  /\ \A i \in 1..Len(b) : c[Len(a) + i] = b[i]

LEMMA JoinedAt ==
  ASSUME NEW a \in Seq(Nat), NEW b \in Seq(Nat), NEW c, c = a \o b PROVE JoinAt(a, b, c)
BY DEF JoinAt

(* Prefixes and suffixes, unit by unit.  *)
LEMMA PrefixIs ==
  ASSUME NEW S, NEW s \in Seq(S), NEW t \in Seq(S), Len(s) =< Len(t), \A i \in 1..Len(s) : s[i] = t[i]
  PROVE  IsPrefix(s, t)
<1> DEFINE p == SubSeq(s, 1, Len(s))
           q == SubSeq(t, 1, Len(s))
<1>0. Len(s) \in 0..Len(s) /\ Len(s) \in 0..Len(t)
  OBVIOUS
<1>1. p \in Seq(S) /\ Len(p) = Len(s) /\ \A i \in 1..Len(s) : p[i] = s[i]
  BY <1>0, Cut
<1>2. q \in Seq(S) /\ Len(q) = Len(s) /\ \A i \in 1..Len(s) : q[i] = t[i]
  BY <1>0, Cut
<1> HIDE DEF p, q
<1>3. p = q
  <2>1. Len(p) = Len(q) /\ \A i \in 1..Len(p) : p[i] = q[i]
    BY <1>1, <1>2
  <2> QED  BY <1>1, <1>2, <2>1, SeqEqual
<1> QED  BY <1>3 DEF IsPrefix, p, q

LEMMA SuffixIs ==
  ASSUME NEW S, NEW s \in Seq(S), NEW t \in Seq(S), NEW k \in Nat, Len(t) = k + Len(s),
         \A i \in 1..Len(s) : s[i] = t[k + i]
  PROVE  IsSuffix(s, t)
<1> DEFINE p == Reverse(s)
           q == Reverse(t)
           m == Len(s)
           n == Len(t)
<1>0. m \in Nat /\ n \in Nat /\ n = k + m
  OBVIOUS
<1>1. p \in Seq(S) /\ Len(p) = m /\ \A i \in 1..m : p[i] = s[(m - i) + 1]
  <2>1. p = [i \in 1..m |-> s[(m - i) + 1]]
    BY DEF Reverse
  <2>2. \A i \in 1..m : (m - i) + 1 \in 1..m
    BY <1>0
  <2>3. p \in [1..m -> S] /\ \A i \in 1..m : p[i] = s[(m - i) + 1]
    BY <2>1, <2>2
  <2> HIDE DEF p, m
  <2> QED  BY <1>0, <2>3, SeqOfFunction
<1>2. q \in Seq(S) /\ Len(q) = n /\ \A i \in 1..n : q[i] = t[(n - i) + 1]
  <2>1. q = [i \in 1..n |-> t[(n - i) + 1]]
    BY DEF Reverse
  <2>2. \A i \in 1..n : (n - i) + 1 \in 1..n
    BY <1>0
  <2>3. q \in [1..n -> S] /\ \A i \in 1..n : q[i] = t[(n - i) + 1]
    BY <2>1, <2>2
  <2> HIDE DEF q, n
  <2> QED  BY <1>0, <2>3, SeqOfFunction
<1>a. \A i \in 1..m : s[i] = t[k + i]
  OBVIOUS
<1> HIDE DEF p, q, m, n
<1>3. ASSUME NEW i \in 1..m PROVE p[i] = q[i]
  <2>1. i \in 1..n /\ (m - i) + 1 \in 1..m /\ k + ((m - i) + 1) = (n - i) + 1
    BY <1>0
  <2>2. p[i] = s[(m - i) + 1] /\ q[i] = t[(n - i) + 1]
    BY <1>1, <1>2, <2>1
  <2>3. s[(m - i) + 1] = t[k + ((m - i) + 1)]
    BY <1>a, <2>1
  <2> QED  BY <2>1, <2>2, <2>3
<1>4. Len(p) =< Len(q) /\ \A i \in 1..Len(p) : p[i] = q[i]
  BY <1>0, <1>1, <1>2, <1>3
<1>5. IsPrefix(p, q)
  BY <1>1, <1>2, <1>4, PrefixIs
<1> QED  BY <1>5 DEF IsSuffix, p, q
=============================================================================
