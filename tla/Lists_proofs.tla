----------------------------- MODULE Lists_proofs -----------------------------
(***************************************************************************)
(* What the other proofs need of numbers and sequences: a form of induction *)
(* that the provers can use (over a set, not an operator), and from it what *)
(* the recursive functions Among and FlattenSeq compute.                    *)
(***************************************************************************)
EXTENDS Lists, FiniteSets, SequencesExt, SequenceTheorems, WellFoundedInduction, TLAPS

-----------------------------------------------------------------------------
(* Induction.                                                              *)

\* Every non-empty set of numbers has a least element.
LEMMA Least ==
    ASSUME NEW T, T \subseteq Nat, T # {}
    PROVE  \E m \in T : \A k \in T : m <= k
<1> DEFINE R == OpToRel(<, Nat)
<1>1. IsWellFoundedOn(R, Nat) BY NatLessThanWellFounded
<1>2. \A k, m \in Nat : k < m => <<k, m>> \in R BY DEF OpToRel
<1> HIDE DEF R
<1>3. PICK m \in T : \A k \in T : ~(<<k, m>> \in R) BY <1>1, WFMin
<1>4. \A k \in T : m <= k
  <2>. TAKE k \in T
  <2>1. k \in Nat /\ m \in Nat OBVIOUS
  <2>2. ~(k < m) BY <1>2, <1>3, <2>1
  <2>. QED BY <2>1, <2>2
<1>. QED BY <1>4

\* A set of numbers that holds 0, and with each number below N the next one,
\* holds all numbers up to N.
LEMMA Induction ==
    ASSUME NEW N \in Nat, NEW A, 0 \in A, \A i \in 0..(N - 1) : i \in A => i + 1 \in A
    PROVE  \A i \in 0..N : i \in A
<1> DEFINE T == {i \in 0..N : i \notin A}
<1>1. SUFFICES ASSUME T # {} PROVE FALSE OBVIOUS
<1>2. T \subseteq Nat OBVIOUS
<1>3. PICK m \in T : \A k \in T : m <= k BY <1>1, <1>2, Least
<1>4. m \in 0..N /\ m \notin A /\ m # 0 OBVIOUS
<1>5. m - 1 \in 0..(N - 1) /\ m - 1 \in 0..N /\ ~(m <= m - 1) BY <1>4
<1>6. m - 1 \in A BY <1>3, <1>5
<1>7. (m - 1) + 1 \in A BY <1>5, <1>6
<1>. QED BY <1>4, <1>7

\* f counts up from a, a step at a time.
CountsUp(f, a, N, step) == f[0] = a /\ \A i \in 1..N : f[i] = step[<<f[i - 1], i>>]

\* There is a function that counts up so.
LEMMA RecursionExists ==
    ASSUME NEW S, NEW a \in S, NEW N \in Nat, NEW step \in [S \X (1..N) -> S]
    PROVE  \E f \in [0..N -> S] : CountsUp(f, a, N, step)
<1> DEFINE Upto(m, f) == f[0] = a /\ \A i \in 1..m : f[i] = step[<<f[i - 1], i>>]
           A == {m \in 0..N : \E f \in [0..m -> S] : Upto(m, f)}
<1>1. 0 \in A
  <2> DEFINE f == [i \in 0..0 |-> a]
  <2>1. f \in [0..0 -> S] /\ Upto(0, f) OBVIOUS
  <2> HIDE DEF f, Upto
  <2>2. \E g \in [0..0 -> S] : Upto(0, g) BY <2>1
  <2>3. 0 \in 0..N OBVIOUS
  <2>. QED BY <2>2, <2>3
<1>2. ASSUME NEW m \in 0..(N - 1), m \in A PROVE m + 1 \in A
  <2>1. PICK f \in [0..m -> S] : Upto(m, f) BY <1>2
  <2>2. m \in 0..m /\ m + 1 \in 1..N /\ f[m] \in S OBVIOUS
  <2> DEFINE g == [i \in 0..(m + 1) |-> IF i = m + 1 THEN step[<<f[m], m + 1>>] ELSE f[i]]
  <2>3. step[<<f[m], m + 1>>] \in S BY <2>2
  <2>4. g \in [0..(m + 1) -> S]
    <3>1. \A i \in 0..(m + 1) : i # m + 1 => i \in 0..m OBVIOUS
    <3>. QED BY <2>3, <3>1
  <2>5. Upto(m + 1, g)
    <3>1. g[0] = a BY <2>1
    <3>2. ASSUME NEW i \in 1..(m + 1) PROVE g[i] = step[<<g[i - 1], i>>]
      <4>1. i - 1 \in 0..m /\ g[i - 1] = f[i - 1] OBVIOUS
      <4>2. CASE i = m + 1
        <5>1. g[i] = step[<<f[m], i>>] /\ i - 1 = m BY <4>2
        <5>2. g[i - 1] = f[m] BY <4>1, <5>1
        <5>. QED BY <5>1, <5>2
      <4>3. CASE i # m + 1
        <5>1. i \in 1..m /\ g[i] = f[i] BY <4>3
        <5>. QED BY <2>1, <4>1, <5>1
      <4>. QED BY <4>2, <4>3
    <3>. QED BY <3>1, <3>2
  <2>6. m + 1 \in 0..N OBVIOUS
  <2>. QED BY <2>4, <2>5, <2>6
<1> HIDE DEF A
<1>3. N \in A BY <1>1, <1>2, Induction
<1>. QED BY <1>3 DEF A, CountsUp

-----------------------------------------------------------------------------
(* Among.                                                                  *)

\* f holds what is kept of the first 0, 1, ... members of s.
Kept(f, s, S) ==
    /\ f[0] = <<>>
    /\ \A i \in 1..Len(s) :
          f[i] = IF s[i] \in S THEN Append(f[i - 1], s[i]) ELSE f[i - 1]

\* What Among computes is the last of such a list.
LEMMA AmongByRecursion ==
    ASSUME NEW X, NEW s \in Seq(X), NEW S
    PROVE  \E f \in [0..Len(s) -> Seq(X)] : Kept(f, s, S) /\ Among(s, S) = f[Len(s)]
<1> DEFINE N == Len(s)
           step == [p \in Seq(X) \X (1..N) |->
                       IF s[p[2]] \in S THEN Append(p[1], s[p[2]]) ELSE p[1]]
           Body(f) == [i \in 0..N |->
                          IF i = 0 THEN <<>>
                          ELSE IF s[i] \in S THEN Append(f[i - 1], s[i]) ELSE f[i - 1]]
<1>1. N \in Nat /\ \A i \in 1..N : s[i] \in X BY LenProperties, ElementOfSeq
<1>2. step \in [Seq(X) \X (1..N) -> Seq(X)]
  <2>. SUFFICES ASSUME NEW p \in Seq(X) \X (1..N)
                PROVE  (IF s[p[2]] \in S THEN Append(p[1], s[p[2]]) ELSE p[1]) \in Seq(X)
    OBVIOUS
  <2>1. p[1] \in Seq(X) /\ s[p[2]] \in X BY <1>1
  <2>. QED BY <2>1, AppendProperties
<1>3. <<>> \in Seq(X) BY EmptySeq
<1> HIDE DEF N
<1>4. PICK f \in [0..N -> Seq(X)] :
         f[0] = <<>> /\ \A i \in 1..N : f[i] = step[<<f[i - 1], i>>]
  <2> DEFINE Z == Seq(X)
             e == <<>>
  <2>1. e \in Z /\ step \in [Z \X (1..N) -> Z] BY <1>2, <1>3
  <2> HIDE DEF step, Z, e
  <2>2. N \in Nat BY <1>1
  <2>3. \E f \in [0..N -> Z] : CountsUp(f, e, N, step) BY <2>1, <2>2, RecursionExists
  <2>. QED BY <2>3 DEF Z, e, CountsUp
<1>5. ASSUME NEW i \in 1..N
      PROVE  f[i] = IF s[i] \in S THEN Append(f[i - 1], s[i]) ELSE f[i - 1]
  <2>1. i - 1 \in 0..N BY <1>1
  <2>2. f[i - 1] \in Seq(X) BY <2>1
  <2>3. <<f[i - 1], i>> \in Seq(X) \X (1..N) BY <2>2
  <2>4. step[<<f[i - 1], i>>] = IF s[i] \in S THEN Append(f[i - 1], s[i]) ELSE f[i - 1]
    BY <2>3
  <2>. QED BY <1>4, <2>4
<1>6. f = Body(f)
  <2>1. ASSUME NEW i \in 0..N PROVE f[i] = Body(f)[i]
    <3>1. CASE i = 0 BY <1>4, <3>1
    <3>2. CASE i # 0
      <4>1. i \in 1..N BY <1>1, <3>2
      <4>2. Body(f)[i] = IF s[i] \in S THEN Append(f[i - 1], s[i]) ELSE f[i - 1] BY <3>2
      <4>. QED BY <1>5, <4>1, <4>2
    <3>. QED BY <3>1, <3>2
  <2>. QED BY <2>1
<1> DEFINE kept == CHOOSE g : g = Body(g)
<1>7. kept = Body(kept)
  <2> HIDE DEF Body
  <2>. QED BY <1>6
<1>8. Among(s, S) = kept[N] BY DEF Among, N
<1> HIDE DEF kept
<1>9. kept[0] = <<>> /\ \A i \in 1..N :
         kept[i] = IF s[i] \in S THEN Append(kept[i - 1], s[i]) ELSE kept[i - 1]
  <2>1. \A i \in 0..N : kept[i] = Body(kept)[i] BY <1>7
  <2>2. kept[0] = <<>>
    <3>1. 0 \in 0..N BY <1>1
    <3>. QED BY <2>1, <3>1
  <2>3. ASSUME NEW i \in 1..N
        PROVE  kept[i] = IF s[i] \in S THEN Append(kept[i - 1], s[i]) ELSE kept[i - 1]
    <3>1. i \in 0..N /\ i # 0 BY <1>1
    <3>2. Body(kept)[i] = IF s[i] \in S THEN Append(kept[i - 1], s[i]) ELSE kept[i - 1]
      BY <3>1
    <3>. QED BY <2>1, <3>1, <3>2
  <2>. QED BY <2>2, <2>3
<1>10. kept \in [0..N -> Seq(X)]
  <2> DEFINE A == {i \in 0..N : kept[i] \in Seq(X)}
  <2>1. 0 \in A
    <3>1. 0 \in 0..N BY <1>1
    <3>2. kept[0] \in Seq(X) BY <1>3, <1>9
    <3>. QED BY <3>1, <3>2
  <2>2. ASSUME NEW i \in 0..(N - 1), i \in A PROVE i + 1 \in A
    <3>1. i + 1 \in 1..N /\ (i + 1) - 1 = i /\ i + 1 \in 0..N /\ s[i + 1] \in X BY <1>1
    <3>2. kept[i] \in Seq(X) BY <2>2
    <3>3. kept[i + 1] = IF s[i + 1] \in S THEN Append(kept[i], s[i + 1]) ELSE kept[i]
      BY <1>9, <3>1
    <3>4. kept[i + 1] \in Seq(X) BY <3>1, <3>2, <3>3, AppendProperties
    <3>. QED BY <3>1, <3>4
  <2> HIDE DEF A
  <2>3. \A i \in 0..N : i \in A BY <1>1, <2>1, <2>2, Induction
  <2>4. \A i \in 0..N : kept[i] \in Seq(X) BY <2>3 DEF A
  <2>5. kept = [i \in 0..N |-> kept[i]] BY <1>7
  <2>. QED BY <2>4, <2>5
<1>11. Kept(kept, s, S) BY <1>9 DEF Kept, N
<1>. QED BY <1>8, <1>10, <1>11 DEF N

\* Nothing is kept of nothing.
LEMMA AmongEmpty == ASSUME NEW S PROVE Among(<<>>, S) = <<>>
<1> DEFINE s == <<>>
           X == {}
<1>1. s \in Seq(X) /\ Len(s) = 0 BY EmptySeq
<1> HIDE DEF s, X
<1>2. PICK f \in [0..Len(s) -> Seq(X)] : Kept(f, s, S) /\ Among(s, S) = f[Len(s)]
  BY <1>1, AmongByRecursion
<1>. QED BY <1>1, <1>2 DEF Kept, s

\* One more member is kept if it is in the set.
LEMMA AmongAppend ==
    ASSUME NEW X, NEW s \in Seq(X), NEW x \in X, NEW S
    PROVE  Among(Append(s, x), S) =
              IF x \in S THEN Append(Among(s, S), x) ELSE Among(s, S)
<1> DEFINE t == Append(s, x)
           N == Len(s)
<1>1. /\ t \in Seq(X) /\ Len(t) = N + 1 /\ N \in Nat
      /\ t[N + 1] = x /\ \A i \in 1..N : t[i] = s[i]
  BY AppendProperties, LenProperties
<1> HIDE DEF t
<1>2. PICK f \in [0..N -> Seq(X)] : Kept(f, s, S) /\ Among(s, S) = f[N]
  BY AmongByRecursion
<1>3. PICK g \in [0..Len(t) -> Seq(X)] : Kept(g, t, S) /\ Among(t, S) = g[Len(t)]
  BY <1>1, AmongByRecursion
<1>a. \A i \in 1..N : f[i] = IF s[i] \in S THEN Append(f[i - 1], s[i]) ELSE f[i - 1]
  BY <1>2 DEF Kept
<1>b. \A i \in 1..Len(t) : g[i] = IF t[i] \in S THEN Append(g[i - 1], t[i]) ELSE g[i - 1]
  BY <1>3 DEF Kept
<1> DEFINE A == {i \in 0..N : f[i] = g[i]}
<1> HIDE DEF N
<1>c. N \in Nat BY <1>1
<1>4. 0 \in A BY <1>1, <1>2, <1>3 DEF Kept
<1>5. ASSUME NEW i \in 0..(N - 1), i \in A PROVE i + 1 \in A
  <2>1. i + 1 \in 1..N /\ i + 1 \in 1..Len(t) /\ (i + 1) - 1 = i /\ i + 1 \in 0..N BY <1>1
  <2>2. f[i + 1] = IF s[i + 1] \in S THEN Append(f[i], s[i + 1]) ELSE f[i] BY <1>a, <2>1
  <2>3. g[i + 1] = IF t[i + 1] \in S THEN Append(g[i], t[i + 1]) ELSE g[i] BY <1>b, <2>1
  <2>4. t[i + 1] = s[i + 1] /\ f[i] = g[i] BY <1>1, <1>5, <2>1
  <2>5. f[i + 1] = g[i + 1] BY <2>2, <2>3, <2>4
  <2>. QED BY <2>1, <2>5
<1> HIDE DEF A
<1>6. \A i \in 0..N : i \in A BY <1>c, <1>4, <1>5, Induction
<1>7. f[N] = g[N] BY <1>c, <1>6 DEF A
<1>8. N + 1 \in 1..Len(t) /\ (N + 1) - 1 = N BY <1>1
<1>9. g[N + 1] = IF t[N + 1] \in S THEN Append(g[N], t[N + 1]) ELSE g[N] BY <1>b, <1>8
<1>. QED BY <1>1, <1>2, <1>3, <1>7, <1>9 DEF t

\* What is kept is what is in the sequence and in the set.
LEMMA AmongMembers ==
    ASSUME NEW X, NEW s \in Seq(X), NEW S
    PROVE  Among(s, S) \in Seq(X) /\ Range(Among(s, S)) = Range(s) \cap S
<1> DEFINE N == Len(s)
           first(i) == {s[j] : j \in 1..i}
<1>1. PICK f \in [0..N -> Seq(X)] : Kept(f, s, S) /\ Among(s, S) = f[N]
  BY AmongByRecursion
<1>a. \A i \in 1..N : f[i] = IF s[i] \in S THEN Append(f[i - 1], s[i]) ELSE f[i - 1]
  BY <1>1 DEF Kept
<1> DEFINE A == {i \in 0..N : Range(f[i]) = first(i) \cap S}
<1>2. N \in Nat /\ DOMAIN s = 1..N BY LenProperties
<1> HIDE DEF N
<1>b. N \in Nat BY <1>2
<1>3. 0 \in A
  <2>1. Range(f[0]) = {} BY <1>1 DEF Range, Kept
  <2>2. first(0) = {} OBVIOUS
  <2>3. 0 \in 0..N BY <1>2
  <2>. QED BY <2>1, <2>2, <2>3
<1>4. ASSUME NEW i \in 0..(N - 1), i \in A PROVE i + 1 \in A
  <2>1. i \in 0..N /\ i + 1 \in 1..N /\ (i + 1) - 1 = i /\ i + 1 \in 0..N BY <1>2
  <2>2. f[i + 1] = IF s[i + 1] \in S THEN Append(f[i], s[i + 1]) ELSE f[i] BY <1>a, <2>1
  <2>3. f[i] \in Seq(X) BY <2>1
  <2>4. first(i + 1) = first(i) \cup {s[i + 1]}
    <3>1. 1..(i + 1) = 1..i \cup {i + 1} BY <2>1
    <3>. QED BY <3>1
  <2>5. Range(f[i]) = first(i) \cap S BY <1>4
  <2> HIDE DEF first
  <2>6. CASE s[i + 1] \in S
    <3>1. s[i + 1] \in X BY <1>2, <2>1, ElementOfSeq
    <3>2. Range(Append(f[i], s[i + 1])) = Range(f[i]) \cup {s[i + 1]}
      <4> DEFINE u == Append(f[i], s[i + 1])
      <4>1. /\ Len(u) = Len(f[i]) + 1 /\ Len(f[i]) \in Nat
            /\ DOMAIN u = 1..Len(u) /\ DOMAIN f[i] = 1..Len(f[i])
            /\ u[Len(f[i]) + 1] = s[i + 1]
            /\ \A j \in 1..Len(f[i]) : u[j] = f[i][j]
        BY <2>3, <3>1, AppendProperties, LenProperties
      <4> HIDE DEF u
      <4>2. 1..Len(u) = 1..Len(f[i]) \cup {Len(f[i]) + 1} BY <4>1
      <4>. QED BY <4>1, <4>2 DEF Range, u
    <3>3. Range(f[i + 1]) = first(i + 1) \cap S BY <2>2, <2>4, <2>5, <2>6, <3>2
    <3>. QED BY <2>1, <3>3
  <2>7. CASE s[i + 1] \notin S
    <3>1. Range(f[i + 1]) = first(i + 1) \cap S BY <2>2, <2>4, <2>5, <2>7
    <3>. QED BY <2>1, <3>1
  <2>. QED BY <2>6, <2>7
<1> HIDE DEF A
<1>5. \A i \in 0..N : i \in A BY <1>b, <1>3, <1>4, Induction
<1>6. Range(f[N]) = first(N) \cap S BY <1>b, <1>5 DEF A
<1>7. first(N) = Range(s) BY <1>2 DEF Range
<1>8. f[N] \in Seq(X) BY <1>2
<1>. QED BY <1>1, <1>6, <1>7, <1>8

\* Appending to the second of two sequences in a row.
LEMMA ConcatAppend ==
    ASSUME NEW X, NEW s \in Seq(X), NEW t \in Seq(X), NEW x \in X
    PROVE  s \o Append(t, x) = Append(s \o t, x)
<1>1. <<x>> \in Seq(X) /\ s \o t \in Seq(X) BY ConcatProperties
<1>2. Append(t, x) = t \o <<x>> /\ Append(s \o t, x) = (s \o t) \o <<x>>
  BY <1>1, AppendIsConcat
<1>3. s \o (t \o <<x>>) = (s \o t) \o <<x>> BY <1>1, ConcatAssociative
<1>. QED BY <1>2, <1>3

\* What is kept of two sequences in a row is what is kept of each.
LEMMA AmongConcat ==
    ASSUME NEW X, NEW s \in Seq(X), NEW t \in Seq(X), NEW S
    PROVE  Among(s \o t, S) = Among(s, S) \o Among(t, S)
<1> DEFINE N == Len(t)
           u(i) == SubSeq(t, 1, i)
           A == {i \in 0..N : Among(s \o u(i), S) = Among(s, S) \o Among(u(i), S)}
<1>1. N \in Nat BY LenProperties
<1>2. Among(s, S) \in Seq(X) BY AmongMembers
<1>3. 0 \in A
  <2>1. u(0) = <<>> BY SubSeqEmpty
  <2>2. s \o <<>> = s BY ConcatEmptySeq
  <2>3. Among(s, S) \o <<>> = Among(s, S) BY <1>2, ConcatEmptySeq
  <2> HIDE DEF u
  <2>4. Among(u(0), S) = <<>> BY <2>1, AmongEmpty
  <2>5. Among(s \o u(0), S) = Among(s, S) \o Among(u(0), S) BY <2>1, <2>2, <2>3, <2>4
  <2>6. 0 \in 0..N BY <1>1
  <2>. QED BY <2>5, <2>6
<1>4. ASSUME NEW i \in 0..(N - 1), i \in A PROVE i + 1 \in A
  <2> DEFINE x == t[i + 1]
  <2>1. /\ i + 1 \in 1..Len(t) /\ i \in 0..N /\ i + 1 \in 0..N /\ i \in Nat
        /\ (i + 1) - 1 = i
    BY <1>1
  <2>2. x \in X BY <2>1, ElementOfSeq
  <2>3. u(i) \in Seq(X)
    <3>1. 1 \in 1..(N + 1) /\ i \in 0..N BY <2>1
    <3>. QED BY <1>1, <2>1, ElementOfSeq, SubSeqProperties
  <2>4. u(i + 1) = Append(u(i), x)
    <3>1. 1 \in 1..Len(t) /\ i + 1 \in 1..Len(t) BY <1>1, <2>1
    <3>. QED BY <1>1, <2>1, SubSeqRecursiveSecond
  <2> HIDE DEF u, x
  <2>5. s \o u(i + 1) = Append(s \o u(i), x)
    <3> DEFINE w == u(i)
    <3>1. w \in Seq(X) BY <2>3
    <3> HIDE DEF w
    <3>2. s \o Append(w, x) = Append(s \o w, x) BY <2>2, <3>1, ConcatAppend
    <3>. QED BY <2>4, <3>2 DEF w
  <2>6. s \o u(i) \in Seq(X) BY <2>3, ConcatProperties
  <2>7. Among(s \o u(i), S) = Among(s, S) \o Among(u(i), S) BY <1>4
  <2>8. Among(u(i), S) \in Seq(X) BY <2>3, AmongMembers
  <2>9. Among(s \o u(i + 1), S) = Among(s, S) \o Among(u(i + 1), S)
    <3>1. CASE x \in S
      <4>1. Among(s \o u(i + 1), S) = Append(Among(s \o u(i), S), x)
        BY <2>2, <2>5, <2>6, <3>1, AmongAppend
      <4>2. Among(u(i + 1), S) = Append(Among(u(i), S), x)
        BY <2>2, <2>3, <2>4, <3>1, AmongAppend
      <4>3. Append(Among(s, S) \o Among(u(i), S), x) = Among(s, S) \o Append(Among(u(i), S), x)
        <5> DEFINE p == Among(s, S)
                   q == Among(u(i), S)
        <5>1. p \in Seq(X) /\ q \in Seq(X) BY <1>2, <2>8
        <5> HIDE DEF p, q
        <5>a. x \in X BY <2>2
        <5>2. p \o Append(q, x) = Append(p \o q, x) BY <5>a, <5>1, ConcatAppend
        <5>. QED BY <5>2 DEF p, q
      <4>. QED BY <2>7, <4>1, <4>2, <4>3
    <3>2. CASE x \notin S
      <4>1. Among(s \o u(i + 1), S) = Among(s \o u(i), S)
        BY <2>2, <2>5, <2>6, <3>2, AmongAppend
      <4>2. Among(u(i + 1), S) = Among(u(i), S)
        BY <2>2, <2>3, <2>4, <3>2, AmongAppend
      <4>. QED BY <2>7, <4>1, <4>2
    <3>. QED BY <3>1, <3>2
  <2>. QED BY <2>1, <2>9
<1> HIDE DEF A, N
<1>5. \A i \in 0..N : i \in A BY <1>1, <1>3, <1>4, Induction
<1>6. Among(s \o u(N), S) = Among(s, S) \o Among(u(N), S) BY <1>1, <1>5 DEF A
<1>7. u(N) = t BY SubSeqFull DEF N
<1>. QED BY <1>6, <1>7

\* Nothing is kept without a set to keep it for.
LEMMA AmongNone == ASSUME NEW X, NEW s \in Seq(X) PROVE Among(s, {}) = <<>>
<1> DEFINE t == Among(s, {})
<1>1. t \in Seq(X) /\ Range(t) = {} BY AmongMembers
<1> HIDE DEF t
<1>2. Len(t) \in Nat /\ DOMAIN t = 1..Len(t) BY <1>1, LenProperties
<1>3. Len(t) = 0
  <2>1. Len(t) # 0 => 1 \in DOMAIN t BY <1>2
  <2>. QED BY <1>1, <2>1 DEF Range
<1>. QED BY <1>1, <1>3, EmptySeq DEF t

\* Only what the set holds of the sequence matters.
LEMMA AmongAgree ==
    ASSUME NEW X, NEW s \in Seq(X), NEW S, NEW T, Range(s) \cap S = Range(s) \cap T
    PROVE  Among(s, S) = Among(s, T)
<1> DEFINE N == Len(s)
<1>1. N \in Nat /\ DOMAIN s = 1..N BY LenProperties
<1>2. PICK f \in [0..N -> Seq(X)] : Kept(f, s, S) /\ Among(s, S) = f[N] BY AmongByRecursion
<1>3. PICK g \in [0..N -> Seq(X)] : Kept(g, s, T) /\ Among(s, T) = g[N] BY AmongByRecursion
<1>4. \A i \in 1..N : f[i] = IF s[i] \in S THEN Append(f[i - 1], s[i]) ELSE f[i - 1]
  BY <1>2 DEF Kept
<1>5. \A i \in 1..N : g[i] = IF s[i] \in T THEN Append(g[i - 1], s[i]) ELSE g[i - 1]
  BY <1>3 DEF Kept
<1>6. \A i \in 1..N : s[i] \in S <=> s[i] \in T BY <1>1 DEF Range
<1> DEFINE A == {i \in 0..N : f[i] = g[i]}
<1> HIDE DEF N
<1>7. 0 \in A BY <1>1, <1>2, <1>3 DEF Kept
<1>8. ASSUME NEW i \in 0..(N - 1), i \in A PROVE i + 1 \in A
  <2>1. i + 1 \in 1..N /\ (i + 1) - 1 = i /\ i + 1 \in 0..N BY <1>1
  <2>2. f[i + 1] = IF s[i + 1] \in S THEN Append(f[i], s[i + 1]) ELSE f[i] BY <1>4, <2>1
  <2>3. g[i + 1] = IF s[i + 1] \in T THEN Append(g[i], s[i + 1]) ELSE g[i] BY <1>5, <2>1
  <2>4. f[i] = g[i] /\ (s[i + 1] \in S <=> s[i + 1] \in T) BY <1>6, <1>8, <2>1
  <2>5. f[i + 1] = g[i + 1] BY <2>2, <2>3, <2>4
  <2>. QED BY <2>1, <2>5
<1> HIDE DEF A
<1>9. N \in Nat BY <1>1
<1>10. \A i \in 0..N : i \in A BY <1>7, <1>8, <1>9, Induction
<1>11. f[N] = g[N] BY <1>9, <1>10 DEF A
<1>. QED BY <1>2, <1>3, <1>11

\* A member that is new to a sequence without duplicates.
LEMMA AppendNew ==
    ASSUME NEW X, NEW s \in Seq(X), NEW x \in X, IsInjective(s), x \notin Range(s)
    PROVE  IsInjective(Append(s, x)) /\ Range(Append(s, x)) = Range(s) \cup {x}
<1> DEFINE u == Append(s, x)
<1>1. /\ Len(u) = Len(s) + 1 /\ Len(s) \in Nat
      /\ DOMAIN u = 1..Len(u) /\ DOMAIN s = 1..Len(s)
      /\ u[Len(s) + 1] = x /\ \A j \in 1..Len(s) : u[j] = s[j]
  BY AppendProperties, LenProperties
<1> HIDE DEF u
<1>2. 1..Len(u) = 1..Len(s) \cup {Len(s) + 1} BY <1>1
<1>3. Range(u) = Range(s) \cup {x} BY <1>1, <1>2 DEF Range
<1>4. \A j \in 1..Len(s) : u[j] \in Range(s) BY <1>1 DEF Range
<1>5. ASSUME NEW i \in 1..Len(u), NEW j \in 1..Len(u), u[i] = u[j] PROVE i = j
  <2>1. CASE i \in 1..Len(s) /\ j \in 1..Len(s) BY <1>1, <1>5, <2>1 DEF IsInjective
  <2>2. CASE i = Len(s) + 1 /\ j = Len(s) + 1 BY <2>2
  <2>3. CASE i = Len(s) + 1 /\ j \in 1..Len(s) BY <1>1, <1>4, <1>5, <2>3
  <2>4. CASE i \in 1..Len(s) /\ j = Len(s) + 1 BY <1>1, <1>4, <1>5, <2>4
  <2>. QED BY <1>2, <2>1, <2>2, <2>3, <2>4
<1>6. IsInjective(u) BY <1>1, <1>5 DEF IsInjective
<1>. QED BY <1>3, <1>6 DEF u

\* What is kept of a sequence without duplicates has none.
LEMMA AmongInjective ==
    ASSUME NEW X, NEW s \in Seq(X), NEW S, IsInjective(s)
    PROVE  IsInjective(Among(s, S))
<1> DEFINE N == Len(s)
           first(i) == {s[j] : j \in 1..i}
<1>1. N \in Nat /\ DOMAIN s = 1..N /\ \A i \in 1..N : s[i] \in X
  BY LenProperties, ElementOfSeq
<1>2. PICK f \in [0..N -> Seq(X)] : Kept(f, s, S) /\ Among(s, S) = f[N] BY AmongByRecursion
<1>3. \A i \in 1..N : f[i] = IF s[i] \in S THEN Append(f[i - 1], s[i]) ELSE f[i - 1]
  BY <1>2 DEF Kept
<1>4. f[0] = <<>> BY <1>2 DEF Kept
<1> DEFINE A == {i \in 0..N : IsInjective(f[i]) /\ Range(f[i]) \subseteq first(i)}
<1> HIDE DEF N
<1>5. 0 \in A
  <2>1. 0 \in 0..N BY <1>1
  <2>. QED BY <1>4, <2>1 DEF IsInjective, Range
<1>6. ASSUME NEW i \in 0..(N - 1), i \in A PROVE i + 1 \in A
  <2>1. i \in 0..N /\ i + 1 \in 1..N /\ (i + 1) - 1 = i /\ i + 1 \in 0..N BY <1>1
  <2>2. f[i + 1] = IF s[i + 1] \in S THEN Append(f[i], s[i + 1]) ELSE f[i] BY <1>3, <2>1
  <2> DEFINE p == f[i]
             x == s[i + 1]
  <2>3. p \in Seq(X) /\ x \in X BY <1>1, <2>1
  <2>4. IsInjective(p) /\ Range(p) \subseteq first(i) BY <1>6
  <2>5. first(i) \subseteq first(i + 1) /\ x \in first(i + 1) BY <2>1
  <2>6. x \notin first(i)
    <3>1. \A j \in 1..i : j \in 1..N /\ j # i + 1 BY <1>1, <2>1
    <3>. QED BY <1>1, <2>1, <3>1 DEF IsInjective
  <2>7. f[i + 1] = IF x \in S THEN Append(p, x) ELSE p BY <2>2
  <2> HIDE DEF p, x, first
  <2>8. IsInjective(Append(p, x)) /\ Range(Append(p, x)) = Range(p) \cup {x}
    BY <2>3, <2>4, <2>6, AppendNew
  <2>9. IsInjective(f[i + 1]) /\ Range(f[i + 1]) \subseteq first(i + 1)
    BY <2>4, <2>5, <2>7, <2>8
  <2>. QED BY <2>1, <2>9
<1> HIDE DEF A
<1>7. N \in Nat BY <1>1
<1>8. \A i \in 0..N : i \in A BY <1>5, <1>6, <1>7, Induction
<1>9. IsInjective(f[N]) BY <1>7, <1>8 DEF A
<1>. QED BY <1>2, <1>9

-----------------------------------------------------------------------------
(* FlattenSeq.                                                             *)

\* f holds the first one, two, ... of the sequences in a row.
Joined(f, seqs) ==
    \A i \in 1..Len(seqs) : f[i] = IF i = 1 THEN seqs[1] ELSE f[i - 1] \o seqs[i]

\* What FlattenSeq computes is the last of such a list.
LEMMA FlattenByRecursion ==
    ASSUME NEW X, NEW seqs \in Seq(Seq(X)), Len(seqs) > 0
    PROVE  \E f : Joined(f, seqs) /\ FlattenSeq(seqs) = f[Len(seqs)]
<1> DEFINE N == Len(seqs)
           Z == Seq(X)
           e == <<>>
           step == [p \in Z \X (1..N) |-> p[1] \o seqs[p[2]]]
           Body(f) == [i \in 1..N |-> IF i = 1 THEN seqs[i] ELSE f[i - 1] \o seqs[i]]
<1>1. N \in Nat /\ N > 0 BY LenProperties
<1>2. \A i \in 1..N : seqs[i] \in Z BY ElementOfSeq
<1>3. step \in [Z \X (1..N) -> Z]
  <2>. SUFFICES ASSUME NEW p \in Z \X (1..N) PROVE p[1] \o seqs[p[2]] \in Z
    OBVIOUS
  <2>1. p[1] \in Z /\ seqs[p[2]] \in Z BY <1>2
  <2>. QED BY <2>1, ConcatProperties
<1>4. e \in Z BY EmptySeq
<1> HIDE DEF N
<1>5. PICK f \in [0..N -> Z] : CountsUp(f, e, N, step)
  <2> HIDE DEF step, Z, e
  <2>. QED BY <1>1, <1>3, <1>4, RecursionExists
<1>6. ASSUME NEW i \in 1..N PROVE f[i] = f[i - 1] \o seqs[i] /\ f[i - 1] \in Z
  <2>1. i - 1 \in 0..N BY <1>1
  <2>2. f[i - 1] \in Z BY <2>1
  <2>3. step[<<f[i - 1], i>>] = f[i - 1] \o seqs[i] BY <2>2
  <2> HIDE DEF step
  <2>. QED BY <1>5, <2>2, <2>3 DEF CountsUp
<1> DEFINE g == [i \in 1..N |-> f[i]]
<1>7. g = Body(g)
  <2>1. ASSUME NEW i \in 1..N PROVE g[i] = Body(g)[i]
    <3>1. CASE i = 1
      <4>1. f[0] = <<>> BY <1>5 DEF CountsUp
      <4>a. f[i] = f[i - 1] \o seqs[i] BY <1>6
      <4>b. i - 1 = 0 BY <3>1
      <4>2. f[1] = <<>> \o seqs[1] BY <3>1, <4>a, <4>b, <4>1
      <4>3. seqs[1] \in Seq(X) BY <1>2, <3>1
      <4>4. f[1] = seqs[1] BY <4>2, <4>3, ConcatEmptySeq
      <4>. QED BY <3>1, <4>4
    <3>2. CASE i # 1
      <4>1. i - 1 \in 1..N /\ i \in 1..N BY <1>1, <3>2
      <4>2. g[i] = f[i] /\ g[i - 1] = f[i - 1] BY <4>1
      <4>3. Body(g)[i] = g[i - 1] \o seqs[i] BY <3>2
      <4>. QED BY <1>6, <4>2, <4>3
    <3>. QED BY <3>1, <3>2
  <2>. QED BY <2>1
<1> DEFINE flatten == CHOOSE h : h = Body(h)
<1>8. flatten = Body(flatten)
  <2> HIDE DEF Body, g
  <2>. QED BY <1>7
<1>9. FlattenSeq(seqs) = flatten[N] BY <1>1 DEF FlattenSeq, N
<1> HIDE DEF flatten
<1>10. Joined(flatten, seqs)
  <2>. SUFFICES ASSUME NEW i \in 1..N
                PROVE  flatten[i] = IF i = 1 THEN seqs[1] ELSE flatten[i - 1] \o seqs[i]
    BY DEF Joined, N
  <2>1. flatten[i] = Body(flatten)[i] BY <1>8
  <2>2. Body(flatten)[i] = IF i = 1 THEN seqs[1] ELSE flatten[i - 1] \o seqs[i] OBVIOUS
  <2>. QED BY <2>1, <2>2
<1>. QED BY <1>9, <1>10 DEF N

\* Sequences without duplicates, no two of which share a member.
Apart(seqs) ==
    /\ \A i \in DOMAIN seqs : IsInjective(seqs[i])
    /\ \A i, j \in DOMAIN seqs : i # j => Range(seqs[i]) \cap Range(seqs[j]) = {}

\* Two such sequences in a row.
LEMMA ConcatMembers ==
    ASSUME NEW X, NEW s \in Seq(X), NEW t \in Seq(X)
    PROVE  /\ s \o t \in Seq(X)
           /\ Range(s \o t) = Range(s) \cup Range(t)
           /\ (/\ IsInjective(s) /\ IsInjective(t)
               /\ Range(s) \cap Range(t) = {}) => IsInjective(s \o t)
<1> DEFINE u == s \o t
           a == Len(s)
           b == Len(t)
<1>1. /\ u \in Seq(X) /\ Len(u) = a + b
      /\ \A i \in 1..(a + b) : u[i] = IF i <= a THEN s[i] ELSE t[i - a]
  BY ConcatProperties
<1>2. /\ a \in Nat /\ b \in Nat /\ DOMAIN s = 1..a /\ DOMAIN t = 1..b
      /\ DOMAIN u = 1..(a + b)
  BY <1>1, LenProperties
<1> HIDE DEF u, a, b
<1>3. \A i \in 1..a : i \in 1..(a + b) /\ u[i] = s[i] BY <1>1, <1>2
<1>4. \A i \in 1..b : a + i \in 1..(a + b) /\ u[a + i] = t[i]
  <2>. TAKE i \in 1..b
  <2>1. a + i \in 1..(a + b) /\ ~(a + i <= a) /\ (a + i) - a = i BY <1>2
  <2>. QED BY <1>1, <2>1
<1>5. \A i \in 1..(a + b) : i \in 1..a \/ (i - a \in 1..b /\ u[i] = t[i - a] /\ ~(i \in 1..a))
  BY <1>1, <1>2
<1>6. Range(u) = Range(s) \cup Range(t)
  <2>1. Range(u) \subseteq Range(s) \cup Range(t) BY <1>2, <1>3, <1>5 DEF Range
  <2>2. Range(s) \subseteq Range(u) BY <1>2, <1>3 DEF Range
  <2>3. Range(t) \subseteq Range(u) BY <1>2, <1>4 DEF Range
  <2>. QED BY <2>1, <2>2, <2>3
<1>7. ASSUME IsInjective(s), IsInjective(t), Range(s) \cap Range(t) = {}
      PROVE  IsInjective(u)
  <2>1. SUFFICES ASSUME NEW i \in 1..(a + b), NEW j \in 1..(a + b), u[i] = u[j]
                 PROVE  i = j
    BY <1>2 DEF IsInjective
  <2>2. \A k \in 1..a : u[k] \in Range(s) BY <1>2, <1>3 DEF Range
  <2>3. \A k \in 1..(a + b) : k \notin 1..a => u[k] \in Range(t) BY <1>2, <1>5 DEF Range
  <2>4. CASE i \in 1..a /\ j \in 1..a BY <1>2, <1>3, <1>7, <2>1, <2>4 DEF IsInjective
  <2>5. CASE i \notin 1..a /\ j \notin 1..a
    <3>1. i - a \in 1..b /\ j - a \in 1..b /\ t[i - a] = t[j - a] BY <1>5, <2>1, <2>5
    <3>2. i - a = j - a BY <1>2, <1>7, <3>1 DEF IsInjective
    <3>. QED BY <1>2, <3>2
  <2>6. CASE i \in 1..a /\ j \notin 1..a BY <1>7, <2>1, <2>2, <2>3, <2>6
  <2>7. CASE i \notin 1..a /\ j \in 1..a BY <1>7, <2>1, <2>2, <2>3, <2>7
  <2>. QED BY <2>4, <2>5, <2>6, <2>7
<1>. QED BY <1>1, <1>6, <1>7 DEF u

\* The members of sequences in a row are those of each; no member comes twice
\* if none does within one of them and no two of them share one.
LEMMA FlattenMembers ==
    ASSUME NEW X, NEW seqs \in Seq(Seq(X))
    PROVE  /\ FlattenSeq(seqs) \in Seq(X)
           /\ Range(FlattenSeq(seqs)) = UNION {Range(seqs[i]) : i \in 1..Len(seqs)}
           /\ Apart(seqs) => IsInjective(FlattenSeq(seqs))
<1> DEFINE N == Len(seqs)
           first(i) == UNION {Range(seqs[j]) : j \in 1..i}
<1>1. N \in Nat /\ DOMAIN seqs = 1..N BY LenProperties
<1>2. \A i \in 1..N : seqs[i] \in Seq(X) BY ElementOfSeq
<1>3. CASE N = 0
  <2>1. seqs = <<>> BY <1>3, EmptySeq
  <2>2. FlattenSeq(seqs) = <<>> BY <1>3, <2>1 DEF FlattenSeq
  <2>3. <<>> \in Seq(X) /\ Range(<<>>) = {} /\ IsInjective(<<>>)
    BY EmptySeq DEF Range, IsInjective
  <2>4. first(N) = {} BY <1>3
  <2>. QED BY <2>2, <2>3, <2>4
<1>4. CASE N # 0
  <2>1. PICK f : Joined(f, seqs) /\ FlattenSeq(seqs) = f[N] BY <1>1, <1>4, FlattenByRecursion
  <2> HIDE DEF N
  <2>2. f[1] = seqs[1]
    <3>1. 1 \in 1..N BY <1>1, <1>4
    <3>. QED BY <2>1, <3>1 DEF Joined, N
  <2>3. ASSUME NEW i \in 1..N, i # 1 PROVE f[i] = f[i - 1] \o seqs[i]
    BY <2>1, <2>3 DEF Joined, N
  <2> DEFINE Good(i) == /\ f[i] \in Seq(X) /\ Range(f[i]) = first(i)
                        /\ Apart(seqs) => IsInjective(f[i])
             A == {i \in 0..(N - 1) : Good(i + 1)}
  <2>4. 0 \in A
    <3>1. 0 \in 0..(N - 1) /\ 0 + 1 = 1 /\ 1 \in 1..N BY <1>1, <1>4
    <3>2. first(1) = Range(seqs[1]) OBVIOUS
    <3> HIDE DEF first
    <3>3. Good(1) BY <1>1, <1>2, <2>2, <3>1, <3>2 DEF Apart
    <3>. QED BY <3>1, <3>3
  <2>5. ASSUME NEW k \in 0..((N - 1) - 1), k \in A PROVE k + 1 \in A
    <3> DEFINE i == k + 2
    <3>1. /\ i \in 1..N /\ i # 1 /\ i - 1 = k + 1 /\ k + 1 \in 0..(N - 1)
          /\ i - 1 \in 1..N /\ (k + 1) + 1 = i
      BY <1>1
    <3> HIDE DEF i
    <3>2. f[i] = f[i - 1] \o seqs[i] BY <2>3, <3>1
    <3>3. Good(i - 1) BY <2>5, <3>1
    <3>4. first(i) = first(i - 1) \cup Range(seqs[i])
      <4>1. 1..i = 1..(i - 1) \cup {i} BY <1>1, <3>1
      <4>. QED BY <4>1
    <3>5. Apart(seqs) => first(i - 1) \cap Range(seqs[i]) = {}
      <4>1. \A j \in 1..(i - 1) : j \in 1..N /\ j # i BY <1>1, <3>1
      <4>. QED BY <1>1, <3>1, <4>1 DEF Apart
    <3> HIDE DEF first
    <3>6. seqs[i] \in Seq(X) /\ f[i - 1] \in Seq(X) BY <1>2, <3>1, <3>3
    <3> DEFINE p == f[i - 1]
               q == seqs[i]
    <3>7. p \in Seq(X) /\ q \in Seq(X) BY <3>6
    <3> HIDE DEF p, q
    <3>8. /\ p \o q \in Seq(X)
          /\ Range(p \o q) = Range(p) \cup Range(q)
          /\ (/\ IsInjective(p) /\ IsInjective(q)
              /\ Range(p) \cap Range(q) = {}) => IsInjective(p \o q)
      BY <3>7, ConcatMembers
    <3>9. Apart(seqs) => IsInjective(q) BY <1>1, <3>1 DEF Apart, q
    <3>10. Good(i)
      <4>1. f[i] = p \o q BY <3>2 DEF p, q
      <4>2. f[i] \in Seq(X) BY <3>8, <4>1
      <4>3. Range(p) = first(i - 1) BY <3>3 DEF p
      <4>4. Range(f[i]) = first(i) BY <3>4, <3>8, <4>1, <4>3 DEF q
      <4>5. ASSUME Apart(seqs) PROVE IsInjective(f[i])
        <5>1. IsInjective(p) BY <3>3, <4>5 DEF p
        <5>2. IsInjective(q) BY <3>9, <4>5
        <5>3. Range(p) \cap Range(q) = {} BY <3>5, <4>3, <4>5 DEF q
        <5>. QED BY <3>8, <4>1, <5>1, <5>2, <5>3
      <4>. QED BY <4>2, <4>4, <4>5
    <3> HIDE DEF Good
    <3>. QED BY <3>1, <3>10
  <2> HIDE DEF A, Good
  <2>6. N - 1 \in Nat BY <1>1, <1>4
  <2>7. \A i \in 0..(N - 1) : i \in A BY <2>4, <2>5, <2>6, Induction
  <2>8. Good(N)
    <3>1. N - 1 \in 0..(N - 1) /\ (N - 1) + 1 = N BY <1>1, <1>4
    <3>2. N - 1 \in A BY <2>7, <3>1
    <3>. QED BY <3>1, <3>2 DEF A
  <2>9. FlattenSeq(seqs) = f[N] BY <2>1
  <2>. QED BY <2>8, <2>9 DEF Good, N
<1>. QED BY <1>3, <1>4
\* The same for a function from 1..M to sequences.
LEMMA FlattenFunction ==
    ASSUME NEW X, NEW M \in Nat, NEW seqs \in [1..M -> Seq(X)]
    PROVE  /\ FlattenSeq(seqs) \in Seq(X)
           /\ Range(FlattenSeq(seqs)) = UNION {Range(seqs[i]) : i \in 1..M}
           /\ Apart(seqs) => IsInjective(FlattenSeq(seqs))
<1> DEFINE Z == Seq(X)
<1>1. seqs \in [1..M -> Z] OBVIOUS
<1> HIDE DEF Z
<1>2. seqs \in Seq(Z) BY <1>1, SeqDef
<1>3. DOMAIN seqs = 1..M BY <1>1
<1>4. Len(seqs) = M BY <1>2, <1>3, LenProperties
<1>5. seqs \in Seq(Seq(X)) BY <1>2 DEF Z
<1>. QED BY <1>4, <1>5, FlattenMembers
-----------------------------------------------------------------------------
(* Sequences by their ranges.                                              *)

IsList(s) == s \in Seq(Range(s))

\* A sequence of anything is a list.
LEMMA SeqIsList == ASSUME NEW X, NEW s \in Seq(X) PROVE IsList(s) /\ Range(s) \subseteq X
<1> DEFINE R == Range(s)
           N == Len(s)
<1>1. /\ N \in Nat /\ DOMAIN s = 1..N /\ \A i \in 1..N : s[i] \in X
      /\ s \in [1..N -> X]
  BY LenProperties, ElementOfSeq
<1>2. \A i \in 1..N : s[i] \in R BY <1>1 DEF Range
<1>3. R \subseteq X BY <1>1 DEF Range
<1> HIDE DEF R, N
<1>4. s \in [1..N -> R] BY <1>1, <1>2
<1>5. s \in Seq(R) BY <1>1, <1>4, SeqDef
<1>. QED BY <1>3, <1>5 DEF IsList, R

\* The empty one.
LEMMA EmptyIsList == IsList(<<>>) /\ Range(<<>>) = {}
<1> DEFINE e == <<>>
           X == {}
<1>1. e \in Seq(X) BY EmptySeq
<1> HIDE DEF e, X
<1>2. IsList(e) /\ Range(e) \subseteq X BY <1>1, SeqIsList
<1>. QED BY <1>2 DEF e, X

\* One member more.
LEMMA AppendIsList ==
    ASSUME NEW s, IsList(s), NEW x
    PROVE  LET t == Append(s, x)
           IN  /\ IsList(t) /\ Range(t) = Range(s) \cup {x}
               /\ Len(s) \in Nat /\ Len(t) = Len(s) + 1
               /\ DOMAIN s = 1..Len(s) /\ DOMAIN t = 1..(Len(s) + 1)
               /\ t[Len(s) + 1] = x /\ \A i \in 1..Len(s) : t[i] = s[i]
<1> DEFINE X == Range(s) \cup {x}
           t == Append(s, x)
<1>1. s \in Seq(X) /\ x \in X BY SeqMonotonic DEF IsList
<1> HIDE DEF X
<1>2. /\ t \in Seq(X) /\ Len(t) = Len(s) + 1 /\ Len(s) \in Nat
      /\ t[Len(s) + 1] = x /\ \A i \in 1..Len(s) : t[i] = s[i]
      /\ DOMAIN s = 1..Len(s) /\ DOMAIN t = 1..Len(t)
  BY <1>1, AppendProperties, LenProperties
<1> HIDE DEF t
<1>3. IsList(t) BY <1>2, SeqIsList
<1>4. 1..(Len(s) + 1) = 1..Len(s) \cup {Len(s) + 1} BY <1>2
<1>5. Range(t) = Range(s) \cup {x} BY <1>2, <1>4 DEF Range
<1>. QED BY <1>2, <1>3, <1>5 DEF t

\* Two in a row.
LEMMA ConcatIsList ==
    ASSUME NEW s, IsList(s), NEW t, IsList(t)
    PROVE  IsList(s \o t) /\ Range(s \o t) = Range(s) \cup Range(t)
<1> DEFINE X == Range(s) \cup Range(t)
<1>1. s \in Seq(X) /\ t \in Seq(X) BY SeqMonotonic DEF IsList
<1>2. s \o t \in Seq(X) /\ Range(s \o t) = X BY <1>1, ConcatMembers
<1>. QED BY <1>2, SeqIsList

\* Without its first member.
LEMMA TailMembers ==
    ASSUME NEW X, NEW s \in Seq(X), s # <<>>, IsInjective(s)
    PROVE  /\ Tail(s) \in Seq(X) /\ IsInjective(Tail(s))
           /\ Range(Tail(s)) = Range(s) \ {Head(s)}
           /\ Head(s) \in Range(s) /\ Head(s) \in X
<1> DEFINE t == Tail(s)
           N == Len(s)
<1>1. /\ t \in Seq(X) /\ Len(t) = N - 1 /\ \A i \in 1..Len(t) : t[i] = s[i + 1]
      /\ Head(s) \in X /\ Head(s) = s[1]
      /\ N \in Nat /\ N # 0 /\ DOMAIN s = 1..N /\ DOMAIN t = 1..Len(t)
  BY HeadTailProperties, LenProperties, EmptySeq
<1> HIDE DEF t, N
<1>2. \A i \in 1..Len(t) : i + 1 \in 1..N /\ i + 1 # 1 BY <1>1
<1>3. \A i \in 1..N : i # 1 => i - 1 \in 1..Len(t) /\ s[i] = t[i - 1]
  <2>. TAKE i \in 1..N
  <2>. HAVE i # 1
  <2>1. i - 1 \in 1..Len(t) /\ (i - 1) + 1 = i BY <1>1
  <2>. QED BY <1>1, <2>1
<1>4. 1 \in 1..N BY <1>1
<1>5. IsInjective(t)
  <2>1. SUFFICES ASSUME NEW i \in 1..Len(t), NEW j \in 1..Len(t), t[i] = t[j] PROVE i = j
    BY <1>1 DEF IsInjective
  <2>2. s[i + 1] = s[j + 1] BY <1>1, <2>1
  <2>3. i + 1 = j + 1 BY <1>1, <1>2, <2>2 DEF IsInjective
  <2>. QED BY <2>3
<1>6. Range(t) = Range(s) \ {s[1]}
  <2>1. \A i \in 1..N : i # 1 => s[i] # s[1] BY <1>1, <1>4 DEF IsInjective
  <2>2. Range(t) \subseteq Range(s) \ {s[1]} BY <1>1, <1>2, <2>1 DEF Range
  <2>3. ASSUME NEW v \in Range(s) \ {s[1]} PROVE v \in Range(t)
    <3>1. PICK i \in 1..N : v = s[i] BY <1>1 DEF Range
    <3>2. i # 1 BY <2>3, <3>1
    <3>3. i - 1 \in DOMAIN t /\ v = t[i - 1] BY <1>1, <1>3, <3>1, <3>2
    <3>. QED BY <3>3 DEF Range
  <2>. QED BY <2>2, <2>3
<1>7. Head(s) \in Range(s) BY <1>1, <1>4 DEF Range
<1>. QED BY <1>1, <1>5, <1>6, <1>7 DEF t

\* The first member of the second sequence goes behind the first sequence.
LEMMA MoveOne ==
    ASSUME NEW X, NEW s \in Seq(X), NEW t \in Seq(X), t # <<>>
    PROVE  Append(s, Head(t)) \o Tail(t) = s \o t
<1> DEFINE h == Head(t)
           r == Tail(t)
           e == <<h>>
<1>1. h \in X /\ r \in Seq(X) /\ e \in Seq(X) BY HeadTailProperties
<1>2. Append(s, h) = s \o e BY <1>1, AppendIsConcat
<1>3. e \o r = t
  <2>1. /\ Len(r) = Len(t) - 1 /\ \A i \in 1..Len(r) : r[i] = t[i + 1]
        /\ h = t[1] /\ Len(t) \in Nat /\ Len(t) # 0
    BY HeadTailProperties, LenProperties, EmptySeq
  <2>2. Len(e) = 1 /\ e[1] = h OBVIOUS
  <2> HIDE DEF h, r, e
  <2>3. /\ e \o r \in Seq(X) /\ Len(e \o r) = Len(e) + Len(r)
        /\ \A i \in 1..(Len(e) + Len(r)) : (e \o r)[i] = IF i <= Len(e) THEN e[i] ELSE r[i - Len(e)]
    BY <1>1, ConcatProperties
  <2>4. Len(e \o r) = Len(t) BY <2>1, <2>2, <2>3
  <2>5. ASSUME NEW i \in 1..Len(t) PROVE (e \o r)[i] = t[i]
    <3>1. i \in 1..(Len(e) + Len(r)) BY <2>1, <2>2
    <3>2. CASE i = 1 BY <2>1, <2>2, <2>3, <3>1, <3>2
    <3>3. CASE i # 1
      <4>1. ~(i <= 1) /\ i - 1 \in 1..Len(r) /\ (i - 1) + 1 = i BY <2>1, <3>3
      <4>. QED BY <2>1, <2>2, <2>3, <3>1, <4>1
    <3>. QED BY <3>2, <3>3
  <2>. QED BY <2>3, <2>4, <2>5, SeqEqual
<1> HIDE DEF h, r, e
<1>4. (s \o e) \o r = s \o (e \o r) BY <1>1, ConcatAssociative
<1>5. Append(s, h) \o r = s \o t BY <1>2, <1>3, <1>4
<1>. QED BY <1>5 DEF h, r
=============================================================================
