-------------------------- MODULE TranslationProofs --------------------------
(* How Translated behaves when its text grows.  It is defined by recursion, *)
(* and that recursion has a solution is proved by induction over the length *)
(* of the text, which the least-number principle of the library gives.      *)
EXTENDS Translation, SequenceTheorems, WellFoundedInduction, TLAPS

(* Induction, for a set instead of a predicate: without it there would be a *)
(* least number outside the set.                                            *)
LEMMA SetInduction ==
  ASSUME NEW S, 0 \in S, \A n \in Nat : n \in S => n + 1 \in S
  PROVE  Nat \subseteq S
<1> DEFINE T == Nat \ S
           R == {ij \in Nat \X Nat : ij[1] < ij[2]}
<1>1. IsWellFoundedOn(R, Nat)
  BY NatLessThanWellFounded, Zenon DEF OpToRel
<1>2. SUFFICES ASSUME T # {} PROVE FALSE
  OBVIOUS
<1> HIDE DEF R
<1>3. PICK x \in T : \A y \in T : ~(<<y, x>> \in R)
  <2>1. T \subseteq Nat
    OBVIOUS
  <2> HIDE DEF T
  <2> QED BY <1>1, <1>2, <2>1, WFMin
<1>4. x \in Nat /\ x # 0 /\ x \notin S
  OBVIOUS
<1>5. x - 1 \in Nat
  BY <1>4
<1>6. <<x - 1, x>> \in R
  BY <1>4, <1>5, SMT DEF R
<1>7. x - 1 \in S
  BY <1>3, <1>5, <1>6
<1> QED
  BY <1>4, <1>5, <1>7

(* f[i] is the translation of the first i elements of s. *)
Prefixes(E, s, n, f) ==
  /\ f[0] = << >>
  /\ \A i \in 1..n : f[i] = f[i - 1] \o E[s[i]]

(* Every text has a translation ... *)
LEMMA TranslationExists ==
  ASSUME NEW A, NEW B, NEW E \in [A -> Seq(B)], NEW s \in Seq(A)
  PROVE  \E f \in [0..Len(s) -> Seq(B)] : Prefixes(E, s, Len(s), f)
<1> DEFINE S == {n \in Nat : n <= Len(s) =>
                   \E f \in [0..n -> Seq(B)] : Prefixes(E, s, n, f)}
<1>1. 0 \in S
  <2> DEFINE f == [i \in 0..0 |-> << >>]
  <2>1. f \in [0..0 -> Seq(B)]
    OBVIOUS
  <2>2. f[0] = << >>
    OBVIOUS
  <2>3. Prefixes(E, s, 0, f)
    BY <2>2 DEF Prefixes
  <2> QED
    BY <2>1, <2>3
<1>2. ASSUME NEW n \in Nat, n \in S PROVE n + 1 \in S
  <2> SUFFICES ASSUME n + 1 <= Len(s)
               PROVE  \E g \in [0..(n + 1) -> Seq(B)] : Prefixes(E, s, n + 1, g)
    OBVIOUS
  <2>1. n <= Len(s)
    OBVIOUS
  <2>2. PICK f \in [0..n -> Seq(B)] : Prefixes(E, s, n, f)
    BY <1>2, <2>1
  <2>3. s[n + 1] \in A /\ E[s[n + 1]] \in Seq(B)
    OBVIOUS
  <2>4. f[n] \in Seq(B)
    OBVIOUS
  <2> DEFINE last == f[n] \o E[s[n + 1]]
             g == [i \in 0..(n + 1) |-> IF i = n + 1 THEN last ELSE f[i]]
  <2>5. last \in Seq(B)
    BY <2>3, <2>4
  <2>6. g[n + 1] = last /\ \A i \in 0..n : g[i] = f[i]
    OBVIOUS
  <2>7. g \in [0..(n + 1) -> Seq(B)]
    <3> HIDE DEF last
    <3>1. \A i \in 0..(n + 1) : i = n + 1 \/ i \in 0..n
      OBVIOUS
    <3>2. \A i \in 0..n : f[i] \in Seq(B)
      OBVIOUS
    <3> QED
      BY <2>5, <3>1, <3>2
  <2> HIDE DEF g
  <2>8. Prefixes(E, s, n + 1, g)
    <3>1. g[0] = << >>
      <4>1. 0 \in 0..n
        OBVIOUS
      <4> QED
        BY <2>2, <2>6, <4>1, Zenon DEF Prefixes
    <3>2. ASSUME NEW i \in 1..n PROVE g[i] = g[i - 1] \o E[s[i]]
      <4>1. i \in 0..n /\ i - 1 \in 0..n
        OBVIOUS
      <4> QED
        BY <2>2, <2>6, <4>1, Zenon DEF Prefixes
    <3>3. g[n + 1] = g[n] \o E[s[n + 1]]
      <4>1. n \in 0..n
        OBVIOUS
      <4> QED
        BY <2>6, <4>1
    <3>4. \A i \in 1..(n + 1) : i \in 1..n \/ i = n + 1
      OBVIOUS
    <3>5. (n + 1) - 1 = n
      OBVIOUS
    <3> QED
      BY <3>1, <3>2, <3>3, <3>4, <3>5, Zenon DEF Prefixes
  <2> QED
    BY <2>7, <2>8
<1> HIDE DEF S
<1>3. Nat \subseteq S
  BY <1>1, <1>2, SetInduction
<1>4. Len(s) \in S
  BY <1>3
<1> QED
  BY <1>4 DEF S

(* ... and one only, the one Translated stands for. *)
LEMMA TranslationIs ==
  ASSUME NEW E, NEW s, Len(s) \in Nat,
         NEW f, f = [i \in 0..Len(s) |-> f[i]], Prefixes(E, s, Len(s), f)
  PROVE  Translated(E, s) = f[Len(s)]
<1> DEFINE D(h) == [i \in 0..Len(s) |-> IF i = 0 THEN << >> ELSE h[i - 1] \o E[s[i]]]
           g == CHOOSE h : h = D(h)
           S == {n \in Nat : n <= Len(s) => g[n] = f[n]}
<1>1. Len(s) \in Nat
  OBVIOUS
<1>2. f = D(f)
  <2>1. \A i \in 0..Len(s) : f[i] = IF i = 0 THEN << >> ELSE f[i - 1] \o E[s[i]]
    <3>1. \A i \in 0..Len(s) : i = 0 \/ i \in 1..Len(s)
      BY <1>1
    <3>2. \A i \in 1..Len(s) : i # 0
      BY <1>1
    <3> QED
      BY <3>1, <3>2, Zenon DEF Prefixes
  <2> QED
    BY <2>1, Zenon
<1>3. g = D(g)
  BY <1>2, Zenon
<1>4. Translated(E, s) = g[Len(s)]
  BY Zenon DEF Translated
<1> HIDE DEF g
<1>5. \A i \in 0..Len(s) : g[i] = IF i = 0 THEN << >> ELSE g[i - 1] \o E[s[i]]
  BY <1>3, Zenon
<1>6. 0 \in S
  <2>1. g[0] = << >>
    <3>1. 0 \in 0..Len(s)
      BY <1>1
    <3> QED
      BY <1>5, <3>1, Zenon
  <2> QED
    BY <2>1 DEF Prefixes
<1>7. ASSUME NEW n \in Nat, n \in S PROVE n + 1 \in S
  <2> SUFFICES ASSUME n + 1 <= Len(s) PROVE g[n + 1] = f[n + 1]
    OBVIOUS
  <2>1. g[n] = f[n]
    BY <1>1, <1>7
  <2>2. n + 1 \in 0..Len(s) /\ n + 1 \in 1..Len(s) /\ n + 1 # 0 /\ (n + 1) - 1 = n
    BY <1>1
  <2>3. g[n + 1] = g[(n + 1) - 1] \o E[s[n + 1]]
    BY <1>5, <2>2, Zenon
  <2>4. f[n + 1] = f[(n + 1) - 1] \o E[s[n + 1]]
    BY <2>2, Zenon DEF Prefixes
  <2> QED
    BY <2>1, <2>2, <2>3, <2>4, Zenon
<1> HIDE DEF S
<1>8. Nat \subseteq S
  BY <1>6, <1>7, SetInduction
<1>9. Len(s) \in S
  BY <1>1, <1>8
<1> QED
  BY <1>1, <1>4, <1>9 DEF S

(* It is a text of the elements E's texts are made of. *)
LEMMA TranslatedIsText ==
  ASSUME NEW A, NEW B, NEW E \in [A -> Seq(B)], NEW s \in Seq(A)
  PROVE  Translated(E, s) \in Seq(B)
<1>1. PICK f \in [0..Len(s) -> Seq(B)] : Prefixes(E, s, Len(s), f)
  BY TranslationExists, Zenon
<1>2. Translated(E, s) = f[Len(s)]
  <2>1. f = [i \in 0..Len(s) |-> f[i]] /\ Len(s) \in Nat
    OBVIOUS
  <2> QED
    BY <1>1, <2>1, TranslationIs, Zenon
<1>3. Len(s) \in 0..Len(s)
  OBVIOUS
<1> QED
  BY <1>2, <1>3

(* Nothing is translated to nothing. *)
LEMMA TranslatedEmpty ==
  ASSUME NEW A, NEW B, NEW E \in [A -> Seq(B)]
  PROVE  Translated(E, << >>) = << >>
<1>1. << >> \in Seq(A) /\ Len(<< >>) = 0
  OBVIOUS
<1>2. PICK f \in [0..Len(<< >>) -> Seq(B)] : Prefixes(E, << >>, Len(<< >>), f)
  BY <1>1, TranslationExists
<1>3. Translated(E, << >>) = f[Len(<< >>)]
  <2>1. f = [i \in 0..Len(<< >>) |-> f[i]] /\ Len(<< >>) \in Nat
    OBVIOUS
  <2> QED
    BY <1>2, <2>1, TranslationIs, Zenon
<1> QED
  BY <1>1, <1>2, <1>3, Zenon DEF Prefixes

(* One more element adds its sequence at the end. *)
LEMMA TranslatedAppend ==
  ASSUME NEW A, NEW B, NEW E \in [A -> Seq(B)], NEW s \in Seq(A), NEW a \in A
  PROVE  Translated(E, Append(s, a)) = Translated(E, s) \o E[a]
<1> DEFINE t == Append(s, a)
           n == Len(s)
<1>1. /\ t \in Seq(A) /\ n \in Nat /\ Len(t) = n + 1 /\ t[n + 1] = a
      /\ \A i \in 1..n : t[i] = s[i]
  OBVIOUS
<1> HIDE DEF t
<1>2. PICK f \in [0..Len(t) -> Seq(B)] : Prefixes(E, t, Len(t), f)
  BY <1>1, TranslationExists
<1>3. Translated(E, t) = f[n + 1]
  <2>1. f = [i \in 0..Len(t) |-> f[i]] /\ Len(t) \in Nat
    BY <1>1
  <2> QED
    BY <1>1, <1>2, <2>1, TranslationIs, Zenon
<1>4. n + 1 \in 1..Len(t) /\ (n + 1) - 1 = n
  BY <1>1
<1>5. f[n + 1] = f[n] \o E[a]
  BY <1>1, <1>2, <1>4, Zenon DEF Prefixes
<1> DEFINE g == [i \in 0..n |-> f[i]]
<1>6. g \in [0..n -> Seq(B)] /\ \A i \in 0..n : g[i] = f[i]
  BY <1>1
<1> HIDE DEF g
<1>7. Prefixes(E, s, n, g)
  <2>1. g[0] = << >>
    <3>1. 0 \in 0..n
      BY <1>1
    <3> QED
      BY <1>2, <1>6, <3>1, Zenon DEF Prefixes
  <2>2. ASSUME NEW i \in 1..n PROVE g[i] = g[i - 1] \o E[s[i]]
    <3>1. i \in 0..n /\ i - 1 \in 0..n /\ i \in 1..Len(t)
      BY <1>1
    <3>2. f[i] = f[i - 1] \o E[t[i]]
      BY <1>2, <3>1, Zenon DEF Prefixes
    <3> QED
      BY <1>1, <1>6, <3>1, <3>2, Zenon
  <2> QED
    BY <2>1, <2>2, Zenon DEF Prefixes
<1>8. Translated(E, s) = g[n]
  <2>1. g = [i \in 0..n |-> g[i]]
    BY <1>6
  <2> QED
    BY <1>1, <1>7, <2>1, TranslationIs, Zenon
<1>9. g[n] = f[n]
  BY <1>1, <1>6
<1> QED
  BY <1>3, <1>5, <1>8, <1>9 DEF t

(* Concatenation of sequences over S may be regrouped. *)
Associates(S) == \A s, t, u \in Seq(S) : (s \o t) \o u = s \o (t \o u)

(* ConcatAssociative, for one set at a time. *)
LEMMA Associative == \A S : Associates(S)
BY ConcatAssociative DEF Associates

(* Two texts one after the other are translated one after the other. *)
LEMMA TranslatedConcat ==
  ASSUME NEW A, NEW B, NEW E \in [A -> Seq(B)], NEW s \in Seq(A), NEW t \in Seq(A)
  PROVE  Translated(E, s \o t) = Translated(E, s) \o Translated(E, t)
<1> DEFINE S == {n \in Nat : \A u \in Seq(A) : Len(u) = n =>
                   Translated(E, s \o u) = Translated(E, s) \o Translated(E, u)}
<1>1. 0 \in S
  <2> SUFFICES ASSUME NEW u \in Seq(A), Len(u) = 0
               PROVE  Translated(E, s \o u) = Translated(E, s) \o Translated(E, u)
    OBVIOUS
  <2>1. u = << >>
    BY EmptySeq
  <2>2. s \o << >> = s
    BY ConcatEmptySeq
  <2>3. Translated(E, s) \o << >> = Translated(E, s)
    BY TranslatedIsText, ConcatEmptySeq
  <2>4. Translated(E, << >>) = << >>
    BY TranslatedEmpty
  <2> QED
    BY <2>1, <2>2, <2>3, <2>4, Zenon
<1>2. ASSUME NEW n \in Nat, n \in S PROVE n + 1 \in S
  <2> SUFFICES ASSUME NEW u \in Seq(A), Len(u) = n + 1
               PROVE  Translated(E, s \o u) = Translated(E, s) \o Translated(E, u)
    OBVIOUS
  <2> DEFINE v == [i \in 1..n |-> u[i]]
             a == u[n + 1]
  <2>1. a \in A /\ v \in Seq(A) /\ Len(v) = n
    OBVIOUS
  <2>2. u = Append(v, a)
    OBVIOUS
  <2> HIDE DEF v, a
  <2>3. s \o u = Append(s \o v, a)
    <3>1. Append(v, a) = v \o <<a>> /\ Append(s \o v, a) = (s \o v) \o <<a>>
      BY <2>1, AppendIsConcat, ConcatProperties
    <3>2. <<a>> \in Seq(A)
      BY <2>1
    <3>3. Associates(A)
      BY Associative, Zenon
    <3>4. s \o (v \o <<a>>) = (s \o v) \o <<a>>
      BY <2>1, <3>2, <3>3 DEF Associates
    <3> QED
      BY <2>2, <3>1, <3>4
  <2>4. s \o v \in Seq(A)
    BY <2>1, ConcatProperties
  <2>5. Translated(E, Append(s \o v, a)) = Translated(E, s \o v) \o E[a]
    BY <2>1, <2>4, TranslatedAppend
  <2>6. Translated(E, Append(v, a)) = Translated(E, v) \o E[a]
    BY <2>1, TranslatedAppend
  <2>7. Translated(E, s \o v) = Translated(E, s) \o Translated(E, v)
    BY <1>2, <2>1
  <2>8. /\ Translated(E, s) \in Seq(B) /\ Translated(E, v) \in Seq(B) /\ E[a] \in Seq(B)
    BY <2>1, TranslatedIsText
  <2>9. (Translated(E, s) \o Translated(E, v)) \o E[a]
          = Translated(E, s) \o (Translated(E, v) \o E[a])
    <3>1. Associates(B)
      BY Associative, Zenon
    <3> QED
      BY <2>8, <3>1 DEF Associates
  <2> QED
    BY <2>2, <2>3, <2>5, <2>6, <2>7, <2>9
<1> HIDE DEF S
<1>3. Nat \subseteq S
  BY <1>1, <1>2, SetInduction
<1>4. Len(t) \in S
  BY <1>3
<1> QED
  BY <1>4 DEF S
=============================================================================
