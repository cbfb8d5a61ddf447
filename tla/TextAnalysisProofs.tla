--------------------------- MODULE TextAnalysisProofs ---------------------------
EXTENDS TextAnalysis, FiniteSetTheorems, TLAPS

-----------------------------------------------------------------------------
(* Induction, and what is least in a set                                   *)

(* Induction over a set of numbers, rather than over a predicate. *)
LEMMA NumberInduction ==
    ASSUME NEW S, 0 \in S, \A n \in Nat : n \in S => n + 1 \in S
    PROVE  \A n \in Nat : n \in S
<1> SUFFICES ASSUME Nat \ S # {} PROVE FALSE
    OBVIOUS
<1> DEFINE T == Nat \ S
           R == OpToRel(<, Nat)
<1>1. IsWellFoundedOn(R, Nat)
    BY NatLessThanWellFounded
<1>2. T \subseteq Nat /\ T # {}
    OBVIOUS
<1> HIDE DEF T, R
<1>3. PICK x \in T : \A y \in T : ~ (<<y, x>> \in R)
    BY <1>1, <1>2, WFMin
<1>4. \A y \in T : ~(y < x)
    BY <1>2, <1>3 DEF R, OpToRel
<1> QED
    BY <1>2, <1>3, <1>4 DEF T

(* MinOf of numbers is the least of them. *)
LEMMA LeastNumber ==
    ASSUME NEW S, S \subseteq Nat, S # {}
    PROVE  MinOf(S) \in S /\ \A n \in S : MinOf(S) <= n
<1> DEFINE R == OpToRel(<, Nat)
<1>1. IsWellFoundedOn(R, Nat)
    BY NatLessThanWellFounded
<1> HIDE DEF R
<1>2. PICK x \in S : \A y \in S : ~ (<<y, x>> \in R)
    BY <1>1, WFMin
<1>3. \A y \in S : ~(y < x)
    BY <1>2 DEF R, OpToRel
<1>4. \A y \in S : x <= y
    BY <1>3
<1> QED
    BY <1>2, <1>4 DEF MinOf

(* R orders the elements of U strictly. *)
Orders(R, U) ==
    /\ \A x \in U : <<x, x>> \notin R
    /\ \A x, y, z \in U : <<x, y>> \in R /\ <<y, z>> \in R => <<x, z>> \in R

(* In a finite set something comes first. *)
LEMMA FirstOfFinite ==
    ASSUME NEW U, NEW R, Orders(R, U), IsFiniteSet(U), U # {}
    PROVE  \E x \in U : \A y \in U : <<y, x>> \notin R
<1> DEFINE Good(T) == T = {} \/ \E x \in T : \A y \in T : <<y, x>> \notin R
           S == {n \in Nat : \A T \in SUBSET U : IsFiniteSet(T) /\ Cardinality(T) = n => Good(T)}
<1>1. 0 \in S
    BY FS_EmptySet
<1>2. ASSUME NEW n \in Nat, n \in S
      PROVE  n + 1 \in S
    <2> SUFFICES ASSUME NEW T \in SUBSET U, IsFiniteSet(T), Cardinality(T) = n + 1, T # {}
                 PROVE  \E x \in T : \A y \in T : <<y, x>> \notin R
        BY <1>2
    <2>1. PICK a \in T : TRUE
        OBVIOUS
    <2> DEFINE V == T \ {a}
    <2>2. IsFiniteSet(V) /\ Cardinality(V) = Cardinality(T) - 1
        BY <2>1, FS_RemoveElement
    <2>3. IsFiniteSet(V) /\ Cardinality(V) = n /\ V \in SUBSET U
        BY <2>2
    <2>4. Good(V)
        BY <1>2, <2>3
    <2>5. <<a, a>> \notin R
        BY <2>1 DEF Orders
    <2>6. CASE V = {}
        <3>1. \A y \in T : y = a
            BY <2>6
        <3> QED
            BY <2>1, <2>5, <3>1
    <2>7. CASE V # {}
        <3>1. PICK x \in V : \A y \in V : <<y, x>> \notin R
            BY <2>4, <2>7
        <3>2. CASE <<a, x>> \notin R
            <4>1. \A y \in T : <<y, x>> \notin R
                BY <3>1, <3>2
            <4> QED
                BY <3>1, <4>1
        <3>3. CASE <<a, x>> \in R
            <4>1. \A y \in T : <<y, a>> \notin R
                <5> SUFFICES ASSUME NEW y \in T, <<y, a>> \in R PROVE FALSE
                    OBVIOUS
                <5>1. y # a
                    BY <2>5
                <5>2. <<y, x>> \in R
                    BY <2>1, <3>1, <3>3 DEF Orders
                <5> QED
                    BY <3>1, <5>1, <5>2
            <4> QED
                BY <2>1, <4>1
        <3> QED
            BY <3>2, <3>3
    <2> QED
        BY <2>6, <2>7
<1> HIDE DEF S
<1>3. \A n \in Nat : n \in S
    BY <1>1, <1>2, NumberInduction
<1>4. Cardinality(U) \in S
    BY <1>3, FS_CardinalityType
<1>5. Good(U)
    BY <1>4 DEF S
<1> QED
    BY <1>5

(* Of a finite set of integers there is a least and a greatest. *)
LEMMA Extremes ==
    ASSUME NEW S, S \subseteq Int, S # {}, IsFiniteSet(S)
    PROVE  /\ MinOf(S) \in S /\ \A n \in S : MinOf(S) <= n
           /\ MaxOf(S) \in S /\ \A n \in S : n <= MaxOf(S)
<1>1. PICK less : less = {p \in S \X S : p[1] < p[2]}
    OBVIOUS
<1>2. PICK more : more = {p \in S \X S : p[1] > p[2]}
    OBVIOUS
<1>3. \A x, y \in S : /\ <<x, y>> \in less <=> x < y
                      /\ <<x, y>> \in more <=> x > y
    BY <1>1, <1>2
<1>4. Orders(less, S) /\ Orders(more, S)
    BY <1>3 DEF Orders
<1>5. \E x \in S : \A y \in S : <<y, x>> \notin less
    BY <1>4, FirstOfFinite
<1>6. \E x \in S : \A y \in S : <<y, x>> \notin more
    BY <1>4, FirstOfFinite
<1>7. PICK x \in S : \A y \in S : <<y, x>> \notin less
    BY <1>5
<1>8. PICK z \in S : \A y \in S : <<y, z>> \notin more
    BY <1>6
<1>9. \A y \in S : ~(y < x) /\ ~(y > z)
    BY <1>3, <1>7, <1>8
<1>10. \A y \in S : x <= y /\ y <= z
    BY <1>9
<1>11. \E n \in S : \A m \in S : n <= m
    BY <1>7, <1>10
<1>12. \E n \in S : \A m \in S : n >= m
    BY <1>8, <1>10
<1> QED
    BY <1>11, <1>12 DEF MinOf, MaxOf

(* K has whatever meets nothing better in K. *)
Settles(K, U, Better, Meets) ==
    \A c \in U : c \in K <=> \A d \in K : <<d, c>> \in Better => <<c, d>> \notin Meets

(* Where each is taken unless it meets a better one that is taken, there   *)
(* is a set to take.                                                       *)
LEMMA SelectionExists ==
    ASSUME NEW U, NEW Better, NEW Meets, Orders(Better, U), IsFiniteSet(U)
    PROVE  \E K \in SUBSET U : Settles(K, U, Better, Meets)
<1> DEFINE Good(T) == \E K \in SUBSET T : \A c \in T :
                          c \in K <=> \A d \in K : <<d, c>> \in Better => <<c, d>> \notin Meets
           S == {n \in Nat : \A T \in SUBSET U : IsFiniteSet(T) /\ Cardinality(T) = n => Good(T)}
<1>1. 0 \in S
    BY FS_EmptySet
<1>2. ASSUME NEW n \in Nat, n \in S
      PROVE  n + 1 \in S
    <2> SUFFICES ASSUME NEW T \in SUBSET U, IsFiniteSet(T), Cardinality(T) = n + 1
                 PROVE  Good(T)
        BY <1>2
    <2>1. T # {}
        BY FS_EmptySet
    <2>2. PICK worse : worse = {p \in T \X T : <<p[2], p[1]>> \in Better}
        OBVIOUS
    <2>3. \A x, y \in T : <<x, y>> \in worse <=> <<y, x>> \in Better
        BY <2>2
    <2>4. Orders(worse, T)
        <3>1. \A x \in T : <<x, x>> \notin worse
            BY <2>3 DEF Orders
        <3>2. \A x, y, z \in T : <<x, y>> \in worse /\ <<y, z>> \in worse => <<x, z>> \in worse
            BY <2>3 DEF Orders
        <3> QED
            BY <3>1, <3>2 DEF Orders
    <2>5. PICK a \in T : \A y \in T : <<a, y>> \notin Better
        <3>1. \E x \in T : \A y \in T : <<y, x>> \notin worse
            BY <2>1, <2>4, FirstOfFinite
        <3> QED
            BY <2>3, <3>1
    <2> DEFINE V == T \ {a}
    <2>6. IsFiniteSet(V) /\ Cardinality(V) = Cardinality(T) - 1
        BY FS_RemoveElement
    <2>7. IsFiniteSet(V) /\ Cardinality(V) = n /\ V \in SUBSET U
        BY <2>6
    <2>8. PICK K \in SUBSET V : \A c \in V :
               c \in K <=> \A d \in K : <<d, c>> \in Better => <<c, d>> \notin Meets
        BY <1>2, <2>7
    <2>9. CASE \A d \in K : <<d, a>> \in Better => <<a, d>> \notin Meets
        <3> DEFINE L == K \cup {a}
        <3>1. ASSUME NEW c \in V
              PROVE  c \in L <=> \A d \in L : <<d, c>> \in Better => <<c, d>> \notin Meets
            BY <2>5, <2>8
        <3>2. a \in L /\ \A d \in L : <<d, a>> \in Better => <<a, d>> \notin Meets
            BY <2>5, <2>9
        <3>3. \A c \in T : c \in L <=> \A d \in L : <<d, c>> \in Better => <<c, d>> \notin Meets
            BY <3>1, <3>2
        <3>4. L \in SUBSET T
            OBVIOUS
        <3> QED
            BY <3>3, <3>4
    <2>10. CASE ~ \A d \in K : <<d, a>> \in Better => <<a, d>> \notin Meets
        <3>1. \A c \in T : c \in K <=> \A d \in K : <<d, c>> \in Better => <<c, d>> \notin Meets
            BY <2>8, <2>10
        <3>2. K \in SUBSET T
            OBVIOUS
        <3> QED
            BY <3>1, <3>2
    <2> QED
        BY <2>9, <2>10
<1> HIDE DEF S
<1>3. \A n \in Nat : n \in S
    BY <1>1, <1>2, NumberInduction
<1>4. Cardinality(U) \in S /\ U \in SUBSET U
    BY <1>3, FS_CardinalityType
<1>5. Good(U)
    BY <1>4 DEF S
<1> QED
    BY <1>5 DEF Settles

-----------------------------------------------------------------------------
(* Sequences: what is in a selection                                       *)

Solves(f, N, start, step) ==
    f[0] = start /\ \A n \in 1 .. N : f[n] = step[<<n, f[n - 1]>>]

(* A recursion over 0..N has a solution, as one step leads from D to D. *)
LEMMA Recursion ==
    ASSUME NEW D, NEW start \in D, NEW step \in [Nat \X D -> D]
    PROVE  \A N \in Nat : \E f \in [0 .. N -> D] : Solves(f, N, start, step)
<1> DEFINE S == {N \in Nat : \E f \in [0 .. N -> D] : Solves(f, N, start, step)}
<1>1. 0 \in S
    <2> DEFINE f == [n \in 0 .. 0 |-> start]
    <2>1. f \in [0 .. 0 -> D] /\ Solves(f, 0, start, step)
        BY DEF Solves
    <2> QED
        BY <2>1
<1>2. ASSUME NEW N \in Nat, N \in S
      PROVE  N + 1 \in S
    <2>1. PICK f \in [0 .. N -> D] : Solves(f, N, start, step)
        BY <1>2
    <2>2. PICK d \in D : d = step[<<N + 1, f[N]>>]
        BY <2>1
    <2> DEFINE g == [n \in 0 .. N + 1 |-> IF n = N + 1 THEN d ELSE f[n]]
    <2>3. g \in [0 .. N + 1 -> D]
        OBVIOUS
    <2>4. g[N + 1] = d /\ \A n \in 0 .. N : g[n] = f[n]
        OBVIOUS
    <2> HIDE DEF g
    <2>5. ASSUME NEW n \in 1 .. N + 1
          PROVE  g[n] = step[<<n, g[n - 1]>>]
        <3>1. CASE n = N + 1
            <4>1. n - 1 = N /\ N \in 0 .. N
                BY <3>1
            <4> QED
                BY <2>2, <2>4, <3>1, <4>1
        <3>2. CASE n # N + 1
            <4>1. n \in 1 .. N /\ n \in 0 .. N /\ n - 1 \in 0 .. N
                BY <3>2
            <4> QED
                BY <2>1, <2>4, <4>1 DEF Solves
        <3> QED
            BY <3>1, <3>2
    <2>6. Solves(g, N + 1, start, step)
        BY <2>1, <2>4, <2>5 DEF Solves
    <2> QED
        BY <2>3, <2>6
<1> HIDE DEF S
<1>3. \A N \in Nat : N \in S
    BY <1>1, <1>2, NumberInduction
<1> QED
    BY <1>3 DEF S

(* What every step of a recursion keeps holds at its end. *)
LEMMA Kept ==
    ASSUME NEW T, NEW N \in Nat, NEW f, f[0] \in T,
           \A n \in 1 .. N : f[n - 1] \in T => f[n] \in T
    PROVE  \A n \in 0 .. N : f[n] \in T
<1> DEFINE S == {n \in Nat : n <= N => f[n] \in T}
<1>1. 0 \in S
    OBVIOUS
<1>2. ASSUME NEW n \in Nat, n \in S
      PROVE  n + 1 \in S
    <2> SUFFICES ASSUME n + 1 <= N PROVE f[n + 1] \in T
        OBVIOUS
    <2>1. n + 1 \in 1 .. N /\ (n + 1) - 1 = n /\ n <= N
        OBVIOUS
    <2>2. f[n] \in T
        BY <1>2, <2>1
    <2> QED
        BY <2>1, <2>2
<1> HIDE DEF S
<1>3. \A n \in Nat : n \in S
    BY <1>1, <1>2, NumberInduction
<1> QED
    BY <1>3 DEF S

(* The recursion that defines Only has a solution. *)
Selects(f, s, I, N) ==
    f = [n \in 0 .. N |->
            IF n = 0 THEN <<>>
            ELSE IF n \in I THEN Append(f[n - 1], s[n]) ELSE f[n - 1]]

LEMMA OnlyHasAValue ==
    ASSUME NEW S, NEW s \in Seq(S), NEW I
    PROVE  \E f : Selects(f, s, I, Len(s))
<1> DEFINE N == Len(s)
           step == [p \in Nat \X Seq(S) |->
                        IF p[1] \in I /\ p[1] \in 1 .. N THEN Append(p[2], s[p[1]]) ELSE p[2]]
<1>1. <<>> \in Seq(S) /\ N \in Nat
    OBVIOUS
<1>2. step \in [Nat \X Seq(S) -> Seq(S)]
    <2>1. ASSUME NEW n \in Nat, NEW t \in Seq(S)
          PROVE  (IF n \in I /\ n \in 1 .. N THEN Append(t, s[n]) ELSE t) \in Seq(S)
        <3>1. n \in 1 .. N => s[n] \in S
            OBVIOUS
        <3> QED
            BY <3>1
    <2> QED
        BY <2>1
<1>3. ASSUME NEW n \in Nat, NEW t \in Seq(S)
      PROVE  /\ step[<<n, t>>] = IF n \in I /\ n \in 1 .. N THEN Append(t, s[n]) ELSE t
             /\ step[<<n, t>>] \in Seq(S)
    <2>1. step[<<n, t>>] = IF n \in I /\ n \in 1 .. N THEN Append(t, s[n]) ELSE t
        OBVIOUS
    <2>2. n \in 1 .. N => s[n] \in S
        OBVIOUS
    <2> QED
        BY <2>1, <2>2
<1> HIDE DEF step, N
<1>4. PICK f \in [0 .. N -> Seq(S)] : Solves(f, N, <<>>, step)
    BY <1>1, <1>2, Recursion
<1> DEFINE g == [n \in 0 .. N |->
                    IF n = 0 THEN <<>>
                    ELSE IF n \in I THEN Append(f[n - 1], s[n]) ELSE f[n - 1]]
<1>5. ASSUME NEW n \in 1 .. N
      PROVE  f[n] = IF n \in I THEN Append(f[n - 1], s[n]) ELSE f[n - 1]
    <2>1. n \in Nat /\ n - 1 \in 0 .. N /\ f[n - 1] \in Seq(S)
        BY <1>1, <1>4
    <2> QED
        BY <1>3, <1>4, <2>1 DEF Solves
<1>6. \A n \in 0 .. N : n = 0 \/ n \in 1 .. N
    BY <1>1
<1>7. \A n \in 0 .. N : f[n] = g[n]
    BY <1>4, <1>5, <1>6 DEF Solves
<1>8. f = g
    BY <1>4, <1>7
<1> QED
    BY <1>8 DEF Selects, N

(* A selection has the selected elements, and no other. *)
LEMMA OnlyLaw ==
    ASSUME NEW S, NEW s \in Seq(S), NEW I
    PROVE  /\ Only(s, I) \in Seq(S)
           /\ Range(Only(s, I)) = {s[n] : n \in I \cap (1 .. Len(s))}
<1> DEFINE N == Len(s)
<1>1. N \in Nat /\ \A k \in 1 .. N : s[k] \in S
    OBVIOUS
<1>2. PICK g : Selects(g, s, I, N)
    BY OnlyHasAValue
<1> DEFINE f == CHOOSE f : Selects(f, s, I, N)
<1>3. Selects(f, s, I, N)
    BY <1>2
<1>4. Only(s, I) = f[N]
    BY DEF Only, Selects
<1> HIDE DEF f, N
<1>5. \A n \in 0 .. N :
          f[n] = IF n = 0 THEN <<>>
                 ELSE IF n \in I THEN Append(f[n - 1], s[n]) ELSE f[n - 1]
    BY <1>3 DEF Selects
<1> DEFINE Right(n) == f[n] \in Seq(S) /\ Range(f[n]) = {s[k] : k \in I \cap (1 .. n)}
           T == {n \in Nat : n <= N => Right(n)}
<1>6. 0 \in T
    <2>1. 0 \in 0 .. N
        BY <1>1
    <2>2. f[0] = <<>>
        BY <1>5, <2>1
    <2>3. Range(<<>>) = {} /\ <<>> \in Seq(S) /\ {s[k] : k \in I \cap (1 .. 0)} = {}
        BY DEF Range
    <2>4. Right(0)
        BY <2>2, <2>3
    <2> QED
        BY <2>4
<1>7. ASSUME NEW n \in Nat, n \in T
      PROVE  n + 1 \in T
    <2> SUFFICES ASSUME n + 1 <= N PROVE Right(n + 1)
        OBVIOUS
    <2>1. Right(n)
        BY <1>1, <1>7
    <2>2. n + 1 \in 0 .. N /\ (n + 1) - 1 = n /\ n + 1 # 0 /\ n + 1 \in 1 .. N
        BY <1>1
    <2>3. f[n + 1] = IF n + 1 \in I THEN Append(f[n], s[n + 1]) ELSE f[n]
        BY <1>5, <2>2
    <2>4. PICK t \in Seq(S) : t = f[n]
        BY <2>1
    <2>5. PICK c \in S : c = s[n + 1]
        BY <1>1, <2>2
    <2>6. CASE n + 1 \notin I
        <3>1. I \cap (1 .. n + 1) = I \cap (1 .. n)
            BY <2>6
        <3> QED
            BY <2>1, <2>3, <2>6, <3>1
    <2>7. CASE n + 1 \in I
        <3>1. I \cap (1 .. n + 1) = (I \cap (1 .. n)) \cup {n + 1}
            BY <2>7
        <3>2. {s[k] : k \in I \cap (1 .. n + 1)} = {s[k] : k \in I \cap (1 .. n)} \cup {c}
            BY <2>5, <3>1
        <3>3. Range(Append(t, c)) = Range(t) \cup {c}
            <4> DEFINE u == Append(t, c)
            <4>1. Len(t) \in Nat /\ DOMAIN t = 1 .. Len(t)
                OBVIOUS
            <4>2. /\ DOMAIN u = 1 .. Len(t) + 1 /\ u[Len(t) + 1] = c
                  /\ \A k \in 1 .. Len(t) : u[k] = t[k]
                OBVIOUS
            <4> HIDE DEF u
            <4>3. DOMAIN u = DOMAIN t \cup {Len(t) + 1}
                BY <4>1, <4>2
            <4> QED
                BY <4>1, <4>2, <4>3 DEF Range, u
        <3>4. Append(t, c) \in Seq(S)
            OBVIOUS
        <3> QED
            BY <2>1, <2>3, <2>4, <2>5, <2>7, <3>2, <3>3, <3>4
    <2> QED
        BY <2>6, <2>7
<1> HIDE DEF T
<1>8. \A n \in Nat : n \in T
    BY <1>6, <1>7, NumberInduction
<1>9. N \in T /\ N <= N
    BY <1>1, <1>8
<1>10. Right(N)
    BY <1>9, Zenon DEF T
<1> QED
    BY <1>4, <1>10 DEF N

(* Places are selected in their order, each once: all of them are there. *)
LEMMA AscendingLaw ==
    ASSUME NEW I, I \subseteq Nat \ {0}, IsFiniteSet(I)
    PROVE  Ascending(I) \in Seq(I) /\ Range(Ascending(I)) = I
<1> DEFINE top == MaxOf({0} \cup I)
           all == [n \in 1 .. top |-> n]
<1>1. IsFiniteSet({0})
    BY FS_Singleton
<1>2. IsFiniteSet({0} \cup I)
    BY <1>1, FS_Union
<1>3. IsFiniteSet({0} \cup I) /\ {0} \cup I \subseteq Int /\ {0} \cup I # {}
    BY <1>2
<1>4. top \in {0} \cup I /\ \A n \in {0} \cup I : n <= top
    BY <1>3, Extremes
<1> HIDE DEF top
<1>5. top \in Nat
    BY <1>4
<1>6. all \in [1 .. top -> Nat]
    BY <1>5
<1>7. all \in Seq(Nat) /\ Len(all) = top
    BY <1>5, <1>6
<1>8. all \in Seq(Nat) /\ Len(all) = top /\ \A n \in 1 .. top : all[n] = n
    BY <1>7
<1>9. \A n \in I : n \in Nat /\ n # 0 /\ n <= top
    BY <1>4
<1>10. \A n \in I : n \in 1 .. top
    BY <1>5, <1>9
<1>11. I \cap (1 .. top) = I
    BY <1>10
<1> HIDE DEF all
<1>12. /\ Only(all, I) \in Seq(Nat)
      /\ Range(Only(all, I)) = {all[n] : n \in I \cap (1 .. Len(all))}
    BY <1>8, OnlyLaw
<1>13. {all[n] : n \in I \cap (1 .. top)} = I
    BY <1>8, <1>11
<1>14. PICK t \in Seq(Nat) : t = Only(all, I)
    BY <1>12
<1>15. Range(t) = I
    BY <1>8, <1>12, <1>13, <1>14
<1>16. t \in Seq(I)
    <2>1. \A n \in DOMAIN t : t[n] \in I
        BY <1>15 DEF Range
    <2> QED
        BY <2>1
<1>17. Ascending(I) = t
    BY <1>14 DEF Ascending, all, top
<1> QED
    BY <1>15, <1>16, <1>17

(* Only what was there before is left out. *)
LEMMA UniqueLaw ==
    ASSUME NEW S, NEW s \in Seq(S)
    PROVE  Unique(s) \in Seq(S) /\ Range(Unique(s)) = Range(s)
<1> DEFINE I == {n \in DOMAIN s : \A m \in 1 .. n - 1 : s[m] # s[n]}
<1>1. Unique(s) = Only(s, I)
    BY DEF Unique
<1>2. Len(s) \in Nat /\ DOMAIN s = 1 .. Len(s)
    OBVIOUS
<1>3. ASSUME NEW n \in 1 .. Len(s)
      PROVE  \E m \in I : s[m] = s[n]
    <2> DEFINE T == {k \in 1 .. Len(s) : s[k] = s[n]}
               m == MinOf(T)
    <2>1. T \subseteq Nat /\ T # {}
        BY <1>2
    <2>2. m \in T /\ \A k \in T : m <= k
        BY <2>1, LeastNumber
    <2> HIDE DEF m
    <2>3. m \in 1 .. Len(s) /\ s[m] = s[n]
        BY <2>2
    <2>4. \A k \in 1 .. m - 1 : s[k] # s[m]
        <3> SUFFICES ASSUME NEW k \in 1 .. m - 1, s[k] = s[m] PROVE FALSE
            OBVIOUS
        <3>1. k \in 1 .. Len(s) /\ k < m /\ k \in Int /\ m \in Int
            BY <1>2, <2>3
        <3>2. k \in T
            BY <2>3, <3>1
        <3> QED
            BY <2>2, <3>1, <3>2
    <2> QED
        BY <1>2, <2>3, <2>4
<1> HIDE DEF I
<1>4. I \cap (1 .. Len(s)) \subseteq 1 .. Len(s)
    OBVIOUS
<1>5. I \subseteq 1 .. Len(s)
    BY <1>2 DEF I
<1>6. {s[n] : n \in I \cap (1 .. Len(s))} = {s[n] : n \in 1 .. Len(s)}
    BY <1>3, <1>5
<1>7. Only(s, I) \in Seq(S) /\ Range(Only(s, I)) = {s[n] : n \in I \cap (1 .. Len(s))}
    BY OnlyLaw
<1> QED
    BY <1>1, <1>2, <1>6, <1>7 DEF Range

-----------------------------------------------------------------------------
(* The spelling rules                                                      *)

LEMMA VerbHeadType ==
    ASSUME NEW w \in STRING
    PROVE  VerbHead(w) \in STRING
BY RulesAssumption DEF VerbHead

Renames(p, type) ==
    /\ Len(p) > 1
    /\ \/ type = "phrasal_verb"
       \/ type = "idiom" /\ LooksLikeVerbForm(p[1])
       \/ type \notin {"phrasal_verb", "idiom"} /\ Last(p) \in Particles

(* Canonical changes the head of a phrase at most. *)
LEMMA CanonicalLaw ==
    ASSUME NEW p \in Phrase, NEW type
    PROVE  /\ Canonical(p, type) \in Phrase /\ Len(Canonical(p, type)) = Len(p)
           /\ Canonical(p, type)[1] = IF Renames(p, type) THEN VerbHead(p[1]) ELSE p[1]
           /\ \A k \in 2 .. Len(p) : Canonical(p, type)[k] = p[k]
<1>1. p \in Seq(STRING) /\ Len(p) \in Nat /\ Len(p) >= 1 /\ DOMAIN p = 1 .. Len(p)
    BY DEF Phrase
<1>2. CASE Renames(p, type)
    <2> DEFINE f == [p EXCEPT ![1] = VerbHead(@)]
    <2>1. Canonical(p, type) = f
        BY <1>2 DEF Canonical, Renames
    <2>2. p[1] \in STRING
        BY <1>1
    <2>3. PICK h \in STRING : h = VerbHead(p[1])
        BY <2>2, VerbHeadType
    <2>4. f = [p EXCEPT ![1] = h]
        BY <2>3
    <2>5. f \in Seq(STRING) /\ Len(f) = Len(p) /\ f[1] = h /\ \A k \in 2 .. Len(p) : f[k] = p[k]
        <3> HIDE DEF f
        <3>1. p \in [1 .. Len(p) -> STRING] /\ h \in STRING /\ 1 \in 1 .. Len(p) /\ Len(p) \in Nat
            BY <1>1, <2>3
        <3>2. f = [k \in 1 .. Len(p) |-> IF k = 1 THEN h ELSE p[k]]
            BY <3>1, <2>4
        <3>3. DOMAIN f = 1 .. Len(p) /\ f[1] = h /\ \A k \in 2 .. Len(p) : f[k] = p[k]
            <4>1. \A k \in 2 .. Len(p) : k \in 1 .. Len(p) /\ k # 1
                BY <3>1
            <4> QED
                BY <3>1, <3>2, <4>1
        <3>4. f \in [1 .. Len(p) -> STRING]
            BY <3>1, <3>2
        <3>5. f \in Seq(STRING) /\ Len(f) = Len(p)
            BY <3>1, <3>4
        <3> QED
            BY <3>3, <3>5
    <2> HIDE DEF f
    <2>6. f # <<>>
        BY <1>1, <2>5
    <2> QED
        BY <1>2, <2>1, <2>3, <2>5, <2>6 DEF Phrase
<1>3. CASE ~Renames(p, type)
    <2>1. Canonical(p, type) = p
        BY <1>3 DEF Canonical, Renames
    <2> QED
        BY <1>3, <2>1
<1> QED
    BY <1>2, <1>3

(* A phrase whose head would not change stays. *)
LEMMA CanonicalStays ==
    ASSUME NEW p \in Phrase, NEW type, VerbHead(p[1]) = p[1]
    PROVE  Canonical(p, type) = p
<1> DEFINE f == Canonical(p, type)
<1>1. f \in Phrase /\ Len(f) = Len(p) /\ f[1] = p[1] /\ \A k \in 2 .. Len(p) : f[k] = p[k]
    BY CanonicalLaw
<1> HIDE DEF f
<1>2. p \in Seq(STRING) /\ f \in Seq(STRING) /\ Len(p) \in Nat
    BY <1>1 DEF Phrase
<1>3. \A k \in 1 .. Len(p) : f[k] = p[k]
    <2>1. \A k \in 1 .. Len(p) : k = 1 \/ k \in 2 .. Len(p)
        BY <1>2
    <2> QED
        BY <1>1, <2>1
<1>4. f = p
    BY <1>1, <1>2, <1>3
<1> QED
    BY <1>4 DEF f

-----------------------------------------------------------------------------
(* Candidates and categories                                               *)

LEMMA RangeOfBoth ==
    ASSUME NEW S, NEW s \in Seq(S), NEW t \in Seq(S)
    PROVE  s \o t \in Seq(S) /\ Range(s \o t) = Range(s) \cup Range(t)
<1> DEFINE u == s \o t
<1>1. /\ Len(s) \in Nat /\ Len(t) \in Nat /\ DOMAIN s = 1 .. Len(s) /\ DOMAIN t = 1 .. Len(t)
      /\ u \in Seq(S) /\ Len(u) = Len(s) + Len(t)
      /\ \A k \in 1 .. Len(s) : u[k] = s[k]
      /\ \A k \in 1 .. Len(t) : u[k + Len(s)] = t[k]
    OBVIOUS
<1> HIDE DEF u
<1>2. DOMAIN u = 1 .. Len(s) + Len(t)
    BY <1>1
<1>3. ASSUME NEW k \in DOMAIN u
      PROVE  u[k] \in Range(s) \cup Range(t)
    <2>1. CASE k \in 1 .. Len(s)
        BY <1>1, <2>1 DEF Range
    <2>2. CASE k \notin 1 .. Len(s)
        <3>1. k - Len(s) \in 1 .. Len(t) /\ (k - Len(s)) + Len(s) = k
            BY <1>1, <1>2, <2>2
        <3>2. u[k] = t[k - Len(s)]
            BY <1>1, <3>1
        <3> QED
            BY <1>1, <3>1, <3>2 DEF Range
    <2> QED
        BY <2>1, <2>2
<1>4. \A k \in 1 .. Len(s) : k \in DOMAIN u
    BY <1>1, <1>2
<1>5. \A k \in 1 .. Len(t) : k + Len(s) \in DOMAIN u
    BY <1>1, <1>2
<1>6. Range(s) \subseteq Range(u)
    BY <1>1, <1>4 DEF Range
<1>7. Range(t) \subseteq Range(u)
    BY <1>1, <1>5 DEF Range
<1>8. Range(u) \subseteq Range(s) \cup Range(t)
    BY <1>3 DEF Range
<1>9. u \in Seq(S) /\ Range(u) = Range(s) \cup Range(t)
    BY <1>1, <1>6, <1>7, <1>8
<1> QED
    BY <1>9 DEF u

(* A phrase that a dictionary has, with named categories only, gets one. *)
LEMMA NamedCategory ==
    ASSUME NEW dictionary, DOMAIN dictionary \subseteq Nat, NEW p,
           \E n \in DOMAIN dictionary : dictionary[n].phrase = p,
           \A n \in DOMAIN dictionary : dictionary[n].phrase = p => dictionary[n].category # AutoAdded
    PROVE  CategoryIn(dictionary, p) # AutoAdded
<1> DEFINE at == {n \in DOMAIN dictionary : dictionary[n].phrase = p}
<1>1. at # {} /\ at \subseteq Nat
    OBVIOUS
<1>2. MinOf(at) \in at
    BY <1>1, LeastNumber
<1>3. CategoryIn(dictionary, p) = dictionary[MinOf(at)].category
    BY <1>1 DEF CategoryIn
<1> QED
    BY <1>2, <1>3

(* What a sync leaves: everything that was there, the accepted forms of several *)
(* words, each new entry with the category of the dictionary.                   *)
Forms(candidates) == {Canonical(c, "") : c \in Range(candidates)}

LEMMA SyncedLaw ==
    ASSUME NEW entries, NEW candidates, NEW dictionary
    PROVE  LET after == Synced(entries, candidates, dictionary)
           IN  /\ entries \subseteq after
               /\ \A p \in Forms(candidates) : Len(p) > 1 /\ Spelled(p) => \E e \in after : e.phrase = p
               /\ \A e \in after : e \in entries \/
                     (e.phrase \in Forms(candidates) /\ e.category = CategoryIn(dictionary, e.phrase))
<1> DEFINE after == Synced(entries, candidates, dictionary)
           knows == {e.phrase : e \in entries}
           new == Accepted(candidates, dictionary) \ knows
           entry(p) == [phrase |-> p, category |-> CategoryIn(dictionary, p)]
<1>1. after = entries \cup {entry(p) : p \in new}
    BY DEF Synced
<1>2. ASSUME NEW p \in Forms(candidates), Len(p) > 1, Spelled(p)
      PROVE  \E e \in after : e.phrase = p
    <2>1. CASE p \in knows
        <3>1. PICK e \in entries : e.phrase = p
            BY <2>1
        <3> QED
            BY <1>1, <3>1
    <2>2. CASE p \notin knows
        <3>1. p \in new
            BY <1>2, <2>2 DEF Allowed, Accepted, Forms
        <3>2. entry(p) \in after /\ entry(p).phrase = p
            BY <1>1, <3>1
        <3> QED
            BY <3>2
    <2> QED
        BY <2>1, <2>2
<1>3. ASSUME NEW e \in after, e \notin entries
      PROVE  e.phrase \in Forms(candidates) /\ e.category = CategoryIn(dictionary, e.phrase)
    <2>1. PICK p \in new : e = entry(p)
        BY <1>1, <1>3
    <2>2. p \in Forms(candidates)
        BY DEF Accepted, Forms
    <2> QED
        BY <2>1, <2>2
<1>4. entries \subseteq after
    BY <1>1
<1> HIDE DEF after
<1> QED
    BY <1>2, <1>3, <1>4 DEF after

-----------------------------------------------------------------------------
(* What the third pass makes of an answer                                  *)

(* Types as the program writes them are among those as written. *)
Typed == STRING \cup {"", "phrasal_verb", "idiom"}
Told == [form : Seq(STRING), type : Typed, full : BOOLEAN]
Listed == [form : Phrase, type : KnownTypes, full : BOOLEAN]
Said == [form : Phrase, type : {"phrasal_verb", "idiom"}]

LEMMA EmptySequence ==
    ASSUME NEW S
    PROVE  <<>> \in Seq(S)
OBVIOUS

LEMMA NotLonger ==
    ASSUME NEW p, Len(p) = 1
    PROVE  ~(Len(p) > 1)
OBVIOUS

LEMMA LengthOf ==
    ASSUME NEW S, NEW s \in Seq(S)
    PROVE  Len(s) \in Nat /\ DOMAIN s = 1 .. Len(s)
OBVIOUS

LEMMA ElementsOf ==
    ASSUME NEW S, NEW s \in Seq(S)
    PROVE  \A n \in DOMAIN s : s[n] \in S
OBVIOUS

LEMMA SequenceOf ==
    ASSUME NEW S, NEW N \in Nat, NEW f \in [1 .. N -> S]
    PROVE  f \in Seq(S) /\ Len(f) = N
OBVIOUS

(* A sequence is one of its own elements. *)
LEMMA OwnElements ==
    ASSUME NEW N \in Nat, NEW f, f = [n \in 1 .. N |-> f[n]]
    PROVE  /\ f \in Seq(Range(f)) /\ Len(f) = N /\ DOMAIN f = 1 .. N
           /\ Range(f) = {f[n] : n \in 1 .. N}
<1>1. DOMAIN f = 1 .. N
    OBVIOUS
<1>2. Range(f) = {f[n] : n \in 1 .. N}
    BY <1>1 DEF Range
<1>3. f \in [1 .. N -> Range(f)]
    BY <1>1, <1>2
<1> QED
    BY <1>1, <1>2, <1>3, SequenceOf

LEMMA LimitedLaw ==
    ASSUME NEW S, NEW s \in Seq(S)
    PROVE  Limited(s) \in Seq(S) /\ (Limited(s) = <<>> => s = <<>>)
<1>1. CASE MaxItems > 0 /\ Len(s) > MaxItems
    <2> DEFINE t == [k \in 1 .. MaxItems |-> s[k]]
    <2>1. Limited(s) = SubSeq(s, 1, MaxItems)
        BY <1>1 DEF Limited
    <2>2. MaxItems \in Nat /\ Len(s) \in Nat /\ \A k \in 1 .. Len(s) : s[k] \in S
        BY MaxItemsAssumption
    <2>3. SubSeq(s, 1, MaxItems) = [k \in 1 .. MaxItems |-> s[k]]
        BY <1>1, <2>2
    <2>4. \A k \in 1 .. MaxItems : k \in 1 .. Len(s)
        BY <1>1, <2>2
    <2>5. t \in [1 .. MaxItems -> S]
        BY <2>2, <2>4
    <2> HIDE DEF t
    <2>6. t \in Seq(S) /\ Len(t) = MaxItems
        BY <2>2, <2>5, SequenceOf
    <2>7. t # <<>>
        BY <1>1, <2>2, <2>6
    <2> QED
        BY <2>1, <2>3, <2>6, <2>7 DEF t
<1>2. CASE ~(MaxItems > 0 /\ Len(s) > MaxItems)
    BY <1>2 DEF Limited
<1> QED
    BY <1>1, <1>2

(* What is kept of the items has a type the program knows. *)
LEMMA NormalizedLaw ==
    ASSUME NEW items \in Seq(Told)
    PROVE  NormalizedItems(items) \in Seq(Said)
<1> DEFINE I == {n \in DOMAIN items : TypeOf(items[n].type) # "" /\ items[n].form # <<>>}
           U == {x \in Told : TypeOf(x.type) # "" /\ x.form # <<>>}
           kept == Only(items, I)
           said(x) == [form |-> Canonical(x.form, TypeOf(x.type)), type |-> TypeOf(x.type)]
           all == [n \in DOMAIN kept |-> said(kept[n])]
<1>1. Len(items) \in Nat /\ DOMAIN items = 1 .. Len(items) /\ \A n \in 1 .. Len(items) : items[n] \in Told
    OBVIOUS
<1>2. \A n \in I \cap (1 .. Len(items)) : items[n] \in U
    BY <1>1
<1>3. NormalizedItems(items) = Unique(all)
    BY DEF NormalizedItems, Normalized
<1> HIDE DEF I
<1>4. kept \in Seq(Told) /\ Range(kept) = {items[n] : n \in I \cap (1 .. Len(items))}
    BY OnlyLaw
<1>5. Range(kept) \subseteq U
    BY <1>2, <1>4
<1> HIDE DEF U
<1>6. PICK t \in Seq(Told) : t = kept
    BY <1>4
<1> HIDE DEF kept
<1>7. Len(t) \in Nat /\ DOMAIN t = 1 .. Len(t)
    OBVIOUS
<1>8. \A n \in 1 .. Len(t) : t[n] \in U
    BY <1>5, <1>6, <1>7 DEF Range
<1>9. ASSUME NEW x \in U
      PROVE  said(x) \in Said
    <2>1. x.form \in Phrase /\ TypeOf(x.type) \in {"phrasal_verb", "idiom"}
        BY <1>9 DEF U, Told, Phrase, TypeOf
    <2>2. Canonical(x.form, TypeOf(x.type)) \in Phrase
        BY <2>1, CanonicalLaw
    <2> QED
        BY <2>1, <2>2 DEF Said
<1> HIDE DEF said
<1>10. all \in [1 .. Len(t) -> Said]
    BY <1>6, <1>7, <1>8, <1>9
<1> HIDE DEF all
<1>11. all \in Seq(Said)
    BY <1>7, <1>10, SequenceOf
<1> QED
    BY <1>3, <1>11, UniqueLaw

(* A usable item is not lost on the way. *)
LEMMA UsableIsKept ==
    ASSUME NEW items \in Seq(Told), NormalizedItems(items) = <<>>
    PROVE  \A n \in DOMAIN items : TypeOf(items[n].type) = "" \/ items[n].form = <<>>
<1> DEFINE I == {n \in DOMAIN items : TypeOf(items[n].type) # "" /\ items[n].form # <<>>}
           kept == Only(items, I)
           said(x) == [form |-> Canonical(x.form, TypeOf(x.type)), type |-> TypeOf(x.type)]
           all == [n \in DOMAIN kept |-> said(kept[n])]
<1>1. DOMAIN items = 1 .. Len(items)
    BY LengthOf
<1>2. NormalizedItems(items) = Unique(all)
    BY DEF NormalizedItems, Normalized
<1>3. I = I \cap (1 .. Len(items))
    BY <1>1
<1>4. ASSUME NEW n \in DOMAIN items, TypeOf(items[n].type) # "", items[n].form # <<>>
      PROVE  n \in I
    BY <1>4
<1> HIDE DEF I
<1>5. kept \in Seq(Told) /\ Range(kept) = {items[n] : n \in I}
    BY <1>3, OnlyLaw
<1> HIDE DEF kept
<1>6. all = [n \in 1 .. Len(kept) |-> all[n]] /\ DOMAIN all = DOMAIN kept /\ Len(kept) \in Nat
    BY <1>5
<1> HIDE DEF said, all
<1>7. all \in Seq(Range(all))
    BY <1>6, OwnElements
<1>8. Range(all) = {}
    <2>1. Range(Unique(all)) = Range(all)
        BY <1>7, UniqueLaw
    <2>2. Range(<<>>) = {}
        BY DEF Range
    <2> QED
        BY <1>2, <2>1, <2>2
<1>9. Range(kept) = {}
    BY <1>6, <1>8 DEF Range
<1> QED
    BY <1>4, <1>5, <1>9

(* The lines of the reasoning, read one after the other. *)
Reading == [items : Seq(Listed), form : Seq(STRING), type : KnownTypes \cup {""}]
NothingRead == [items |-> <<>>, form |-> <<>>, type |-> ""]
Closed(s) ==
    IF s.form = <<>> \/ s.type = "" THEN s.items
    ELSE Append(s.items, [form |-> s.form, type |-> s.type, full |-> FALSE])
Read(s, line) ==
    CASE line.kind = "header" -> [items |-> Closed(s), form |-> line.form, type |-> line.type]
      [] line.kind = "number" -> [items |-> Closed(s), form |-> <<>>, type |-> ""]
      [] line.kind = "type" /\ s.form # <<>> -> [s EXCEPT !.type = TypeOf(line.type)]
      [] OTHER -> s
Reads(f, lines) ==
    f = [n \in 0 .. Len(lines) |-> IF n = 0 THEN NothingRead ELSE Read(f[n - 1], lines[n])]

LEMMA ClosedType ==
    ASSUME NEW s \in Reading
    PROVE  Closed(s) \in Seq(Listed)
<1>1. s.items \in Seq(Listed) /\ s.form \in Seq(STRING) /\ s.type \in KnownTypes \cup {""}
    BY DEF Reading
<1>2. CASE s.form = <<>> \/ s.type = ""
    BY <1>1, <1>2 DEF Closed
<1>3. CASE ~(s.form = <<>> \/ s.type = "")
    <2>1. s.type \in KnownTypes /\ s.form \in Phrase
        BY <1>1, <1>3 DEF Phrase
    <2>2. PICK x \in Listed : x = [form |-> s.form, type |-> s.type, full |-> FALSE]
        BY <2>1 DEF Listed
    <2>3. PICK t \in Seq(Listed) : t = s.items
        BY <1>1
    <2>4. Append(t, x) \in Seq(Listed)
        OBVIOUS
    <2> QED
        BY <1>3, <2>2, <2>3, <2>4 DEF Closed
<1> QED
    BY <1>2, <1>3

LEMMA ReadType ==
    ASSUME NEW s \in Reading, NEW line \in Line
    PROVE  Read(s, line) \in Reading
<1> DEFINE K == KnownTypes \cup {""}
<1>1. Closed(s) \in Seq(Listed)
    BY ClosedType
<1>2. TypeOf(line.type) \in K
    BY DEF TypeOf, KnownTypes
<1>3. line.form \in Seq(STRING) /\ (line.kind = "header" => line.type \in K)
    BY DEF Line
<1>4. "" \in K
    OBVIOUS
<1>5. Reading = [items : Seq(Listed), form : Seq(STRING), type : K]
    BY DEF Reading
<1> HIDE DEF K
<1>6. PICK t \in K : t = TypeOf(line.type)
    BY <1>2
<1>7. <<>> \in Seq(STRING)
    BY EmptySequence
<1>8. [s EXCEPT !.type = t] \in Reading
    BY <1>5
<1>9. line.kind = "header" => [items |-> Closed(s), form |-> line.form, type |-> line.type] \in Reading
    BY <1>1, <1>3, <1>5
<1>10. [items |-> Closed(s), form |-> <<>>, type |-> ""] \in Reading
    BY <1>1, <1>4, <1>5, <1>7
<1>11. CASE line.kind = "header"
    BY <1>9, <1>11 DEF Read
<1>12. CASE line.kind = "number"
    BY <1>10, <1>12 DEF Read
<1>13. CASE line.kind = "type" /\ s.form # <<>>
    BY <1>6, <1>8, <1>13 DEF Read
<1>14. CASE line.kind \notin {"header", "number"} /\ ~(line.kind = "type" /\ s.form # <<>>)
    BY <1>14 DEF Read
<1> QED
    BY <1>11, <1>12, <1>13, <1>14

LEMMA NothingReadType == NothingRead \in Reading
<1>1. <<>> \in Seq(Listed) /\ <<>> \in Seq(STRING)
    BY EmptySequence
<1> QED
    BY <1>1 DEF NothingRead, Reading

LEMMA ReadHasAValue ==
    ASSUME NEW lines \in Seq(Line)
    PROVE  \E f : Reads(f, lines)
<1> DEFINE N == Len(lines)
           step == [p \in Nat \X Reading |-> IF p[1] \in 1 .. N THEN Read(p[2], lines[p[1]]) ELSE p[2]]
<1>1. NothingRead \in Reading /\ N \in Nat /\ \A n \in 1 .. N : lines[n] \in Line
    BY NothingReadType
<1>2. ASSUME NEW n \in Nat, NEW s \in Reading
      PROVE  (IF n \in 1 .. N THEN Read(s, lines[n]) ELSE s) \in Reading
    BY <1>1, ReadType
<1>3. step \in [Nat \X Reading -> Reading]
    BY <1>2
<1>4. \A n \in 1 .. N : \A s \in Reading : step[<<n, s>>] = Read(s, lines[n])
    <2> TAKE n \in 1 .. N
    <2> TAKE s \in Reading
    <2>1. <<n, s>> \in Nat \X Reading /\ <<n, s>>[1] = n /\ <<n, s>>[2] = s
        BY <1>1
    <2> QED
        BY <2>1
<1> HIDE DEF step, N
<1>5. PICK f \in [0 .. N -> Reading] : Solves(f, N, NothingRead, step)
    BY <1>1, <1>3, Recursion
<1> DEFINE g == [n \in 0 .. N |-> IF n = 0 THEN NothingRead ELSE Read(f[n - 1], lines[n])]
<1>6. ASSUME NEW n \in 1 .. N
      PROVE  f[n] = Read(f[n - 1], lines[n])
    <2>1. n - 1 \in 0 .. N /\ f[n - 1] \in Reading
        BY <1>1, <1>5
    <2> QED
        BY <1>4, <1>5, <2>1 DEF Solves
<1>7. \A n \in 0 .. N : n = 0 \/ n \in 1 .. N
    BY <1>1
<1>8. \A n \in 0 .. N : f[n] = g[n]
    BY <1>5, <1>6, <1>7 DEF Solves
<1>9. f = g
    BY <1>5, <1>8
<1> QED
    BY <1>9 DEF Reads, N

LEMMA BulletsLaw ==
    ASSUME NEW lines \in Seq(Line)
    PROVE  BulletItems(lines) \in Seq(Listed)
<1> DEFINE N == Len(lines)
           f == CHOOSE f : Reads(f, lines)
<1>1. N \in Nat /\ \A n \in 1 .. N : lines[n] \in Line
    OBVIOUS
<1>2. Reads(f, lines)
    <2>1. PICK g : Reads(g, lines)
        BY ReadHasAValue
    <2> QED
        BY <2>1
<1>3. BulletItems(lines) = Closed(f[N])
    BY DEF BulletItems, Reads, Read, Closed, NothingRead
<1> HIDE DEF f, N
<1>4. \A n \in 0 .. N : f[n] = IF n = 0 THEN NothingRead ELSE Read(f[n - 1], lines[n])
    BY <1>2 DEF Reads, N
<1>5. f[0] \in Reading
    <2>1. 0 \in 0 .. N
        BY <1>1
    <2>2. f[0] = NothingRead
        BY <1>4, <2>1
    <2>3. NothingRead \in Reading
        BY NothingReadType
    <2> QED
        BY <2>2, <2>3
<1>6. ASSUME NEW n \in 1 .. N, f[n - 1] \in Reading
      PROVE  f[n] \in Reading
    <2>1. n \in 0 .. N /\ n # 0
        BY <1>1
    <2>2. f[n] = Read(f[n - 1], lines[n])
        BY <1>4, <2>1
    <2> QED
        BY <1>1, <1>6, <2>2, ReadType
<1>7. \A n \in 0 .. N : f[n] \in Reading
    <2>1. \A n \in 1 .. N : f[n - 1] \in Reading => f[n] \in Reading
        BY <1>6
    <2> QED
        BY <1>1, <1>5, <2>1, Kept
<1>8. f[N] \in Reading
    <2>1. N \in 0 .. N
        BY <1>1
    <2> QED
        BY <1>7, <2>1
<1>9. Closed(f[N]) \in Seq(Listed)
    BY <1>8, ClosedType
<1> QED
    BY <1>3, <1>9

LEMMA ItemsAreTold ==
    ASSUME NEW items \in Seq(Item)
    PROVE  items \in Seq(Told)
<1>1. Item \subseteq Told
    BY DEF Item, Told, Typed
<1>2. Len(items) \in Nat /\ items \in [1 .. Len(items) -> Item]
    OBVIOUS
<1> HIDE DEF Item, Told
<1>3. items \in [1 .. Len(items) -> Told]
    BY <1>1, <1>2
<1> QED
    BY <1>2, <1>3, SequenceOf

LEMMA ListedAreTold ==
    ASSUME NEW items \in Seq(Listed)
    PROVE  items \in Seq(Told) /\ (NormalizedItems(items) = <<>> => items = <<>>)
<1>1. Listed \subseteq Told /\ \A x \in Listed : TypeOf(x.type) # "" /\ x.form # <<>>
    BY DEF Listed, Told, Typed, KnownTypes, Phrase, TypeOf
<1>2. Len(items) \in Nat /\ items \in [1 .. Len(items) -> Listed] /\ DOMAIN items = 1 .. Len(items)
    OBVIOUS
<1>3. \A n \in DOMAIN items : items[n] \in Listed
    BY ElementsOf
<1> HIDE DEF Listed, Told
<1>4. items \in [1 .. Len(items) -> Told]
    BY <1>1, <1>2
<1>5. items \in Seq(Told)
    BY <1>2, <1>4, SequenceOf
<1>6. NormalizedItems(items) = <<>> => DOMAIN items = {}
    BY <1>1, <1>3, <1>5, UsableIsKept
<1>7. DOMAIN items = {} => items = <<>>
    OBVIOUS
<1> QED
    BY <1>5, <1>6, <1>7

(* Whatever is parsed from an answer is a sequence of items; where it has none to *)
(* keep, the answer was barren.                                                   *)
LEMMA ContentLaw ==
    ASSUME NEW content \in Content, NEW items \in ParsedContent(content)
    PROVE  items \in Seq(Told) /\ (NormalizedItems(items) = <<>> => Barren(content))
<1>1. content.items \in Seq(Item) /\ content.shape \in Shapes
    BY DEF Content
<1>2. content.items \in Seq(Told) /\ <<>> \in Seq(Told)
    BY <1>1, ItemsAreTold, EmptySequence
<1>3. CASE content.shape \in WellFormed
    BY <1>2, <1>3 DEF ParsedContent, Barren
<1>4. CASE content.shape \in {"elsewhere", "item"}
    BY <1>2, <1>4 DEF ParsedContent, Barren, WellFormed
<1>5. CASE content.shape \in {"list_in_prose", "cut_list"}
    BY <1>2, <1>5 DEF ParsedContent, Barren, WellFormed
<1>6. CASE content.shape \in {"broken", "text"}
    BY <1>6 DEF ParsedContent, WellFormed
<1> QED
    BY <1>1, <1>3, <1>4, <1>5, <1>6 DEF Shapes

(* The reasoning has something barren that stands for the content. *)
BarrenReasoning(reasoning) ==
    \/ \E n \in DOMAIN reasoning.blocks : Fenced(reasoning.blocks[n]) /\ Barren(reasoning.blocks[n])
    \/ \E n \in DOMAIN reasoning.loose : reasoning.loose[n].full /\ reasoning.loose[n].form = <<>>

(* Running text has an item for each match. *)
LEMMA LooseLaw ==
    ASSUME NEW stray \in Seq(Item), NEW loose,
           loose = Only(stray, {n \in DOMAIN stray : stray[n].full}),
           loose # <<>>, NormalizedItems(loose) = <<>>
    PROVE  \E n \in DOMAIN stray : stray[n].full /\ stray[n].form = <<>>
<1> DEFINE I == {n \in DOMAIN stray : stray[n].full}
<1>1. DOMAIN stray = 1 .. Len(stray)
    BY LengthOf
<1>2. /\ loose \in Seq(Item)
      /\ Range(loose) = {stray[n] : n \in I \cap (1 .. Len(stray))}
    BY OnlyLaw
<1>3. loose \in Seq(Told)
    BY <1>2, ItemsAreTold
<1>4. 1 \in DOMAIN loose
    BY <1>2
<1>5. loose[1] \in Range(loose)
    BY <1>4 DEF Range
<1>6. PICK n \in I : loose[1] = stray[n]
    BY <1>2, <1>5
<1>7. stray[n] \in Item /\ stray[n].full
    BY ElementsOf
<1>8. stray[n].type \in KnownTypes
    BY <1>7 DEF Item
<1>9. TypeOf(stray[n].type) # ""
    BY <1>8 DEF KnownTypes, TypeOf
<1>10. TypeOf(loose[1].type) = "" \/ loose[1].form = <<>>
    BY <1>3, <1>4, UsableIsKept
<1>11. stray[n].form = <<>>
    BY <1>6, <1>9, <1>10
<1> QED
    BY <1>7, <1>11

LEMMA ReasoningLaw ==
    ASSUME NEW response \in Response, NEW items \in ParsedReasoning(response.reasoning)
    PROVE  /\ items \in Seq(Told)
           /\ NormalizedItems(items) = <<>> => BarrenReasoning(response.reasoning)
<1> DEFINE blocks == response.reasoning.blocks
           stray == response.reasoning.loose
           lines == response.reasoning.lines
           parsed == {n \in DOMAIN blocks : Fenced(blocks[n]) /\ ParsedContent(blocks[n]) # {}}
           loose == Only(stray, {n \in DOMAIN stray : stray[n].full})
           bullets == BulletItems(lines)
<1>1. blocks \in Seq(Content) /\ stray \in Seq(Item) /\ lines \in Seq(Line)
    BY DEF Response
<1>2. items \in (CASE parsed # {} -> ParsedContent(blocks[MinOf(parsed)])
                   [] parsed = {} /\ loose # <<>> -> {loose}
                   [] parsed = {} /\ loose = <<>> /\ bullets # <<>> -> {bullets}
                   [] OTHER -> {})
    BY DEF ParsedReasoning
<1>3. BarrenReasoning(response.reasoning) <=>
        \/ \E n \in DOMAIN blocks : Fenced(blocks[n]) /\ Barren(blocks[n])
        \/ \E n \in DOMAIN stray : stray[n].full /\ stray[n].form = <<>>
    BY DEF BarrenReasoning
<1> HIDE DEF blocks, stray, lines
<1>4. CASE parsed # {}
    <2>1. parsed \subseteq Nat /\ parsed \subseteq DOMAIN blocks
        BY <1>1
    <2>2. MinOf(parsed) \in parsed
        BY <1>4, <2>1, LeastNumber
    <2>3. MinOf(parsed) \in DOMAIN blocks /\ Fenced(blocks[MinOf(parsed)])
        BY <2>2
    <2>4. blocks[MinOf(parsed)] \in Content
        BY <1>1, <2>3
    <2> HIDE DEF parsed
    <2>5. items \in ParsedContent(blocks[MinOf(parsed)])
        BY <1>2, <1>4
    <2>6. items \in Seq(Told) /\ (NormalizedItems(items) = <<>> => Barren(blocks[MinOf(parsed)]))
        BY <2>4, <2>5, ContentLaw
    <2> QED
        BY <1>3, <2>3, <2>6
<1>5. CASE parsed = {}
    <2>1. loose \in Seq(Told)
        <3>1. loose \in Seq(Item)
            BY <1>1, OnlyLaw
        <3> QED
            BY <3>1, ItemsAreTold
    <2>2. bullets \in Seq(Told) /\ (NormalizedItems(bullets) = <<>> => bullets = <<>>)
        BY <1>1, BulletsLaw, ListedAreTold
    <2>3. loose # <<>> /\ NormalizedItems(loose) = <<>>
              => \E n \in DOMAIN stray : stray[n].full /\ stray[n].form = <<>>
        BY <1>1, LooseLaw
    <2> HIDE DEF parsed, loose, bullets
    <2>4. (items = loose /\ loose # <<>>) \/ (items = bullets /\ bullets # <<>>)
        BY <1>2, <1>5
    <2> QED
        BY <1>3, <2>1, <2>2, <2>3, <2>4
<1> QED
    BY <1>4, <1>5

(* What the third pass says: nothing after a failure, else what is kept of the *)
(* items it has.                                                               *)
LEMMA ExtractedLaw ==
    ASSUME NEW response \in Response
    PROVE  /\ Extracted(response).occurrences \in Seq(Said)
           /\ (/\ Extracted(response).status = "ok"
               /\ Extracted(response).occurrences = <<>>)
              => \/ Barren(response.content)
                 \/ ParsedContent(response.content) = {} /\ BarrenReasoning(response.reasoning)
<1> DEFINE content == ParsedContent(response.content)
           parsed == IF content # {} THEN content ELSE ParsedReasoning(response.reasoning)
           items == CHOOSE i \in parsed : TRUE
           said == Limited(NormalizedItems(items))
<1>1. Extracted(response) =
        IF response.call # "answered" \/ parsed = {} THEN Failed
        ELSE [status |-> "ok", occurrences |-> said]
    BY DEF Extracted
<1>2. response.content \in Content
    BY DEF Response
<1>3. \A i \in parsed :
        /\ i \in Seq(Told)
        /\ NormalizedItems(i) = <<>> =>
               Barren(response.content) \/ (content = {} /\ BarrenReasoning(response.reasoning))
    <2>1. \A i \in content : i \in Seq(Told) /\ (NormalizedItems(i) = <<>> => Barren(response.content))
        BY <1>2, ContentLaw
    <2>2. \A i \in ParsedReasoning(response.reasoning) :
             i \in Seq(Told) /\ (NormalizedItems(i) = <<>> => BarrenReasoning(response.reasoning))
        BY ReasoningLaw
    <2> HIDE DEF content
    <2> QED
        BY <2>1, <2>2
<1> HIDE DEF content
<1>4. CASE response.call # "answered" \/ parsed = {}
    <2>1. Extracted(response) = Failed
        BY <1>1, <1>4
    <2>2. Failed.occurrences = <<>> /\ Failed.status # "ok"
        BY DEF Failed
    <2>3. <<>> \in Seq(Said)
        BY EmptySequence
    <2> QED
        BY <2>1, <2>2, <2>3
<1>5. CASE ~(response.call # "answered" \/ parsed = {})
    <2>1. items \in parsed /\ items \in Seq(Told)
        BY <1>3, <1>5
    <2> HIDE DEF items
    <2>2. NormalizedItems(items) \in Seq(Said)
        BY <2>1, NormalizedLaw
    <2>3. said \in Seq(Said) /\ (said = <<>> => NormalizedItems(items) = <<>>)
        BY <2>2, LimitedLaw
    <2> HIDE DEF said
    <2>4. Extracted(response).occurrences = said
        BY <1>1, <1>5
    <2>5. NormalizedItems(items) = <<>> =>
              Barren(response.content) \/ (content = {} /\ BarrenReasoning(response.reasoning))
        BY <1>3, <2>1
    <2> QED
        BY <2>3, <2>4, <2>5 DEF content
<1> QED
    BY <1>4, <1>5

-----------------------------------------------------------------------------
(* The answers of the language model                                       *)

(* What the third pass made of an answer. *)
Heeded(response) ==
    [status |-> Extracted(response).status, occurrences |-> Extracted(response).occurrences,
     response |-> response]
ThirdIsKept == third = NotAsked \/ \E response \in Responses : third = Heeded(response)

LEMMA ThirdIsKeptHolds == Spec => []ThirdIsKept
<1>1. Init => ThirdIsKept
    BY DEF Init, ThirdIsKept
<1>2. ThirdIsKept /\ [Next]_vars => ThirdIsKept'
    <2> SUFFICES ASSUME ThirdIsKept, [Next]_vars PROVE ThirdIsKept'
        OBVIOUS
    <2>1. CASE ThirdPass
        <3>1. PICK response \in Responses : third' = Heeded(response)
            BY <2>1 DEF ThirdPass, Heeded
        <3> QED
            BY <3>1 DEF ThirdIsKept
    <2>2. CASE BuildTable
        BY <2>2 DEF BuildTable, ThirdIsKept
    <2>3. CASE third' = third
        BY <2>3 DEF ThirdIsKept
    <2> QED
        BY <2>1, <2>2, <2>3 DEF Next, vars, ParseTokens, SecondPass, NoThirdPass, Answered
<1> QED
    BY <1>1, <1>2, PTL DEF Spec

(* Where a success without occurrences comes from. *)
LEMMA NothingIsLost ==
    ASSUME NEW response \in Responses,
           Extracted(response).status = "ok", Extracted(response).occurrences = <<>>
    PROVE  \/ Barren(response.content)
           \/ response.content.shape \notin WellFormed /\ BarrenReasoning(response.reasoning)
<1>1. response \in Response
    BY AnalysisAssumption
<1>2. response.content.shape \in WellFormed => ParsedContent(response.content) # {}
    BY DEF ParsedContent
<1> QED
    BY <1>1, <1>2, ExtractedLaw

(* Whatever the model answers, and however it wraps its items: a third pass that counts *)
(* as a success without occurrences had a content without usable items in the places    *)
(* where the program looks, or one that is no JSON next to reasoning of this kind:      *)
(* LlmThirdPassExtractor.detect.                                                        *)
THEOREM SpecNoSilentLoss == Spec => []NoSilentLoss
<1>1. ThirdIsKept => NoSilentLoss
    <2> SUFFICES ASSUME ThirdIsKept PROVE NoSilentLoss
        OBVIOUS
    <2>1. CASE third = NotAsked
        <3>1. third.status # "ok"
            BY <2>1 DEF NotAsked
        <3> QED
            BY <3>1 DEF NoSilentLoss
    <2>2. CASE third # NotAsked
        <3>1. PICK response \in Responses : third = Heeded(response)
            BY <2>2 DEF ThirdIsKept
        <3>2. /\ third.status = Extracted(response).status
              /\ third.occurrences = Extracted(response).occurrences
              /\ third.response = response
            BY <3>1 DEF Heeded
        <3> QED
            BY <3>2, NothingIsLost DEF NoSilentLoss, BarrenReasoning
    <2> QED
        BY <2>1, <2>2
<1> QED
    BY <1>1, ThirdIsKeptHolds, PTL

-----------------------------------------------------------------------------
(* The expression index                                                    *)

Indexes == {f \in UNION {[S -> Expression] : S \in SUBSET (Nat \ {0})} : IsIndex(f)}

LEMMA IndexesLaw ==
    ASSUME NEW index
    PROVE  index \in Indexes <=> IsIndex(index)
<1>1. ASSUME IsIndex(index)
      PROVE  index \in Indexes
    <2>1. index \in [DOMAIN index -> Expression] /\ DOMAIN index \in SUBSET (Nat \ {0})
        BY <1>1 DEF IsIndex
    <2> QED
        BY <1>1, <2>1 DEF Indexes
<1> QED
    BY <1>1 DEF Indexes

Pairs(e) ==
    e.separable /\ Len(e.words) = 2 /\ e.words[2] \in Particles =>
        /\ e.type = "phrasal_verb"
        /\ e.base \in {"", e.words[1]} /\ e.particle \in {"", e.words[2]}

(* An expression replaced, or added under a new id, by one whose words no other has. *)
LEMMA IndexWith ==
    ASSUME NEW index, IsIndex(index), NEW id \in Nat \ {0}, NEW entry \in Expression,
           Pairs(entry), \A n \in DOMAIN index : index[n].words = entry.words => n = id
    PROVE  IsIndex([n \in DOMAIN index \cup {id} |-> IF n = id THEN entry ELSE index[n]])
<1> DEFINE g == [n \in DOMAIN index \cup {id} |-> IF n = id THEN entry ELSE index[n]]
<1>1. /\ IsFiniteSet(DOMAIN index) /\ DOMAIN index \subseteq Nat \ {0}
      /\ index \in [DOMAIN index -> Expression]
      /\ \A i \in DOMAIN index : \A n \in DOMAIN index : index[n].words = index[i].words => n = i
      /\ \A i \in DOMAIN index : Pairs(index[i])
    BY DEF IsIndex, Pairs
<1>2. IsFiniteSet(DOMAIN index \cup {id})
    BY <1>1, FS_AddElement
<1>3. /\ DOMAIN g = DOMAIN index \cup {id} /\ g[id] = entry
      /\ \A n \in DOMAIN index : n # id => g[n] = index[n]
    OBVIOUS
<1>4. g \in [DOMAIN g -> Expression]
    BY <1>1
<1> HIDE DEF g
<1>5. ASSUME NEW i \in DOMAIN g, NEW n \in DOMAIN g, g[n].words = g[i].words
      PROVE  n = i
    <2>1. CASE i = id /\ n # id
        <3>1. n \in DOMAIN index /\ index[n].words = entry.words
            BY <1>3, <1>5, <2>1
        <3> QED
            BY <3>1, <2>1
    <2>2. CASE i # id /\ n = id
        <3>1. i \in DOMAIN index /\ index[i].words = entry.words
            BY <1>3, <1>5, <2>2
        <3> QED
            BY <3>1, <2>2
    <2>3. CASE i # id /\ n # id
        <3>1. i \in DOMAIN index /\ n \in DOMAIN index /\ index[n].words = index[i].words
            BY <1>3, <1>5, <2>3
        <3> QED
            BY <1>1, <3>1
    <2> QED
        BY <2>1, <2>2, <2>3
<1>6. \A i \in DOMAIN g : Pairs(g[i])
    BY <1>1, <1>3
<1>7. IsIndex(g)
    BY <1>1, <1>2, <1>3, <1>4, <1>5, <1>6 DEF IsIndex, Pairs
<1> QED
    BY <1>7 DEF g

(* The ids that are given out are new. *)
LEMMA NextId ==
    ASSUME NEW S, S \subseteq Nat \ {0}, IsFiniteSet(S)
    PROVE  MaxOf({0} \cup S) + 1 \in Nat \ {0} /\ MaxOf({0} \cup S) + 1 \notin S
<1>1. IsFiniteSet({0} \cup S)
    <2>1. IsFiniteSet(S \cup {0})
        BY FS_AddElement
    <2>2. S \cup {0} = {0} \cup S
        OBVIOUS
    <2> QED
        BY <2>1, <2>2
<1>2. {0} \cup S \subseteq Int /\ {0} \cup S # {}
    OBVIOUS
<1>3. MaxOf({0} \cup S) \in {0} \cup S /\ \A n \in {0} \cup S : n <= MaxOf({0} \cup S)
    BY <1>1, <1>2, Extremes
<1>4. PICK m : m = MaxOf({0} \cup S)
    OBVIOUS
<1>5. m \in {0} \cup S
    BY <1>3, <1>4
<1>6. \A n \in {0} \cup S : n <= m
    BY <1>3, <1>4
<1>7. m \in Nat /\ \A n \in S : n <= m
    BY <1>5, <1>6
<1>8. m + 1 \notin S
    BY <1>7
<1> QED
    BY <1>4, <1>7, <1>8

(* upsert_mwe_expression and upsert_mwe_sense keep the index one. *)
LEMMA LearnedLaw ==
    ASSUME NEW index, IsIndex(index), NEW occurrence \in Said, NEW upsert
    PROVE  IsIndex(Learned(index, occurrence, upsert))
<1> DEFINE form == FormOf(occurrence)
           old == {n \in DOMAIN index : index[n].words = form}
           id == IF old # {} THEN MinOf(old) ELSE MaxOf({0} \cup DOMAIN index) + 1
           verbal == occurrence.type = "phrasal_verb" /\ Len(form) >= 2
           senses == IF old = {} THEN <<>> ELSE index[id].senses
           sense == [key |-> [origin |-> "llm", of |-> form], priority |-> 10]
           all == IF upsert = "expression" \/ sense \in Range(senses) THEN senses
                  ELSE Append(senses, sense)
           base == IF verbal THEN form[1] ELSE ""
           particle == IF verbal THEN Last(form) ELSE ""
           entry == [words |-> form, type |-> occurrence.type, separable |-> FALSE, gap |-> MaxGap,
                     base |-> base, particle |-> particle, senses |-> all]
<1>1. Learned(index, occurrence, upsert) =
          [n \in DOMAIN index \cup {id} |-> IF n = id THEN entry ELSE index[n]]
    BY DEF Learned
<1>2. /\ IsFiniteSet(DOMAIN index) /\ DOMAIN index \subseteq Nat \ {0}
      /\ index \in [DOMAIN index -> Expression]
      /\ \A i \in DOMAIN index : \A n \in DOMAIN index : index[n].words = index[i].words => n = i
    BY DEF IsIndex
<1>3. form \in Phrase /\ occurrence.type \in {"phrasal_verb", "idiom"}
    <2>1. occurrence.form \in Phrase /\ occurrence.type \in {"phrasal_verb", "idiom"}
        BY DEF Said
    <2> QED
        BY <2>1, CanonicalLaw DEF FormOf
<1> HIDE DEF form
<1>4. ASSUME old # {}
      PROVE  id \in DOMAIN index /\ index[id].words = form
    <2>1. old \subseteq Nat
        BY <1>2
    <2>2. MinOf(old) \in old
        BY <1>4, <2>1, LeastNumber
    <2> QED
        BY <1>4, <2>2
<1>5. ASSUME old = {}
      PROVE  id \in Nat \ {0} /\ \A n \in DOMAIN index : index[n].words # form
    <2>1. id = MaxOf({0} \cup DOMAIN index) + 1
        BY <1>5
    <2> HIDE DEF id
    <2>2. id \in Nat \ {0} /\ id \notin DOMAIN index
        BY <1>2, <2>1, NextId
    <2>3. \A n \in DOMAIN index : index[n].words # form
        BY <1>5
    <2> QED
        BY <2>2, <2>3
<1>6. senses \in Seq([key : SenseKey, priority : Int])
    <2>1. CASE old = {}
        BY <2>1, EmptySequence
    <2>2. CASE old # {}
        <3>1. id \in DOMAIN index
            BY <1>4, <2>2
        <3> HIDE DEF id, old
        <3>2. index[id] \in Expression
            BY <1>2, <3>1
        <3>3. index[id].senses \in Seq([key : SenseKey, priority : Int])
            BY <3>2 DEF Expression
        <3> QED
            BY <2>2, <3>3
    <2> QED
        BY <2>1, <2>2
<1>7. id \in Nat \ {0} /\ \A n \in DOMAIN index : index[n].words = form => n = id
    <2> HIDE DEF id
    <2>1. CASE old # {}
        BY <1>2, <1>4, <2>1
    <2>2. CASE old = {}
        BY <1>5, <2>2
    <2> QED
        BY <2>1, <2>2
<1> HIDE DEF id, old, senses
<1>8. all \in Seq([key : SenseKey, priority : Int])
    <2>1. [origin |-> "llm", of |-> form] \in SenseKey
        BY <1>3 DEF SenseKey
    <2>2. sense \in [key : SenseKey, priority : Int]
        BY <2>1
    <2> HIDE DEF sense
    <2>3. PICK K : K = [key : SenseKey, priority : Int]
        OBVIOUS
    <2>4. Append(senses, sense) \in Seq(K)
        BY <1>6, <2>2, <2>3
    <2> QED
        BY <1>6, <2>3, <2>4
<1>9. base \in Word \cup {""} /\ particle \in Word \cup {""}
    <2>1. form \in Seq(STRING) /\ Len(form) \in Nat
        BY <1>3 DEF Phrase
    <2>2. verbal => form[1] \in STRING /\ form[Len(form)] \in STRING
        BY <2>1
    <2>3. Last(form) = form[Len(form)]
        BY DEF Last
    <2> QED
        BY <2>2, <2>3 DEF Word
<1> HIDE DEF all, base, particle
<1>10. entry \in Expression
    <2>1. MaxGap \in Nat \ {0} /\ FALSE \in BOOLEAN
        BY DetectionAssumption
    <2> QED
        BY <1>3, <1>8, <1>9, <2>1 DEF Expression
<1>11. Pairs(entry) /\ entry.words = form
    BY DEF Pairs
<1> HIDE DEF entry
<1>12. IsIndex([n \in DOMAIN index \cup {id} |-> IF n = id THEN entry ELSE index[n]])
    BY <1>7, <1>10, <1>11, IndexWith
<1> QED
    BY <1>1, <1>12

(* One occurrence after the other. *)
Teaching(index, occurrences, upserts, n) ==
    IF upserts[n] = "nothing" THEN index ELSE Learned(index, occurrences[n], upserts[n])
Teaches(f, index, occurrences, upserts) ==
    f = [n \in 0 .. Len(occurrences) |->
            IF n = 0 THEN index
            ELSE IF upserts[n] = "nothing" THEN f[n - 1]
            ELSE Learned(f[n - 1], occurrences[n], upserts[n])]

LEMMA TeachingLaw ==
    ASSUME NEW index \in Indexes, NEW occurrences \in Seq(Said), NEW upserts,
           NEW n \in 1 .. Len(occurrences)
    PROVE  Teaching(index, occurrences, upserts, n) \in Indexes
<1>1. occurrences[n] \in Said
    OBVIOUS
<1>2. IsIndex(index)
    BY IndexesLaw
<1>3. IsIndex(Learned(index, occurrences[n], upserts[n]))
    BY <1>1, <1>2, LearnedLaw
<1>4. Learned(index, occurrences[n], upserts[n]) \in Indexes
    BY <1>3, IndexesLaw
<1> QED
    BY <1>4 DEF Teaching

LEMMA TeachingHasAValue ==
    ASSUME NEW index \in Indexes, NEW occurrences \in Seq(Said), NEW upserts
    PROVE  \E f : Teaches(f, index, occurrences, upserts)
<1> DEFINE N == Len(occurrences)
           taught(i, n) == Teaching(i, occurrences, upserts, n)
           step == [p \in Nat \X Indexes |-> IF p[1] \in 1 .. N THEN taught(p[2], p[1]) ELSE p[2]]
<1>1. N \in Nat
    OBVIOUS
<1>2. \A n \in 1 .. N : \A i \in Indexes : taught(i, n) \in Indexes
    BY TeachingLaw
<1> HIDE DEF taught, N
<1>3. step \in [Nat \X Indexes -> Indexes]
    BY <1>2
<1>4. \A n \in 1 .. N : \A i \in Indexes : step[<<n, i>>] = taught(i, n)
    <2> TAKE n \in 1 .. N
    <2> TAKE i \in Indexes
    <2>1. <<n, i>> \in Nat \X Indexes /\ <<n, i>>[1] = n /\ <<n, i>>[2] = i
        BY <1>1
    <2> QED
        BY <2>1
<1> HIDE DEF step
<1>5. PICK f \in [0 .. N -> Indexes] : Solves(f, N, index, step)
    BY <1>1, <1>3, Recursion
<1> DEFINE g == [n \in 0 .. N |->
                    IF n = 0 THEN index
                    ELSE IF upserts[n] = "nothing" THEN f[n - 1]
                    ELSE Learned(f[n - 1], occurrences[n], upserts[n])]
<1>6. ASSUME NEW n \in 1 .. N
      PROVE  f[n] = taught(f[n - 1], n)
    <2>1. n - 1 \in 0 .. N /\ f[n - 1] \in Indexes
        BY <1>1, <1>5
    <2> QED
        BY <1>4, <1>5, <2>1 DEF Solves
<1>7. \A n \in 0 .. N : n = 0 \/ n \in 1 .. N
    BY <1>1
<1>8. \A n \in 0 .. N : f[n] = g[n]
    BY <1>5, <1>6, <1>7 DEF Solves, taught, Teaching
<1>9. f = g
    BY <1>5, <1>8
<1> QED
    BY <1>9 DEF Teaches, N

LEMMA LearnedAllLaw ==
    ASSUME NEW index, IsIndex(index), NEW occurrences \in Seq(Said), NEW upserts
    PROVE  IsIndex(LearnedAll(index, occurrences, upserts))
<1> DEFINE N == Len(occurrences)
           f == CHOOSE f : Teaches(f, index, occurrences, upserts)
<1>1. N \in Nat /\ index \in Indexes
    BY IndexesLaw
<1>2. Teaches(f, index, occurrences, upserts)
    <2>1. PICK g : Teaches(g, index, occurrences, upserts)
        BY <1>1, TeachingHasAValue
    <2> QED
        BY <2>1
<1>3. LearnedAll(index, occurrences, upserts) = f[N]
    BY DEF LearnedAll, Teaches
<1> HIDE DEF f
<1>4. \A n \in 0 .. N : f[n] = IF n = 0 THEN index ELSE Teaching(f[n - 1], occurrences, upserts, n)
    BY <1>2 DEF Teaches, Teaching
<1>5. f[0] \in Indexes
    <2>1. 0 \in 0 .. N
        BY <1>1
    <2> QED
        BY <1>1, <1>4, <2>1
<1>6. ASSUME NEW n \in 1 .. N, f[n - 1] \in Indexes
      PROVE  f[n] \in Indexes
    <2>1. n \in 0 .. N /\ n # 0
        BY <1>1
    <2>2. f[n] = Teaching(f[n - 1], occurrences, upserts, n)
        BY <1>4, <2>1
    <2> QED
        BY <1>6, <2>2, TeachingLaw
<1> HIDE DEF N
<1>7. \A n \in 0 .. N : f[n] \in Indexes
    <2>1. \A n \in 1 .. N : f[n - 1] \in Indexes => f[n] \in Indexes
        BY <1>6
    <2> QED
        BY <1>1, <1>5, <2>1, Kept
<1>8. f[N] \in Indexes
    <2>1. N \in 0 .. N
        BY <1>1
    <2> QED
        BY <1>7, <2>1
<1> QED
    BY <1>3, <1>8, IndexesLaw

-----------------------------------------------------------------------------
(* The text stays, and the index is one *)
Inputs == text \in Texts /\ IsIndex(store)

LEMMA InputsHold == Spec => []Inputs
<1>1. Init => Inputs
    BY AnalysisAssumption DEF Init, Inputs
<1>2. Inputs /\ [Next]_vars => Inputs'
    <2> SUFFICES ASSUME Inputs, [Next]_vars PROVE Inputs'
        OBVIOUS
    <2>1. CASE ThirdPass
        <3>1. PICK response \in Responses :
                  /\ text' = text
                  /\ \E upserts \in [DOMAIN Extracted(response).occurrences -> {"nothing", "expression", "both"}] :
                         store' = LearnedAll(store, Extracted(response).occurrences, upserts)
            BY <2>1 DEF ThirdPass
        <3>2. PICK upserts : store' = LearnedAll(store, Extracted(response).occurrences, upserts)
            BY <3>1
        <3>3. Extracted(response).occurrences \in Seq(Said)
            BY AnalysisAssumption, ExtractedLaw
        <3>4. IsIndex(store')
            BY <3>2, <3>3, LearnedAllLaw DEF Inputs
        <3> QED
            BY <3>1, <3>4 DEF Inputs, IsIndex
    <2>2. CASE text' = text /\ store' = store
        BY <2>2 DEF Inputs, IsIndex
    <2> QED
        BY <2>1, <2>2 DEF Next, vars, ParseTokens, SecondPass, NoThirdPass, BuildTable, Answered
<1> QED
    BY <1>1, <1>2, PTL DEF Spec

-----------------------------------------------------------------------------
(* What WordNet adds to the index for a text                               *)

LEMMA LeastOfTwo ==
    ASSUME NEW a \in Int, NEW b \in Int
    PROVE  /\ MinOf({a, b}) \in {a, b} /\ MinOf({a, b}) <= a /\ MinOf({a, b}) <= b
           /\ MaxOf({a, b}) \in {a, b} /\ MaxOf({a, b}) >= a /\ MaxOf({a, b}) >= b
<1>1. PICK S : S = {a, b}
    OBVIOUS
<1>2. (\E n \in S : \A m \in S : n <= m) /\ (\E n \in S : \A m \in S : n >= m)
    BY <1>1
<1>3. MinOf(S) \in S /\ \A m \in S : MinOf(S) <= m
    BY <1>2 DEF MinOf
<1>4. MaxOf(S) \in S /\ \A m \in S : MaxOf(S) >= m
    BY <1>2 DEF MaxOf
<1> QED
    BY <1>1, <1>3, <1>4

LEMMA FiniteImage ==
    ASSUME NEW S, IsFiniteSet(S), NEW f, DOMAIN f = S
    PROVE  IsFiniteSet({f[x] : x \in S})
<1> DEFINE T == {f[x] : x \in S}
           g == [x \in S |-> f[x]]
<1>1. g \in Surjection(S, T)
    BY DEF Surjection
<1> QED
    BY <1>1, FS_Surjection

IsText(t) == t.tokens \in Seq(Token) /\ t.kids \in [DOMAIN t.tokens -> SUBSET Nat]

LEMMA TextLaw ==
    ASSUME NEW t, IsText(t), NEW i \in DOMAIN t.tokens
    PROVE  /\ Len(t.tokens) \in Nat /\ DOMAIN t.tokens = 1 .. Len(t.tokens)
           /\ i \in Nat \ {0} /\ t.tokens[i] \in Token
           /\ t.tokens[i].lemma \in STRING /\ t.tokens[i].word \in STRING
           /\ t.tokens[i].lemma # "" /\ t.tokens[i].word # ""
<1>1. t.tokens \in Seq(Token)
    BY DEF IsText
<1>2. Len(t.tokens) \in Nat /\ DOMAIN t.tokens = 1 .. Len(t.tokens)
    BY <1>1
<1>3. t.tokens[i] \in Token
    BY <1>1
<1>4. t.tokens[i].lemma \in Word /\ t.tokens[i].word \in Word
    BY <1>3 DEF Token
<1>5. i \in Nat \ {0}
    BY <1>2
<1> QED
    BY <1>2, <1>3, <1>4, <1>5 DEF Word

LEMMA WindowLaw ==
    ASSUME NEW t, IsText(t), NEW i \in DOMAIN t.tokens, NEW gap \in Nat, NEW j \in Window(t, i, gap)
    PROVE  j \in DOMAIN t.tokens /\ i < j /\ j <= i + gap + 1 /\ j \in Nat
<1>1. Len(t.tokens) \in Nat /\ DOMAIN t.tokens = 1 .. Len(t.tokens) /\ i \in Nat \ {0}
    BY TextLaw
<1>2. PICK m : m = MinOf({Len(t.tokens), i + gap + 1})
    OBVIOUS
<1>3. Len(t.tokens) \in Int /\ i + gap + 1 \in Int
    BY <1>1
<1>4. m \in {Len(t.tokens), i + gap + 1} /\ m <= Len(t.tokens) /\ m <= i + gap + 1
    BY <1>3, <1>2, LeastOfTwo
<1>5. j \in i + 1 .. m
    BY <1>2 DEF Window
<1> QED
    BY <1>1, <1>4, <1>5

Stored(index) == UNION {PairOf(index[id]) : id \in DOMAIN index}
(* Pairs that the index does not have. *)
Fresh(index) == {x \in STRING \X STRING : x \notin Stored(index) /\ x[2] \in Particles}

Fits(s, t, index, i, pairs) ==
    {j \in Reach(t, i) : /\ <<t.tokens[i].lemma, t.tokens[j].word>> \notin SeenPairs(index, pairs)
                         /\ Supported(s, t.tokens[i].lemma, <<t.tokens[i].lemma, t.tokens[j].word>>)}
Grown(s, t, index, i, pairs) ==
    IF t.tokens[i].pos \notin VerbPos \/ Fits(s, t, index, i, pairs) = {} THEN pairs
    ELSE Append(pairs, <<t.tokens[i].lemma, t.tokens[MinOf(Fits(s, t, index, i, pairs))].word>>)
Grows(f, s, t, index) ==
    f = [i \in 0 .. Len(t.tokens) |-> IF i = 0 THEN <<>> ELSE Grown(s, t, index, i, f[i - 1])]

LEMMA GrownLaw ==
    ASSUME NEW s, NEW t, IsText(t), NEW index, NEW i \in DOMAIN t.tokens,
           NEW pairs \in Seq(Fresh(index))
    PROVE  Grown(s, t, index, i, pairs) \in Seq(Fresh(index))
<1> DEFINE fits == Fits(s, t, index, i, pairs)
<1>1. CASE t.tokens[i].pos \in VerbPos /\ fits # {}
    <2>1. fits \subseteq Reach(t, i) /\ Reach(t, i) \subseteq Window(t, i, MaxGap)
        BY DEF Fits, Reach
    <2>2. MaxGap \in Nat
        BY DetectionAssumption
    <2>3. \A j \in fits : j \in DOMAIN t.tokens /\ j \in Nat
        BY <2>1, <2>2, WindowLaw
    <2>4. MinOf(fits) \in fits
        <3>1. fits \subseteq Nat
            BY <2>3
        <3> QED
            BY <1>1, <3>1, LeastNumber
    <2>5. PICK j \in fits : j = MinOf(fits)
        BY <2>4
    <2> DEFINE pair == <<t.tokens[i].lemma, t.tokens[j].word>>
    <2>6. pair \notin SeenPairs(index, pairs) /\ t.tokens[j].word \in Particles
        BY DEF Fits, Reach
    <2>7. pair \notin Stored(index)
        BY <2>6 DEF SeenPairs, Stored
    <2>8. t.tokens[i].lemma \in STRING /\ t.tokens[j].word \in STRING
        BY <2>3, TextLaw
    <2>9. pair \in Fresh(index)
        BY <2>6, <2>7, <2>8 DEF Fresh
    <2>10. Grown(s, t, index, i, pairs) = Append(pairs, pair)
        BY <1>1, <2>5 DEF Grown
    <2> HIDE DEF pair
    <2> QED
        BY <2>9, <2>10
<1>2. CASE ~(t.tokens[i].pos \in VerbPos /\ fits # {})
    BY <1>2 DEF Grown
<1> QED
    BY <1>1, <1>2

LEMMA GrowthHasAValue ==
    ASSUME NEW s, NEW t, IsText(t), NEW index
    PROVE  \E f : Grows(f, s, t, index)
<1> DEFINE N == Len(t.tokens)
           D == Seq(Fresh(index))
           grown(x, i) == Grown(s, t, index, i, x)
           step == [p \in Nat \X D |-> IF p[1] \in 1 .. N THEN grown(p[2], p[1]) ELSE p[2]]
<1>1. N \in Nat /\ DOMAIN t.tokens = 1 .. N
    BY DEF IsText
<1>2. \A n \in 1 .. N : \A x \in D : grown(x, n) \in D
    BY <1>1, GrownLaw
<1>3. <<>> \in D
    BY EmptySequence
<1> HIDE DEF grown, N, D
<1>4. step \in [Nat \X D -> D]
    BY <1>2
<1>5. \A n \in 1 .. N : \A x \in D : step[<<n, x>>] = grown(x, n)
    <2> TAKE n \in 1 .. N
    <2> TAKE x \in D
    <2>1. <<n, x>> \in Nat \X D /\ <<n, x>>[1] = n /\ <<n, x>>[2] = x
        BY <1>1
    <2> QED
        BY <2>1
<1> HIDE DEF step
<1>6. PICK f \in [0 .. N -> D] : Solves(f, N, <<>>, step)
    BY <1>1, <1>3, <1>4, Recursion
<1> DEFINE g == [n \in 0 .. N |-> IF n = 0 THEN <<>> ELSE Grown(s, t, index, n, f[n - 1])]
<1>7. ASSUME NEW n \in 1 .. N
      PROVE  f[n] = grown(f[n - 1], n)
    <2>1. n - 1 \in 0 .. N /\ f[n - 1] \in D
        BY <1>1, <1>6
    <2> QED
        BY <1>5, <1>6, <2>1 DEF Solves
<1>8. \A n \in 0 .. N : n = 0 \/ n \in 1 .. N
    BY <1>1
<1>9. \A n \in 0 .. N : f[n] = g[n]
    BY <1>6, <1>7, <1>8 DEF Solves, grown
<1>10. f = g
    BY <1>6, <1>9
<1> QED
    BY <1>10 DEF Grows, N

LEMMA NewPairsLaw ==
    ASSUME NEW s, NEW t, IsText(t), NEW index
    PROVE  NewPairs(s, t, index) \in Seq(Fresh(index))
<1> DEFINE N == Len(t.tokens)
           D == Seq(Fresh(index))
           f == CHOOSE f : Grows(f, s, t, index)
<1>1. N \in Nat /\ DOMAIN t.tokens = 1 .. N
    BY DEF IsText
<1>2. Grows(f, s, t, index)
    <2>1. PICK g : Grows(g, s, t, index)
        BY GrowthHasAValue
    <2> QED
        BY <2>1
<1>3. NewPairs(s, t, index) = f[N]
    BY DEF NewPairs, Grows, Grown, Fits
<1> HIDE DEF f, D
<1>4. \A n \in 0 .. N : f[n] = IF n = 0 THEN <<>> ELSE Grown(s, t, index, n, f[n - 1])
    BY <1>2 DEF Grows
<1> HIDE DEF N
<1>5. f[0] \in D
    <2>1. 0 \in 0 .. N
        BY <1>1
    <2>2. f[0] = <<>>
        BY <1>4, <2>1
    <2> QED
        BY <2>2, EmptySequence DEF D
<1>6. ASSUME NEW n \in 1 .. N, f[n - 1] \in D
      PROVE  f[n] \in D
    <2>1. n \in 0 .. N /\ n # 0
        BY <1>1
    <2>2. f[n] = Grown(s, t, index, n, f[n - 1])
        BY <1>4, <2>1
    <2> QED
        BY <1>1, <1>6, <2>2, GrownLaw DEF D
<1>7. \A n \in 0 .. N : f[n] \in D
    <2>1. \A n \in 1 .. N : f[n - 1] \in D => f[n] \in D
        BY <1>6
    <2> QED
        BY <1>1, <1>5, <2>1, Kept
<1>8. f[N] \in D
    <2>1. N \in 0 .. N
        BY <1>1
    <2> QED
        BY <1>7, <2>1
<1> QED
    BY <1>3, <1>8 DEF D

(* The ids of the pairs are below those of the index, and none has two. *)
LEMMA VirtualIds ==
    ASSUME NEW index, IsIndex(index), NEW n \in Nat
    PROVE  VirtualId(index, n) = 0 - n
<1>1. DOMAIN index \subseteq Nat
    BY DEF IsIndex
<1>2. {0} \cup DOMAIN index \subseteq Nat /\ {0} \cup DOMAIN index # {}
    BY <1>1
<1>3. PICK m : m = MinOf({0} \cup DOMAIN index)
    OBVIOUS
<1>4. m \in Nat /\ \A k \in {0} \cup DOMAIN index : m <= k
    BY <1>2, <1>3, LeastNumber
<1>5. m = 0
    BY <1>4
<1> QED
    BY <1>3, <1>5 DEF VirtualId

LEMMA TwoWords ==
    ASSUME NEW S, NEW w \in S, NEW p \in S
    PROVE  <<w, p>> \in Seq(S) /\ Len(<<w, p>>) = 2 /\ <<w, p>> # <<>>
OBVIOUS

(* A pair that is added is a separable phrasal verb of its own two words. *)
LEMMA VirtualLaw ==
    ASSUME NEW index, NEW pair \in Fresh(index)
    PROVE  /\ Virtual(pair) \in Expression /\ Virtual(pair).words = pair
           /\ pair \notin Stored(index)
           /\ Len(pair) = 2 /\ pair[2] \in Particles /\ pair = <<pair[1], pair[2]>>
<1>1. pair \in STRING \X STRING
    BY DEF Fresh
<1>2. pair = <<pair[1], pair[2]>> /\ pair[1] \in STRING /\ pair[2] \in STRING
    BY <1>1
<1>3. PICK w \in STRING, p \in STRING : pair = <<w, p>>
    BY <1>2
<1>4. pair \notin Stored(index) /\ p \in Particles
    BY <1>3 DEF Fresh
<1>5. <<w, p>> \in Phrase /\ Len(<<w, p>>) = 2
    BY TwoWords DEF Phrase
<1>6. w \in Word \cup {""} /\ p \in Word \cup {""}
    BY DEF Word
<1>7. MaxGap \in Nat \ {0} /\ TRUE \in BOOLEAN
    BY DetectionAssumption
<1>8. <<>> \in Seq([key : SenseKey, priority : Int])
    BY EmptySequence
<1>9. PICK none \in Seq([key : SenseKey, priority : Int]) : none = <<>>
    BY <1>8
<1>10. pair[1] = w /\ pair[2] = p
    BY <1>3
<1>11. pair \in Phrase
    BY <1>3, <1>5
<1>12. Virtual(pair) = [words |-> pair, type |-> "phrasal_verb", separable |-> TRUE, gap |-> MaxGap,
                       base |-> w, particle |-> p, senses |-> none]
    BY <1>9, <1>10 DEF Virtual
<1>13. Virtual(pair) \in Expression
    <2>1. PICK type \in {"phrasal_verb", "idiom"} : type = "phrasal_verb"
        OBVIOUS
    <2>2. [words |-> pair, type |-> type, separable |-> TRUE, gap |-> MaxGap,
           base |-> w, particle |-> p, senses |-> none] \in Expression
        BY <1>6, <1>7, <1>11 DEF Expression
    <2> QED
        BY <1>12, <2>1, <2>2
<1> QED
    BY <1>3, <1>4, <1>5, <1>10, <1>12, <1>13

OnlyPairsAreAdded(all, index) ==
    \A id \in DOMAIN all : id \notin DOMAIN index => \E pair \in Fresh(index) : all[id] = Virtual(pair)

(* The index grows by fresh pairs; what it had it keeps. *)
LEMMA AugmentedLaw ==
    ASSUME NEW s, NEW t, IsText(t), NEW index, IsIndex(index)
    PROVE  LET all == Augmented(s, t, index)
           IN  /\ IsFiniteSet(DOMAIN all) /\ DOMAIN all \subseteq Int
               /\ DOMAIN index \subseteq DOMAIN all
               /\ \A id \in DOMAIN index : all[id] = index[id]
               /\ OnlyPairsAreAdded(all, index)
               /\ \A id \in DOMAIN all : all[id] \in Expression
<1> DEFINE all == Augmented(s, t, index)
           new == NewPairs(s, t, index)
           ids == {VirtualId(index, n) : n \in DOMAIN new}
           at(id) == CHOOSE n \in DOMAIN new : VirtualId(index, n) = id
<1>1. new \in Seq(Fresh(index))
    BY NewPairsLaw
<1>2. all = [id \in DOMAIN index \cup ids |-> IF id \in ids THEN Virtual(new[at(id)]) ELSE index[id]]
    BY DEF Augmented
<1> HIDE DEF new
<1>3. Len(new) \in Nat /\ DOMAIN new = 1 .. Len(new)
    BY <1>1
<1>4. /\ IsFiniteSet(DOMAIN index) /\ DOMAIN index \subseteq Nat \ {0}
      /\ index \in [DOMAIN index -> Expression]
    BY DEF IsIndex
<1>5. \A n \in DOMAIN new : VirtualId(index, n) = 0 - n
    <2>1. \A n \in DOMAIN new : n \in Nat
        BY <1>3
    <2> QED
        BY <2>1, VirtualIds
<1>6. \A id \in ids : id \in Int /\ id \notin DOMAIN index
    <2> SUFFICES ASSUME NEW n \in DOMAIN new
                 PROVE  VirtualId(index, n) \in Int /\ VirtualId(index, n) \notin DOMAIN index
        OBVIOUS
    <2>1. n \in Nat \ {0}
        BY <1>3
    <2>2. 0 - n \in Int /\ 0 - n \notin Nat
        BY <2>1
    <2> QED
        BY <1>4, <1>5, <2>2
<1>7. IsFiniteSet(ids)
    <2> DEFINE f == [n \in DOMAIN new |-> VirtualId(index, n)]
    <2>1. IsFiniteSet(1 .. Len(new))
        BY <1>3, FS_Interval
    <2>2. IsFiniteSet(DOMAIN new)
        BY <1>3, <2>1
    <2>3. DOMAIN f = DOMAIN new
        OBVIOUS
    <2>4. IsFiniteSet({f[n] : n \in DOMAIN new})
        <3> HIDE DEF f
        <3> QED
            BY <2>2, <2>3, FiniteImage
    <2>5. {f[n] : n \in DOMAIN new} = ids
        OBVIOUS
    <2> QED
        BY <2>4, <2>5
<1>8. \A id \in ids : new[at(id)] \in Fresh(index)
    <2> SUFFICES ASSUME NEW id \in ids
                 PROVE  new[at(id)] \in Fresh(index)
        OBVIOUS
    <2>1. \E n \in DOMAIN new : VirtualId(index, n) = id
        OBVIOUS
    <2>2. at(id) \in DOMAIN new
        BY <2>1
    <2> HIDE DEF at
    <2> QED
        BY <1>1, <2>2
<1> HIDE DEF all, ids, at
<1>9. IsFiniteSet(DOMAIN all) /\ DOMAIN all = DOMAIN index \cup ids
    <2>1. DOMAIN all = DOMAIN index \cup ids
        BY <1>2
    <2> QED
        BY <1>4, <1>7, <2>1, FS_Union
<1>10. \A id \in DOMAIN index : all[id] = index[id]
    BY <1>2, <1>6
<1>11. ASSUME NEW id \in DOMAIN all, id \notin DOMAIN index
       PROVE  \E pair \in Fresh(index) : all[id] = Virtual(pair)
    <2>1. id \in ids
        BY <1>9, <1>11
    <2>2. all[id] = Virtual(new[at(id)])
        BY <1>2, <2>1
    <2> QED
        BY <1>8, <2>1, <2>2
<1>12. \A id \in DOMAIN all : all[id] \in Expression
    BY <1>4, <1>10, <1>11, VirtualLaw
<1>13. DOMAIN all \subseteq Int
    BY <1>4, <1>6, <1>9
<1> QED
    BY <1>9, <1>10, <1>11, <1>12, <1>13 DEF all, OnlyPairsAreAdded

-----------------------------------------------------------------------------
(* The candidates                                                          *)

(* What a candidate is, whichever way it was found. *)
IsCandidate(c, t, all) ==
    /\ c.id \in DOMAIN all /\ c.from \in DOMAIN t.tokens /\ c.to \in DOMAIN t.tokens
    /\ c.from <= c.to /\ c.score \in Int
    /\ c.boosted \in BOOLEAN /\ c.idiom \in BOOLEAN /\ c.separable \in BOOLEAN /\ c.separated \in BOOLEAN

LEMMA CandidateLaw ==
    ASSUME NEW e \in Expression, NEW id, NEW i, NEW j, NEW score, NEW source
    PROVE  LET c == Candidate(e, id, i, j, score, source)
           IN  /\ c.id = id /\ c.from = i /\ c.to = j /\ c.score = score
               /\ c.boosted \in BOOLEAN /\ c.idiom \in BOOLEAN /\ c.separable \in BOOLEAN
               /\ c.separated = (source # "contiguous") /\ c.separated \in BOOLEAN
<1>1. e.separable \in BOOLEAN
    BY DEF Expression
<1> QED
    BY <1>1 DEF Candidate

LEMMA ContiguousLaw ==
    ASSUME NEW t, IsText(t), NEW all, \A id \in DOMAIN all : all[id] \in Expression,
           NEW c \in Contiguous(t, all)
    PROVE  /\ IsCandidate(c, t, all) /\ ~c.separated
           /\ c = Candidate(all[c.id], c.id, c.from, c.from + Len(all[c.id].words) - 1, 0, "contiguous")
<1>1. PICK id \in DOMAIN all, i \in DOMAIN t.tokens :
          /\ i + Len(all[id].words) - 1 <= Len(t.tokens)
          /\ c = Candidate(all[id], id, i, i + Len(all[id].words) - 1, 0, "contiguous")
    BY DEF Contiguous
<1>2. all[id] \in Expression
    OBVIOUS
<1>3. Len(all[id].words) \in Nat /\ Len(all[id].words) >= 1
    <2>1. all[id].words \in Phrase
        BY <1>2 DEF Expression
    <2> QED
        BY <2>1 DEF Phrase
<1>4. Len(t.tokens) \in Nat /\ DOMAIN t.tokens = 1 .. Len(t.tokens) /\ i \in Nat \ {0}
    BY TextLaw
<1>5. PICK j : j = i + Len(all[id].words) - 1
    OBVIOUS
<1>6. j \in DOMAIN t.tokens /\ i <= j
    BY <1>1, <1>3, <1>4, <1>5
<1>7. c.id = id /\ c.from = i /\ c.to = j /\ c.score = 0 /\ c.separated = FALSE
      /\ c.boosted \in BOOLEAN /\ c.idiom \in BOOLEAN /\ c.separable \in BOOLEAN
    BY <1>1, <1>2, <1>5, CandidateLaw
<1>8. IsCandidate(c, t, all) /\ ~c.separated
    <2>1. /\ c.id \in DOMAIN all /\ c.from \in DOMAIN t.tokens /\ c.to \in DOMAIN t.tokens
          /\ c.from <= c.to /\ c.score \in Int
        BY <1>6, <1>7
    <2>2. c.separated \in BOOLEAN /\ ~c.separated
        BY <1>7
    <2> QED
        BY <1>7, <2>1, <2>2 DEF IsCandidate
<1>9. c = Candidate(all[c.id], c.id, c.from, c.from + Len(all[c.id].words) - 1, 0, "contiguous")
    BY <1>1, <1>7
<1> QED
    BY <1>8, <1>9

LEMMA WordnetScoreType ==
    ASSUME NEW s, NEW verb, NEW particle, NEW e
    PROVE  WordnetScore(s, verb, particle, e) \in Int
<1> DEFINE alike == Alike(s, verb.lemma, e.words)
           near == IF e.particle = particle.word THEN MinOf({99, alike + 4}) ELSE alike
<1>1. alike \in Int
    BY DetectionAssumption DEF Alike
<1>2. WordnetScore(s, verb, particle, e) =
        IF e.type # "phrasal_verb" \/ ~Sees(s, e.words) \/ alike = 0 THEN 0
        ELSE IF "complete" \in Synonyms[e.words] THEN MaxOf({near, MinOf({99, alike + 6})})
        ELSE near
    BY DEF WordnetScore
<1> HIDE DEF alike
<1>3. MinOf({99, alike + 4}) \in Int /\ MinOf({99, alike + 6}) \in Int
    <2>1. MinOf({99, alike + 4}) \in {99, alike + 4}
        BY <1>1, LeastOfTwo
    <2>2. MinOf({99, alike + 6}) \in {99, alike + 6}
        BY <1>1, LeastOfTwo
    <2> QED
        BY <1>1, <2>1, <2>2
<1>4. near \in Int
    BY <1>1, <1>3
<1> HIDE DEF near
<1>5. MaxOf({near, MinOf({99, alike + 6})}) \in Int
    <2>1. PICK m \in Int : m = MinOf({99, alike + 6})
        BY <1>3
    <2>2. MaxOf({near, m}) \in {near, m}
        BY <1>4, LeastOfTwo
    <2> QED
        BY <1>4, <2>1, <2>2
<1> QED
    BY <1>2, <1>4, <1>5

LEMMA TrfScoreType ==
    ASSUME NEW loaded, NEW verb, NEW e
    PROVE  SemanticTrfScore(loaded, verb, e) \in Int
BY DetectionAssumption DEF SemanticTrfScore

LEMMA BestScoreType ==
    ASSUME NEW a \in Int, NEW b \in Int
    PROVE  MaxOf({0, a, b}) \in Int /\ MaxOf({0, a, b}) >= a
<1>1. PICK S : S = {0, a, b}
    OBVIOUS
<1>2. S # {} /\ S \subseteq Int
    BY <1>1
<1>3. \E n \in S : \A m \in S : n >= m
    BY <1>1
<1>4. MaxOf(S) \in S /\ \A m \in S : MaxOf(S) >= m
    BY <1>3 DEF MaxOf
<1> QED
    BY <1>1, <1>2, <1>4

(* Of an expression at a verb and a particle there is one candidate at most. *)
LEMMA SeparatedLaw ==
    ASSUME NEW s, NEW loaded, NEW t, IsText(t), NEW all, NEW id \in DOMAIN all, all[id] \in Expression,
           NEW i \in DOMAIN t.tokens, NEW j \in DOMAIN t.tokens, i <= j,
           NEW c \in Separated(s, loaded, t, all, id, i, j)
    PROVE  /\ IsCandidate(c, t, all) /\ c.separated /\ c.id = id /\ c.from = i /\ c.to = j
           /\ Separated(s, loaded, t, all, id, i, j) = {c}
<1> DEFINE particle == t.tokens[j]
           wordnet == WordnetScore(s, t.tokens[i], particle, all[id])
           trf == SemanticTrfScore(loaded, t.tokens[i], all[id])
           score == MaxOf({0, wordnet, trf})
           is(source) == Candidate(all[id], id, i, j, score, source)
           set == Separated(s, loaded, t, all, id, i, j)
<1>1. score \in Int
    BY WordnetScoreType, TrfScoreType, BestScoreType
<1>2. set = CASE Loose(particle) /\ trf >= TrfThreshold -> {is("spacy_trf_semantic")}
              [] Loose(particle) /\ trf < TrfThreshold /\ wordnet >= WordnetThreshold
                   -> {is("second_pass_spacy_semantic")}
              [] ~Loose(particle) /\ ~Tight(particle) /\ score = 0 -> {}
              [] OTHER -> {is("separable")}
    BY DEF Separated
<1> HIDE DEF is, score, trf, wordnet, particle, set
<1>3. set \in {{is("spacy_trf_semantic")}, {is("second_pass_spacy_semantic")}, {}, {is("separable")}}
    BY <1>2 DEF TrfThreshold, WordnetThreshold
<1>4. c \in set
    BY DEF set
<1>5. PICK source \in {"spacy_trf_semantic", "second_pass_spacy_semantic", "separable"} :
          c = is(source) /\ set = {c}
    BY <1>3, <1>4
<1>6. /\ c.id = id /\ c.from = i /\ c.to = j /\ c.score = score /\ c.separated = TRUE
      /\ c.boosted \in BOOLEAN /\ c.idiom \in BOOLEAN /\ c.separable \in BOOLEAN
    BY <1>5, CandidateLaw DEF is
<1> QED
    BY <1>1, <1>5, <1>6 DEF IsCandidate, set

LEMMA ParticleLaw ==
    ASSUME NEW t, IsText(t), NEW i \in DOMAIN t.tokens, NEW particle,
           NEW j \in ParticleOf(t, i, particle)
    PROVE  j \in Window(t, i, MaxGap) /\ t.tokens[j].word = particle
<1> DEFINE near == {k \in Window(t, i, MaxGap) : t.tokens[k].word = particle}
           children == near \cap t.kids[i]
           tagged == {k \in near : Tight(t.tokens[k]) \/ Loose(t.tokens[k])}
<1>1. ParticleOf(t, i, particle) =
        IF children # {} THEN {MinOf(children)} ELSE IF tagged # {} THEN {MinOf(tagged)} ELSE {}
    BY DEF ParticleOf
<1>2. near \subseteq Nat
    BY WindowLaw, DetectionAssumption
<1>3. children \subseteq near /\ tagged \subseteq near
    OBVIOUS
<1> HIDE DEF children, tagged
<1>4. children # {} => MinOf(children) \in near
    BY <1>2, <1>3, LeastNumber
<1>5. tagged # {} => MinOf(tagged) \in near
    BY <1>2, <1>3, LeastNumber
<1>6. j \in near
    BY <1>1, <1>4, <1>5
<1> QED
    BY <1>6

Alone(s, loaded, t, all, c) == Separated(s, loaded, t, all, c.id, c.from, c.to) = {c}

LEMMA SeparableLaw ==
    ASSUME NEW s, NEW loaded, NEW t, IsText(t), NEW all, \A id \in DOMAIN all : all[id] \in Expression,
           NEW c \in Separable(s, loaded, t, all)
    PROVE  /\ IsCandidate(c, t, all) /\ c.separated
           /\ Alone(s, loaded, t, all, c)
<1>1. PICK id \in DOMAIN all, i \in DOMAIN t.tokens :
          \E j \in UNION {ParticleOf(t, i, pair[2]) : pair \in
                            {p \in PairOf(all[id]) : p[1] = t.tokens[i].lemma}} :
              c \in IF j - i - 1 > all[id].gap THEN {} ELSE Separated(s, loaded, t, all, id, i, j)
    BY DEF Separable
<1>2. PICK pair \in PairOf(all[id]) :
          \E j \in ParticleOf(t, i, pair[2]) :
              c \in IF j - i - 1 > all[id].gap THEN {} ELSE Separated(s, loaded, t, all, id, i, j)
    BY <1>1
<1>3. PICK j \in ParticleOf(t, i, pair[2]) : c \in Separated(s, loaded, t, all, id, i, j)
    BY <1>2
<1>4. MaxGap \in Nat
    BY DetectionAssumption
<1>5. j \in DOMAIN t.tokens /\ i < j
    BY <1>3, <1>4, ParticleLaw, WindowLaw
<1>6. i \in Nat /\ j \in Nat
    BY <1>5, TextLaw
<1>7. i <= j /\ all[id] \in Expression
    BY <1>5, <1>6
<1>8. /\ IsCandidate(c, t, all) /\ c.separated /\ c.id = id /\ c.from = i /\ c.to = j
      /\ Separated(s, loaded, t, all, id, i, j) = {c}
    BY <1>3, <1>5, <1>7, SeparatedLaw
<1> QED
    BY <1>8 DEF Alone

(* A candidate is known by its expression, its place and how it was found. *)
Key(c) == <<<<c.id, c.from>>, <<c.to, c.separated>>>>

LEMMA FoundLaw ==
    ASSUME NEW s, NEW loaded, NEW t, IsText(t), NEW all, \A id \in DOMAIN all : all[id] \in Expression
    PROVE  LET found == Found(s, loaded, t, all)
           IN  /\ \A c \in found : IsCandidate(c, t, all)
               /\ \A c, d \in found : Key(c) = Key(d) => c = d
<1> DEFINE found == Found(s, loaded, t, all)
<1>1. ASSUME NEW c \in found
      PROVE  /\ IsCandidate(c, t, all)
             /\ \/ ~c.separated /\ c \in Contiguous(t, all)
                \/ c.separated /\ c \in Separable(s, loaded, t, all)
    <2>1. CASE c \in Contiguous(t, all)
        BY <2>1, ContiguousLaw
    <2>2. CASE c \in Separable(s, loaded, t, all)
        BY <2>2, SeparableLaw
    <2> QED
        BY <2>1, <2>2 DEF Found
<1>2. ASSUME NEW c \in found, NEW d \in found, Key(c) = Key(d)
      PROVE  c = d
    <2>1. c.id = d.id /\ c.from = d.from /\ c.to = d.to /\ c.separated = d.separated
        BY <1>2 DEF Key
    <2>2. CASE c.separated
        <3>1. c \in Separable(s, loaded, t, all) /\ d \in Separable(s, loaded, t, all)
            BY <1>1, <2>1, <2>2
        <3>2. Alone(s, loaded, t, all, c)
            BY <3>1, SeparableLaw
        <3>3. Alone(s, loaded, t, all, d)
            BY <3>1, SeparableLaw
        <3> QED
            BY <2>1, <3>2, <3>3 DEF Alone
    <2>3. CASE ~c.separated
        <3>1. c \in Contiguous(t, all) /\ d \in Contiguous(t, all)
            BY <1>1, <2>1, <2>3
        <3>2. c = Candidate(all[c.id], c.id, c.from, c.from + Len(all[c.id].words) - 1, 0, "contiguous")
            BY <3>1, ContiguousLaw
        <3>3. d = Candidate(all[d.id], d.id, d.from, d.from + Len(all[d.id].words) - 1, 0, "contiguous")
            BY <3>1, ContiguousLaw
        <3> QED
            BY <2>1, <3>2, <3>3
    <2> QED
        BY <2>2, <2>3
<1> QED
    BY <1>1, <1>2

LEMMA FoundIsFinite ==
    ASSUME NEW s, NEW loaded, NEW t, IsText(t), NEW all, \A id \in DOMAIN all : all[id] \in Expression,
           IsFiniteSet(DOMAIN all)
    PROVE  IsFiniteSet(Found(s, loaded, t, all))
<1> DEFINE found == Found(s, loaded, t, all)
           P == DOMAIN t.tokens
           A == (DOMAIN all) \X P
           B == P \X BOOLEAN
           f == [c \in found |-> Key(c)]
<1>1. /\ \A c \in found : IsCandidate(c, t, all)
      /\ \A c, d \in found : Key(c) = Key(d) => c = d
    BY FoundLaw
<1>2. Len(t.tokens) \in Nat /\ P = 1 .. Len(t.tokens)
    BY DEF IsText
<1>3. IsFiniteSet(1 .. Len(t.tokens))
    BY <1>2, FS_Interval
<1>4. IsFiniteSet(P)
    BY <1>2, <1>3
<1>5. IsFiniteSet(BOOLEAN)
    <2>1. IsFiniteSet({} \cup {TRUE})
        BY FS_EmptySet, FS_AddElement
    <2>2. IsFiniteSet(({} \cup {TRUE}) \cup {FALSE})
        BY <2>1, FS_AddElement
    <2>3. BOOLEAN = ({} \cup {TRUE}) \cup {FALSE}
        OBVIOUS
    <2> QED
        BY <2>2, <2>3
<1> HIDE DEF P, found
<1>6. IsFiniteSet(A) /\ IsFiniteSet(B)
    BY <1>4, <1>5, FS_Product
<1>7. IsFiniteSet(A \X B)
    <2> HIDE DEF A, B
    <2> QED
        BY <1>6, FS_Product
<1>8. \A c \in found : Key(c) \in A \X B
    BY <1>1 DEF Key, IsCandidate, P
<1> HIDE DEF A, B
<1>9. f \in Injection(found, A \X B)
    <2>1. f \in [found -> A \X B]
        BY <1>8
    <2>2. \A c \in found : f[c] = Key(c)
        OBVIOUS
    <2>3. DOMAIN f = found
        OBVIOUS
    <2> HIDE DEF f
    <2>4. IsInjective(f)
        BY <1>1, <2>2, <2>3 DEF IsInjective
    <2> QED
        BY <2>1, <2>4 DEF Injection
<1> HIDE DEF f
<1>10. IsFiniteSet(found)
    BY <1>7, <1>9, FS_Injection
<1> QED
    BY <1>10 DEF found

-----------------------------------------------------------------------------
(* The choice among overlapping candidates                                 *)

(* Tuples of numbers are ordered by the first place where they differ. *)
LEMMA TuplesAreOrdered ==
    ASSUME NEW N \in Nat, NEW s \in [1 .. N -> Int], NEW t \in [1 .. N -> Int], NEW u \in [1 .. N -> Int]
    PROVE  /\ ~Exceeds(s, s)
           /\ Exceeds(s, t) /\ Exceeds(t, u) => Exceeds(s, u)
           /\ s # t => Exceeds(s, t) \/ Exceeds(t, s)
<1>1. ~Exceeds(s, s)
    BY DEF Exceeds
<1>2. ASSUME Exceeds(s, t), Exceeds(t, u)
      PROVE  Exceeds(s, u)
    <2>1. PICK a \in 1 .. N : s[a] > t[a] /\ \A m \in 1 .. a - 1 : s[m] = t[m]
        BY <1>2 DEF Exceeds
    <2>2. PICK b \in 1 .. N : t[b] > u[b] /\ \A m \in 1 .. b - 1 : t[m] = u[m]
        BY <1>2 DEF Exceeds
    <2>3. CASE a < b
        <3>1. a \in 1 .. b - 1 /\ \A m \in 1 .. a - 1 : m \in 1 .. b - 1
            BY <2>3
        <3>2. s[a] > u[a] /\ \A m \in 1 .. a - 1 : s[m] = u[m]
            BY <2>1, <2>2, <3>1
        <3> QED
            BY <3>2 DEF Exceeds
    <2>4. CASE a = b
        <3>1. s[a] > u[a] /\ \A m \in 1 .. a - 1 : s[m] = u[m]
            BY <2>1, <2>2, <2>4
        <3> QED
            BY <3>1 DEF Exceeds
    <2>5. CASE a > b
        <3>1. b \in 1 .. a - 1 /\ \A m \in 1 .. b - 1 : m \in 1 .. a - 1
            BY <2>5
        <3>2. s[b] > u[b] /\ \A m \in 1 .. b - 1 : s[m] = u[m]
            BY <2>1, <2>2, <3>1
        <3> QED
            BY <3>2 DEF Exceeds
    <2> QED
        BY <2>3, <2>4, <2>5
<1>3. ASSUME s # t
      PROVE  Exceeds(s, t) \/ Exceeds(t, s)
    <2> DEFINE D == {k \in 1 .. N : s[k] # t[k]}
    <2>1. D # {} /\ D \subseteq Nat
        <3>1. CASE \A k \in 1 .. N : s[k] = t[k]
            BY <1>3, <3>1
        <3>2. CASE ~ \A k \in 1 .. N : s[k] = t[k]
            <4>1. PICK k \in 1 .. N : s[k] # t[k]
                BY <3>2
            <4>2. k \in D
                BY <4>1
            <4>3. D \subseteq Nat
                OBVIOUS
            <4> QED
                BY <4>2, <4>3
        <3> QED
            BY <3>1, <3>2
    <2>2. MinOf(D) \in D /\ \A k \in D : MinOf(D) <= k
        BY <2>1, LeastNumber
    <2>3. PICK a : a = MinOf(D)
        OBVIOUS
    <2>4. a \in 1 .. N /\ s[a] # t[a]
        BY <2>2, <2>3
    <2>5. \A m \in 1 .. a - 1 : s[m] = t[m]
        <3> SUFFICES ASSUME NEW m \in 1 .. a - 1, s[m] # t[m] PROVE FALSE
            OBVIOUS
        <3>1. m \in D /\ m < a /\ m \in Int /\ a \in Int
            BY <2>4
        <3> HIDE DEF D
        <3> QED
            BY <2>2, <2>3, <3>1
    <2>6. s[a] > t[a] \/ t[a] > s[a]
        BY <2>4
    <2> QED
        BY <2>4, <2>5, <2>6 DEF Exceeds
<1> QED
    BY <1>1, <1>2, <1>3

LEMMA MeritLaw ==
    ASSUME NEW t, IsText(t), NEW all, DOMAIN all \subseteq Int, NEW c, IsCandidate(c, t, all)
    PROVE  Merit(c) \in [1 .. 8 -> Int]
<1>1. \A b \in BOOLEAN : Bit(b) \in Int
    BY DEF Bit
<1>2. /\ c.boosted \in BOOLEAN /\ c.idiom \in BOOLEAN /\ c.separable \in BOOLEAN /\ c.separated \in BOOLEAN
      /\ c.from \in DOMAIN t.tokens /\ c.to \in DOMAIN t.tokens /\ c.score \in Int /\ c.id \in Int
    BY DEF IsCandidate
<1>3. PICK b1 \in Int : b1 = Bit(c.boosted)
    BY <1>1, <1>2
<1>4. PICK b2 \in Int : b2 = Bit(c.idiom)
    BY <1>1, <1>2
<1>5. PICK b3 \in Int : b3 = Bit(c.separable)
    BY <1>1, <1>2
<1>6. PICK b4 \in Int : b4 = Bit(c.separated)
    BY <1>1, <1>2
<1>7. \A i \in DOMAIN t.tokens : i \in Int
    <2> SUFFICES ASSUME NEW i \in DOMAIN t.tokens PROVE i \in Int
        OBVIOUS
    <2>1. i \in Nat \ {0}
        BY TextLaw
    <2> QED
        BY <2>1
<1>8. c.from \in Int /\ c.to \in Int
    BY <1>2, <1>7
<1>9. Merit(c) = <<c.to - c.from, b1, c.score, b2, b3, -b4, -c.from, -c.id>>
    BY <1>3, <1>4, <1>5, <1>6 DEF Merit
<1>10. <<c.to - c.from, b1, c.score, b2, b3, -b4, -c.from, -c.id>> \in [1 .. 8 -> Int]
    BY <1>2, <1>8
<1> QED
    BY <1>9, <1>10

(* The set that _dedupe_overlaps keeps exists: it is what it is said to be. *)
LEMMA TakenLaw ==
    ASSUME NEW found, IsFiniteSet(found), \A c \in found : Merit(c) \in [1 .. 8 -> Int]
    PROVE  /\ Taken(found) \in SUBSET found
           /\ \A c \in found :
                c \in Taken(found) <=>
                    \A d \in Taken(found) : Exceeds(Merit(d), Merit(c)) => ~Overlap(c, d)
<1>1. PICK better : better = {p \in found \X found : Exceeds(Merit(p[1]), Merit(p[2]))}
    OBVIOUS
<1>2. PICK meets : meets = {p \in found \X found : Overlap(p[1], p[2])}
    OBVIOUS
<1>3. \A c, d \in found : /\ <<c, d>> \in better <=> Exceeds(Merit(c), Merit(d))
                          /\ <<c, d>> \in meets <=> Overlap(c, d)
    BY <1>1, <1>2
<1>4. Orders(better, found)
    <2>1. \A c \in found : <<c, c>> \notin better
        BY <1>3, TuplesAreOrdered
    <2>2. ASSUME NEW c \in found, NEW d \in found, NEW e \in found,
                 <<c, d>> \in better, <<d, e>> \in better
          PROVE  <<c, e>> \in better
        <3>1. Exceeds(Merit(c), Merit(d)) /\ Exceeds(Merit(d), Merit(e))
            BY <1>3, <2>2
        <3>2. Exceeds(Merit(c), Merit(e))
            BY <3>1, TuplesAreOrdered
        <3> QED
            BY <1>3, <3>2
    <2> QED
        BY <2>1, <2>2 DEF Orders
<1>5. PICK K \in SUBSET found : Settles(K, found, better, meets)
    BY <1>4, SelectionExists
<1>6. \A c \in found : c \in K <=> \A d \in K : <<d, c>> \in better => <<c, d>> \notin meets
    BY <1>5 DEF Settles
<1>7. \A c \in found : c \in K <=> \A d \in K : Exceeds(Merit(d), Merit(c)) => ~Overlap(c, d)
    BY <1>3, <1>6
<1> DEFINE right(taken) == \A c \in found :
               c \in taken <=> \A d \in taken : Exceeds(Merit(d), Merit(c)) => ~Overlap(c, d)
<1>8. right(K)
    BY <1>7
<1>9. Taken(found) = CHOOSE taken \in SUBSET found : right(taken)
    BY DEF Taken
<1> HIDE DEF right
<1>10. Taken(found) \in SUBSET found /\ right(Taken(found))
    BY <1>8, <1>9
<1> QED
    BY <1>10 DEF right

(* What is selected was found, and of each thing that was found something that *)
(* overlaps it is selected, be it itself.                                       *)
LEMMA SelectedLaw ==
    ASSUME NEW found, IsFiniteSet(found), \A c \in found : Merit(c) \in [1 .. 8 -> Int],
           \A c \in found : c.from \in Nat \ {0}
    PROVE  /\ Selected(found) \in Seq(found)
           /\ \A c \in Taken(found) : \E n \in DOMAIN Selected(found) : Selected(found)[n].from = c.from
           /\ \A n \in DOMAIN Selected(found) : Selected(found)[n] \in Taken(found)
<1> DEFINE taken == Taken(found)
           I == {c.from : c \in taken}
           starts == Ascending(I)
           pick(x) == CHOOSE c \in taken : c.from = x
<1>1. taken \in SUBSET found
    BY TakenLaw
<1>2. Selected(found) = [n \in DOMAIN starts |-> pick(starts[n])]
    BY DEF Selected
<1>3. IsFiniteSet(taken)
    BY <1>1, FS_Subset
<1> HIDE DEF taken
<1>4. IsFiniteSet(I)
    <2> DEFINE f == [c \in taken |-> c.from]
    <2>1. DOMAIN f = taken /\ {f[c] : c \in taken} = I
        OBVIOUS
    <2>2. IsFiniteSet({f[c] : c \in taken})
        <3>1. DOMAIN f = taken
            BY <2>1
        <3> HIDE DEF f
        <3> QED
            BY <1>3, <3>1, FiniteImage
    <2> QED
        BY <2>1, <2>2
<1>5. I \subseteq Nat \ {0}
    BY <1>1
<1>6. \A x \in I : pick(x) \in taken /\ pick(x).from = x
    OBVIOUS
<1>7. \A c \in taken : c.from \in I
    OBVIOUS
<1> HIDE DEF I, pick
<1>8. starts \in Seq(I) /\ Range(starts) = I
    BY <1>4, <1>5, AscendingLaw
<1> HIDE DEF starts
<1>9. Len(starts) \in Nat /\ DOMAIN starts = 1 .. Len(starts) /\ \A n \in 1 .. Len(starts) : starts[n] \in I
    BY <1>8
<1>10. PICK q : q = [n \in DOMAIN starts |-> pick(starts[n])]
    OBVIOUS
<1>11. DOMAIN q = 1 .. Len(starts)
    BY <1>9, <1>10
<1>12. \A n \in 1 .. Len(starts) : q[n] \in taken /\ q[n].from = starts[n]
    BY <1>6, <1>9, <1>10
<1>13. q \in Seq(found)
    <2>1. q \in [1 .. Len(starts) -> found]
        BY <1>1, <1>9, <1>10, <1>12
    <2> QED
        BY <1>9, <2>1, SequenceOf
<1>14. ASSUME NEW c \in taken
       PROVE  \E n \in DOMAIN q : q[n].from = c.from
    <2>1. c.from \in Range(starts)
        BY <1>7, <1>8
    <2>2. PICK n \in DOMAIN starts : starts[n] = c.from
        BY <2>1 DEF Range
    <2> QED
        BY <1>9, <1>11, <1>12, <2>2
<1>15. Selected(found) = q
    BY <1>2, <1>10
<1> QED
    BY <1>11, <1>12, <1>13, <1>14, <1>15 DEF taken

-----------------------------------------------------------------------------
(* What the second pass says                                               *)

Report(s, loaded, t, index) ==
    LET all == Augmented(s, t, index)
    IN  [status |-> "ok",
         occurrences |-> Disambiguated(index, all, Selected(Found(s, loaded, t, all)))]

(* The candidates of a text, their expressions, and those that are taken. *)
LEMMA CandidatesLaw ==
    ASSUME NEW s, NEW loaded, NEW t, IsText(t), NEW index, IsIndex(index)
    PROVE  LET all == Augmented(s, t, index)
               found == Found(s, loaded, t, all)
           IN  /\ IsFiniteSet(found)
               /\ \A c \in found : IsCandidate(c, t, all) /\ Merit(c) \in [1 .. 8 -> Int]
               /\ \A c \in found : c.from \in Nat \ {0}
               /\ \A c, d \in found : Key(c) = Key(d) => c = d
<1> DEFINE all == Augmented(s, t, index)
           found == Found(s, loaded, t, all)
<1>1. /\ IsFiniteSet(DOMAIN all) /\ DOMAIN all \subseteq Int
      /\ \A id \in DOMAIN all : all[id] \in Expression
    BY AugmentedLaw
<1> HIDE DEF all
<1>2. IsFiniteSet(found)
    BY <1>1, FoundIsFinite
<1>3. /\ \A c \in found : IsCandidate(c, t, all)
      /\ \A c, d \in found : Key(c) = Key(d) => c = d
    BY <1>1, FoundLaw
<1> HIDE DEF found
<1>4. \A c \in found : Merit(c) \in [1 .. 8 -> Int]
    BY <1>1, <1>3, MeritLaw
<1>5. \A c \in found : c.from \in Nat \ {0}
    <2> SUFFICES ASSUME NEW c \in found PROVE c.from \in Nat \ {0}
        OBVIOUS
    <2>1. c.from \in DOMAIN t.tokens
        BY <1>3 DEF IsCandidate
    <2> QED
        BY <2>1, TextLaw
<1> QED
    BY <1>2, <1>3, <1>4, <1>5 DEF all, found

(* Each occurrence comes from a candidate that was taken. *)
LEMMA ReportLaw ==
    ASSUME NEW s, NEW loaded, NEW t, IsText(t), NEW index, IsIndex(index)
    PROVE  LET all == Augmented(s, t, index)
               occurrences == Report(s, loaded, t, index).occurrences
           IN  /\ Len(occurrences) \in Nat /\ DOMAIN occurrences = 1 .. Len(occurrences)
               /\ \A n \in DOMAIN occurrences :
                    \E c : IsCandidate(c, t, all) /\ occurrences[n] = Occurrence(index, all, c)
<1> DEFINE all == Augmented(s, t, index)
           found == Found(s, loaded, t, all)
           selected == Selected(found)
           occurrences == Report(s, loaded, t, index).occurrences
<1>1. /\ IsFiniteSet(found)
      /\ \A c \in found : IsCandidate(c, t, all) /\ Merit(c) \in [1 .. 8 -> Int]
      /\ \A c \in found : c.from \in Nat \ {0}
    BY CandidatesLaw
<1>2. occurrences = [n \in DOMAIN selected |-> Occurrence(index, all, selected[n])]
    BY DEF Report, Disambiguated
<1> HIDE DEF found, all, occurrences
<1>3. selected \in Seq(found)
    BY <1>1, SelectedLaw
<1> HIDE DEF selected
<1>4. Len(selected) \in Nat /\ DOMAIN selected = 1 .. Len(selected)
      /\ \A n \in DOMAIN selected : selected[n] \in found
    BY <1>3
<1>5. DOMAIN occurrences = 1 .. Len(selected)
    BY <1>2, <1>4
<1>6. Len(occurrences) = Len(selected)
    BY <1>4, <1>5
<1>7. \A n \in DOMAIN occurrences :
          IsCandidate(selected[n], t, all) /\ occurrences[n] = Occurrence(index, all, selected[n])
    BY <1>1, <1>2, <1>4, <1>5
<1> QED
    BY <1>4, <1>5, <1>6, <1>7 DEF all, occurrences

LEMMA OccurrenceLaw ==
    ASSUME NEW index, NEW all, NEW c
    PROVE  LET senses == IF c.id \in DOMAIN index THEN index[c.id].senses ELSE <<>>
               n == Len(senses)
               resolved == n > 0 /\ FirstScore(n) >= SimilarityThreshold
                           /\ FirstScore(n) - SecondScore(n) >= MarginThreshold
               o == Occurrence(index, all, c)
           IN  /\ o.form = all[c.id].words /\ o.type = all[c.id].type /\ o.from = c.from /\ o.to = c.to
               /\ o.status = IF resolved THEN "resolved" ELSE "uncertain"
               /\ o.sense = IF resolved THEN BestSense(senses).key ELSE <<>>
BY DEF Occurrence

(* A sense is chosen whenever there is one. *)
LEMMA SensesResolve ==
    ASSUME NEW n \in Nat
    PROVE  n > 0 => /\ FirstScore(n) >= SimilarityThreshold
                    /\ FirstScore(n) - SecondScore(n) >= MarginThreshold
BY DEF FirstScore, SecondScore, SimilarityThreshold, MarginThreshold

LEMMA BestSenseLaw ==
    ASSUME NEW senses \in Seq([key : SenseKey, priority : Int]), senses # <<>>
    PROVE  \E m \in DOMAIN senses :
               /\ BestSense(senses) = senses[m]
               /\ \A k \in DOMAIN senses : senses[m].priority <= senses[k].priority
<1> DEFINE P == {senses[n].priority : n \in DOMAIN senses}
           at == {n \in DOMAIN senses : senses[n].priority = MinOf(P)}
<1>1. Len(senses) \in Nat /\ DOMAIN senses = 1 .. Len(senses) /\ Len(senses) >= 1
    OBVIOUS
<1>2. \A n \in DOMAIN senses : senses[n].priority \in Int
    <2>1. \A n \in DOMAIN senses : senses[n] \in [key : SenseKey, priority : Int]
        BY ElementsOf
    <2> QED
        BY <2>1
<1>3. IsFiniteSet(P)
    <2> DEFINE f == [n \in DOMAIN senses |-> senses[n].priority]
    <2>1. DOMAIN f = DOMAIN senses /\ {f[n] : n \in DOMAIN senses} = P
        OBVIOUS
    <2>2. IsFiniteSet(1 .. Len(senses))
        BY <1>1, FS_Interval
    <2>3. IsFiniteSet(DOMAIN senses)
        BY <1>1, <2>2
    <2>4. IsFiniteSet({f[n] : n \in DOMAIN senses})
        <3>1. DOMAIN f = DOMAIN senses
            BY <2>1
        <3> HIDE DEF f
        <3> QED
            BY <2>3, <3>1, FiniteImage
    <2> QED
        BY <2>1, <2>4
<1>4. P \subseteq Int
    BY <1>2
<1>5. senses[1].priority \in P
    BY <1>1
<1>6. \A n \in DOMAIN senses : senses[n].priority \in P
    OBVIOUS
<1>7. \A x \in P : \E n \in DOMAIN senses : senses[n].priority = x
    OBVIOUS
<1> HIDE DEF P
<1>8. MinOf(P) \in P /\ \A x \in P : MinOf(P) <= x
    BY <1>3, <1>4, <1>5, Extremes
<1>9. at # {} /\ at \subseteq Nat
    BY <1>1, <1>8, <1>7
<1>10. MinOf(at) \in at
    BY <1>9, LeastNumber
<1>11. BestSense(senses) = senses[MinOf(at)]
    BY DEF BestSense, P
<1>12. PICK m \in at : m = MinOf(at)
    BY <1>10
<1>13. \A k \in DOMAIN senses : senses[m].priority <= senses[k].priority
    BY <1>8, <1>6
<1> QED
    BY <1>11, <1>12, <1>13

(* The sense of an occurrence is one of its expression, and none comes before it. *)
ShowsItsSense(index, o) ==
    \E id \in DOMAIN index :
        /\ index[id].words = o.form
        /\ \E m \in DOMAIN index[id].senses :
            /\ index[id].senses[m].key = o.sense
            /\ \A k \in DOMAIN index[id].senses :
                  index[id].senses[m].priority <= index[id].senses[k].priority

LEMMA ShownSense ==
    ASSUME NEW s, NEW loaded, NEW t, IsText(t), NEW index, IsIndex(index),
           NEW n \in DOMAIN Report(s, loaded, t, index).occurrences,
           Report(s, loaded, t, index).occurrences[n].status = "resolved"
    PROVE  ShowsItsSense(index, Report(s, loaded, t, index).occurrences[n])
<1> DEFINE all == Augmented(s, t, index)
<1>1. PICK o : o = Report(s, loaded, t, index).occurrences[n]
    OBVIOUS
<1>2. PICK c : IsCandidate(c, t, all) /\ o = Occurrence(index, all, c)
    BY <1>1, ReportLaw
<1>3. \A id \in DOMAIN index : all[id] = index[id]
    BY AugmentedLaw
<1> HIDE DEF all
<1> DEFINE senses == IF c.id \in DOMAIN index THEN index[c.id].senses ELSE <<>>
           resolved == /\ Len(senses) > 0 /\ FirstScore(Len(senses)) >= SimilarityThreshold
                       /\ FirstScore(Len(senses)) - SecondScore(Len(senses)) >= MarginThreshold
<1>4. /\ o.form = all[c.id].words
      /\ o.status = IF resolved THEN "resolved" ELSE "uncertain"
      /\ o.sense = IF resolved THEN BestSense(senses).key ELSE <<>>
    BY <1>2, OccurrenceLaw
<1>5. resolved
    BY <1>1, <1>4
<1>6. Len(senses) > 0
    BY <1>5
<1> HIDE DEF resolved
<1>7. c.id \in DOMAIN index
    <2>1. ~(Len(<<>>) > 0)
        OBVIOUS
    <2> QED
        BY <1>6, <2>1
<1>8. senses = index[c.id].senses
    BY <1>7
<1>9. index[c.id] \in Expression
    BY <1>7 DEF IsIndex
<1>10. index[c.id].senses \in Seq([key : SenseKey, priority : Int])
    BY <1>9 DEF Expression
<1> HIDE DEF senses
<1>11. PICK g : g = index[c.id].senses
    OBVIOUS
<1>12. g # <<>>
    BY <1>6, <1>8, <1>11
<1>13. PICK m \in DOMAIN g :
           BestSense(g) = g[m] /\ \A k \in DOMAIN g : g[m].priority <= g[k].priority
    BY <1>10, <1>11, <1>12, BestSenseLaw
<1>14. o.sense = g[m].key
    BY <1>4, <1>5, <1>8, <1>11, <1>13
<1>15. o.form = index[c.id].words
    BY <1>3, <1>4, <1>7
<1> QED
    BY <1>1, <1>7, <1>11, <1>13, <1>14, <1>15 DEF ShowsItsSense

(* A pair of the text that the index has as separable is never added to it. *)
LEMMA StoredPair ==
    ASSUME NEW index, IsIndex(index), NEW id \in DOMAIN index, index[id].separable,
           NEW pair \in Fresh(index)
    PROVE  index[id].words # pair
<1> SUFFICES ASSUME index[id].words = pair PROVE FALSE
    OBVIOUS
<1>1. PICK e : e = index[id]
    OBVIOUS
<1>2. pair \notin Stored(index) /\ Len(pair) = 2 /\ pair[2] \in Particles /\ pair = <<pair[1], pair[2]>>
    BY VirtualLaw
<1>3. /\ e.type = "phrasal_verb"
      /\ e.base \in {"", e.words[1]} /\ e.particle \in {"", e.words[2]}
    BY <1>1, <1>2 DEF IsIndex
<1>4. e.words = pair /\ e.separable
    BY <1>1
<1>5. Len(pair) = 2
    BY <1>2
<1>6. e.words = pair
    BY <1>1
<1>7. Len(e.words) = 2
    BY <1>5, <1>6
<1>8. pair \in PairOf(e)
    <2>1. CASE e.base # "" /\ e.particle # ""
        <3>1. PairOf(e) = {<<e.base, e.particle>>}
            BY <1>4, <2>1 DEF PairOf
        <3>2. e.base = pair[1] /\ e.particle = pair[2]
            BY <1>3, <1>4, <2>1
        <3> QED
            BY <1>2, <3>1, <3>2
    <2>2. CASE ~(e.base # "" /\ e.particle # "")
        <3>1. e.separable /\ (e.base = "" \/ e.particle = "") /\ e.type = "phrasal_verb"
            BY <1>3, <1>4, <2>2
        <3>2. Len(e.words) >= 2
            BY <1>7
        <3>3. PairOf(e) = {<<e.words[1], Last(e.words)>>}
            BY <3>1, <3>2 DEF PairOf
        <3>4. Last(e.words) = pair[2] /\ e.words[1] = pair[1]
            BY <1>2, <1>4 DEF Last
        <3> QED
            BY <1>2, <3>3, <3>4
    <2> QED
        BY <2>1, <2>2
<1> QED
    BY <1>1, <1>2, <1>8 DEF Stored

LEMMA HiddenSense ==
    ASSUME NEW s, NEW loaded, NEW t, IsText(t), NEW index, IsIndex(index),
           NEW n \in DOMAIN Report(s, loaded, t, index).occurrences,
           Report(s, loaded, t, index).occurrences[n].status = "uncertain",
           NEW id \in DOMAIN index,
           index[id].words = Report(s, loaded, t, index).occurrences[n].form,
           index[id].senses # <<>>
    PROVE  ~index[id].separable
<1> SUFFICES ASSUME index[id].separable PROVE FALSE
    OBVIOUS
<1> DEFINE all == Augmented(s, t, index)
<1>1. PICK o : o = Report(s, loaded, t, index).occurrences[n]
    OBVIOUS
<1>2. PICK c : IsCandidate(c, t, all) /\ o = Occurrence(index, all, c)
    BY <1>1, ReportLaw
<1>3. \A i \in DOMAIN index : all[i] = index[i]
    BY AugmentedLaw
<1>4. OnlyPairsAreAdded(all, index)
    BY AugmentedLaw
<1>5. (\A i \in DOMAIN index : all[i] = index[i]) /\ OnlyPairsAreAdded(all, index)
    BY <1>3, <1>4
<1> HIDE DEF all
<1> DEFINE senses == IF c.id \in DOMAIN index THEN index[c.id].senses ELSE <<>>
           resolved == /\ Len(senses) > 0 /\ FirstScore(Len(senses)) >= SimilarityThreshold
                       /\ FirstScore(Len(senses)) - SecondScore(Len(senses)) >= MarginThreshold
<1>6. /\ o.form = all[c.id].words
      /\ o.status = IF resolved THEN "resolved" ELSE "uncertain"
    BY <1>2, OccurrenceLaw
<1>7. ~resolved
    BY <1>1, <1>6
<1>8. c.id \in DOMAIN all
    BY <1>2 DEF IsCandidate
<1>9. index[id].words = all[c.id].words
    BY <1>1, <1>6
<1>10. CASE c.id \in DOMAIN index
    <2>1. index[id].words = index[c.id].words
        BY <1>5, <1>9, <1>10
    <2>2. c.id = id
        BY <1>10, <2>1 DEF IsIndex
    <2>3. senses = index[id].senses
        BY <2>2
    <2> HIDE DEF senses
    <2>4. index[id] \in Expression
        BY DEF IsIndex
    <2>5. index[id].senses \in Seq([key : SenseKey, priority : Int])
        BY <2>4 DEF Expression
    <2>6. Len(senses) \in Nat /\ Len(senses) > 0
        BY <2>3, <2>5
    <2> QED
        BY <1>7, <2>6, SensesResolve
<1>11. CASE c.id \notin DOMAIN index
    <2>1. PICK pair \in Fresh(index) : all[c.id] = Virtual(pair)
        BY <1>5, <1>8, <1>11 DEF OnlyPairsAreAdded
    <2>2. all[c.id].words = pair
        BY <2>1, VirtualLaw
    <2> QED
        BY <1>9, <2>2, StoredPair
<1> QED
    BY <1>10, <1>11

(* While the third pass is due, what the second one said still follows from the  *)
(* text and from the index.                                                      *)
SecondIsKept ==
    phase = "third" => second = NotRun \/ \E vectors \in BOOLEAN : second = Report(syn, vectors, text, store)

LEMMA SecondIsKeptHolds == Spec => []SecondIsKept
<1>1. Init => SecondIsKept
    BY DEF Init, SecondIsKept
<1>2. SecondIsKept /\ [Next]_vars => SecondIsKept'
    <2> SUFFICES ASSUME SecondIsKept, [Next]_vars PROVE SecondIsKept'
        OBVIOUS
    <2>1. CASE SecondPass
        <3>1. text' = text /\ store' = store
            BY <2>1 DEF SecondPass
        <3>2. second' = NotRun \/ \E vectors \in BOOLEAN : second' = Report(syn', vectors, text, store)
            BY <2>1 DEF SecondPass, Report
        <3> QED
            BY <3>1, <3>2 DEF SecondIsKept
    <2>2. CASE ParseTokens
        BY <2>2 DEF ParseTokens, SecondIsKept
    <2>3. CASE ThirdPass \/ NoThirdPass
        BY <2>3 DEF ThirdPass, NoThirdPass, SecondIsKept
    <2>4. CASE BuildTable \/ Answered
        BY <2>4 DEF BuildTable, Answered, SecondIsKept
    <2>5. CASE UNCHANGED vars
        BY <2>5 DEF vars, SecondIsKept
    <2> QED
        BY <2>1, <2>2, <2>3, <2>4, <2>5 DEF Next
<1> QED
    BY <1>1, <1>2, PTL DEF Spec

LEMMA InputsAreTexts == Inputs => IsText(text) /\ IsIndex(store)
BY AnalysisAssumption DEF Inputs, IsText

LEMMA NothingSaid == DOMAIN NotRun.occurrences = {} /\ NotRun.status # "ok"
BY DEF NotRun

(* Through all the ids and senses that the passes add, a sense that is shown is the *)
(* first of those of the expression that is shown: _augment_wordnet_expressions,    *)
(* disambiguate and the upserts of the third pass.                                  *)
THEOREM SpecResolvedShowsItsSense == Spec => []ResolvedShowsItsSense
<1>1. Inputs /\ SecondIsKept => ResolvedShowsItsSense
    <2> SUFFICES ASSUME Inputs, SecondIsKept, phase = "third",
                        NEW n \in DOMAIN second.occurrences,
                        second.occurrences[n].status = "resolved"
                 PROVE  ShowsItsSense(store, second.occurrences[n])
        BY DEF ResolvedShowsItsSense, ShowsItsSense
    <2>1. second # NotRun
        BY NothingSaid
    <2>2. PICK vectors \in BOOLEAN : second = Report(syn, vectors, text, store)
        BY <2>1 DEF SecondIsKept
    <2> QED
        BY <2>2, InputsAreTexts, ShownSense
<1> QED
    BY <1>1, InputsHold, SecondIsKeptHolds, PTL

(* An expression that is shown without the sense the index has for its words is one *)
(* the index calls inseparable: _augment_wordnet_expressions adds no pair that a    *)
(* separable expression has.                                                        *)
THEOREM SpecUnresolvedIsInseparable == Spec => []UnresolvedIsInseparable
<1>1. Inputs /\ SecondIsKept => UnresolvedIsInseparable
    <2> SUFFICES ASSUME Inputs, SecondIsKept, phase = "third",
                        NEW n \in DOMAIN second.occurrences, NEW id \in DOMAIN store,
                        second.occurrences[n].status = "uncertain",
                        store[id].words = second.occurrences[n].form, store[id].senses # <<>>
                 PROVE  ~store[id].separable
        BY DEF UnresolvedIsInseparable
    <2>1. second # NotRun
        BY NothingSaid
    <2>2. PICK vectors \in BOOLEAN : second = Report(syn, vectors, text, store)
        BY <2>1 DEF SecondIsKept
    <2> QED
        BY <2>2, InputsAreTexts, HiddenSense
<1> QED
    BY <1>1, InputsHold, SecondIsKeptHolds, PTL

-----------------------------------------------------------------------------
(* What is in the text is found                                            *)

(* Linked, of any text. *)
LinkedIn(syns, t, i, j, e) ==
    \/ t.tokens[j].dep \in {"prt", "compound:prt", "prep", "advmod"}
    \/ t.tokens[j].pos \in {"PART", "ADP", "ADV"}
    \/ j \in t.kids[i] /\ WordnetScore(syns, t.tokens[i], t.tokens[j], e) > 0

(* The expression e of the index has its verb at i and its particle at j, within  *)
(* reach and linked, and no other one is in the way.                              *)
StandsAt(syns, t, e, i, j) ==
    /\ e.separable /\ e.base = t.tokens[i].lemma /\ e.particle = t.tokens[j].word
    /\ i < j /\ j - i - 1 <= e.gap /\ j - i - 1 <= MaxGap
    /\ LinkedIn(syns, t, i, j, e)
    /\ \A k \in Window(t, i, MaxGap) \ {j} : t.tokens[k].word = e.particle => k > j /\ k \notin t.kids[i]

LEMMA InReach ==
    ASSUME NEW t, IsText(t), NEW i \in DOMAIN t.tokens, NEW j \in DOMAIN t.tokens,
           i < j, j - i - 1 <= MaxGap
    PROVE  j \in Window(t, i, MaxGap)
<1>1. /\ Len(t.tokens) \in Nat /\ DOMAIN t.tokens = 1 .. Len(t.tokens)
      /\ i \in Nat \ {0} /\ j \in Nat \ {0} /\ MaxGap \in Nat
    BY TextLaw, DetectionAssumption
<1>2. PICK m : m = MinOf({Len(t.tokens), i + MaxGap + 1})
    OBVIOUS
<1>3. Len(t.tokens) \in Int /\ i + MaxGap + 1 \in Int
    BY <1>1
<1>4. m \in {Len(t.tokens), i + MaxGap + 1}
    BY <1>2, <1>3, LeastOfTwo
<1>5. j <= Len(t.tokens) /\ j <= i + MaxGap + 1
    BY <1>1
<1>6. j \in i + 1 .. m
    BY <1>1, <1>4, <1>5
<1> QED
    BY <1>2, <1>6 DEF Window

(* That particle is the one _find_particle_index takes. *)
LEMMA OnlyParticle ==
    ASSUME NEW s, NEW t, IsText(t), NEW e, NEW i \in DOMAIN t.tokens, NEW j \in DOMAIN t.tokens,
           StandsAt(s, t, e, i, j)
    PROVE  ParticleOf(t, i, e.particle) = {j}
<1> DEFINE near == {k \in Window(t, i, MaxGap) : t.tokens[k].word = e.particle}
           children == near \cap t.kids[i]
           tagged == {k \in near : Tight(t.tokens[k]) \/ Loose(t.tokens[k])}
<1>1. ParticleOf(t, i, e.particle) =
        IF children # {} THEN {MinOf(children)} ELSE IF tagged # {} THEN {MinOf(tagged)} ELSE {}
    BY DEF ParticleOf
<1>2. i < j /\ j - i - 1 <= MaxGap /\ t.tokens[j].word = e.particle
    BY DEF StandsAt
<1>3. j \in near
    BY <1>2, InReach
<1>4. \A k \in near : k # j => k > j /\ k \notin t.kids[i]
    BY DEF StandsAt
<1>5. near \subseteq Nat /\ j \in Nat
    BY <1>3, WindowLaw, DetectionAssumption
<1>6. j \in children \/ j \in tagged
    BY <1>3 DEF StandsAt, LinkedIn, Tight, Loose, ParticleDep
<1> HIDE DEF near
<1>7. children \subseteq {j} /\ tagged \subseteq near
    BY <1>4
<1>8. \A S : S \subseteq near /\ j \in S => MinOf(S) = j
    <2> SUFFICES ASSUME NEW S, S \subseteq near, j \in S PROVE MinOf(S) = j
        OBVIOUS
    <2>1. MinOf(S) \in S /\ MinOf(S) <= j
        BY <1>5, LeastNumber
    <2>2. MinOf(S) \in near /\ MinOf(S) \in Nat
        BY <1>5, <2>1
    <2>3. CASE MinOf(S) # j
        <3>1. MinOf(S) > j
            BY <1>4, <2>2, <2>3
        <3> QED
            BY <1>5, <2>1, <2>2, <3>1
    <2> QED
        BY <2>3
<1>9. CASE children = {}
    <2>1. j \in tagged
        BY <1>6, <1>9
    <2>2. MinOf(tagged) = j
        BY <1>7, <1>8, <2>1
    <2> HIDE DEF tagged, children
    <2> QED
        BY <1>1, <1>9, <2>1, <2>2
<1>10. CASE children # {}
    <2>1. children = {j}
        BY <1>7, <1>10
    <2>2. {j} \subseteq near
        BY <1>3
    <2>3. MinOf({j}) = j
        BY <1>8, <2>2
    <2> HIDE DEF tagged, children
    <2> QED
        BY <1>1, <1>10, <2>1, <2>3
<1> QED
    BY <1>9, <1>10

(* A particle that is linked makes a candidate. *)
LEMMA LinkedIsFound ==
    ASSUME NEW s, NEW loaded, NEW t, NEW all, NEW id, NEW i, NEW j, LinkedIn(s, t, i, j, all[id])
    PROVE  Separated(s, loaded, t, all, id, i, j) # {}
<1> DEFINE particle == t.tokens[j]
           wordnet == WordnetScore(s, t.tokens[i], particle, all[id])
           trf == SemanticTrfScore(loaded, t.tokens[i], all[id])
           score == MaxOf({0, wordnet, trf})
           is(source) == Candidate(all[id], id, i, j, score, source)
           set == Separated(s, loaded, t, all, id, i, j)
<1>1. set = CASE Loose(particle) /\ trf >= TrfThreshold -> {is("spacy_trf_semantic")}
              [] Loose(particle) /\ trf < TrfThreshold /\ wordnet >= WordnetThreshold
                   -> {is("second_pass_spacy_semantic")}
              [] ~Loose(particle) /\ ~Tight(particle) /\ score = 0 -> {}
              [] OTHER -> {is("separable")}
    BY DEF Separated
<1>2. trf \in Int /\ wordnet \in Int
    BY TrfScoreType, WordnetScoreType
<1>3. Tight(particle) \/ Loose(particle) \/ wordnet > 0
    BY DEF LinkedIn, Tight, Loose, ParticleDep
<1> HIDE DEF is, trf, wordnet, particle, set
<1>4. score >= wordnet /\ score \in Int
    BY <1>2, BestScoreType
<1> HIDE DEF score
<1>5. Tight(particle) \/ Loose(particle) \/ score # 0
    BY <1>2, <1>3, <1>4
<1>6. set \in {{is("spacy_trf_semantic")}, {is("second_pass_spacy_semantic")}, {is("separable")}}
    BY <1>1, <1>2, <1>5 DEF TrfThreshold, WordnetThreshold
<1> QED
    BY <1>6 DEF set

(* Where an expression stands there is a candidate. *)
LEMMA StandingIsFound ==
    ASSUME NEW s, NEW loaded, NEW t, IsText(t), NEW index, IsIndex(index),
           NEW id \in DOMAIN index, NEW i \in DOMAIN t.tokens, NEW j \in DOMAIN t.tokens,
           StandsAt(s, t, index[id], i, j)
    PROVE  \E c \in Found(s, loaded, t, Augmented(s, t, index)) : c.from = i /\ c.to = j
<1>1. PICK all : all = Augmented(s, t, index)
    OBVIOUS
<1>2. id \in DOMAIN all /\ all[id] = index[id]
    BY <1>1, AugmentedLaw
<1>3. PICK e \in Expression : e = index[id]
    BY DEF IsIndex
<1>4. /\ e.separable /\ e.base = t.tokens[i].lemma /\ e.particle = t.tokens[j].word
      /\ i < j /\ j - i - 1 <= e.gap /\ LinkedIn(s, t, i, j, e)
    BY <1>3 DEF StandsAt
<1>5. e.base # "" /\ e.particle # ""
    BY <1>4, TextLaw
<1>6. PairOf(e) = {<<e.base, e.particle>>}
    BY <1>4, <1>5 DEF PairOf
<1>7. ParticleOf(t, i, e.particle) = {j}
    BY <1>3, OnlyParticle
<1>8. LinkedIn(s, t, i, j, all[id])
    BY <1>2, <1>3, <1>4
<1>9. PICK c : c \in Separated(s, loaded, t, all, id, i, j)
    BY <1>8, LinkedIsFound
<1>10. i \in Nat /\ j \in Nat
    <2>1. i \in Nat \ {0} /\ j \in Nat \ {0}
        BY TextLaw
    <2> QED
        BY <2>1
<1>11. i <= j
    BY <1>4, <1>10
<1>12. c.from = i /\ c.to = j
    <2>1. all[id] \in Expression
        BY <1>2, <1>3
    <2> QED
        BY <1>2, <1>9, <1>11, <2>1, SeparatedLaw
<1>13. c \in Separable(s, loaded, t, all)
    <2>1. <<e.base, e.particle>> \in {p \in PairOf(all[id]) : p[1] = t.tokens[i].lemma}
        BY <1>2, <1>3, <1>4, <1>6
    <2>2. j \in ParticleOf(t, i, <<e.base, e.particle>>[2])
        BY <1>7
    <2>3. j \in UNION {ParticleOf(t, i, pair[2]) : pair \in
                            {p \in PairOf(all[id]) : p[1] = t.tokens[i].lemma}}
        BY <2>1, <2>2
    <2>4. c \in IF j - i - 1 > all[id].gap THEN {} ELSE Separated(s, loaded, t, all, id, i, j)
        <3>1. all[id].gap = e.gap /\ e.gap \in Nat
            BY <1>2, <1>3 DEF Expression
        <3>2. i \in Nat /\ j \in Nat
            BY TextLaw
        <3>3. ~(j - i - 1 > all[id].gap)
            BY <1>4, <3>1, <3>2
        <3> QED
            BY <1>9, <3>3
    <2> QED
        BY <1>2, <2>3, <2>4 DEF Separable
<1>14. c \in Found(s, loaded, t, all)
    BY <1>13 DEF Found
<1> QED
    BY <1>1, <1>12, <1>14

(* No two of the taken candidates begin at one place. *)
LEMMA OneOfAPlace ==
    ASSUME NEW s, NEW loaded, NEW t, IsText(t), NEW index, IsIndex(index),
           NEW x \in Taken(Found(s, loaded, t, Augmented(s, t, index))),
           NEW y \in Taken(Found(s, loaded, t, Augmented(s, t, index))),
           x.from = y.from
    PROVE  x = y
<1> SUFFICES ASSUME x # y PROVE FALSE
    OBVIOUS
<1>1. PICK all : all = Augmented(s, t, index)
    OBVIOUS
<1>2. PICK found : found = Found(s, loaded, t, all)
    OBVIOUS
<1>3. /\ IsFiniteSet(found)
      /\ \A c \in found : IsCandidate(c, t, all) /\ Merit(c) \in [1 .. 8 -> Int]
      /\ \A c, d \in found : Key(c) = Key(d) => c = d
    BY <1>1, <1>2, CandidatesLaw
<1>4. /\ Taken(found) \in SUBSET found
      /\ \A c \in found :
             c \in Taken(found) <=> \A d \in Taken(found) : Exceeds(Merit(d), Merit(c)) => ~Overlap(c, d)
    BY <1>3, TakenLaw
<1>5. x \in Taken(found) /\ y \in Taken(found) /\ x \in found /\ y \in found
    BY <1>1, <1>2, <1>4
<1>6. IsCandidate(x, t, all) /\ IsCandidate(y, t, all)
    BY <1>3, <1>5
<1>7. /\ x.from \in Nat /\ x.to \in Nat /\ y.to \in Nat /\ y.from \in Nat /\ x.from <= x.to /\ y.from <= y.to
      /\ x.separated \in BOOLEAN /\ y.separated \in BOOLEAN
    <2>1. x.from \in DOMAIN t.tokens /\ x.to \in DOMAIN t.tokens /\ y.from \in DOMAIN t.tokens /\ y.to \in DOMAIN t.tokens
        BY <1>6 DEF IsCandidate
    <2>2. x.from \in Nat /\ x.to \in Nat /\ y.to \in Nat /\ y.from \in Nat
        BY <2>1, TextLaw
    <2>3. x.from <= x.to /\ y.from <= y.to /\ x.separated \in BOOLEAN /\ y.separated \in BOOLEAN
        BY <1>6 DEF IsCandidate
    <2> QED
        BY <2>2, <2>3
<1>8. Overlap(x, y) /\ Overlap(y, x)
    BY <1>7 DEF Overlap
<1>9. ~Exceeds(Merit(x), Merit(y)) /\ ~Exceeds(Merit(y), Merit(x))
    BY <1>4, <1>5, <1>8
<1>10. Merit(x) = Merit(y)
    BY <1>3, <1>5, <1>9, TuplesAreOrdered
<1>11. x.to - x.from = y.to - y.from /\ -x.id = -y.id /\ -Bit(x.separated) = -Bit(y.separated)
    BY <1>10 DEF Merit
<1>12. x.id \in Int /\ y.id \in Int
    <2>1. DOMAIN all \subseteq Int
        BY <1>1, AugmentedLaw
    <2> QED
        BY <1>6, <2>1 DEF IsCandidate
<1>13. x.to = y.to /\ x.id = y.id
    BY <1>7, <1>11, <1>12
<1>14. x.separated = y.separated
    BY <1>7, <1>11 DEF Bit
<1>15. Key(x) = Key(y)
    BY <1>13, <1>14 DEF Key
<1> QED
    BY <1>3, <1>5, <1>15

(* What is found is reported, or something in its way is. *)
Covered(occurrences, i, j) ==
    \E n \in DOMAIN occurrences : occurrences[n].from <= j /\ i <= occurrences[n].to

LEMMA FoundIsCovered ==
    ASSUME NEW s, NEW loaded, NEW t, IsText(t), NEW index, IsIndex(index),
           NEW c \in Found(s, loaded, t, Augmented(s, t, index))
    PROVE  Covered(Report(s, loaded, t, index).occurrences, c.from, c.to)
<1>1. PICK all : all = Augmented(s, t, index)
    OBVIOUS
<1>2. PICK found : found = Found(s, loaded, t, all)
    OBVIOUS
<1>3. /\ IsFiniteSet(found)
      /\ \A d \in found : IsCandidate(d, t, all) /\ Merit(d) \in [1 .. 8 -> Int]
      /\ \A d \in found : d.from \in Nat \ {0}
    BY <1>1, <1>2, CandidatesLaw
<1>4. /\ Taken(found) \in SUBSET found
      /\ \A x \in found :
             x \in Taken(found) <=> \A d \in Taken(found) : Exceeds(Merit(d), Merit(x)) => ~Overlap(x, d)
    BY <1>3, TakenLaw
<1>5. c \in found
    BY <1>1, <1>2
<1>6. \E x \in Taken(found) : Overlap(c, x)
    <2>1. CASE c \in Taken(found)
        <3>1. IsCandidate(c, t, all)
            BY <1>3, <1>5
        <3>2. Overlap(c, c)
            BY <3>1 DEF IsCandidate, Overlap
        <3> QED
            BY <2>1, <3>2
    <2>2. CASE c \notin Taken(found)
        BY <1>4, <1>5, <2>2
    <2> QED
        BY <2>1, <2>2
<1>7. PICK x \in Taken(found) : Overlap(c, x)
    BY <1>6
<1> DEFINE selected == Selected(found)
<1>8. /\ \A d \in Taken(found) : \E n \in DOMAIN selected : selected[n].from = d.from
      /\ \A n \in DOMAIN selected : selected[n] \in Taken(found)
    BY <1>3, SelectedLaw
<1>9. Report(s, loaded, t, index).occurrences = [n \in DOMAIN selected |-> Occurrence(index, all, selected[n])]
    BY <1>1, <1>2 DEF Report, Disambiguated
<1> HIDE DEF selected
<1>10. PICK n \in DOMAIN selected : selected[n].from = x.from
    BY <1>7, <1>8
<1>11. selected[n] = x
    <2>1. selected[n] \in Taken(found)
        BY <1>8
    <2> QED
        BY <1>1, <1>2, <1>7, <1>10, <2>1, OneOfAPlace
<1>12. PICK occurrences : occurrences = Report(s, loaded, t, index).occurrences
    OBVIOUS
<1>13. n \in DOMAIN occurrences /\ occurrences[n] = Occurrence(index, all, x)
    BY <1>9, <1>10, <1>11, <1>12
<1>14. occurrences[n].from = x.from /\ occurrences[n].to = x.to
    BY <1>13, OccurrenceLaw
<1>15. x.from <= c.to /\ c.from <= x.to
    BY <1>7 DEF Overlap
<1> QED
    BY <1>12, <1>13, <1>14, <1>15 DEF Covered

(* Every separable expression of the index that stands in the text, its particle    *)
(* within its gap and linked to its verb, is reported, or what overlaps it: the     *)
(* search of _find_particle_index, the tags and scores of _detect_separable, and    *)
(* _dedupe_overlaps.                                                                *)
THEOREM SpecSeparatedIsFound == Spec => []SeparatedIsFound
<1>1. Inputs /\ SecondIsKept => SeparatedIsFound
    <2> SUFFICES ASSUME Inputs, SecondIsKept, phase = "third", second.status = "ok",
                        NEW id \in DOMAIN store, NEW i \in DOMAIN text.tokens, NEW j \in DOMAIN text.tokens,
                        StandsAt(syn, text, store[id], i, j)
                 PROVE  Covered(second.occurrences, i, j)
        BY DEF SeparatedIsFound, Linked, LinkedIn, StandsAt, Covered
    <2>1. second # NotRun
        BY NothingSaid
    <2>2. PICK vectors \in BOOLEAN : second = Report(syn, vectors, text, store)
        BY <2>1 DEF SecondIsKept
    <2>3. IsText(text) /\ IsIndex(store)
        BY InputsAreTexts
    <2>4. PICK c \in Found(syn, vectors, text, Augmented(syn, text, store)) : c.from = i /\ c.to = j
        BY <2>3, StandingIsFound
    <2>5. Covered(second.occurrences, c.from, c.to)
        BY <2>2, <2>3, FoundIsCovered
    <2> QED
        BY <2>4, <2>5
<1> QED
    BY <1>1, InputsHold, SecondIsKeptHolds, PTL

-----------------------------------------------------------------------------
(* The phrasal verbs of a text                                             *)

LEMMA WiderSequence ==
    ASSUME NEW S, NEW T, S \subseteq T, NEW s \in Seq(S)
    PROVE  s \in Seq(T) /\ \A x \in Range(s) : x \in S
<1>1. Len(s) \in Nat /\ s \in [1 .. Len(s) -> S] /\ DOMAIN s = 1 .. Len(s)
    OBVIOUS
<1>2. s \in [1 .. Len(s) -> T]
    BY <1>1
<1>3. \A x \in Range(s) : x \in S
    BY <1>1 DEF Range
<1> QED
    BY <1>1, <1>2, <1>3, SequenceOf

LEMMA LexemeType ==
    ASSUME NEW w \in STRING
    PROVE  Lexeme(w) \in STRING
BY RulesAssumption DEF Lexeme

IsTokens(tokens) == tokens \in Seq(Token)

LEMMA TokensLaw ==
    ASSUME NEW tokens, IsTokens(tokens)
    PROVE  /\ Len(tokens) \in Nat /\ DOMAIN tokens = 1 .. Len(tokens)
           /\ \A i \in DOMAIN tokens : tokens[i].lemma \in STRING /\ tokens[i].word \in STRING
           /\ \A i \in DOMAIN tokens : tokens[i].cats \in Seq(STRING)
<1>1. tokens \in Seq(Token)
    BY DEF IsTokens
<1>2. Len(tokens) \in Nat /\ DOMAIN tokens = 1 .. Len(tokens)
    BY <1>1
<1>3. \A i \in DOMAIN tokens : tokens[i] \in Token
    BY <1>1, ElementsOf
<1>4. \A i \in DOMAIN tokens : tokens[i].lemma \in Word /\ tokens[i].word \in Word
    BY <1>3 DEF Token
<1>5. \A i \in DOMAIN tokens : tokens[i].cats \in Seq(STRING)
    BY <1>3 DEF Token
<1>6. Word \subseteq STRING
    BY DEF Word
<1> QED
    BY <1>2, <1>4, <1>5, <1>6

LEMMA BehindLaw ==
    ASSUME NEW tokens, IsTokens(tokens), NEW i \in DOMAIN tokens, NEW gap \in Nat
    PROVE  Behind(tokens, i, gap) \subseteq DOMAIN tokens /\ Behind(tokens, i, gap) \subseteq Nat
<1> SUFFICES ASSUME NEW j \in Behind(tokens, i, gap)
             PROVE  j \in DOMAIN tokens /\ j \in Nat
    OBVIOUS
<1>1. Len(tokens) \in Nat /\ DOMAIN tokens = 1 .. Len(tokens)
    BY TokensLaw
<1>2. i \in Nat /\ i >= 1
    BY <1>1
<1>3. PICK m : m = MinOf({Len(tokens), i + gap + 1})
    OBVIOUS
<1>4. Len(tokens) \in Int /\ i + gap + 1 \in Int
    BY <1>1, <1>2
<1>5. m \in Int /\ m <= Len(tokens)
    <2>1. m \in {Len(tokens), i + gap + 1} /\ m <= Len(tokens)
        BY <1>3, <1>4, LeastOfTwo
    <2> QED
        BY <1>4, <2>1
<1>6. j \in i + 1 .. m
    BY <1>3 DEF Behind
<1> QED
    BY <1>1, <1>2, <1>5, <1>6

(* A verb and its particles. *)
Phrasals == {p \in Phrase : Len(p) > 1 /\ Last(p) \in Particles}

LEMMA PhrasalType ==
    ASSUME NEW p \in Phrasals, NEW type
    PROVE  Canonical(p, type) \in Phrasals
<1> DEFINE f == Canonical(p, type)
<1>1. p \in Phrase /\ Len(p) > 1 /\ p[Len(p)] \in Particles
    BY DEF Phrasals, Last
<1>2. f \in Phrase /\ Len(f) = Len(p) /\ \A k \in 2 .. Len(p) : f[k] = p[k]
    BY <1>1, CanonicalLaw
<1> HIDE DEF f
<1>3. Len(p) \in Nat
    BY <1>1 DEF Phrase
<1>4. Len(p) \in 2 .. Len(p)
    BY <1>1, <1>3
<1>5. f[Len(f)] \in Particles
    BY <1>1, <1>2, <1>4
<1> QED
    BY <1>1, <1>2, <1>5 DEF f, Phrasals, Last

(* What ends in a particle has the same form with its type and without. *)
LEMMA SameForm ==
    ASSUME NEW p \in Phrasals
    PROVE  Canonical(p, "phrasal_verb") = Canonical(p, "")
BY DEF Phrasals, Canonical

LEMMA ThreeWords ==
    ASSUME NEW S, NEW a \in S, NEW b \in S, NEW c \in S
    PROVE  /\ <<a, b>> \o <<>> \in Seq(S) /\ Len(<<a, b>> \o <<>>) = 2 /\ (<<a, b>> \o <<>>)[2] = b
           /\ <<a, b>> \o <<c>> \in Seq(S) /\ Len(<<a, b>> \o <<c>>) = 3 /\ (<<a, b>> \o <<c>>)[3] = c
OBVIOUS

LEMMA PhrasalAtLaw ==
    ASSUME NEW tokens, IsTokens(tokens), NEW i \in DOMAIN tokens, FirstParticles(tokens, i) # {}
    PROVE  PhrasalAt(tokens, i) \in Phrasals
<1> DEFINE j == MinOf(FirstParticles(tokens, i))
           second_ == {k \in Behind(tokens, j, 1) :
                          tokens[k].word # tokens[j].word /\ ValidParticle(tokens[k], k - j - 1)}
           verb == Lexeme(tokens[i].lemma)
           tail == IF second_ = {} THEN <<>> ELSE <<tokens[MinOf(second_)].word>>
           raw == <<verb, tokens[j].word>> \o tail
<1>1. PhrasalAt(tokens, i) = Canonical(raw, "phrasal_verb")
    BY DEF PhrasalAt
<1>2. FirstParticles(tokens, i) \subseteq Behind(tokens, i, HeuristicGap)
    BY DEF FirstParticles
<1>3. HeuristicGap \in Nat
    BY DEF HeuristicGap
<1>4. FirstParticles(tokens, i) \subseteq DOMAIN tokens /\ FirstParticles(tokens, i) \subseteq Nat
    BY <1>2, <1>3, BehindLaw
<1>5. j \in DOMAIN tokens /\ tokens[j].word \in Particles
    <2>1. j \in FirstParticles(tokens, i)
        BY <1>4, LeastNumber
    <2> QED
        BY <1>4, <2>1 DEF FirstParticles, ValidParticle
<1> HIDE DEF j
<1>6. /\ second_ \subseteq DOMAIN tokens /\ second_ \subseteq Nat
      /\ \A k \in second_ : tokens[k].word \in Particles
    <2>1. Behind(tokens, j, 1) \subseteq DOMAIN tokens /\ Behind(tokens, j, 1) \subseteq Nat
        BY <1>5, BehindLaw
    <2> QED
        BY <2>1 DEF ValidParticle
<1> HIDE DEF second_
<1>7. verb \in STRING /\ tokens[j].word \in STRING
    BY <1>5, TokensLaw, LexemeType
<1> HIDE DEF verb
<1>8. raw \in Seq(STRING) /\ Len(raw) > 1 /\ raw[Len(raw)] \in Particles
    <2>1. CASE second_ = {}
        <3>1. raw = <<verb, tokens[j].word>> \o <<>>
            BY <2>1
        <3> HIDE DEF raw
        <3>2. raw \in Seq(STRING) /\ Len(raw) = 2 /\ raw[2] = tokens[j].word
            BY <1>7, <3>1, ThreeWords
        <3> QED
            BY <1>5, <3>2
    <2>2. CASE second_ # {}
        <3>1. MinOf(second_) \in DOMAIN tokens
            BY <1>6, <2>2, LeastNumber
        <3>2. PICK w \in STRING : w = tokens[MinOf(second_)].word
            BY <3>1, TokensLaw
        <3>3. w \in Particles
            BY <1>6, <2>2, <3>2, LeastNumber
        <3>4. raw = <<verb, tokens[j].word>> \o <<w>>
            BY <2>2, <3>2
        <3> HIDE DEF raw
        <3>5. raw \in Seq(STRING) /\ Len(raw) = 3 /\ raw[3] = w
            BY <1>7, <3>4, ThreeWords
        <3>6. Len(raw) > 1 /\ raw[Len(raw)] = w
            BY <3>5
        <3> QED
            BY <3>3, <3>5, <3>6
    <2> QED
        BY <2>1, <2>2
<1> HIDE DEF raw
<1>9. raw \in Phrasals
    <2>1. raw # <<>>
        BY <1>8
    <2> QED
        BY <1>8, <2>1 DEF Phrase, Phrasals, Last
<1> QED
    BY <1>1, <1>9, PhrasalType

LEMMA PhrasalVerbsLaw ==
    ASSUME NEW tokens, IsTokens(tokens)
    PROVE  PhrasalVerbs(tokens) \in Seq(Phrasals)
<1> DEFINE I == {i \in 1 .. Len(tokens) - 1 :
                    /\ Lexeme(tokens[i].lemma) \notin Unsafe
                    /\ tokens[i].pos \in VerbPos \cup {""} /\ FirstParticles(tokens, i) # {}}
           verbs == Ascending(I)
           all == [n \in DOMAIN verbs |-> PhrasalAt(tokens, verbs[n])]
<1>1. PhrasalVerbs(tokens) = Unique(all)
    BY DEF PhrasalVerbs
<1>2. Len(tokens) \in Nat /\ DOMAIN tokens = 1 .. Len(tokens)
    BY TokensLaw
<1>3. IsFiniteSet(I) /\ I \subseteq Nat \ {0}
    <2>1. 1 \in Int /\ Len(tokens) - 1 \in Int
        BY <1>2
    <2>2. IsFiniteSet(1 .. Len(tokens) - 1)
        BY <2>1, FS_Interval
    <2>3. I \in SUBSET (1 .. Len(tokens) - 1)
        OBVIOUS
    <2>4. IsFiniteSet(I)
        BY <2>2, <2>3, FS_Subset
    <2>5. \A i \in 1 .. Len(tokens) - 1 : i \in Nat \ {0}
        BY <1>2
    <2>6. ASSUME NEW i \in I PROVE i \in Nat \ {0}
        <3>1. i \in 1 .. Len(tokens) - 1
            OBVIOUS
        <3> QED
            BY <2>5, <3>1
    <2> HIDE DEF I
    <2> QED
        BY <2>4, <2>6
<1>4. \A i \in I : PhrasalAt(tokens, i) \in Phrasals
    <2>1. ASSUME NEW i \in I PROVE i \in DOMAIN tokens
        <3>1. i \in 1 .. Len(tokens) - 1
            OBVIOUS
        <3>2. PICK N \in Nat : N = Len(tokens)
            BY <1>2
        <3>3. i \in 1 .. N - 1
            BY <3>1, <3>2
        <3> HIDE DEF I
        <3>4. i \in 1 .. N
            BY <3>3
        <3> QED
            BY <1>2, <3>2, <3>4
    <2>2. \A i \in I : FirstParticles(tokens, i) # {}
        OBVIOUS
    <2> HIDE DEF I
    <2> QED
        BY <2>1, <2>2, PhrasalAtLaw
<1> HIDE DEF I
<1>5. verbs \in Seq(I)
    BY <1>3, AscendingLaw
<1> HIDE DEF verbs
<1>6. Len(verbs) \in Nat /\ DOMAIN verbs = 1 .. Len(verbs) /\ \A n \in 1 .. Len(verbs) : verbs[n] \in I
    BY <1>5
<1>7. all \in [1 .. Len(verbs) -> Phrasals]
    BY <1>4, <1>6
<1> HIDE DEF all
<1>8. all \in Seq(Phrasals)
    BY <1>6, <1>7, SequenceOf
<1> QED
    BY <1>1, <1>8, UniqueLaw

-----------------------------------------------------------------------------
(* The dictionaries of a parse                                             *)

(* An entry of a concatenation is one of the two parts. *)
LEMMA JoinedElements ==
    ASSUME NEW f, f \in Seq(Range(f)), NEW g, g \in Seq(Range(g))
    PROVE  /\ f \o g \in Seq(Range(f) \cup Range(g))
           /\ DOMAIN (f \o g) \subseteq Nat
           /\ Range(f \o g) = Range(f) \cup Range(g)
           /\ \A n \in DOMAIN (f \o g) : (f \o g)[n] \in Range(f) \cup Range(g)
<1> DEFINE S == Range(f) \cup Range(g)
<1>1. f \in Seq(S) /\ g \in Seq(S)
    <2>1. Range(f) \subseteq S /\ Range(g) \subseteq S
        OBVIOUS
    <2>2. f \in Seq(S)
        BY <2>1, WiderSequence
    <2> QED
        BY <2>1, <2>2, WiderSequence
<1>2. S = Range(f) \cup Range(g)
    OBVIOUS
<1> HIDE DEF S
<1>3. f \o g \in Seq(S) /\ Range(f \o g) = Range(f) \cup Range(g)
    BY <1>1, RangeOfBoth
<1>4. PICK h : h = f \o g
    OBVIOUS
<1>5. h \in Seq(S) /\ DOMAIN h \subseteq Nat /\ \A n \in DOMAIN h : h[n] \in S
    <2>1. h \in Seq(S)
        BY <1>3, <1>4
    <2>2. Len(h) \in Nat /\ DOMAIN h = 1 .. Len(h)
        BY <2>1
    <2> QED
        BY <2>1, <2>2, ElementsOf
<1> QED
    BY <1>2, <1>3, <1>4, <1>5

(* A category of its own: what a lemma and a phrasal verb of the tokens bring. *)
LexemeEntry(e) == Len(e.phrase) = 1
PhrasalEntries(phrasals) ==
    [n \in DOMAIN phrasals |->
        [phrase |-> Canonical(phrasals[n], "phrasal_verb"), category |-> "Phrasal Verb"]]

LEMMA OneWord ==
    ASSUME NEW w
    PROVE  Len(<<w>>) = 1
OBVIOUS

(* A single word has no head to change. *)
LEMMA SingleStays ==
    ASSUME NEW p, Len(p) = 1, NEW type
    PROVE  Canonical(p, type) = p
<1>1. ~(Len(p) > 1)
    OBVIOUS
<1> QED
    BY <1>1, Zenon DEF Canonical

(* The parts of speech name single words. *)
LEMMA LexemeCategoriesLaw ==
    ASSUME NEW tokens, IsTokens(tokens)
    PROVE  \E N \in Nat : /\ LexemeCategories(tokens) = [n \in 1 .. N |-> LexemeCategories(tokens)[n]]
                          /\ \A e \in Range(LexemeCategories(tokens)) : LexemeEntry(e)
<1> DEFINE I == {i \in DOMAIN tokens : CategoryOfToken(tokens[i]) # ""}
           named == Ascending(I)
           all == [n \in DOMAIN named |-> [phrase |-> <<Lexeme(tokens[named[n]].lemma)>>,
                                           category |-> CategoryOfToken(tokens[named[n]])]]
<1>1. LexemeCategories(tokens) = all
    BY DEF LexemeCategories
<1>2. Len(tokens) \in Nat /\ DOMAIN tokens = 1 .. Len(tokens)
    BY TokensLaw
<1>3. IsFiniteSet(I) /\ I \subseteq Nat \ {0}
    <2>1. 1 \in Int /\ Len(tokens) \in Int
        BY <1>2
    <2>2. IsFiniteSet(DOMAIN tokens)
        BY <1>2, <2>1, FS_Interval
    <2>3. I \in SUBSET DOMAIN tokens
        OBVIOUS
    <2>4. IsFiniteSet(I)
        BY <2>2, <2>3, FS_Subset
    <2>5. DOMAIN tokens \subseteq Nat \ {0}
        BY <1>2
    <2> QED
        BY <2>3, <2>4, <2>5
<1> HIDE DEF I
<1>4. named \in Seq(I)
    BY <1>3, AscendingLaw
<1> HIDE DEF named
<1>5. Len(named) \in Nat /\ DOMAIN named = 1 .. Len(named)
    BY <1>4
<1>6. ASSUME NEW e \in Range(all) PROVE LexemeEntry(e)
    <2>1. PICK n \in DOMAIN named : e = all[n]
        BY <1>6 DEF Range
    <2>2. e.phrase = <<Lexeme(tokens[named[n]].lemma)>>
        BY <2>1
    <2> QED
        BY <2>2, OneWord DEF LexemeEntry
<1>7. all = [n \in 1 .. Len(named) |-> all[n]]
    BY <1>5
<1> HIDE DEF all
<1> QED
    BY <1>1, <1>5, <1>6, <1>7

(* Whatever phrasal verb the rules find in the tokens, the dictionary of the tokens has *)
(* a category for its form, unless the rules change that form again.                    *)
LEMMA TokenDictionary ==
    ASSUME NEW tokens, IsTokens(tokens), NEW c \in Range(PhrasalVerbs(tokens)),
           NEW p, p = Canonical(c, ""), Canonical(p, "") = p
    PROVE  CategoryIn(Recanonical(TokenCategories(tokens, PhrasalVerbs(tokens))), p) # AutoAdded
<1> DEFINE phrasals == PhrasalVerbs(tokens)
           lexemes == LexemeCategories(tokens)
           entries == PhrasalEntries(phrasals)
           dictionary == TokenCategories(tokens, phrasals)
           again == Recanonical(dictionary)
<1>1. phrasals \in Seq(Phrasals)
    BY PhrasalVerbsLaw
<1>2. dictionary = lexemes \o entries
    BY DEF TokenCategories, PhrasalEntries
<1>3. c \in Range(phrasals)
    OBVIOUS
<1> HIDE DEF phrasals
<1>4. Len(phrasals) \in Nat /\ DOMAIN phrasals = 1 .. Len(phrasals)
    BY <1>1, LengthOf
<1>5. PICK at \in DOMAIN phrasals : c = phrasals[at]
    BY <1>3 DEF Range
<1>6. c \in Phrasals
    BY <1>1, <1>5, ElementsOf
<1>7. Canonical(c, "phrasal_verb") = p
    BY <1>6, SameForm
<1>8. Len(p) > 1
    BY <1>6, PhrasalType DEF Phrasals
<1>9. PICK N \in Nat : /\ lexemes = [n \in 1 .. N |-> lexemes[n]]
                        /\ \A e \in Range(lexemes) : LexemeEntry(e)
    BY LexemeCategoriesLaw
<1> HIDE DEF lexemes
<1>10. /\ entries = [n \in 1 .. Len(phrasals) |-> entries[n]]
       /\ \A n \in DOMAIN phrasals : /\ entries[n].phrase = Canonical(phrasals[n], "phrasal_verb")
                                     /\ entries[n].category = "Phrasal Verb"
    BY <1>4 DEF PhrasalEntries
<1> HIDE DEF entries
<1>11. \A e \in Range(entries) : e.category = "Phrasal Verb"
    BY <1>4, <1>10 DEF Range
<1>12. lexemes \in Seq(Range(lexemes)) /\ entries \in Seq(Range(entries))
    BY <1>4, <1>9, <1>10, OwnElements
<1>13. /\ DOMAIN dictionary \subseteq Nat
       /\ Range(dictionary) = Range(lexemes) \cup Range(entries)
       /\ \A n \in DOMAIN dictionary : dictionary[n] \in Range(lexemes) \cup Range(entries)
    BY <1>2, <1>12, JoinedElements
<1>14. /\ DOMAIN again = DOMAIN dictionary
       /\ \A n \in DOMAIN dictionary : /\ again[n].phrase = Canonical(dictionary[n].phrase, "")
                                       /\ again[n].category = dictionary[n].category
    BY DEF Recanonical
<1> HIDE DEF again, dictionary
<1>15. \E n \in DOMAIN again : again[n].phrase = p
    <2>1. entries[at].phrase = p /\ entries[at] \in Range(entries)
        BY <1>4, <1>5, <1>7, <1>10 DEF Range
    <2>2. entries[at] \in Range(dictionary)
        BY <1>13, <2>1
    <2>3. PICK n \in DOMAIN dictionary : dictionary[n] = entries[at]
        BY <2>2 DEF Range
    <2> QED
        BY <1>14, <2>1, <2>3
<1>16. ASSUME NEW n \in DOMAIN again, again[n].phrase = p
       PROVE  again[n].category # AutoAdded
    <2>1. n \in DOMAIN dictionary
        BY <1>14
    <2>2. CASE dictionary[n] \in Range(lexemes)
        <3>1. Len(dictionary[n].phrase) = 1
            BY <1>9, <2>2 DEF LexemeEntry
        <3>2. Canonical(dictionary[n].phrase, "") = dictionary[n].phrase
            BY <3>1, SingleStays
        <3> QED
            <4>1. again[n].phrase = dictionary[n].phrase
                BY <1>14, <2>1, <3>2
            <4>2. Len(p) = 1
                BY <1>16, <3>1, <4>1
            <4> QED
                BY <1>8, <4>2, NotLonger
    <2>3. CASE dictionary[n] \in Range(entries)
        BY <1>11, <1>14, <2>1, <2>3 DEF AutoAdded
    <2> QED
        BY <1>13, <2>1, <2>2, <2>3
<1>17. DOMAIN again \subseteq Nat
    BY <1>13, <1>14
<1>18. CategoryIn(again, p) # AutoAdded
    BY <1>15, <1>16, <1>17, NamedCategory
<1> QED
    BY <1>18 DEF again, dictionary, phrasals

(* The candidates of the tokens are single words and these phrasal verbs. *)
LEMMA TokenCandidatesLaw ==
    ASSUME NEW tokens, IsTokens(tokens)
    PROVE  /\ Range(PhrasalVerbs(tokens)) \subseteq Range(TokenCandidates(tokens))
           /\ \A p \in Range(TokenCandidates(tokens)) : Len(p) = 1 \/ p \in Range(PhrasalVerbs(tokens))
<1> DEFINE I == {i \in DOMAIN tokens : Lexeme(tokens[i].lemma) \notin Unsafe}
           plain == Ascending(I)
           words == [n \in DOMAIN plain |-> <<Lexeme(tokens[plain[n]].lemma)>>]
           lexemes == Lexemes(tokens)
           phrasals == PhrasalVerbs(tokens)
<1>1. lexemes = Unique(words)
    BY DEF Lexemes
<1>2. IsFiniteSet(I) /\ I \subseteq Nat \ {0}
    <2>1. Len(tokens) \in Nat /\ DOMAIN tokens = 1 .. Len(tokens)
        BY TokensLaw
    <2>2. 1 \in Int /\ Len(tokens) \in Int
        BY <2>1
    <2>3. IsFiniteSet(DOMAIN tokens)
        BY <2>1, <2>2, FS_Interval
    <2>4. I \in SUBSET DOMAIN tokens
        OBVIOUS
    <2>5. IsFiniteSet(I)
        BY <2>3, <2>4, FS_Subset
    <2>6. DOMAIN tokens \subseteq Nat \ {0}
        BY <2>1
    <2> QED
        BY <2>4, <2>5, <2>6
<1> HIDE DEF I
<1>3. plain \in Seq(I)
    BY <1>2, AscendingLaw
<1> HIDE DEF plain
<1>4. ASSUME NEW p \in Range(words) PROVE Len(p) = 1
    <2>1. PICK n \in DOMAIN plain : p = <<Lexeme(tokens[plain[n]].lemma)>>
        BY <1>4 DEF Range
    <2> QED
        BY <2>1, OneWord
<1>5. words \in Seq(Range(words))
    <2>1. Len(plain) \in Nat /\ DOMAIN plain = 1 .. Len(plain)
        BY <1>3
    <2>2. words = [n \in 1 .. Len(plain) |-> words[n]]
        BY <2>1
    <2> HIDE DEF words
    <2> QED
        BY <2>1, <2>2, OwnElements
<1> HIDE DEF words
<1>6. lexemes \in Seq(Range(words)) /\ Range(lexemes) = Range(words)
    BY <1>1, <1>5, UniqueLaw
<1> HIDE DEF lexemes
<1>7. phrasals \in Seq(Phrasals)
    BY PhrasalVerbsLaw
<1>8. TokenCandidates(tokens) = Unique(lexemes \o phrasals)
    BY DEF TokenCandidates, lexemes
<1> HIDE DEF phrasals
<1> DEFINE S == Range(words) \cup Phrasals
<1>9. lexemes \in Seq(S) /\ phrasals \in Seq(S)
    <2>1. Range(words) \subseteq S /\ Phrasals \subseteq S
        OBVIOUS
    <2>2. lexemes \in Seq(S)
        BY <1>6, <2>1, WiderSequence
    <2> QED
        BY <1>7, <2>1, <2>2, WiderSequence
<1> HIDE DEF S
<1>10. /\ lexemes \o phrasals \in Seq(S)
       /\ Range(lexemes \o phrasals) = Range(lexemes) \cup Range(phrasals)
    BY <1>9, RangeOfBoth
<1>11. Range(TokenCandidates(tokens)) = Range(lexemes) \cup Range(phrasals)
    BY <1>8, <1>10, UniqueLaw
<1> QED
    BY <1>4, <1>6, <1>11 DEF phrasals

-----------------------------------------------------------------------------
(* What the passes put into the lexicon                                    *)

(* Occurrences of a pass, in their order. *)
Mentions(occurrences) ==
    /\ occurrences \in Seq(Range(occurrences))
    /\ \A o \in Range(occurrences) : o.form \in Phrase /\ o.type \in {"phrasal_verb", "idiom"}

LEMMA MentionsLaw ==
    ASSUME NEW occurrences, Mentions(occurrences)
    PROVE  /\ Len(occurrences) \in Nat /\ DOMAIN occurrences = 1 .. Len(occurrences)
           /\ DOMAIN occurrences \subseteq Nat
<1>1. Len(occurrences) \in Nat /\ DOMAIN occurrences = 1 .. Len(occurrences)
    BY DEF Mentions
<1>2. DOMAIN occurrences \subseteq Nat
    BY <1>1
<1> QED
    BY <1>1, <1>2

LEMMA NoMentions == Mentions(<<>>)
<1>1. Range(<<>>) = {}
    BY DEF Range
<1> QED
    BY <1>1, EmptySequence DEF Mentions

LEMMA SaidAreMentions ==
    ASSUME NEW occurrences \in Seq(Said)
    PROVE  Mentions(occurrences)
<1>1. Len(occurrences) \in Nat /\ DOMAIN occurrences = 1 .. Len(occurrences)
    OBVIOUS
<1>2. occurrences = [n \in 1 .. Len(occurrences) |-> occurrences[n]]
    OBVIOUS
<1>3. occurrences \in Seq(Range(occurrences))
    BY <1>1, <1>2, OwnElements
<1>4. \A o \in Range(occurrences) : o \in Said
    BY WiderSequence
<1>5. \A o \in Said : o.form \in Phrase /\ o.type \in {"phrasal_verb", "idiom"}
    BY DEF Said
<1> QED
    BY <1>3, <1>4, <1>5 DEF Mentions

LEMMA ReportedAreMentions ==
    ASSUME NEW s, NEW loaded, NEW t, IsText(t), NEW index, IsIndex(index)
    PROVE  Mentions(Report(s, loaded, t, index).occurrences)
<1>1. PICK all : all = Augmented(s, t, index)
    OBVIOUS
<1>2. PICK occurrences : occurrences = Report(s, loaded, t, index).occurrences
    OBVIOUS
<1>3. /\ Len(occurrences) \in Nat /\ DOMAIN occurrences = 1 .. Len(occurrences)
      /\ \A n \in DOMAIN occurrences :
             \E c : IsCandidate(c, t, all) /\ occurrences[n] = Occurrence(index, all, c)
    BY <1>1, <1>2, ReportLaw
<1>4. occurrences = [n \in 1 .. Len(occurrences) |-> occurrences[n]]
    <2>1. Report(s, loaded, t, index).occurrences
              = [n \in DOMAIN Selected(Found(s, loaded, t, Augmented(s, t, index))) |->
                    Occurrence(index, Augmented(s, t, index),
                               Selected(Found(s, loaded, t, Augmented(s, t, index)))[n])]
        BY DEF Report, Disambiguated
    <2>2. PICK chosen : chosen = Selected(Found(s, loaded, t, Augmented(s, t, index)))
        OBVIOUS
    <2>3. occurrences = [n \in DOMAIN chosen |-> Occurrence(index, all, chosen[n])]
        BY <1>1, <1>2, <2>1, <2>2
    <2> QED
        BY <1>3, <2>3
<1>5. occurrences \in Seq(Range(occurrences))
    BY <1>3, <1>4, OwnElements
<1>6. ASSUME NEW o \in Range(occurrences)
      PROVE  o.form \in Phrase /\ o.type \in {"phrasal_verb", "idiom"}
    <2>1. PICK n \in DOMAIN occurrences : o = occurrences[n]
        BY <1>6 DEF Range
    <2>2. PICK c : IsCandidate(c, t, all) /\ occurrences[n] = Occurrence(index, all, c)
        BY <1>3, <2>1
    <2>3. o.form = all[c.id].words /\ o.type = all[c.id].type
        BY <2>1, <2>2, OccurrenceLaw
    <2>4. c.id \in DOMAIN all
        BY <2>2 DEF IsCandidate
    <2>5. all[c.id] \in Expression
        BY <1>1, <2>4, AugmentedLaw
    <2> QED
        BY <2>3, <2>5 DEF Expression
<1> QED
    BY <1>2, <1>5, <1>6 DEF Mentions

(* The candidates of a pass are its occurrences in their canonical form. *)
LEMMA OccurrenceCandidatesLaw ==
    ASSUME NEW occurrences, Mentions(occurrences)
    PROVE  Range(OccurrenceCandidates(occurrences)) = {FormOf(o) : o \in Range(occurrences)}
<1> DEFINE forms == [n \in DOMAIN occurrences |-> FormOf(occurrences[n])]
<1>1. Len(occurrences) \in Nat /\ DOMAIN occurrences = 1 .. Len(occurrences)
    BY DEF Mentions
<1>2. forms = [n \in 1 .. Len(occurrences) |-> forms[n]]
    BY <1>1
<1>3. Range(forms) = {FormOf(o) : o \in Range(occurrences)}
    BY DEF Range
<1>4. OccurrenceCandidates(occurrences) = Unique(forms)
    BY DEF OccurrenceCandidates
<1> HIDE DEF forms
<1>5. forms \in Seq(Range(forms))
    BY <1>1, <1>2, OwnElements
<1>6. Range(Unique(forms)) = Range(forms)
    BY <1>5, UniqueLaw
<1> QED
    BY <1>3, <1>4, <1>6

(* The form an occurrence has without its type has the category of its type. *)
LEMMA OccurrenceDictionary ==
    ASSUME NEW occurrences, Mentions(occurrences),
           NEW c \in Range(OccurrenceCandidates(occurrences)), NEW p, p = Canonical(c, "")
    PROVE  CategoryIn(Recanonical(OccurrenceCategories(occurrences)), p) # AutoAdded
<1> DEFINE dictionary == OccurrenceCategories(occurrences)
           again == Recanonical(dictionary)
<1>1. PICK o \in Range(occurrences) : c = FormOf(o)
    <2>1. Range(OccurrenceCandidates(occurrences)) = {FormOf(x) : x \in Range(occurrences)}
        BY OccurrenceCandidatesLaw
    <2>2. c \in {FormOf(x) : x \in Range(occurrences)}
        BY <2>1
    <2> QED
        BY <2>2
<1>2. PICK at \in DOMAIN occurrences : o = occurrences[at]
    BY DEF Range
<1>3. /\ DOMAIN dictionary = DOMAIN occurrences
      /\ \A n \in DOMAIN occurrences : /\ dictionary[n].phrase = FormOf(occurrences[n])
                                       /\ dictionary[n].category = KindOf(occurrences[n].type)
    BY DEF OccurrenceCategories
<1>4. /\ DOMAIN again = DOMAIN dictionary
      /\ \A n \in DOMAIN dictionary : /\ again[n].phrase = Canonical(dictionary[n].phrase, "")
                                      /\ again[n].category = dictionary[n].category
    BY DEF Recanonical
<1> HIDE DEF again, dictionary
<1>5. DOMAIN again \subseteq Nat
    <2>1. DOMAIN again = DOMAIN occurrences
        BY <1>3, <1>4
    <2> QED
        BY <2>1, MentionsLaw
<1>6. \E n \in DOMAIN again : again[n].phrase = p
    <2>1. at \in DOMAIN again /\ again[at].phrase = Canonical(c, "")
        BY <1>1, <1>2, <1>3, <1>4
    <2> QED
        BY <2>1
<1>7. \A type : KindOf(type) # AutoAdded
    BY DEF KindOf, AutoAdded
<1>8. \A n \in DOMAIN again : again[n].category # AutoAdded
    BY <1>3, <1>4, <1>7
<1>9. CategoryIn(again, p) # AutoAdded
    BY <1>5, <1>6, <1>8, NamedCategory
<1> QED
    BY <1>9 DEF again, dictionary

(* A lexicon has a category for each of its phrases that is looked up as it is. *)
Has(entries, p) == \E e \in entries : e.phrase = p
Named(e) == Len(e.phrase) > 1 /\ Canonical(e.phrase, "") = e.phrase => e.category # AutoAdded
AllNamed(entries) == \A e \in entries : Named(e)

(* The step from a lexicon to the next one: nothing is lost, and what is new is named. *)
Extends(after, entries) == entries \subseteq after /\ (AllNamed(entries) => AllNamed(after))

(* A phrase is in the lexicon in the form it has without a type, if that may be stored. *)
IsStored(entries, p) ==
    LET form == Canonical(p, "") IN Len(form) > 1 /\ Spelled(form) => Has(entries, form)

LEMMA TokenSync ==
    ASSUME NEW entries, NEW tokens, IsTokens(tokens)
    PROVE  LET after == Synced(entries, TokenCandidates(tokens),
                               Recanonical(TokenCategories(tokens, PhrasalVerbs(tokens))))
           IN  /\ Extends(after, entries)
               /\ \A p \in Range(PhrasalVerbs(tokens)) : IsStored(after, p)
<1>1. PICK candidates : candidates = TokenCandidates(tokens)
    OBVIOUS
<1>2. PICK dictionary : dictionary = Recanonical(TokenCategories(tokens, PhrasalVerbs(tokens)))
    OBVIOUS
<1>3. PICK after : after = Synced(entries, candidates, dictionary)
    OBVIOUS
<1>4. /\ entries \subseteq after
      /\ \A p \in Forms(candidates) : Len(p) > 1 /\ Spelled(p) => \E e \in after : e.phrase = p
      /\ \A e \in after : e \in entries \/
            (e.phrase \in Forms(candidates) /\ e.category = CategoryIn(dictionary, e.phrase))
    BY <1>3, SyncedLaw
<1>5. /\ Range(PhrasalVerbs(tokens)) \subseteq Range(candidates)
      /\ \A p \in Range(candidates) : Len(p) = 1 \/ p \in Range(PhrasalVerbs(tokens))
    BY <1>1, TokenCandidatesLaw
<1>6. ASSUME NEW p \in Range(PhrasalVerbs(tokens)) PROVE IsStored(after, p)
    <2>1. Canonical(p, "") \in Forms(candidates)
        BY <1>5 DEF Forms
    <2> QED
        BY <1>4, <2>1 DEF IsStored, Has
<1>7. ASSUME NEW e \in after, e \notin entries PROVE Named(e)
    <2> SUFFICES ASSUME Len(e.phrase) > 1, Canonical(e.phrase, "") = e.phrase
                 PROVE  e.category # AutoAdded
        BY DEF Named
    <2>1. e.phrase \in Forms(candidates) /\ e.category = CategoryIn(dictionary, e.phrase)
        BY <1>4, <1>7
    <2>2. PICK c \in Range(candidates) : e.phrase = Canonical(c, "")
        BY <2>1 DEF Forms
    <2>3. c \in Range(PhrasalVerbs(tokens))
        <3>1. Len(c) # 1
            <4> SUFFICES ASSUME Len(c) = 1 PROVE FALSE
                OBVIOUS
            <4>1. Canonical(c, "") = c
                BY SingleStays
            <4> QED
                BY <2>2, <4>1, NotLonger
        <3> QED
            BY <1>5, <3>1
    <2>4. CategoryIn(dictionary, e.phrase) # AutoAdded
        BY <1>2, <2>2, <2>3, TokenDictionary
    <2> QED
        BY <2>1, <2>4
<1>8. Extends(after, entries)
    BY <1>4, <1>7 DEF Extends, AllNamed
<1> QED
    BY <1>1, <1>2, <1>3, <1>6, <1>8

LEMMA OccurrenceSync ==
    ASSUME NEW occurrences, Mentions(occurrences), NEW after, after = SyncedOccurrences(occurrences)
    PROVE  /\ Extends(after, lexicon)
           /\ \A o \in Range(occurrences) : IsStored(after, FormOf(o))
<1>1. PICK candidates : candidates = OccurrenceCandidates(occurrences)
    OBVIOUS
<1>2. PICK dictionary : dictionary = Recanonical(OccurrenceCategories(occurrences))
    OBVIOUS
<1>3. after = Synced(lexicon, candidates, dictionary)
    BY <1>1, <1>2 DEF SyncedOccurrences
<1>4. /\ lexicon \subseteq after
      /\ \A p \in Forms(candidates) : Len(p) > 1 /\ Spelled(p) => \E e \in after : e.phrase = p
      /\ \A e \in after : e \in lexicon \/
            (e.phrase \in Forms(candidates) /\ e.category = CategoryIn(dictionary, e.phrase))
    BY <1>3, SyncedLaw
<1>5. Range(candidates) = {FormOf(o) : o \in Range(occurrences)}
    BY <1>1, OccurrenceCandidatesLaw
<1>6. ASSUME NEW o \in Range(occurrences) PROVE IsStored(after, FormOf(o))
    <2>1. FormOf(o) \in Range(candidates)
        BY <1>5
    <2>2. Canonical(FormOf(o), "") \in Forms(candidates)
        BY <2>1 DEF Forms
    <2> QED
        BY <1>4, <2>2 DEF IsStored, Has
<1>7. ASSUME NEW e \in after, e \notin lexicon PROVE Named(e)
    <2>1. e.phrase \in Forms(candidates) /\ e.category = CategoryIn(dictionary, e.phrase)
        BY <1>4, <1>7
    <2>2. PICK c \in Range(candidates) : e.phrase = Canonical(c, "")
        BY <2>1 DEF Forms
    <2>3. CategoryIn(dictionary, e.phrase) # AutoAdded
        BY <1>1, <1>2, <2>2, OccurrenceDictionary
    <2> QED
        BY <2>1, <2>3 DEF Named
<1>8. Extends(after, lexicon)
    BY <1>4, <1>7 DEF Extends, AllNamed
<1> QED
    BY <1>6, <1>8

(* What the passes have found is in the lexicon, and every entry that is looked up as *)
(* it is has a category.                                                              *)
Keeps(entries, occurrences) ==
    /\ Mentions(occurrences)
    /\ \A o \in Range(occurrences) : IsStored(entries, FormOf(o))
Gathered ==
    /\ AllNamed(lexicon)
    /\ phase \in {"second", "third", "table"} =>
           \A p \in Range(PhrasalVerbs(text.tokens)) : IsStored(lexicon, p)
    /\ Keeps(lexicon, second.occurrences) /\ Keeps(lexicon, third.occurrences)

LEMMA StoredStays ==
    ASSUME NEW entries, NEW after, Extends(after, entries), NEW occurrences, Keeps(entries, occurrences)
    PROVE  Keeps(after, occurrences)
BY DEF Extends, Keeps, IsStored, Has

LEMMA NothingStored ==
    ASSUME NEW entries
    PROVE  Keeps(entries, <<>>)
<1>1. Range(<<>>) = {}
    BY DEF Range
<1> QED
    BY <1>1, NoMentions DEF Keeps

LEMMA GatheredHolds == Spec => []Gathered
<1>1. Init => Gathered
    BY NothingStored DEF Init, Gathered, NotRun, NotAsked, AllNamed
<1>2. Inputs /\ Gathered /\ [Next]_vars => Gathered'
    <2> SUFFICES ASSUME Inputs, Gathered, [Next]_vars PROVE Gathered'
        OBVIOUS
    <2>1. IsText(text) /\ IsIndex(store) /\ IsTokens(text.tokens)
        BY InputsAreTexts DEF IsText, IsTokens
    <2>2. CASE ParseTokens
        <3>1. PICK after : after = Synced(lexicon, TokenCandidates(text.tokens),
                    Recanonical(TokenCategories(text.tokens, PhrasalVerbs(text.tokens))))
            OBVIOUS
        <3>2. Extends(after, lexicon) /\ \A p \in Range(PhrasalVerbs(text.tokens)) : IsStored(after, p)
            BY <2>1, <3>1, TokenSync
        <3>3. lexicon' = after /\ text' = text /\ second' = second /\ third' = third
            BY <2>2, <3>1 DEF ParseTokens
        <3>4. AllNamed(lexicon')
            BY <3>2, <3>3 DEF Gathered, Extends
        <3>5. \A p \in Range(PhrasalVerbs(text'.tokens)) : IsStored(lexicon', p)
            BY <3>2, <3>3
        <3>6. Keeps(lexicon', second'.occurrences)
            BY <3>2, <3>3, StoredStays DEF Gathered
        <3>7. Keeps(lexicon', third'.occurrences)
            BY <3>2, <3>3, StoredStays DEF Gathered
        <3> QED
            BY <3>4, <3>5, <3>6, <3>7 DEF Gathered
    <2>3. CASE SecondPass
        <3>1. /\ text' = text /\ third' = third /\ phase = "second"
              /\ \/ second' = NotRun /\ lexicon' = lexicon
                 \/ /\ \E vectors \in BOOLEAN : second' = Report(syn', vectors, text, store)
                    /\ lexicon' = SyncedOccurrences(second'.occurrences)
            BY <2>3 DEF SecondPass, Report
        <3>2. Extends(lexicon', lexicon) /\ Keeps(lexicon', second'.occurrences)
            <4>1. CASE second' = NotRun /\ lexicon' = lexicon
                BY <4>1, NothingStored DEF NotRun, Extends
            <4>2. CASE /\ \E vectors \in BOOLEAN : second' = Report(syn', vectors, text, store)
                       /\ lexicon' = SyncedOccurrences(second'.occurrences)
                <5>1. PICK vectors \in BOOLEAN : second' = Report(syn', vectors, text, store)
                    BY <4>2
                <5>2. Mentions(second'.occurrences)
                    BY <2>1, <5>1, ReportedAreMentions
                <5> QED
                    BY <4>2, <5>2, OccurrenceSync DEF Keeps
            <4> QED
                BY <3>1, <4>1, <4>2
        <3>3. AllNamed(lexicon')
            BY <3>2 DEF Gathered, Extends
        <3>4. \A p \in Range(PhrasalVerbs(text'.tokens)) : IsStored(lexicon', p)
            BY <3>1, <3>2 DEF Gathered, Extends, IsStored, Has
        <3>5. Keeps(lexicon', third'.occurrences)
            BY <3>1, <3>2, StoredStays DEF Gathered
        <3> QED
            BY <3>2, <3>3, <3>4, <3>5 DEF Gathered
    <2>4. CASE ThirdPass
        <3>1. PICK response \in Responses :
                  /\ third'.occurrences = Extracted(response).occurrences
                  /\ lexicon' = SyncedOccurrences(Extracted(response).occurrences)
            BY <2>4 DEF ThirdPass
        <3>2. text' = text /\ second' = second /\ phase = "third"
            BY <2>4 DEF ThirdPass
        <3>3. Mentions(third'.occurrences)
            BY <3>1, AnalysisAssumption, ExtractedLaw, SaidAreMentions
        <3>4. Extends(lexicon', lexicon) /\ Keeps(lexicon', third'.occurrences)
            BY <3>1, <3>3, OccurrenceSync DEF Keeps
        <3>5. AllNamed(lexicon')
            BY <3>4 DEF Gathered, Extends
        <3>6. \A p \in Range(PhrasalVerbs(text'.tokens)) : IsStored(lexicon', p)
            BY <3>2, <3>4 DEF Gathered, Extends, IsStored, Has
        <3>7. Keeps(lexicon', second'.occurrences)
            BY <3>2, <3>4, StoredStays DEF Gathered
        <3> QED
            BY <3>4, <3>5, <3>6, <3>7 DEF Gathered
    <2>5. CASE NoThirdPass
        <3>1. /\ text' = text /\ lexicon' = lexicon /\ second' = second /\ third' = third
              /\ phase = "third"
            BY <2>5 DEF NoThirdPass
        <3> QED
            BY <3>1 DEF Gathered
    <2>6. CASE BuildTable
        <3>1. /\ lexicon' = lexicon /\ second' = NotRun /\ third' = NotAsked /\ phase' = "answer"
            BY <2>6 DEF BuildTable
        <3>2. Keeps(lexicon', second'.occurrences) /\ Keeps(lexicon', third'.occurrences)
            BY <3>1, NothingStored DEF NotRun, NotAsked
        <3> QED
            BY <3>1, <3>2 DEF Gathered
    <2>7. CASE Answered
        <3>1. /\ lexicon' = lexicon /\ second' = second /\ third' = third /\ phase' = "tokens"
            BY <2>7 DEF Answered
        <3> QED
            BY <3>1 DEF Gathered
    <2>8. CASE UNCHANGED vars
        BY <2>8 DEF vars, Gathered
    <2> QED
        BY <2>2, <2>3, <2>4, <2>5, <2>6, <2>7, <2>8 DEF Next
<1> QED
    BY <1>1, <1>2, InputsHold, PTL DEF Spec

-----------------------------------------------------------------------------
(* The rows of the table                                                   *)

(* The recursion that defines FlattenSeq has a solution. *)
Flattens(f, ss) == f = [i \in 1 .. Len(ss) |-> IF i = 1 THEN ss[i] ELSE f[i - 1] \o ss[i]]

LEMMA FlatteningHasAValue ==
    ASSUME NEW S, NEW ss \in Seq(Seq(S)), Len(ss) # 0
    PROVE  \E f : Flattens(f, ss)
<1> DEFINE N == Len(ss)
           D == Seq(S)
           joined(d, n) == d \o ss[n + 1]
           step == [p \in Nat \X D |-> IF p[1] \in 1 .. N - 1 THEN joined(p[2], p[1]) ELSE p[2]]
<1>1. N \in Nat /\ N - 1 \in Nat /\ \A i \in 1 .. N : ss[i] \in D
    OBVIOUS
<1>2. \A n \in 1 .. N - 1 : \A d \in D : joined(d, n) \in D
    <2> TAKE n \in 1 .. N - 1
    <2> TAKE d \in D
    <2>1. n + 1 \in 1 .. N
        BY <1>1
    <2>2. ss[n + 1] \in D
        BY <1>1, <2>1
    <2> QED
        BY <2>2
<1>3. ss[1] \in D
    BY <1>1
<1> HIDE DEF joined, N, D
<1>4. step \in [Nat \X D -> D]
    BY <1>2
<1>5. \A n \in 1 .. N - 1 : \A d \in D : step[<<n, d>>] = joined(d, n)
    <2> TAKE n \in 1 .. N - 1
    <2> TAKE d \in D
    <2>1. <<n, d>> \in Nat \X D /\ <<n, d>>[1] = n /\ <<n, d>>[2] = d
        BY <1>1
    <2> QED
        BY <2>1
<1> HIDE DEF step
<1>6. PICK f \in [0 .. N - 1 -> D] : Solves(f, N - 1, ss[1], step)
    BY <1>1, <1>3, <1>4, Recursion
<1> DEFINE g == [i \in 1 .. N |-> f[i - 1]]
           h == [i \in 1 .. N |-> IF i = 1 THEN ss[i] ELSE g[i - 1] \o ss[i]]
<1>7. ASSUME NEW i \in 1 .. N
      PROVE  g[i] = IF i = 1 THEN ss[i] ELSE g[i - 1] \o ss[i]
    <2>1. g[i] = f[i - 1]
        OBVIOUS
    <2>2. CASE i = 1
        BY <1>6, <2>1, <2>2 DEF Solves
    <2>3. CASE i # 1
        <3>1. /\ i - 1 \in 1 .. N - 1 /\ i - 1 \in 1 .. N /\ (i - 1) - 1 \in 0 .. N - 1
              /\ (i - 1) + 1 = i
            BY <1>1, <2>3
        <3>2. f[(i - 1) - 1] \in D
            BY <1>6, <3>1
        <3>3. f[i - 1] = step[<<i - 1, f[(i - 1) - 1]>>]
            BY <1>6, <3>1 DEF Solves
        <3>4. f[i - 1] = joined(f[(i - 1) - 1], i - 1)
            BY <1>5, <3>1, <3>2, <3>3
        <3>5. joined(f[(i - 1) - 1], i - 1) = f[(i - 1) - 1] \o ss[i]
            BY <3>1 DEF joined
        <3>6. g[i - 1] = f[(i - 1) - 1]
            BY <3>1
        <3> QED
            BY <2>1, <2>3, <3>4, <3>5, <3>6
    <2> QED
        BY <2>2, <2>3
<1>8. g = h
    BY <1>7
<1>9. Flattens(g, ss)
    <2>1. g = [i \in 1 .. N |-> IF i = 1 THEN ss[i] ELSE g[i - 1] \o ss[i]]
        BY <1>8 DEF h
    <2> QED
        BY <2>1 DEF Flattens, N
<1> QED
    BY <1>9

LEMMA FlattenLaw ==
    ASSUME NEW S, NEW ss \in Seq(Seq(S))
    PROVE  FlattenSeq(ss) \in Seq(S)
<1> DEFINE N == Len(ss)
           D == Seq(S)
           f == CHOOSE f : Flattens(f, ss)
<1>1. N \in Nat /\ \A i \in 1 .. N : ss[i] \in D
    OBVIOUS
<1>2. CASE N = 0
    <2>1. FlattenSeq(ss) = ss
        BY <1>2 DEF FlattenSeq
    <2>2. ss = <<>>
        BY <1>2
    <2> QED
        BY <2>1, <2>2, EmptySequence
<1>3. CASE N # 0
    <2>1. Flattens(f, ss)
        <3>1. PICK g : Flattens(g, ss)
            BY <1>3, FlatteningHasAValue
        <3> QED
            BY <3>1
    <2>2. FlattenSeq(ss) = f[N]
        BY <1>3 DEF FlattenSeq, Flattens
    <2> HIDE DEF f, D
    <2>3. \A i \in 1 .. N : f[i] = IF i = 1 THEN ss[i] ELSE f[i - 1] \o ss[i]
        BY <2>1 DEF Flattens
    <2> HIDE DEF N
    <2> DEFINE h == [n \in 0 .. N - 1 |-> f[n + 1]]
    <2>4. N \in Nat /\ N - 1 \in Nat
        BY <1>1, <1>3
    <2>5. \A n \in 0 .. N - 1 : h[n] = f[n + 1]
        OBVIOUS
    <2> HIDE DEF h
    <2>6. h[0] \in D
        <3>1. 0 \in 0 .. N - 1 /\ 1 \in 1 .. N
            BY <2>4
        <3> QED
            BY <1>1, <2>3, <2>5, <3>1
    <2>7. ASSUME NEW n \in 1 .. N - 1, h[n - 1] \in D
          PROVE  h[n] \in D
        <3>1. /\ n \in 0 .. N - 1 /\ n - 1 \in 0 .. N - 1 /\ (n - 1) + 1 = n
              /\ n + 1 \in 1 .. N /\ n + 1 # 1 /\ (n + 1) - 1 = n
            BY <2>4
        <3>2. h[n] = f[n] \o ss[n + 1]
            BY <2>3, <2>5, <3>1
        <3>3. h[n - 1] = f[n]
            BY <2>5, <3>1
        <3>4. f[n] \in D /\ ss[n + 1] \in D
            BY <1>1, <2>7, <3>1, <3>3
        <3> QED
            BY <3>2, <3>4 DEF D
    <2>8. \A n \in 0 .. N - 1 : h[n] \in D
        <3>1. \A n \in 1 .. N - 1 : h[n - 1] \in D => h[n] \in D
            BY <2>7
        <3> QED
            BY <2>4, <2>6, <3>1, Kept
    <2>9. f[N] \in D
        <3>1. N - 1 \in 0 .. N - 1 /\ (N - 1) + 1 = N
            BY <2>4
        <3> QED
            BY <2>5, <2>8, <3>1
    <2> QED
        BY <2>2, <2>9 DEF D
<1> QED
    BY <1>2, <1>3

(* Rows of single words; the category is a name or a list of them. *)
WordRows ==
    [form : {p \in Seq(STRING) : Len(p) = 1}, category : STRING \cup {"-"} \cup {ToString(c) : c \in Seq(STRING)},
     source : {"token"}, known : BOOLEAN]

(* The rows of the tokens show single words. *)
LEMMA TokenRowsLaw ==
    ASSUME NEW tokens, IsTokens(tokens), NEW has
    PROVE  TokenRows(tokens, has) \in Seq(WordRows)
<1> DEFINE row(i, category) == [form |-> <<tokens[i].word>>, category |-> category, source |-> "token",
                                known |-> <<Lexeme(tokens[i].lemma)>> \in has]
           cats(i) == Unique(tokens[i].cats)
           rows(i) == CASE cats(i) = <<>> -> <<row(i, "-")>>
                        [] Splits(cats(i)) -> [n \in DOMAIN cats(i) |-> row(i, cats(i)[n])]
                        [] Len(cats(i)) = 1 -> <<row(i, cats(i)[1])>>
                        [] Len(cats(i)) > 1 /\ ~Splits(cats(i)) -> <<row(i, ToString(cats(i)))>>
           all == [i \in DOMAIN tokens |-> rows(i)]
<1>1. TokenRows(tokens, has) = FlattenSeq(all)
    BY DEF TokenRows
<1>2. Len(tokens) \in Nat /\ DOMAIN tokens = 1 .. Len(tokens)
    BY TokensLaw
<1>3. ASSUME NEW i \in DOMAIN tokens
      PROVE  rows(i) \in Seq(WordRows)
    <2> DEFINE C == STRING \cup {"-"} \cup {ToString(c) : c \in Seq(STRING)}
    <2>1. cats(i) \in Seq(STRING)
        BY TokensLaw, UniqueLaw
    <2>2. PICK mine : mine = cats(i)
        OBVIOUS
    <2>3. ASSUME NEW category \in C PROVE row(i, category) \in WordRows
        <3>1. <<tokens[i].word>> \in {p \in Seq(STRING) : Len(p) = 1}
            <4>1. tokens[i].word \in STRING
                BY TokensLaw
            <4>2. PICK w \in STRING : w = tokens[i].word
                BY <4>1
            <4>3. <<w>> \in Seq(STRING) /\ Len(<<w>>) = 1
                OBVIOUS
            <4> QED
                BY <4>2, <4>3
        <3> QED
            BY <3>1 DEF WordRows
    <2> HIDE DEF row
    <2>4. ASSUME NEW category \in C PROVE <<row(i, category)>> \in Seq(WordRows)
        <3>1. row(i, category) \in WordRows
            BY <2>3
        <3> QED
            BY <3>1
    <2>5. Len(mine) \in Nat /\ DOMAIN mine = 1 .. Len(mine) /\ \A n \in 1 .. Len(mine) : mine[n] \in STRING
        BY <2>1, <2>2
    <2>6. mine \in Seq(STRING)
        BY <2>1, <2>2
    <2>7. rows(i) = CASE mine = <<>> -> <<row(i, "-")>>
                      [] Splits(mine) -> [n \in DOMAIN mine |-> row(i, mine[n])]
                      [] Len(mine) = 1 -> <<row(i, mine[1])>>
                      [] Len(mine) > 1 /\ ~Splits(mine) -> <<row(i, ToString(mine))>>
        BY <2>2
    <2> HIDE DEF rows, cats
    <2>8. <<row(i, "-")>> \in Seq(WordRows)
        BY <2>4
    <2>9. [n \in DOMAIN mine |-> row(i, mine[n])] \in Seq(WordRows)
        <3> DEFINE f == [n \in DOMAIN mine |-> row(i, mine[n])]
        <3>1. \A n \in 1 .. Len(mine) : mine[n] \in C
            BY <2>5
        <3> HIDE DEF C
        <3>2. f \in [1 .. Len(mine) -> WordRows]
            BY <2>3, <2>5, <3>1
        <3> QED
            BY <2>5, <3>2, SequenceOf
    <2>10. Len(mine) = 1 => <<row(i, mine[1])>> \in Seq(WordRows)
        <3> SUFFICES ASSUME Len(mine) = 1 PROVE <<row(i, mine[1])>> \in Seq(WordRows)
            OBVIOUS
        <3>1. mine[1] \in C
            BY <2>5
        <3> HIDE DEF C
        <3> QED
            BY <2>4, <3>1
    <2>11. <<row(i, ToString(mine))>> \in Seq(WordRows)
        <3>1. ToString(mine) \in C
            BY <2>6
        <3> HIDE DEF C
        <3> QED
            BY <2>4, <3>1
    <2>12. mine = <<>> \/ Splits(mine) \/ Len(mine) = 1 \/ (Len(mine) > 1 /\ ~Splits(mine))
        <3>1. mine # <<>> => Len(mine) > 0
            BY <2>6
        <3>2. mine = <<>> \/ Len(mine) = 1 \/ Len(mine) > 1
            BY <2>5, <3>1
        <3> QED
            BY <3>2, Zenon
    <2> QED
        BY <2>7, <2>8, <2>9, <2>10, <2>11, <2>12
<1>4. all = [n \in 1 .. Len(tokens) |-> rows(n)]
    BY <1>2
<1> HIDE DEF rows
<1>5. all \in [1 .. Len(tokens) -> Seq(WordRows)]
    BY <1>2, <1>3, <1>4
<1> HIDE DEF all
<1>6. all \in Seq(Seq(WordRows))
    BY <1>2, <1>5, SequenceOf
<1> QED
    BY <1>1, <1>6, FlattenLaw

(* A row for each form and type that a pass has found. *)
MentionRow(row, occurrences) ==
    row.source # "heuristic" /\ \E o \in Range(occurrences) : row.form = FormOf(o)

LEMMA OccurrenceRowsLaw ==
    ASSUME NEW occurrences, Mentions(occurrences), NEW source, source # "heuristic", NEW has,
           NEW rows, rows = OccurrenceRows(occurrences, source, has)
    PROVE  rows \in Seq(Range(rows)) /\ \A row \in Range(rows) : MentionRow(row, occurrences)
<1> DEFINE pairs == [n \in DOMAIN occurrences |-> <<RowForm(occurrences[n]), occurrences[n].type>>]
           forms == Unique(pairs)
<1>1. rows = [n \in DOMAIN forms |-> [form |-> forms[n][1], category |-> KindOf(forms[n][2]),
                                      source |-> source, known |-> forms[n][1] \in has]]
    BY DEF OccurrenceRows
<1>2. Len(occurrences) \in Nat /\ DOMAIN occurrences = 1 .. Len(occurrences)
    BY MentionsLaw
<1>3. pairs = [n \in 1 .. Len(occurrences) |-> pairs[n]]
    BY <1>2
<1>4. ASSUME NEW x \in Range(pairs)
      PROVE  \E o \in Range(occurrences) : x[1] = FormOf(o)
    <2>1. PICK n \in DOMAIN occurrences : x = <<RowForm(occurrences[n]), occurrences[n].type>>
        BY <1>4 DEF Range
    <2>2. occurrences[n] \in Range(occurrences)
        BY DEF Range
    <2> QED
        BY <2>1, <2>2 DEF RowForm, FormOf
<1> HIDE DEF pairs
<1>5. pairs \in Seq(Range(pairs))
    BY <1>2, <1>3, OwnElements
<1>6. forms \in Seq(Range(pairs))
    BY <1>5, UniqueLaw
<1> HIDE DEF forms
<1>7. /\ Len(forms) \in Nat /\ DOMAIN forms = 1 .. Len(forms)
      /\ \A n \in 1 .. Len(forms) : forms[n] \in Range(pairs)
    BY <1>6
<1>8. rows = [n \in 1 .. Len(forms) |-> rows[n]]
    BY <1>1, <1>7
<1>9. ASSUME NEW row \in Range(rows) PROVE MentionRow(row, occurrences)
    <2>1. PICK n \in DOMAIN forms : row = rows[n]
        BY <1>1, <1>9 DEF Range
    <2>2. row.form = forms[n][1] /\ row.source # "heuristic"
        BY <1>1, <2>1
    <2>3. forms[n] \in Range(pairs)
        BY <1>7
    <2> QED
        BY <1>4, <2>2, <2>3 DEF MentionRow
<1>10. rows \in Seq(Range(rows))
    BY <1>7, <1>8, OwnElements
<1> QED
    BY <1>9, <1>10

(* A row for a phrasal verb of the tokens that the table does not have. *)
PhrasalRow(row, phrasals) ==
    row.source = "heuristic" /\ \E q \in Range(phrasals) : row.form = Canonical(q, "phrasal_verb")

Heuristic(form, has) ==
    [form |-> form, category |-> "Phrasal Verb", source |-> "heuristic", known |-> has]

LEMMA HeuristicForm ==
    ASSUME NEW form, NEW has
    PROVE  Heuristic(form, has).form = form /\ Heuristic(form, has).source = "heuristic"
BY DEF Heuristic

LEMMA HeuristicRowsLaw ==
    ASSUME NEW phrasals \in Seq(Phrasals), NEW above, NEW has,
           NEW rows, rows = HeuristicRows(above, phrasals, has)
    PROVE  rows \in Seq(Range(rows)) /\ \A row \in Range(rows) : PhrasalRow(row, phrasals)
<1> DEFINE shown == {above[n].form : n \in {m \in DOMAIN above : above[m].category = "Phrasal Verb"}}
           again == [n \in DOMAIN phrasals |-> Canonical(phrasals[n], "phrasal_verb")]
           forms == Unique(again)
           new == Only(forms, {n \in DOMAIN forms : forms[n] \notin shown})
<1>1. rows = [n \in DOMAIN new |-> [form |-> new[n], category |-> "Phrasal Verb",
                                    source |-> "heuristic", known |-> new[n] \in has]]
    BY DEF HeuristicRows
<1>2. Len(phrasals) \in Nat /\ DOMAIN phrasals = 1 .. Len(phrasals)
    OBVIOUS
<1>3. again = [n \in 1 .. Len(phrasals) |-> again[n]]
    BY <1>2
<1>4. ASSUME NEW x \in Range(again)
      PROVE  \E q \in Range(phrasals) : x = Canonical(q, "phrasal_verb")
    <2>1. PICK n \in DOMAIN phrasals : x = Canonical(phrasals[n], "phrasal_verb")
        BY <1>4 DEF Range
    <2>2. phrasals[n] \in Range(phrasals)
        BY DEF Range
    <2> QED
        BY <2>1, <2>2
<1> HIDE DEF again
<1>5. again \in Seq(Range(again))
    BY <1>2, <1>3, OwnElements
<1>6. forms \in Seq(Range(again))
    BY <1>5, UniqueLaw
<1> HIDE DEF forms, shown
<1>7. new \in Seq(Range(again))
    BY <1>6, OnlyLaw
<1> HIDE DEF new
<1>8. /\ Len(new) \in Nat /\ DOMAIN new = 1 .. Len(new)
      /\ \A n \in 1 .. Len(new) : new[n] \in Range(again)
    BY <1>7
<1>9. rows = [n \in 1 .. Len(new) |-> rows[n]]
    BY <1>1, <1>8
<1>10. ASSUME NEW row \in Range(rows) PROVE PhrasalRow(row, phrasals)
    <2>1. PICK n \in DOMAIN new : row = rows[n]
        BY <1>1, <1>10 DEF Range
    <2>2. row = Heuristic(new[n], new[n] \in has)
        BY <1>1, <2>1, Zenon DEF Heuristic
    <2>3. row.form = new[n] /\ row.source = "heuristic"
        BY <2>2, HeuristicForm
    <2>4. new[n] \in Range(again)
        BY <1>8
    <2> QED
        BY <1>4, <2>3, <2>4 DEF PhrasalRow
<1>11. rows \in Seq(Range(rows))
    BY <1>8, <1>9, OwnElements
<1> QED
    BY <1>10, <1>11

(* The lexicon has a row, in the form in which its source stores it. *)
StoredForm(row) == IF row.source = "heuristic" THEN row.form ELSE Canonical(row.form, "")
Shown(row, entries) ==
    Len(row.form) > 1 /\ Spelled(StoredForm(row)) =>
        \E e \in entries :
            /\ e.phrase = StoredForm(row)
            /\ e.category = AutoAdded => Canonical(StoredForm(row), "") # StoredForm(row)

LEMMA ShownWord ==
    ASSUME NEW row \in WordRows, NEW entries
    PROVE  Shown(row, entries)
<1>1. Len(row.form) = 1
    BY DEF WordRows
<1>2. ~(Len(row.form) > 1)
    BY <1>1, NotLonger
<1> QED
    BY <1>2 DEF Shown

(* An entry for the stored form is all it takes. *)
LEMMA ShownOnceStored ==
    ASSUME NEW entries, AllNamed(entries), NEW row,
           Len(row.form) > 1 => Len(StoredForm(row)) > 1,
           Len(StoredForm(row)) > 1 /\ Spelled(StoredForm(row)) => Has(entries, StoredForm(row))
    PROVE  Shown(row, entries)
<1> SUFFICES ASSUME Len(row.form) > 1, Spelled(StoredForm(row))
             PROVE  \E e \in entries :
                        /\ e.phrase = StoredForm(row)
                        /\ e.category = AutoAdded => Canonical(StoredForm(row), "") # StoredForm(row)
    BY DEF Shown
<1>1. PICK e \in entries : e.phrase = StoredForm(row)
    BY DEF Has
<1>2. Named(e)
    BY DEF AllNamed
<1> QED
    BY <1>1, <1>2 DEF Named

LEMMA ShownMention ==
    ASSUME NEW entries, AllNamed(entries), NEW occurrences, Keeps(entries, occurrences),
           NEW row, MentionRow(row, occurrences)
    PROVE  Shown(row, entries)
<1>1. PICK o \in Range(occurrences) : row.form = FormOf(o)
    BY DEF MentionRow
<1>2. StoredForm(row) = Canonical(FormOf(o), "")
    BY <1>1 DEF StoredForm, MentionRow
<1>3. IsStored(entries, FormOf(o)) /\ o.form \in Phrase
    BY DEF Keeps, Mentions
<1>4. FormOf(o) \in Phrase
    BY <1>3, CanonicalLaw DEF FormOf
<1>5. Len(StoredForm(row)) = Len(row.form)
    <2>1. PICK f \in Phrase : f = FormOf(o)
        BY <1>4
    <2>2. Len(Canonical(f, "")) = Len(f)
        BY CanonicalLaw
    <2> QED
        BY <1>1, <1>2, <2>1, <2>2
<1> QED
    BY <1>2, <1>3, <1>5, ShownOnceStored DEF IsStored

LEMMA ShownPhrasal ==
    ASSUME NEW entries, AllNamed(entries), NEW phrasals \in Seq(Phrasals),
           \A p \in Range(phrasals) : IsStored(entries, p),
           NEW row, PhrasalRow(row, phrasals)
    PROVE  Shown(row, entries)
<1>1. PICK q \in Range(phrasals) : row.form = Canonical(q, "phrasal_verb")
    BY DEF PhrasalRow
<1>2. q \in Phrasals
    BY WiderSequence
<1>3. StoredForm(row) = row.form /\ row.form = Canonical(q, "")
    BY <1>1, <1>2, SameForm DEF StoredForm, PhrasalRow
<1>4. IsStored(entries, q)
    OBVIOUS
<1> QED
    BY <1>3, <1>4, ShownOnceStored DEF IsStored

(* The table that is built from what the passes have found. *)
Built(before, reported, told, has) ==
    LET rows == TokenRows(text.tokens, before)
                \o OccurrenceRows(reported, "second", has)
                \o OccurrenceRows(told, "third", has)
    IN  rows \o HeuristicRows(rows, PhrasalVerbs(text.tokens), has)

LEMMA BuiltIsShown ==
    ASSUME NEW entries, AllNamed(entries), IsTokens(text.tokens),
           \A p \in Range(PhrasalVerbs(text.tokens)) : IsStored(entries, p),
           NEW reported, Keeps(entries, reported), NEW told, Keeps(entries, told),
           NEW before, NEW has, NEW rows, rows = Built(before, reported, told, has)
    PROVE  \A n \in DOMAIN rows : Shown(rows[n], entries)
<1>1. PICK words : words = TokenRows(text.tokens, before)
    OBVIOUS
<1>2. PICK seconds : seconds = OccurrenceRows(reported, "second", has)
    OBVIOUS
<1>3. PICK thirds : thirds = OccurrenceRows(told, "third", has)
    OBVIOUS
<1>4. PICK phrasals : phrasals = PhrasalVerbs(text.tokens)
    OBVIOUS
<1>5. PICK above : above = words \o seconds \o thirds
    OBVIOUS
<1>6. PICK heuristics : heuristics = HeuristicRows(above, phrasals, has)
    OBVIOUS
<1>7. rows = above \o heuristics
    BY <1>1, <1>2, <1>3, <1>4, <1>5, <1>6 DEF Built
<1>8. words \in Seq(WordRows)
    BY <1>1, TokenRowsLaw
<1>9. words \in Seq(Range(words)) /\ \A row \in Range(words) : Shown(row, entries)
    <2>1. Len(words) \in Nat /\ words = [n \in 1 .. Len(words) |-> words[n]]
        BY <1>8
    <2>2. words \in Seq(Range(words))
        BY <2>1, OwnElements
    <2>3. \A row \in Range(words) : row \in WordRows
        BY <1>8, WiderSequence
    <2> QED
        BY <2>2, <2>3, ShownWord
<1>10. seconds \in Seq(Range(seconds)) /\ \A row \in Range(seconds) : Shown(row, entries)
    <2>1. Mentions(reported)
        BY DEF Keeps
    <2>2. seconds \in Seq(Range(seconds)) /\ \A row \in Range(seconds) : MentionRow(row, reported)
        BY <1>2, <2>1, OccurrenceRowsLaw
    <2> QED
        BY <2>2, ShownMention
<1>11. thirds \in Seq(Range(thirds)) /\ \A row \in Range(thirds) : Shown(row, entries)
    <2>1. Mentions(told)
        BY DEF Keeps
    <2>2. thirds \in Seq(Range(thirds)) /\ \A row \in Range(thirds) : MentionRow(row, told)
        BY <1>3, <2>1, OccurrenceRowsLaw
    <2> QED
        BY <2>2, ShownMention
<1>12. heuristics \in Seq(Range(heuristics)) /\ \A row \in Range(heuristics) : Shown(row, entries)
    <2>1. phrasals \in Seq(Phrasals) /\ \A p \in Range(phrasals) : IsStored(entries, p)
        BY <1>4, PhrasalVerbsLaw
    <2>2. heuristics \in Seq(Range(heuristics)) /\ \A row \in Range(heuristics) : PhrasalRow(row, phrasals)
        BY <1>6, <2>1, HeuristicRowsLaw
    <2> QED
        BY <2>1, <2>2, ShownPhrasal
<1>13. /\ words \o seconds \in Seq(Range(words) \cup Range(seconds))
       /\ Range(words \o seconds) = Range(words) \cup Range(seconds)
    BY <1>9, <1>10, JoinedElements
<1>14. PICK firsts : firsts = words \o seconds
    OBVIOUS
<1>15. firsts \in Seq(Range(firsts)) /\ Range(firsts) = Range(words) \cup Range(seconds)
    BY <1>13, <1>14
<1>16. above = firsts \o thirds
    BY <1>5, <1>14
<1>17. /\ firsts \o thirds \in Seq(Range(firsts) \cup Range(thirds))
       /\ Range(firsts \o thirds) = Range(firsts) \cup Range(thirds)
    BY <1>11, <1>15, JoinedElements
<1>18. above \in Seq(Range(above)) /\ Range(above) = Range(firsts) \cup Range(thirds)
    BY <1>16, <1>17
<1>19. \A n \in DOMAIN (above \o heuristics) : (above \o heuristics)[n] \in Range(above) \cup Range(heuristics)
    BY <1>12, <1>18, JoinedElements
<1>20. \A row \in Range(above) \cup Range(heuristics) : Shown(row, entries)
    BY <1>9, <1>10, <1>11, <1>12, <1>15, <1>18
<1> QED
    BY <1>7, <1>19, <1>20

(* What the user sees in the table is in the lexicon, in the form in which its source  *)
(* stores it and with a category of its own, through every order of passes and parses: *)
(* build_candidate_categories, canonicalize_candidate_categories,                      *)
(* partition_sync_candidates, sync_candidates and ParseTableBuilder apply the spelling *)
(* rules once or twice, with the type or without, and still agree, but for words they  *)
(* cannot spell and for the category of forms that the rules would change once more.   *)
THEOREM SpecShownIsStored == Spec => []ShownIsStored
<1> DEFINE Whole(rows, entries) == \A n \in DOMAIN rows : Shown(rows[n], entries)
<1>1. Init => ShownIsStored
    BY DEF Init, ShownIsStored
<1>2. Inputs /\ Gathered /\ ShownIsStored /\ [Next]_vars => ShownIsStored'
    <2> SUFFICES ASSUME Inputs, Gathered, ShownIsStored, [Next]_vars PROVE ShownIsStored'
        OBVIOUS
    <2>1. CASE BuildTable
        <3>1. PICK before : table' = Built(before, second.occurrences, third.occurrences, known)
            BY <2>1 DEF BuildTable, Built
        <3>2. IsTokens(text.tokens)
            BY InputsAreTexts DEF IsText, IsTokens
        <3>3. /\ AllNamed(lexicon) /\ \A p \in Range(PhrasalVerbs(text.tokens)) : IsStored(lexicon, p)
              /\ Keeps(lexicon, second.occurrences) /\ Keeps(lexicon, third.occurrences)
            BY <2>1 DEF Gathered, BuildTable
        <3>4. Whole(table', lexicon)
            BY <3>1, <3>2, <3>3, BuiltIsShown
        <3>5. lexicon' = lexicon
            BY <2>1 DEF BuildTable
        <3> QED
            BY <3>4, <3>5 DEF ShownIsStored, Shown, StoredForm
    <2>2. CASE ParseTokens
        BY <2>2 DEF ParseTokens, ShownIsStored
    <2>3. CASE SecondPass
        BY <2>3 DEF SecondPass, ShownIsStored
    <2>4. CASE ThirdPass \/ NoThirdPass
        BY <2>4 DEF ThirdPass, NoThirdPass, ShownIsStored
    <2>5. CASE Answered
        BY <2>5 DEF Answered, ShownIsStored
    <2>6. CASE UNCHANGED vars
        BY <2>6 DEF vars, ShownIsStored
    <2> QED
        BY <2>1, <2>2, <2>3, <2>4, <2>5, <2>6 DEF Next
<1> QED
    BY <1>1, <1>2, InputsHold, GatheredHolds, PTL DEF Spec
=============================================================================
