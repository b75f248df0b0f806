--------------------------- MODULE MCTaskAdminProofs ----------------------------
(* What the run of MCTaskAdmin checks of short texts, for texts of every length. *)
EXTENDS MCTaskAdmin, TaskExpressionProofs

LEMMA Upwards ==
    ASSUME NEW n \in Nat, NEW X, 1 \in X, \A i \in 1..n : i \in X => i + 1 \in X
    PROVE  1..(n + 1) \subseteq X
<1>. DEFINE T == {m \in Nat : m + 1 \in 1..(n + 1) => m + 1 \in X}
<1>1. ASSUME NEW m \in Nat, \A k \in Nat : k < m => k \in T
      PROVE  m \in T
  <2>1. CASE m = 0
    BY <2>1
  <2>2. CASE m # 0
    <3>1. m - 1 \in Nat /\ m - 1 < m /\ (m - 1) + 1 = m
      BY <2>2
    <3>2. m - 1 \in T
      BY <1>1, <3>1
    <3>3. m + 1 \in 1..(n + 1) => m \in 1..n /\ m \in X
      BY <2>2, <3>1, <3>2
    <3>. QED
      BY <3>3
  <2>. QED
    BY <2>1, <2>2
<1>2. T = Nat
  <2>1. T \subseteq Nat
    OBVIOUS
  <2>. HIDE DEF T
  <2>. QED
    BY <1>1, <2>1, Induction
<1>3. ASSUME NEW i \in 1..(n + 1)
      PROVE  i \in X
  <2>1. i - 1 \in T /\ (i - 1) + 1 = i
    BY <1>2
  <2>. QED
    BY <2>1
<1>. QED
  BY <1>3

LEMMA Downwards ==
    ASSUME NEW n \in Nat, NEW X,
           \A i \in 1..(n + 1) : (\A m \in 1..(n + 1) : m > i => m \in X) => i \in X
    PROVE  1..(n + 1) \subseteq X
<1>. DEFINE T == {k \in Nat : n + 1 - k \in 1..(n + 1) => n + 1 - k \in X}
<1>1. ASSUME NEW k \in Nat, \A l \in Nat : l < k => l \in T
      PROVE  k \in T
  <2>1. SUFFICES ASSUME n + 1 - k \in 1..(n + 1)
                 PROVE  n + 1 - k \in X
    OBVIOUS
  <2>2. ASSUME NEW m \in 1..(n + 1), m > n + 1 - k
        PROVE  m \in X
    <3>1. n + 1 - m \in Nat /\ n + 1 - m < k /\ n + 1 - (n + 1 - m) = m
      BY <2>2
    <3>2. n + 1 - m \in T
      BY <1>1, <3>1
    <3>. QED
      BY <3>1, <3>2
  <2>. QED
    BY <2>1, <2>2
<1>2. T = Nat
  <2>1. T \subseteq Nat
    OBVIOUS
  <2>. HIDE DEF T
  <2>. QED
    BY <1>1, <2>1, Induction
<1>3. ASSUME NEW i \in 1..(n + 1)
      PROVE  i \in X
  <2>1. n + 1 - i \in Nat /\ n + 1 - (n + 1 - i) = i
    OBVIOUS
  <2>2. n + 1 - i \in T
    <3>. HIDE DEF T
    <3>. QED
      BY <1>2, <2>1
  <2>. QED
    BY <2>1, <2>2
<1>. QED
  BY <1>3

--------------------------------------------------------------------------------
(* The doubled text, from the end on. *)

LEMMA DoubledUpTo ==
    ASSUME NEW S, NEW t \in Seq(S)
    PROVE  \A n \in Nat : \E g : \A i \in 1..(Len(t) + 1) :
               Len(t) + 1 - i < n =>
                   g[i] = IF i > Len(t) THEN <<>> ELSE Written(t[i]) \o g[i + 1]
<1>. DEFINE Right(g, i) == g[i] = IF i > Len(t) THEN <<>> ELSE Written(t[i]) \o g[i + 1]
            T == {n \in Nat : \E g : \A i \in 1..(Len(t) + 1) :
                      Len(t) + 1 - i < n => Right(g, i)}
<1>0. Len(t) \in Nat
  BY TextType
<1>1. ASSUME NEW n \in Nat, \A m \in Nat : m < n => m \in T
      PROVE  n \in T
  <2>1. CASE n = 0
    <3>1. \A i \in 1..(Len(t) + 1) : ~(Len(t) + 1 - i < 0)
      BY <1>0
    <3>. QED
      BY <2>1, <3>1
  <2>2. CASE n # 0
    <3>1. n - 1 \in Nat /\ n - 1 < n
      BY <2>2
    <3>2. PICK g : \A i \in 1..(Len(t) + 1) : Len(t) + 1 - i < n - 1 => Right(g, i)
      BY <1>1, <3>1
    <3>. DEFINE h == [i \in 1..(Len(t) + 1) |->
                         IF i > Len(t) THEN <<>> ELSE Written(t[i]) \o g[i + 1]]
    <3>3. ASSUME NEW i \in 1..(Len(t) + 1), Len(t) + 1 - i < n
          PROVE  Right(h, i)
      <4>1. CASE i > Len(t)
        BY <4>1
      <4>2. CASE ~(i > Len(t))
        <5>1. i + 1 \in 1..(Len(t) + 1) /\ Len(t) + 1 - (i + 1) < n - 1
          BY <1>0, <3>1, <3>3, <4>2
        <5>2. h[i + 1] = g[i + 1]
          BY <3>2, <5>1
        <5>3. h[i] = Written(t[i]) \o g[i + 1]
          BY <4>2
        <5>. HIDE DEF h
        <5>. QED
          BY <4>2, <5>2, <5>3
      <4>. QED
        BY <4>1, <4>2
    <3>. HIDE DEF h
    <3>. QED
      BY <3>3
  <2>. QED
    BY <2>1, <2>2
<1>2. T = Nat
  <2>1. T \subseteq Nat
    OBVIOUS
  <2>. HIDE DEF T
  <2>. QED
    BY <1>1, <2>1, Induction
<1>. QED
  BY <1>2

LEMMA DoubledEquation ==
    ASSUME NEW S, NEW t \in Seq(S), NEW i \in 1..(Len(t) + 1)
    PROVE  DoubledFrom(t)[i] =
               IF i > Len(t) THEN <<>> ELSE Written(t[i]) \o DoubledFrom(t)[i + 1]
<1>0. Len(t) \in Nat /\ Len(t) + 1 \in Nat
  BY TextType
<1>1. PICK g : \A m \in 1..(Len(t) + 1) : Len(t) + 1 - m < Len(t) + 1 =>
          g[m] = IF m > Len(t) THEN <<>> ELSE Written(t[m]) \o g[m + 1]
  BY <1>0, DoubledUpTo
<1>. DEFINE h == [m \in 1..(Len(t) + 1) |-> g[m]]
<1>2. \A m \in 1..(Len(t) + 1) :
          g[m] = IF m > Len(t) THEN <<>> ELSE Written(t[m]) \o g[m + 1]
  BY <1>0, <1>1
<1>3. \A m \in 1..(Len(t) + 1) : ~(m > Len(t)) => h[m + 1] = g[m + 1]
  BY <1>0
<1>4. h = [m \in 1..(Len(t) + 1) |->
              IF m > Len(t) THEN <<>> ELSE Written(t[m]) \o h[m + 1]]
  BY <1>2, <1>3
<1>5. DoubledFrom(t) =
          CHOOSE f : f = [m \in 1..(Len(t) + 1) |->
                             IF m > Len(t) THEN <<>> ELSE Written(t[m]) \o f[m + 1]]
  BY DEF DoubledFrom
<1>. HIDE DEF h
<1>6. \E f : f = [m \in 1..(Len(t) + 1) |->
                      IF m > Len(t) THEN <<>> ELSE Written(t[m]) \o f[m + 1]]
  BY <1>4
<1>7. DoubledFrom(t) = [m \in 1..(Len(t) + 1) |->
          IF m > Len(t) THEN <<>> ELSE Written(t[m]) \o DoubledFrom(t)[m + 1]]
  BY <1>5, <1>6
<1>. QED
  BY <1>7

--------------------------------------------------------------------------------
(* Where the characters of a text are in its doubled form. *)

Operators == {"&", "|"}

PlacesOf(t, d, pos) ==
    /\ pos \in [1..(Len(t) + 1) -> Nat]
    /\ pos[1] = 1 /\ pos[Len(t) + 1] = Len(d) + 1
    /\ \A i \in 1..Len(t) :
           /\ pos[i] \in 1..Len(d) /\ d[pos[i]] = t[i]
           /\ t[i] \notin Operators => pos[i + 1] = pos[i] + 1
           /\ t[i] \in Operators => /\ pos[i + 1] = pos[i] + 2
                                    /\ pos[i] + 1 \in 1..Len(d) /\ d[pos[i] + 1] = t[i]

LEMMA ShortTexts ==
    ASSUME NEW S
    PROVE  /\ <<>> \in Seq(S) /\ Len(<<>>) = 0
           /\ \A x \in S : <<x>> \in Seq(S) /\ Len(<<x>>) = 1 /\ <<x>>[1] = x
           /\ \A x \in S : /\ <<x, x>> \in Seq(S) /\ Len(<<x, x>>) = 2
                          /\ <<x, x>>[1] = x /\ <<x, x>>[2] = x
OBVIOUS

LEMMA WrittenType ==
    ASSUME NEW S, NEW ch \in S
    PROVE  /\ Written(ch) \in Seq(S)
           /\ ch \in Operators => /\ Len(Written(ch)) = 2
                                  /\ Written(ch)[1] = ch /\ Written(ch)[2] = ch
           /\ ch \notin Operators => Len(Written(ch)) = 1 /\ Written(ch)[1] = ch
<1>1. CASE ch \in Operators
  <2>1. Written(ch) = <<ch, ch>>
    BY <1>1 DEF Written, Operators
  <2>2. /\ <<ch, ch>> \in Seq(S) /\ Len(<<ch, ch>>) = 2
        /\ <<ch, ch>>[1] = ch /\ <<ch, ch>>[2] = ch
    BY ShortTexts
  <2>. QED
    BY <1>1, <2>1, <2>2
<1>2. CASE ch \notin Operators
  <2>1. Written(ch) = <<ch>>
    BY <1>2 DEF Written, Operators
  <2>2. <<ch>> \in Seq(S) /\ Len(<<ch>>) = 1 /\ <<ch>>[1] = ch
    BY ShortTexts
  <2>. QED
    BY <1>2, <2>1, <2>2
<1>. QED
  BY <1>1, <1>2

LEMMA DoubledType ==
    ASSUME NEW S, NEW t \in Seq(S)
    PROVE  \A i \in 1..(Len(t) + 1) : DoubledFrom(t)[i] \in Seq(S)
<1>. DEFINE f == DoubledFrom(t)
            X == {i \in 1..(Len(t) + 1) : f[i] \in Seq(S)}
<1>0. Len(t) \in Nat /\ \A i \in 1..Len(t) : t[i] \in S
  BY TextType
<1>1. ASSUME NEW i \in 1..(Len(t) + 1), \A m \in 1..(Len(t) + 1) : m > i => m \in X
      PROVE  i \in X
  <2>1. f[i] = IF i > Len(t) THEN <<>> ELSE Written(t[i]) \o f[i + 1]
    BY DoubledEquation
  <2>. HIDE DEF f
  <2>2. CASE i > Len(t)
    BY <2>1, <2>2, ShortTexts
  <2>3. CASE ~(i > Len(t))
    <3>1. i \in 1..Len(t) /\ i + 1 \in 1..(Len(t) + 1) /\ i + 1 > i
      BY <1>0, <2>3
    <3>2. f[i + 1] \in Seq(S)
      BY <1>1, <3>1
    <3>3. Written(t[i]) \in Seq(S)
      BY <1>0, <3>1, WrittenType
    <3>4. f[i] \in Seq(S)
      BY <2>1, <2>3, <3>2, <3>3, ConcatProperties
    <3>. QED
      BY <3>4
  <2>. QED
    BY <2>2, <2>3
<1>. HIDE DEF X
<1>2. 1..(Len(t) + 1) \subseteq X
  BY <1>0, <1>1, Downwards
<1>. QED
  BY <1>2 DEF X

(* One character in front of a text. *)
LEMMA InFront ==
    ASSUME NEW S, NEW w \in Seq(S), NEW r \in Seq(S)
    PROVE  /\ Len(w \o r) = Len(w) + Len(r)
           /\ \A k \in 1..Len(w) : (w \o r)[k] = w[k]
           /\ \A k \in 1..Len(r) : (w \o r)[Len(w) + k] = r[k]
<1>1. Len(w) \in Nat /\ Len(r) \in Nat
  OBVIOUS
<1>2. /\ Len(w \o r) = Len(w) + Len(r)
      /\ \A k \in 1..(Len(w) + Len(r)) :
             (w \o r)[k] = IF k <= Len(w) THEN w[k] ELSE r[k - Len(w)]
  BY ConcatProperties
<1>3. \A k \in 1..Len(w) : (w \o r)[k] = w[k]
  BY <1>1, <1>2
<1>4. \A k \in 1..Len(r) : (w \o r)[Len(w) + k] = r[k]
  <2>1. \A k \in 1..Len(r) : /\ Len(w) + k \in 1..(Len(w) + Len(r))
                             /\ ~(Len(w) + k <= Len(w)) /\ Len(w) + k - Len(w) = k
    BY <1>1
  <2>. QED
    BY <1>2, <2>1
<1>. QED
  BY <1>2, <1>3, <1>4

(* The doubled form ends with the doubled form of what is left of the text. *)
Ends(d, e, l) == l <= Len(d) /\ \A k \in 1..l : d[Len(d) - l + k] = e[k]

LEMMA EndOfEnd ==
    ASSUME NEW S, NEW d \in Seq(S), NEW w \in Seq(S), NEW r \in Seq(S),
           Ends(d, w \o r, Len(w \o r))
    PROVE  /\ Ends(d, r, Len(r))
           /\ Len(w) + Len(r) <= Len(d)
           /\ \A k \in 1..Len(w) : d[Len(d) - Len(r) - Len(w) + k] = w[k]
<1>1. PICK D \in Nat, m \in Nat, n \in Nat : D = Len(d) /\ m = Len(w) /\ n = Len(r)
  OBVIOUS
<1>2. /\ m + n <= D
      /\ \A k \in 1..(m + n) : d[D - (m + n) + k] = (w \o r)[k]
  BY <1>1, InFront DEF Ends
<1>3. \A k \in 1..n : m + k \in 1..(m + n) /\ D - (m + n) + (m + k) = D - n + k
  OBVIOUS
<1>4. \A k \in 1..n : (w \o r)[m + k] = r[k]
  BY <1>1, InFront
<1>5. \A k \in 1..n : d[D - n + k] = r[k]
  BY <1>2, <1>3, <1>4
<1>6. \A k \in 1..m : k \in 1..(m + n) /\ D - (m + n) + k = D - n - m + k
  OBVIOUS
<1>7. \A k \in 1..m : (w \o r)[k] = w[k]
  BY <1>1, InFront
<1>8. \A k \in 1..m : d[D - n - m + k] = w[k]
  BY <1>2, <1>6, <1>7
<1>9. n <= D
  BY <1>2
<1>. QED
  BY <1>1, <1>2, <1>5, <1>8, <1>9 DEF Ends

LEMMA DoubledEnds ==
    ASSUME NEW S, NEW t \in Seq(S)
    PROVE  \A i \in 1..(Len(t) + 1) :
               Ends(Doubled(t), DoubledFrom(t)[i], Len(DoubledFrom(t)[i]))
<1>. DEFINE f == DoubledFrom(t)
            d == Doubled(t)
            X == {i \in 1..(Len(t) + 1) : Ends(d, f[i], Len(f[i]))}
<1>0. /\ Len(t) \in Nat /\ 1 \in 1..(Len(t) + 1)
      /\ \A i \in 1..Len(t) : t[i] \in S
      /\ \A i \in 1..(Len(t) + 1) : f[i] \in Seq(S)
      /\ d = f[1]
  BY TextType, DoubledType DEF Doubled
<1>. HIDE DEF f, d
<1>1. d \in Seq(S)
  BY <1>0
<1>2. 1 \in X
  <2>1. Ends(d, d, Len(d))
    BY <1>1 DEF Ends
  <2>. QED
    BY <1>0, <2>1
<1>3. ASSUME NEW i \in 1..Len(t), i \in X
      PROVE  i + 1 \in X
  <2>1. i \in 1..(Len(t) + 1) /\ i + 1 \in 1..(Len(t) + 1) /\ ~(i > Len(t))
    BY <1>0
  <2>2. f[i] = Written(t[i]) \o f[i + 1]
    BY <2>1, DoubledEquation DEF f
  <2>3. Written(t[i]) \in Seq(S) /\ f[i + 1] \in Seq(S)
    BY <1>0, <2>1, WrittenType
  <2>4. PICK w \in Seq(S), r \in Seq(S) :
            f[i] = w \o r /\ r = f[i + 1]
    BY <2>2, <2>3
  <2>5. Ends(d, w \o r, Len(w \o r))
    BY <1>3, <2>4
  <2>6. Ends(d, r, Len(r))
    BY <1>1, <2>5, EndOfEnd
  <2>. QED
    BY <2>1, <2>4, <2>6
<1>4. 1..(Len(t) + 1) \subseteq X
  <2>. HIDE DEF X
  <2>. QED
    BY <1>0, <1>2, <1>3, Upwards
<1>. QED
  BY <1>4 DEF f, d

LEMMA DoubledPlaces ==
    ASSUME NEW S, NEW t \in Seq(S)
    PROVE  Doubled(t) \in Seq(S) /\ \E pos : PlacesOf(t, Doubled(t), pos)
<1>. DEFINE f == DoubledFrom(t)
            d == Doubled(t)
            p == [i \in 1..(Len(t) + 1) |-> Len(d) - Len(f[i]) + 1]
<1>0. /\ Len(t) \in Nat /\ 1 \in 1..(Len(t) + 1) /\ Len(t) + 1 \in 1..(Len(t) + 1)
      /\ \A i \in 1..Len(t) : t[i] \in S
      /\ \A i \in 1..(Len(t) + 1) : f[i] \in Seq(S)
      /\ d = f[1]
      /\ \A i \in 1..(Len(t) + 1) : Ends(d, f[i], Len(f[i]))
      /\ f[Len(t) + 1] = <<>>
  <2>1. Len(t) \in Nat /\ \A i \in 1..Len(t) : t[i] \in S
    BY TextType
  <2>2. 1 \in 1..(Len(t) + 1) /\ Len(t) + 1 \in 1..(Len(t) + 1) /\ Len(t) + 1 > Len(t)
    BY <2>1
  <2>3. f[Len(t) + 1] = <<>>
    BY <2>2, DoubledEquation
  <2>. QED
    BY <2>1, <2>2, <2>3, DoubledType, DoubledEnds DEF Doubled
<1>. HIDE DEF f, d
<1>1. PICK D \in Nat : D = Len(d)
  BY <1>0
<1>2. d \in Seq(S)
  BY <1>0
<1>3. PICK pos : pos = p
  OBVIOUS
<1>4. \A i \in 1..(Len(t) + 1) : pos[i] = D - Len(f[i]) + 1
  BY <1>1, <1>3
<1>5. ASSUME NEW i \in 1..(Len(t) + 1)
      PROVE  Len(f[i]) \in Nat /\ Len(f[i]) <= D
  <2>1. f[i] \in Seq(S) /\ Ends(d, f[i], Len(f[i]))
    BY <1>0
  <2>. QED
    BY <1>1, <2>1 DEF Ends
<1>6. pos \in [1..(Len(t) + 1) -> Nat]
  <2>1. ASSUME NEW i \in 1..(Len(t) + 1)
        PROVE  pos[i] \in Nat
    <3>1. PICK l \in Nat : l = Len(f[i])
      BY <1>5
    <3>2. l <= D /\ pos[i] = D - l + 1
      BY <1>4, <1>5, <3>1
    <3>. QED
      BY <3>2
  <2>2. pos = [i \in 1..(Len(t) + 1) |-> pos[i]]
    BY <1>3
  <2>. QED
    BY <2>1, <2>2
<1>7. pos[1] = 1 /\ pos[Len(t) + 1] = D + 1
  <2>1. Len(f[1]) = D /\ Len(f[Len(t) + 1]) = 0
    BY <1>0, <1>1
  <2>2. pos[1] = D - D + 1 /\ pos[Len(t) + 1] = D - 0 + 1
    BY <1>0, <1>4, <2>1
  <2>. QED
    BY <2>2
<1>8. ASSUME NEW i \in 1..Len(t)
      PROVE  /\ pos[i] \in 1..Len(d) /\ d[pos[i]] = t[i]
             /\ t[i] \notin Operators => pos[i + 1] = pos[i] + 1
             /\ t[i] \in Operators => /\ pos[i + 1] = pos[i] + 2
                                      /\ pos[i] + 1 \in 1..Len(d) /\ d[pos[i] + 1] = t[i]
  <2>1. i \in 1..(Len(t) + 1) /\ i + 1 \in 1..(Len(t) + 1) /\ ~(i > Len(t)) /\ t[i] \in S
    BY <1>0
  <2>2. f[i] = Written(t[i]) \o f[i + 1]
    BY <2>1, DoubledEquation DEF f
  <2>3. PICK w \in Seq(S), r \in Seq(S) :
            w = Written(t[i]) /\ f[i] = w \o r /\ r = f[i + 1]
    BY <1>0, <2>1, <2>2, WrittenType
  <2>4. PICK m \in Nat, n \in Nat : m = Len(w) /\ n = Len(r)
    OBVIOUS
  <2>5. Len(f[i]) = m + n /\ Len(f[i + 1]) = n
    BY <2>3, <2>4, InFront
  <2>6. pos[i] = D - (m + n) + 1 /\ pos[i + 1] = D - n + 1
    BY <1>4, <2>1, <2>5
  <2>7. m + n <= D /\ \A k \in 1..m : d[D - n - m + k] = w[k]
    <3>1. Ends(d, w \o r, Len(w \o r))
      BY <1>0, <2>1, <2>3
    <3>. QED
      BY <1>1, <1>2, <2>4, <3>1, EndOfEnd
  <2>8. CASE t[i] \in Operators
    <3>1. m = 2 /\ w[1] = t[i] /\ w[2] = t[i]
      BY <2>1, <2>3, <2>4, <2>8, WrittenType
    <3>2. /\ D - n - m + 1 = pos[i] /\ D - n - m + 2 = pos[i] + 1
          /\ pos[i] \in 1..D /\ pos[i] + 1 \in 1..D /\ pos[i + 1] = pos[i] + 2
      <4>1. m + n <= D
        BY <2>7
      <4>2. PICK a, b : a = pos[i] /\ b = pos[i + 1]
        OBVIOUS
      <4>3. a = D - (m + n) + 1 /\ b = D - n + 1
        BY <2>6, <4>2
      <4>4. /\ D - n - m + 1 = a /\ D - n - m + 2 = a + 1
            /\ a \in 1..D /\ a + 1 \in 1..D /\ b = a + 2
        BY <3>1, <4>1, <4>3
      <4>. QED
        BY <4>2, <4>4
    <3>3. 1 \in 1..m /\ 2 \in 1..m
      BY <3>1
    <3>4. d[pos[i]] = t[i] /\ d[pos[i] + 1] = t[i]
      BY <2>7, <3>1, <3>2, <3>3
    <3>. QED
      BY <1>1, <2>8, <3>2, <3>4
  <2>9. CASE t[i] \notin Operators
    <3>1. m = 1 /\ w[1] = t[i]
      BY <2>1, <2>3, <2>4, <2>9, WrittenType
    <3>2. D - n - m + 1 = pos[i] /\ pos[i] \in 1..D /\ pos[i + 1] = pos[i] + 1
      <4>1. m + n <= D
        BY <2>7
      <4>2. PICK a, b : a = pos[i] /\ b = pos[i + 1]
        OBVIOUS
      <4>3. a = D - (m + n) + 1 /\ b = D - n + 1
        BY <2>6, <4>2
      <4>4. D - n - m + 1 = a /\ a \in 1..D /\ b = a + 1
        BY <3>1, <4>1, <4>3
      <4>. QED
        BY <4>2, <4>4
    <3>3. 1 \in 1..m
      BY <3>1
    <3>4. d[pos[i]] = t[i]
      BY <2>7, <3>1, <3>2, <3>3
    <3>. QED
      BY <1>1, <2>9, <3>2, <3>4
  <2>. QED
    BY <2>8, <2>9
<1>9. PlacesOf(t, d, pos)
  <2>. HIDE DEF p
  <2>. QED
    BY <1>1, <1>2, <1>6, <1>7, <1>8 DEF PlacesOf
<1>. QED
  BY <1>2, <1>9 DEF d

(* Every place of the doubled text is that of a character, or the one after an  *)
(* operator's.                                                                  *)
LEMMA PlacesCover ==
    ASSUME NEW S, NEW t \in Seq(S), NEW d \in Seq(S), NEW pos, PlacesOf(t, d, pos),
           NEW q \in 1..Len(d)
    PROVE  \E i \in 1..Len(t) : q = pos[i] \/ (t[i] \in Operators /\ q = pos[i] + 1)
<1>. DEFINE IsPlace(p) == \E i \in 1..Len(t) : p = pos[i] \/ (t[i] \in Operators /\ p = pos[i] + 1)
            X == {i \in 1..(Len(t) + 1) : \A p \in 1..(pos[i] - 1) : IsPlace(p)}
<1>0. Len(t) \in Nat /\ 1 \in 1..(Len(t) + 1) /\ Len(t) + 1 \in 1..(Len(t) + 1)
  BY TextType
<1>1. /\ Len(d) \in Nat /\ \A i \in 1..(Len(t) + 1) : pos[i] \in Nat
      /\ pos[1] = 1 /\ pos[Len(t) + 1] = Len(d) + 1
  BY DEF PlacesOf
<1>2. 1 \in X
  BY <1>0, <1>1
<1>3. ASSUME NEW i \in 1..Len(t), i \in X
      PROVE  i + 1 \in X
  <2>1. i + 1 \in 1..(Len(t) + 1) /\ i \in 1..(Len(t) + 1)
    BY <1>0
  <2>2. PICK m \in Nat, n \in Nat : m = pos[i] /\ n = pos[i + 1]
    BY <1>1, <2>1
  <2>3. n = m + 1 \/ (n = m + 2 /\ t[i] \in Operators)
    BY <2>2 DEF PlacesOf
  <2>4. ASSUME NEW p \in 1..(n - 1)
        PROVE  IsPlace(p)
    <3>1. p \in 1..(m - 1) \/ p = m \/ (p = m + 1 /\ t[i] \in Operators)
      BY <2>3
    <3>. QED
      BY <1>3, <2>2, <3>1
  <2>. HIDE DEF IsPlace
  <2>. QED
    BY <2>1, <2>2, <2>4
<1>4. 1..(Len(t) + 1) \subseteq X
  <2>. HIDE DEF X
  <2>. QED
    BY <1>0, <1>2, <1>3, Upwards
<1>5. q \in 1..(pos[Len(t) + 1] - 1)
  BY <1>1
<1>. QED
  BY <1>0, <1>4, <1>5

(* The digits are where those of the text are. *)
LEMMA PlacesOfDigits ==
    ASSUME NEW S, NEW t \in Seq(S), NEW d \in Seq(S), NEW pos, PlacesOf(t, d, pos)
    PROVE  /\ \A i \in 1..(Len(t) + 1) : IsDigit(d, pos[i]) <=> IsDigit(t, i)
           /\ \A i \in 1..Len(t) : t[i] \in Operators => ~IsDigit(d, pos[i] + 1)
           /\ \A i \in 1..(Len(t) + 1) : IsDigit(d, pos[i] - 1) <=> IsDigit(t, i - 1)
<1>0. /\ Len(t) \in Nat /\ Len(d) \in Nat /\ d \in Seq(S)
      /\ \A i : IsDigit(t, i) <=> i \in 1..Len(t) /\ t[i] \in Digits
      /\ \A i : IsDigit(d, i) <=> i \in 1..Len(d) /\ d[i] \in Digits
  BY TextType DEF PlacesOf
<1>1. \A ch \in Operators : ch \notin Digits
  BY DEF Operators, Digits
<1>2. \A i \in 1..(Len(t) + 1) : pos[i] \in Nat
  BY DEF PlacesOf
<1>3. ASSUME NEW i \in 1..(Len(t) + 1)
      PROVE  IsDigit(d, pos[i]) <=> IsDigit(t, i)
  <2>1. CASE i \in 1..Len(t)
    BY <1>0, <2>1 DEF PlacesOf
  <2>2. CASE i = Len(t) + 1
    <3>1. pos[i] = Len(d) + 1
      BY <2>2 DEF PlacesOf
    <3>. QED
      BY <1>0, <2>2, <3>1
  <2>. QED
    BY <1>0, <2>1, <2>2
<1>4. ASSUME NEW i \in 1..Len(t), t[i] \in Operators
      PROVE  ~IsDigit(d, pos[i] + 1)
  <2>1. d[pos[i] + 1] \notin Digits
    BY <1>1, <1>4 DEF PlacesOf
  <2>. QED
    BY <1>0, <2>1
<1>5. ASSUME NEW i \in 1..(Len(t) + 1)
      PROVE  IsDigit(d, pos[i] - 1) <=> IsDigit(t, i - 1)
  <2>1. CASE i = 1
    <3>1. pos[i] - 1 = 0 /\ i - 1 = 0
      BY <2>1 DEF PlacesOf
    <3>2. 0 \notin 1..Len(d) /\ 0 \notin 1..Len(t)
      BY <1>0
    <3>. QED
      BY <1>0, <3>1, <3>2
  <2>2. CASE i # 1
    <3>1. PICK m \in 1..Len(t) : i = m + 1 /\ i - 1 = m /\ m \in 1..(Len(t) + 1)
      <4>1. i - 1 \in 1..Len(t) /\ i = (i - 1) + 1 /\ i - 1 \in 1..(Len(t) + 1)
        BY <1>0, <2>2
      <4>. QED
        BY <4>1
    <3>2. PICK p \in Nat : p = pos[m]
      BY <1>2, <3>1
    <3>3. CASE t[m] \in Operators
      <4>1. pos[i] = p + 2 /\ ~IsDigit(t, m)
        BY <1>0, <1>1, <3>1, <3>2, <3>3 DEF PlacesOf
      <4>2. ~IsDigit(d, p + 1)
        BY <1>4, <3>2, <3>3
      <4>3. pos[i] - 1 = p + 1
        BY <4>1
      <4>. QED
        BY <3>1, <4>1, <4>2, <4>3
    <3>4. CASE t[m] \notin Operators
      <4>1. pos[i] = p + 1
        BY <3>1, <3>2, <3>4 DEF PlacesOf
      <4>2. pos[i] - 1 = p
        BY <4>1
      <4>. QED
        BY <1>3, <3>1, <3>2, <4>2
    <3>. QED
      BY <3>3, <3>4
  <2>. QED
    BY <2>1, <2>2
<1>. QED
  BY <1>3, <1>4, <1>5

(* A number ends only once. *)
LEMMA OneEnd ==
    ASSUME NEW S, NEW t \in Seq(S), NEW i, IsDigit(t, i),
           NEW j \in i..Len(t), \A k \in i..j : IsDigit(t, k), ~IsDigit(t, j + 1)
    PROVE  EndOfNumber(t, i) = j
<1>1. Len(t) \in Nat /\ i \in 1..Len(t)
  BY TextType
<1>2. PICK e : e = EndOfNumber(t, i)
  OBVIOUS
<1>3. e \in i..Len(t) /\ (\A k \in i..e : IsDigit(t, k)) /\ ~IsDigit(t, e + 1)
  BY <1>2, NumberEnds
<1>4. ~(e < j)
  <2>1. e < j => e + 1 \in i..j
    BY <1>1, <1>3
  <2>. QED
    BY <1>3, <2>1
<1>5. ~(j < e)
  <2>1. j < e => j + 1 \in i..e
    BY <1>1, <1>3
  <2>. QED
    BY <1>3, <2>1
<1>6. e = j
  BY <1>1, <1>3, <1>4, <1>5
<1>. QED
  BY <1>2, <1>6

(* A number is spread over as many places as in the t. *)
LEMMA PlacesOfNumber ==
    ASSUME NEW S, NEW t \in Seq(S), NEW d \in Seq(S), NEW pos, PlacesOf(t, d, pos),
           NEW i, IsDigit(t, i)
    PROVE  \A k \in i..(EndOfNumber(t, i) + 1) : pos[k] = pos[i] + (k - i)
<1>1. Len(t) \in Nat /\ i \in 1..Len(t)
  BY TextType
<1>2. PICK j : j = EndOfNumber(t, i)
  OBVIOUS
<1>3. j \in i..Len(t) /\ \A k \in i..j : IsDigit(t, k)
  BY <1>2, NumberEnds
<1>4. PICK n \in Nat : n = j + 1 - i
  BY <1>1, <1>3
<1>. DEFINE X == {m \in Nat : pos[i + m - 1] = pos[i] + (m - 1)}
<1>5. PICK p \in Nat : p = pos[i]
  <2>1. i \in 1..(Len(t) + 1)
    BY <1>1
  <2>. QED
    BY <2>1 DEF PlacesOf
<1>6. 1 \in X
  <2>1. i + 1 - 1 = i /\ p + (1 - 1) = p
    BY <1>1
  <2>. QED
    BY <1>5, <2>1
<1>7. ASSUME NEW m \in 1..n, m \in X
      PROVE  m + 1 \in X
  <2>1. PICK k \in Nat : k = i + m - 1 /\ k \in i..j /\ k + 1 = i + (m + 1) - 1
    <3>1. i + m - 1 \in Nat /\ i + m - 1 \in i..j /\ i + m - 1 + 1 = i + (m + 1) - 1
      BY <1>1, <1>3, <1>4
    <3>. QED
      BY <3>1
  <2>2. IsDigit(t, k) /\ k \in 1..Len(t)
    BY <1>1, <1>3, <2>1
  <2>3. t[k] \notin Operators
    BY <2>2, TextType DEF Operators, Digits
  <2>4. pos[k + 1] = pos[k] + 1
    BY <2>2, <2>3 DEF PlacesOf
  <2>5. pos[k] = p + (m - 1)
    BY <1>5, <1>7, <2>1
  <2>6. pos[k + 1] = p + (m + 1 - 1)
    BY <2>4, <2>5
  <2>. QED
    BY <1>5, <2>1, <2>6
<1>8. 1..(n + 1) \subseteq X
  <2>. HIDE DEF X
  <2>. QED
    BY <1>6, <1>7, Upwards
<1>9. ASSUME NEW k \in i..(j + 1)
      PROVE  pos[k] = pos[i] + (k - i)
  <2>1. PICK m \in 1..(n + 1) : m = k - i + 1
    <3>1. k - i + 1 \in 1..(n + 1)
      BY <1>1, <1>3, <1>4
    <3>. QED
      BY <3>1
  <2>2. i + m - 1 = k /\ m - 1 = k - i
    BY <1>1, <1>3, <2>1
  <2>. QED
    BY <1>8, <2>2
<1>. QED
  BY <1>2, <1>9

(* The number at a place is the number of the text. *)
LEMMA PlacesNumber ==
    ASSUME NEW S, NEW t \in Seq(S), NEW d \in Seq(S), NEW pos, PlacesOf(t, d, pos),
           NEW i, IsDigit(t, i)
    PROVE  /\ EndOfNumber(d, pos[i]) = pos[EndOfNumber(t, i)]
           /\ pos[EndOfNumber(t, i) + 1] = pos[EndOfNumber(t, i)] + 1
           /\ Number(d, pos[i]) = Number(t, i)
<1>1. /\ Len(t) \in Nat /\ Len(d) \in Nat /\ i \in 1..Len(t) /\ d \in Seq(S)
      /\ \A k : IsDigit(t, k) => k \in 1..Len(t)
      /\ \A q : IsDigit(d, q) => q \in 1..Len(d)
  BY TextType DEF PlacesOf
<1>2. PICK j : j = EndOfNumber(t, i)
  OBVIOUS
<1>3. j \in i..Len(t) /\ (\A k \in i..j : IsDigit(t, k)) /\ ~IsDigit(t, j + 1)
  BY <1>2, NumberEnds
<1>4. \A k \in i..(j + 1) : pos[k] = pos[i] + (k - i)
  BY <1>2, PlacesOfNumber
<1>5. PICK p \in Nat : p = pos[i]
  <2>1. i \in 1..(Len(t) + 1)
    BY <1>1
  <2>. QED
    BY <2>1 DEF PlacesOf
<1>6. PICK q \in Nat : q = pos[j] /\ q = p + (j - i) /\ pos[j + 1] = q + 1
  <2>1. j \in i..(j + 1) /\ j + 1 \in i..(j + 1) /\ p + (j - i) \in Nat
        /\ p + (j + 1 - i) = p + (j - i) + 1
    BY <1>1, <1>3
  <2>2. pos[j] = p + (j - i) /\ pos[j + 1] = p + (j + 1 - i)
    BY <1>1, <1>3, <1>4, <1>5, <2>1
  <2>. QED
    BY <2>1, <2>2
<1>7. ASSUME NEW r \in p..q
      PROVE  IsDigit(d, r)
  <2>1. PICK k \in i..j : k = i + (r - p)
    <3>1. i + (r - p) \in i..j
      BY <1>1, <1>3, <1>6
    <3>. QED
      BY <3>1
  <2>2. k \in i..(j + 1) /\ k \in 1..(Len(t) + 1) /\ p + (k - i) = r
    BY <1>1, <1>3, <2>1
  <2>3. pos[k] = r /\ IsDigit(t, k)
    BY <1>3, <1>4, <1>5, <2>1, <2>2
  <2>. QED
    BY <2>2, <2>3, PlacesOfDigits
<1>8. ~IsDigit(d, q + 1)
  <2>1. j + 1 \in 1..(Len(t) + 1)
    BY <1>1, <1>3
  <2>. QED
    BY <1>3, <1>6, <2>1, PlacesOfDigits
<1>9. p \in p..q /\ q \in p..q
  BY <1>1, <1>3, <1>6
<1>10. q \in p..Len(d)
  BY <1>1, <1>7, <1>9
<1>11. EndOfNumber(d, p) = q
  BY <1>1, <1>7, <1>8, <1>9, <1>10, OneEnd
<1>12. SubSeq(d, p, q) = SubSeq(t, i, j)
  <2>1. PICK n \in Nat : n = j - i + 1 /\ n = q - p + 1
    <3>1. j - i + 1 \in Nat /\ q - p + 1 = j - i + 1
      BY <1>1, <1>3, <1>6
    <3>. QED
      BY <3>1
  <2>2. (\A k \in i..j : t[k] \in S) /\ (\A r \in p..q : d[r] \in S)
    <3>1. (\A k \in i..j : k \in 1..Len(t)) /\ (\A r \in p..q : r \in 1..Len(d))
      BY <1>1, <1>3, <1>7
    <3>. QED
      BY <1>1, <3>1
  <2>3. i \in Int /\ j \in Int /\ p \in Int /\ q \in Int /\ i <= j /\ p <= q
    BY <1>1, <1>3, <1>9
  <2>4. /\ SubSeq(t, i, j) \in Seq(S) /\ Len(SubSeq(t, i, j)) = n
        /\ \A k \in 1..n : SubSeq(t, i, j)[k] = t[i + k - 1]
    BY <2>1, <2>2, <2>3, SubSeqProperties
  <2>5. /\ SubSeq(d, p, q) \in Seq(S) /\ Len(SubSeq(d, p, q)) = n
        /\ \A k \in 1..n : SubSeq(d, p, q)[k] = d[p + k - 1]
    BY <2>1, <2>2, <2>3, SubSeqProperties
  <2>6. ASSUME NEW k \in 1..n
        PROVE  d[p + k - 1] = t[i + k - 1]
    <3>1. PICK m \in 1..Len(t) : m = i + k - 1
      BY <1>1, <1>3, <2>1
    <3>2. m \in i..(j + 1) /\ p + (m - i) = p + k - 1
      BY <1>1, <1>3, <2>1, <3>1
    <3>3. pos[m] = p + k - 1
      BY <1>4, <1>5, <3>2
    <3>. QED
      BY <3>1, <3>3 DEF PlacesOf
  <2>. QED
    BY <2>4, <2>5, <2>6, SeqEqual
<1>. QED
  BY <1>2, <1>5, <1>6, <1>11, <1>12 DEF Number

(* The doubled text is well formed if the text is. *)
LEMMA PlacesWellFormed ==
    ASSUME NEW S, NEW t \in Seq(S), NEW d \in Seq(S), NEW pos, PlacesOf(t, d, pos), NEW nos
    PROVE  WellFormed(d, nos) <=> WellFormed(t, nos)
<1>0. /\ Len(t) \in Nat /\ Len(d) \in Nat /\ d \in Seq(S)
      /\ DOMAIN t = 1..Len(t) /\ DOMAIN d = 1..Len(d)
      /\ \A i \in 1..Len(t) : i \in 1..(Len(t) + 1)
  BY TextType DEF PlacesOf
<1>1. CharsOf(d) = CharsOf(t)
  <2>1. ASSUME NEW i \in 1..Len(t)
        PROVE  t[i] \in CharsOf(d)
    <3>1. pos[i] \in 1..Len(d) /\ d[pos[i]] = t[i]
      BY DEF PlacesOf
    <3>. QED
      BY <1>0, <3>1 DEF CharsOf
  <2>2. ASSUME NEW q \in 1..Len(d)
        PROVE  d[q] \in CharsOf(t)
    <3>1. PICK i \in 1..Len(t) : q = pos[i] \/ (t[i] \in Operators /\ q = pos[i] + 1)
      BY PlacesCover
    <3>2. d[q] = t[i]
      BY <3>1 DEF PlacesOf
    <3>. QED
      BY <1>0, <3>2 DEF CharsOf
  <2>. QED
    BY <1>0, <2>1, <2>2 DEF CharsOf
<1>2. ASSUME NEW i \in DOMAIN t, IsDigit(t, i), ~IsDigit(t, i - 1)
      PROVE  Number(t, i) \in NumbersOf(d)
  <2>1. pos[i] \in DOMAIN d /\ IsDigit(d, pos[i]) /\ ~IsDigit(d, pos[i] - 1)
    BY <1>0, <1>2, PlacesOfDigits DEF PlacesOf
  <2>2. Number(d, pos[i]) = Number(t, i)
    BY <1>2, PlacesNumber
  <2>. QED
    BY <2>1, <2>2 DEF NumbersOf
<1>3. ASSUME NEW q \in DOMAIN d, IsDigit(d, q), ~IsDigit(d, q - 1)
      PROVE  Number(d, q) \in NumbersOf(t)
  <2>1. PICK i \in 1..Len(t) : q = pos[i] \/ (t[i] \in Operators /\ q = pos[i] + 1)
    BY <1>0, PlacesCover
  <2>2. q = pos[i]
    BY <1>3, <2>1, PlacesOfDigits
  <2>3. i \in DOMAIN t /\ IsDigit(t, i) /\ ~IsDigit(t, i - 1)
    BY <1>0, <1>3, <2>2, PlacesOfDigits
  <2>4. Number(d, q) = Number(t, i)
    BY <2>2, <2>3, PlacesNumber
  <2>. QED
    BY <2>3, <2>4 DEF NumbersOf
<1>4. NumbersOf(d) = NumbersOf(t)
  <2>1. NumbersOf(t) \subseteq NumbersOf(d)
    BY <1>2 DEF NumbersOf
  <2>2. NumbersOf(d) \subseteq NumbersOf(t)
    BY <1>3 DEF NumbersOf
  <2>. QED
    BY <2>1, <2>2
<1>. QED
  BY <1>1, <1>4 DEF WellFormed

(* The doubled text has the tokens of the text. *)
LEMMA PlacesTokens ==
    ASSUME NEW S, NEW t \in Seq(S), NoPair(t), NEW d \in Seq(S), NEW pos, PlacesOf(t, d, pos)
    PROVE  Tokens(d) = Tokens(t)
<1>. DEFINE f == TokensFrom(t)
            g == TokensFrom(d)
            X == {i \in 1..(Len(t) + 1) : g[pos[i]] = f[i]}
<1>0. /\ Len(t) \in Nat /\ Len(d) \in Nat /\ d \in Seq(S)
      /\ \A i : IsDigit(t, i) <=> i \in 1..Len(t) /\ t[i] \in Digits
      /\ \A i \in 1..(Len(t) + 1) : pos[i] \in Nat
      /\ pos[1] = 1 /\ pos[Len(t) + 1] = Len(d) + 1
  BY TextType DEF PlacesOf
<1>1. ASSUME NEW i \in 1..(Len(t) + 1), \A m \in 1..(Len(t) + 1) : m > i => m \in X
      PROVE  i \in X
  <2>0. f[i] = TokensAt(t, f, i)
    BY TokensEquation
  <2>1. CASE i = Len(t) + 1
    <3>1. PICK p \in Nat : p = pos[i] /\ p \in 1..(Len(d) + 1) /\ p > Len(d) /\ i > Len(t)
      BY <1>0, <2>1
    <3>2. g[p] = TokensAt(d, g, p)
      BY <1>0, <3>1, TokensEquation
    <3>3. TokensAt(d, g, p) = <<>> /\ TokensAt(t, f, i) = <<>>
      BY <3>1 DEF TokensAt
    <3>. QED
      BY <2>0, <3>1, <3>2, <3>3
  <2>2. CASE i \in 1..Len(t)
    <3>0. i + 1 \in 1..(Len(t) + 1) /\ i + 1 > i /\ ~(i > Len(t))
      BY <1>0, <2>2
    <3>1. PICK p \in Nat : p = pos[i]
      BY <1>0
    <3>2. p \in 1..Len(d) /\ p \in 1..(Len(d) + 1) /\ ~(p > Len(d)) /\ d[p] = t[i]
      <4>1. p \in 1..Len(d) /\ d[p] = t[i]
        BY <2>2, <3>1 DEF PlacesOf
      <4>. QED
        BY <1>0, <4>1
    <3>3. g[p] = TokensAt(d, g, p)
      BY <1>0, <3>2, TokensEquation
    <3>4. g[pos[i + 1]] = f[i + 1]
      BY <1>1, <3>0
    <3>5. t[i] \notin Operators => pos[i + 1] = p + 1
      BY <2>2, <3>1 DEF PlacesOf
    <3>. HIDE DEF f, g
    <3>6. CASE t[i] \in Digits
      <4>1. IsDigit(t, i)
        BY <1>0, <2>2, <3>6
      <4>2. PICK j : j = EndOfNumber(t, i)
        OBVIOUS
      <4>3. j \in i..Len(t)
        BY <4>1, <4>2, NumberEnds
      <4>4. j + 1 \in 1..(Len(t) + 1) /\ j + 1 > i
        BY <1>0, <2>2, <4>3
      <4>5. g[pos[j + 1]] = f[j + 1]
        BY <1>1, <4>4
      <4>6. EndOfNumber(d, p) = pos[j] /\ pos[j + 1] = pos[j] + 1 /\ Number(d, p) = Number(t, i)
        BY <3>1, <4>1, <4>2, PlacesNumber
      <4>7. t[i] # " "
        BY <3>6 DEF Digits
      <4>8. f[i] = <<[kind |-> "no", no |-> Number(t, i)]>> \o f[j + 1]
        BY <2>0, <3>0, <3>6, <4>2, <4>7 DEF TokensAt
      <4>9. g[p] = <<[kind |-> "no", no |-> Number(d, p)]>> \o g[EndOfNumber(d, p) + 1]
        BY <3>2, <3>3, <3>6, <4>7 DEF TokensAt
      <4>. QED
        BY <3>1, <4>5, <4>6, <4>8, <4>9
    <3>7. CASE t[i] \in Operators
      <4>1. t[i] # " " /\ t[i] \notin Digits /\ t[i] \in {"&", "|"}
        BY <3>7 DEF Operators, Digits
      <4>2. pos[i + 1] = p + 2 /\ p + 1 \in 1..Len(d) /\ d[p + 1] = t[i]
        BY <2>2, <3>1, <3>7 DEF PlacesOf
      <4>3. OperatorEnd(t, i) = i
        <5>1. i < Len(t) => i \in 1..(Len(t) - 1)
          BY <1>0, <2>2
        <5>. QED
          BY <4>1, <5>1 DEF OperatorEnd, NoPair
      <4>4. OperatorEnd(d, p) = p + 1
        <5>1. p < Len(d)
          BY <1>0, <4>2
        <5>. QED
          BY <3>2, <4>2, <5>1 DEF OperatorEnd
      <4>5. f[i] = <<[kind |-> t[i]]>> \o f[i + 1]
        BY <2>0, <3>0, <4>1, <4>3 DEF TokensAt
      <4>6. g[p] = <<[kind |-> d[p]]>> \o g[p + 1 + 1]
        BY <3>2, <3>3, <4>1, <4>4 DEF TokensAt
      <4>7. p + 1 + 1 = pos[i + 1]
        BY <4>2
      <4>. QED
        BY <3>1, <3>2, <3>4, <4>5, <4>6, <4>7
    <3>8. CASE t[i] \notin Digits /\ t[i] \notin Operators
      <4>1. t[i] \notin {"&", "|"}
        BY <3>8 DEF Operators
      <4>2. g[p + 1] = f[i + 1]
        BY <3>4, <3>5, <3>8
      <4>3. CASE t[i] = " "
        BY <2>0, <3>0, <3>1, <3>2, <3>3, <4>2, <4>3 DEF TokensAt
      <4>4. CASE t[i] # " "
        BY <2>0, <3>0, <3>1, <3>2, <3>3, <3>8, <4>1, <4>2, <4>4 DEF TokensAt
      <4>. QED
        BY <4>3, <4>4
    <3>. QED
      BY <3>6, <3>7, <3>8
  <2>. QED
    BY <1>0, <2>1, <2>2
<1>2. 1..(Len(t) + 1) \subseteq X
  <2>. HIDE DEF X
  <2>. QED
    BY <1>0, <1>1, Downwards
<1>3. 1 \in 1..(Len(t) + 1)
  BY <1>0
<1>. QED
  BY <1>0, <1>2, <1>3 DEF Tokens

(* "converts task DSL operators (&, |) to expr-lang syntax (&&, ||)": written   *)
(* with them or with those of Go, a text has the same value, or is refused the  *)
(* same way, for every set of conditions that are completed.                    *)
THEOREM DoubledMeansTheSame ==
    ASSUME NEW S, NEW t \in Seq(S), NoPair(t), NEW nos, NEW completed
    PROVE  EvaluateTaskExpression(Doubled(t), nos, completed) =
               EvaluateTaskExpression(t, nos, completed)
<1>1. PICK d \in Seq(S) : d = Doubled(t) /\ \E pos : PlacesOf(t, d, pos)
  BY DoubledPlaces
<1>2. PICK pos : PlacesOf(t, d, pos)
  BY <1>1
<1>3. WellFormed(d, nos) <=> WellFormed(t, nos)
  BY <1>2, PlacesWellFormed
<1>4. Tokens(d) = Tokens(t)
  BY <1>2, PlacesTokens
<1>. QED
  BY <1>1, <1>3, <1>4 DEF EvaluateTaskExpression, CompileAndRun

--------------------------------------------------------------------------------
(* What the run of MCTaskAdmin checks. *)

TextOK == text \in Seq(Chars)

LEMMA TextIsText == MCSpec => []TextOK
<1>1. MCInit => TextOK
  BY ShortTexts DEF MCInit, TextOK
<1>2. TextOK /\ [MCNext]_<<vars, text>> => TextOK'
  <2>1. SUFFICES ASSUME TextOK, [MCNext]_<<vars, text>>
                 PROVE  TextOK'
    OBVIOUS
  <2>2. CASE \E ch \in Chars : Write(ch)
    <3>1. PICK ch \in Chars : text' = Append(text, ch)
      BY <2>2 DEF Write
    <3>. QED
      BY <2>1, <3>1, AppendProperties DEF TextOK
  <2>3. CASE UNCHANGED text
    BY <2>1, <2>3 DEF TextOK
  <2>. QED
    BY <2>1, <2>2, <2>3 DEF MCNext
<1>. QED
  BY <1>1, <1>2, PTL DEF MCSpec

(* An expression that is accepted for two conditions can be used with them.     *)
THEOREM AcceptedTextIsUsableCorrect == MCSpec => []AcceptedTextIsUsable
<1>1. TextOK => AcceptedTextIsUsable
  BY AcceptedIsUsable DEF TextOK, AcceptedTextIsUsable
<1>. QED
  BY <1>1, TextIsText, PTL

(* A text with its operators written as in Go means what the text means.        *)
THEOREM DoublingChangesNothingCorrect == MCSpec => []DoublingChangesNothing
<1>1. TextOK => DoublingChangesNothing
  BY DoubledMeansTheSame DEF TextOK, DoublingChangesNothing
<1>. QED
  BY <1>1, TextIsText, PTL

================================================================================
