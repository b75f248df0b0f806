-------------------------- MODULE TaskExpressionProofs --------------------------
(* Proofs about the expression language, for every text: a sequence over any    *)
(* set of characters.  What is defined by recursion is proved by induction over *)
(* sets of naturals: a set that holds a number as soon as it holds all smaller  *)
(* ones is Nat.                                                                 *)
EXTENDS TaskExpression, WellFoundedInduction, SequenceTheorems, TLAPS

LEMMA LeastNumber ==
    ASSUME NEW T, T \subseteq Nat, T # {}
    PROVE  \E n \in T : \A m \in T : ~(m < n)
<1>1. IsWellFoundedOn(OpToRel(<, Nat), Nat)
  BY NatLessThanWellFounded
<1>2. \E n \in T : \A m \in T : <<m, n>> \notin OpToRel(<, Nat)
  BY <1>1, WFMin
<1>. QED
  BY <1>2 DEF OpToRel

LEMMA Induction ==
    ASSUME NEW T, T \subseteq Nat,
           \A n \in Nat : (\A m \in Nat : m < n => m \in T) => n \in T
    PROVE  T = Nat
<1>. SUFFICES ASSUME Nat \ T # {}
              PROVE  FALSE
  OBVIOUS
<1>1. PICK n \in Nat \ T : \A m \in Nat \ T : ~(m < n)
  BY LeastNumber
<1>. QED
  BY <1>1

--------------------------------------------------------------------------------
(* The value of a span. *)

Rank(level) == IF level = "or" THEN 2 ELSE IF level = "and" THEN 1 ELSE 0

(* Every span that the value of a span is made of is smaller. *)
Size(s) == IF s.i > s.j THEN 0 ELSE 3 * (s.j - s.i + 1) + Rank(s.level)

Smaller(tokens, r, s) == r \in Spans(tokens) /\ Size(r) < Size(s)

LEMMA SizeType ==
    ASSUME NEW tokens, Len(tokens) \in Nat, NEW s \in Spans(tokens)
    PROVE  Size(s) \in 0..(3 * Len(tokens) + 2)
<1>1. /\ s.level \in Levels /\ s.i \in 1..(Len(tokens) + 1) /\ s.j \in 0..Len(tokens)
  BY DEF Spans
<1>2. Rank(s.level) \in 0..2
  BY DEF Rank
<1>. QED
  BY <1>1, <1>2 DEF Size

LEMMA SizeArithmetic ==
    ASSUME NEW i \in Nat, NEW j \in Nat, i <= j, NEW R \in 0..2
    PROVE  /\ 0 < 3 * (j - i + 1) + R
           /\ 3 * ((j - 1) - (i + 1) + 1) + 2 < 3 * (j - i + 1) + R
           /\ \A k \in i..j :
                  /\ 3 * ((k - 1) - i + 1) + R < 3 * (j - i + 1) + R
                  /\ \A r \in 0..2 : 3 * (j - (k + 1) + 1) + r < 3 * (j - i + 1) + R
OBVIOUS

LEMMA PartsAreSmaller ==
    ASSUME NEW tokens, Len(tokens) \in Nat, NEW s \in Spans(tokens), s.i <= s.j
    PROVE  /\ s.level = "primary" => Smaller(tokens, Span("or", s.i + 1, s.j - 1), s)
           /\ s.level # "primary" => Smaller(tokens, Span(Below(s.level), s.i, s.j), s)
           /\ s.level # "primary" => \A k \in s.i..s.j :
                  /\ Smaller(tokens, Span(s.level, s.i, k - 1), s)
                  /\ Smaller(tokens, Span(Below(s.level), k + 1, s.j), s)
<1>1. PICK n \in Nat : n = Len(tokens)
  OBVIOUS
<1>2. PICK level \in Levels, i \in 1..(n + 1), j \in 0..n :
          /\ level = s.level /\ i = s.i /\ j = s.j /\ i <= j
  BY <1>1 DEF Spans
<1>3. Size(s) = 3 * (j - i + 1) + Rank(level)
  BY <1>2 DEF Size
<1>4. \A l \in Levels, a \in 1..(n + 1), b \in 0..n :
          /\ Span(l, a, b) \in Spans(tokens)
          /\ Size(Span(l, a, b)) = IF a > b THEN 0 ELSE 3 * (b - a + 1) + Rank(l)
  BY <1>1 DEF Span, Spans, Size
<1>. i \in Nat /\ j \in Nat /\ i <= j /\ Rank(level) \in 0..2
  BY <1>2 DEF Rank
<1>5. CASE level = "primary"
  <2>1. i + 1 \in 1..(n + 1) /\ j - 1 \in 0..n
    BY <1>2
  <2>2. Span("or", i + 1, j - 1) \in Spans(tokens)
        /\ Size(Span("or", i + 1, j - 1)) =
             IF i + 1 > j - 1 THEN 0 ELSE 3 * ((j - 1) - (i + 1) + 1) + Rank("or")
    BY <1>4, <2>1 DEF Levels
  <2>3. Size(Span("or", i + 1, j - 1)) < Size(s)
    <3>1. Rank("or") = 2 /\ Rank(level) = 0
      BY <1>5 DEF Rank
    <3>. QED
      BY <1>3, <2>2, <3>1, SizeArithmetic
  <2>. QED
    BY <1>2, <1>5, <2>2, <2>3 DEF Smaller
<1>6. CASE level # "primary"
  <2>1. /\ Below(level) \in Levels /\ Rank(Below(level)) < Rank(level)
        /\ Rank(level) \in 1..2 /\ Rank(Below(level)) \in 0..1
    BY <1>6 DEF Below, Levels, Rank
  <2>2. Smaller(tokens, Span(Below(level), i, j), s)
    <3>1. /\ Span(Below(level), i, j) \in Spans(tokens)
          /\ Size(Span(Below(level), i, j)) =
               IF i > j THEN 0 ELSE 3 * (j - i + 1) + Rank(Below(level))
      BY <1>4, <2>1
    <3>3. Size(Span(Below(level), i, j)) = 3 * (j - i + 1) + Rank(Below(level))
      BY <3>1
    <3>2. 3 * (j - i + 1) + Rank(Below(level)) < 3 * (j - i + 1) + Rank(level)
      BY <2>1
    <3>. QED
      BY <1>3, <3>1, <3>2, <3>3 DEF Smaller
  <2>3. ASSUME NEW k \in i..j
        PROVE  /\ Smaller(tokens, Span(level, i, k - 1), s)
               /\ Smaller(tokens, Span(Below(level), k + 1, j), s)
    <3>1. k - 1 \in 0..n /\ k + 1 \in 1..(n + 1)
      BY <1>2
    <3>2. /\ Span(level, i, k - 1) \in Spans(tokens)
          /\ Size(Span(level, i, k - 1)) =
               IF i > k - 1 THEN 0 ELSE 3 * ((k - 1) - i + 1) + Rank(level)
      BY <1>4, <3>1
    <3>3. /\ Span(Below(level), k + 1, j) \in Spans(tokens)
          /\ Size(Span(Below(level), k + 1, j)) =
               IF k + 1 > j THEN 0 ELSE 3 * (j - (k + 1) + 1) + Rank(Below(level))
      BY <1>4, <2>1, <3>1
    <3>4. Size(Span(level, i, k - 1)) < Size(s)
      BY <1>3, <3>2, SizeArithmetic
    <3>5. Size(Span(Below(level), k + 1, j)) < Size(s)
      BY <1>3, <2>1, <3>3, SizeArithmetic
    <3>. QED
      BY <3>2, <3>3, <3>4, <3>5 DEF Smaller
  <2>. QED
    BY <1>2, <1>6, <2>2, <2>3
<1>. QED
  BY <1>5, <1>6

LEMMA SpanValueDepends ==
    ASSUME NEW tokens, Len(tokens) \in Nat, NEW completed, NEW g, NEW h,
           NEW s \in Spans(tokens), \A r : Smaller(tokens, r, s) => g[r] = h[r]
    PROVE  SpanValue(tokens, completed, g, s) = SpanValue(tokens, completed, h, s)
<1>0. s.i \in Int /\ s.j \in Int
  BY DEF Spans
<1>1. CASE s.i > s.j
  BY <1>1 DEF SpanValue
<1>2. CASE s.i <= s.j /\ s.level = "primary"
  <2>1. g[Span("or", s.i + 1, s.j - 1)] = h[Span("or", s.i + 1, s.j - 1)]
    BY <1>2, PartsAreSmaller
  <2>. QED
    BY <1>2, <2>1 DEF SpanValue
<1>3. CASE s.i <= s.j /\ s.level # "primary"
  <2>1. g[Span(Below(s.level), s.i, s.j)] = h[Span(Below(s.level), s.i, s.j)]
    BY <1>3, PartsAreSmaller
  <2>2. \A k \in s.i..s.j :
          /\ g[Span(s.level, s.i, k - 1)] = h[Span(s.level, s.i, k - 1)]
          /\ g[Span(Below(s.level), k + 1, s.j)] = h[Span(Below(s.level), k + 1, s.j)]
    BY <1>3, PartsAreSmaller
  <2>. DEFINE K == {m \in s.i..s.j : Combine(s.level, tokens[m].kind)}
              J(f, k) == Joined(tokens[k].kind, f[Span(s.level, s.i, k - 1)],
                                                f[Span(Below(s.level), k + 1, s.j)])
  <2>3. \A k \in K : J(g, k) = J(h, k)
    BY <2>2
  <2>4. UNION {J(g, k) : k \in K} = UNION {J(h, k) : k \in K}
    <3>. HIDE DEF J, K
    <3>. QED
      BY <2>3
  <2>5. \A f : SpanValue(tokens, completed, f, s) =
                 f[Span(Below(s.level), s.i, s.j)] \cup UNION {J(f, k) : k \in K}
    BY <1>0, <1>3 DEF SpanValue
  <2>. HIDE DEF J, K
  <2>. QED
    BY <2>1, <2>4, <2>5
<1>. QED
  BY <1>0, <1>1, <1>2, <1>3

(* The recursion has a solution: one that is right up to a size can be made     *)
(* right for the next size.                                                     *)
LEMMA ValuesUpTo ==
    ASSUME NEW tokens, Len(tokens) \in Nat, NEW completed
    PROVE  \A n \in Nat : \E g : \A s \in Spans(tokens) :
               Size(s) < n => g[s] = SpanValue(tokens, completed, g, s)
<1>. DEFINE T == {n \in Nat : \E g : \A s \in Spans(tokens) :
                      Size(s) < n => g[s] = SpanValue(tokens, completed, g, s)}
<1>1. ASSUME NEW n \in Nat, \A m \in Nat : m < n => m \in T
      PROVE  n \in T
  <2>1. CASE n = 0
    <3>1. \A s \in Spans(tokens) : ~(Size(s) < 0)
      BY SizeType
    <3>. QED
      BY <2>1, <3>1
  <2>2. CASE n # 0
    <3>1. n - 1 \in Nat /\ n - 1 < n
      BY <2>2
    <3>2. n - 1 \in T
      BY <1>1, <3>1
    <3>3. PICK g : \A s \in Spans(tokens) :
              Size(s) < n - 1 => g[s] = SpanValue(tokens, completed, g, s)
      BY <3>2
    <3>. DEFINE h == [s \in Spans(tokens) |-> SpanValue(tokens, completed, g, s)]
    <3>4. ASSUME NEW s \in Spans(tokens), Size(s) < n
          PROVE  h[s] = SpanValue(tokens, completed, h, s)
      <4>1. ASSUME NEW r, Smaller(tokens, r, s)
            PROVE  g[r] = h[r]
        <5>1. r \in Spans(tokens) /\ Size(r) < Size(s)
          BY <4>1 DEF Smaller
        <5>2. Size(r) \in Nat /\ Size(s) \in Nat
          BY <5>1, SizeType
        <5>3. Size(r) < n - 1
          BY <3>1, <3>4, <5>1, <5>2
        <5>. QED
          BY <3>3, <5>1, <5>3
      <4>. HIDE DEF h
      <4>2. SpanValue(tokens, completed, g, s) = SpanValue(tokens, completed, h, s)
        BY <4>1, SpanValueDepends
      <4>3. h[s] = SpanValue(tokens, completed, g, s)
        BY DEF h
      <4>. QED
        BY <4>2, <4>3
    <3>. HIDE DEF h
    <3>. QED
      BY <3>4
  <2>. QED
    BY <2>1, <2>2
<1>2. T = Nat
  <2>. HIDE DEF T
  <2>1. T \subseteq Nat
    BY DEF T
  <2>. QED
    BY <1>1, <2>1, Induction
<1>. QED
  BY <1>2

LEMMA ValuesEquation ==
    ASSUME NEW tokens, Len(tokens) \in Nat, NEW completed, NEW s \in Spans(tokens)
    PROVE  Values(tokens, completed)[s] =
               SpanValue(tokens, completed, Values(tokens, completed), s)
<1>0. 3 * Len(tokens) + 3 \in Nat
  OBVIOUS
<1>1. PICK g : \A r \in Spans(tokens) :
          Size(r) < 3 * Len(tokens) + 3 => g[r] = SpanValue(tokens, completed, g, r)
  BY <1>0, ValuesUpTo
<1>2. \A r \in Spans(tokens) : g[r] = SpanValue(tokens, completed, g, r)
  BY <1>1, SizeType
<1>. DEFINE h == [r \in Spans(tokens) |-> g[r]]
<1>3. \A r \in Spans(tokens) : h[r] = g[r]
  OBVIOUS
<1>4. \A r \in Spans(tokens) :
          SpanValue(tokens, completed, g, r) = SpanValue(tokens, completed, h, r)
  <2>. HIDE DEF h
  <2>. QED
    BY <1>3, SpanValueDepends DEF Smaller
<1>5. h = [r \in Spans(tokens) |-> SpanValue(tokens, completed, h, r)]
  BY <1>2, <1>4
<1>6. Values(tokens, completed) =
          CHOOSE f : f = [r \in Spans(tokens) |-> SpanValue(tokens, completed, f, r)]
  BY DEF Values
<1>. HIDE DEF h
<1>7. \E f : f = [r \in Spans(tokens) |-> SpanValue(tokens, completed, f, r)]
  BY <1>5
<1>8. Values(tokens, completed) =
          [r \in Spans(tokens) |-> SpanValue(tokens, completed, Values(tokens, completed), r)]
  BY <1>6, <1>7
<1>. QED
  BY <1>8

(* What holds of a span if it holds of all smaller ones holds of all. *)
LEMMA SpanInduction ==
    ASSUME NEW tokens, Len(tokens) \in Nat, NEW X,
           \A s \in Spans(tokens) : (\A r : Smaller(tokens, r, s) => r \in X) => s \in X
    PROVE  Spans(tokens) \subseteq X
<1>. DEFINE T == {n \in Nat : \A s \in Spans(tokens) : Size(s) = n => s \in X}
<1>1. ASSUME NEW n \in Nat, \A m \in Nat : m < n => m \in T
      PROVE  n \in T
  <2>1. ASSUME NEW s \in Spans(tokens), Size(s) = n
        PROVE  s \in X
    <3>1. ASSUME NEW r, Smaller(tokens, r, s)
          PROVE  r \in X
      <4>1. r \in Spans(tokens) /\ Size(r) < n /\ Size(r) \in Nat
        BY <2>1, <3>1, SizeType DEF Smaller
      <4>. QED
        BY <1>1, <4>1
    <3>. QED
      BY <3>1
  <2>. QED
    BY <2>1
<1>2. T = Nat
  <2>. HIDE DEF T
  <2>1. T \subseteq Nat
    BY DEF T
  <2>. QED
    BY <1>1, <2>1, Induction
<1>3. \A s \in Spans(tokens) : Size(s) \in T
  BY <1>2, SizeType
<1>. QED
  BY <1>3

(* Where the value of a span comes from. *)
LEMMA SpanCases ==
    ASSUME NEW tokens, NEW completed, NEW g, NEW s \in Spans(tokens),
           NEW v \in SpanValue(tokens, completed, g, s)
    PROVE  /\ s.i <= s.j
           /\ \/ /\ s.level = "primary" /\ tokens[s.i].kind = "no" /\ s.i = s.j
                 /\ v = (tokens[s.i].no \in completed)
              \/ /\ s.level = "primary" /\ ~(tokens[s.i].kind = "no" /\ s.i = s.j)
                 /\ tokens[s.i].kind = "(" /\ tokens[s.j].kind = ")"
                 /\ v \in g[Span("or", s.i + 1, s.j - 1)]
              \/ s.level # "primary" /\ v \in g[Span(Below(s.level), s.i, s.j)]
              \/ /\ s.level # "primary"
                 /\ \E k \in s.i..s.j :
                        /\ Combine(s.level, tokens[k].kind)
                        /\ v \in Joined(tokens[k].kind, g[Span(s.level, s.i, k - 1)],
                                                        g[Span(Below(s.level), k + 1, s.j)])
<1>1. s.i \in Int /\ s.j \in Int
  BY DEF Spans
<1>2. s.i <= s.j
  BY <1>1 DEF SpanValue
<1>3. CASE s.level = "primary"
  BY <1>1, <1>2, <1>3 DEF SpanValue
<1>4. CASE s.level # "primary"
  BY <1>1, <1>2, <1>4 DEF SpanValue
<1>. QED
  BY <1>2, <1>3, <1>4

LEMMA JoinedCases ==
    ASSUME NEW kind, NEW V, NEW W, NEW x \in Joined(kind, V, W)
    PROVE  \E v \in V, w \in W : x = (IF kind = "&" THEN v /\ w ELSE v \/ w)
BY DEF Joined

LEMMA JoinedHas ==
    ASSUME NEW kind, NEW V, NEW W, NEW v \in V, NEW w \in W
    PROVE  (IF kind = "&" THEN v /\ w ELSE v \/ w) \in Joined(kind, V, W)
BY DEF Joined

LEMMA SpanHas ==
    ASSUME NEW tokens, NEW completed, NEW g, NEW s \in Spans(tokens), s.i <= s.j, NEW v,
           \/ /\ s.level = "primary" /\ tokens[s.i].kind = "no" /\ s.i = s.j
              /\ v = (tokens[s.i].no \in completed)
           \/ /\ s.level = "primary" /\ ~(tokens[s.i].kind = "no" /\ s.i = s.j)
              /\ tokens[s.i].kind = "(" /\ tokens[s.j].kind = ")"
              /\ v \in g[Span("or", s.i + 1, s.j - 1)]
           \/ s.level # "primary" /\ v \in g[Span(Below(s.level), s.i, s.j)]
           \/ /\ s.level # "primary"
              /\ \E k \in s.i..s.j :
                     /\ Combine(s.level, tokens[k].kind)
                     /\ v \in Joined(tokens[k].kind, g[Span(s.level, s.i, k - 1)],
                                                     g[Span(Below(s.level), k + 1, s.j)])
    PROVE  v \in SpanValue(tokens, completed, g, s)
<1>1. ~(s.i > s.j)
  BY DEF Spans
<1>2. CASE s.level = "primary"
  BY <1>1, <1>2 DEF SpanValue
<1>3. CASE s.level # "primary"
  BY <1>1, <1>3 DEF SpanValue
<1>. QED
  BY <1>2, <1>3

(* Every value that a span has with some conditions completed, it has, or a     *)
(* smaller one, with fewer; and it has one whatever is completed.               *)
Follows(tokens, C, D, s) ==
    \A v \in Values(tokens, D)[s] :
        /\ v \in BOOLEAN
        /\ \E w \in Values(tokens, C)[s] : w \in BOOLEAN /\ (C \subseteq D /\ w => v)

LEMMA ValuesFollow ==
    ASSUME NEW tokens, Len(tokens) \in Nat, NEW C, NEW D
    PROVE  \A s \in Spans(tokens) : Follows(tokens, C, D, s)
<1>. DEFINE X == {s \in Spans(tokens) : Follows(tokens, C, D, s)}
            f == Values(tokens, C)
            g == Values(tokens, D)
<1>1. ASSUME NEW s \in Spans(tokens), \A r : Smaller(tokens, r, s) => r \in X
      PROVE  Follows(tokens, C, D, s)
  <2>1. /\ f[s] = SpanValue(tokens, C, f, s)
        /\ g[s] = SpanValue(tokens, D, g, s)
    BY ValuesEquation
  <2>2. \A r : Smaller(tokens, r, s) =>
            \A v \in g[r] : /\ v \in BOOLEAN
                            /\ \E w \in f[r] : w \in BOOLEAN /\ (C \subseteq D /\ w => v)
    BY <1>1 DEF Follows
  <2>. SUFFICES ASSUME NEW v \in g[s]
                PROVE  /\ v \in BOOLEAN
                       /\ \E w \in f[s] : w \in BOOLEAN /\ (C \subseteq D /\ w => v)
    BY DEF Follows
  <2>. HIDE DEF f, g, X
  <2>3. v \in SpanValue(tokens, D, g, s)
    BY <2>1
  <2>4. s.i <= s.j
    BY <2>3, SpanCases
  <2>5. CASE /\ s.level = "primary" /\ tokens[s.i].kind = "no" /\ s.i = s.j
             /\ v = (tokens[s.i].no \in D)
    <3>1. PICK w : w = (tokens[s.i].no \in C)
      OBVIOUS
    <3>2. w \in f[s]
      BY <2>1, <2>4, <2>5, <3>1, SpanHas
    <3>3. v \in BOOLEAN
      BY <2>5
    <3>4. w \in BOOLEAN
      BY <3>1
    <3>5. C \subseteq D /\ w => v
      BY <2>5, <3>1, Zenon
    <3>. QED
      BY <3>2, <3>3, <3>4, <3>5
  <2>6. CASE /\ s.level = "primary" /\ ~(tokens[s.i].kind = "no" /\ s.i = s.j)
             /\ tokens[s.i].kind = "(" /\ tokens[s.j].kind = ")"
             /\ v \in g[Span("or", s.i + 1, s.j - 1)]
    <3>1. PICK w \in f[Span("or", s.i + 1, s.j - 1)] :
              v \in BOOLEAN /\ w \in BOOLEAN /\ (C \subseteq D /\ w => v)
      BY <2>2, <2>4, <2>6, PartsAreSmaller
    <3>2. w \in f[s]
      BY <2>1, <2>4, <2>6, SpanHas
    <3>. QED
      BY <3>1, <3>2
  <2>7. CASE s.level # "primary" /\ v \in g[Span(Below(s.level), s.i, s.j)]
    <3>1. PICK w \in f[Span(Below(s.level), s.i, s.j)] :
              v \in BOOLEAN /\ w \in BOOLEAN /\ (C \subseteq D /\ w => v)
      BY <2>2, <2>4, <2>7, PartsAreSmaller
    <3>2. w \in f[s]
      BY <2>1, <2>4, <2>7, SpanHas
    <3>. QED
      BY <3>1, <3>2
  <2>8. ASSUME s.level # "primary", NEW k \in s.i..s.j, Combine(s.level, tokens[k].kind),
               v \in Joined(tokens[k].kind, g[Span(s.level, s.i, k - 1)],
                                            g[Span(Below(s.level), k + 1, s.j)])
        PROVE  /\ v \in BOOLEAN
               /\ \E w \in f[s] : w \in BOOLEAN /\ (C \subseteq D /\ w => v)
    <3>1. PICK a \in g[Span(s.level, s.i, k - 1)], b \in g[Span(Below(s.level), k + 1, s.j)] :
              v = (IF tokens[k].kind = "&" THEN a /\ b ELSE a \/ b)
      BY <2>8, JoinedCases
    <3>2. /\ Smaller(tokens, Span(s.level, s.i, k - 1), s)
          /\ Smaller(tokens, Span(Below(s.level), k + 1, s.j), s)
      BY <2>4, <2>8, PartsAreSmaller
    <3>3. PICK p \in f[Span(s.level, s.i, k - 1)] :
              a \in BOOLEAN /\ p \in BOOLEAN /\ (C \subseteq D /\ p => a)
      BY <2>2, <3>2
    <3>4. PICK q \in f[Span(Below(s.level), k + 1, s.j)] :
              b \in BOOLEAN /\ q \in BOOLEAN /\ (C \subseteq D /\ q => b)
      BY <2>2, <3>2
    <3>5. PICK w : w = (IF tokens[k].kind = "&" THEN p /\ q ELSE p \/ q)
      OBVIOUS
    <3>6. w \in Joined(tokens[k].kind, f[Span(s.level, s.i, k - 1)],
                                       f[Span(Below(s.level), k + 1, s.j)])
      BY <3>5, JoinedHas
    <3>7. w \in f[s]
      BY <2>1, <2>4, <2>8, <3>6, SpanHas
    <3>8. v \in BOOLEAN /\ w \in BOOLEAN /\ (C \subseteq D /\ w => v)
      BY <3>1, <3>3, <3>4, <3>5
    <3>. QED
      BY <3>7, <3>8
  <2>. QED
    BY <2>3, <2>5, <2>6, <2>7, <2>8, SpanCases
<1>2. Spans(tokens) \subseteq X
  <2>1. \A s \in Spans(tokens) : (\A r : Smaller(tokens, r, s) => r \in X) => s \in X
    BY <1>1
  <2>. HIDE DEF X
  <2>. QED
    BY <2>1, SpanInduction
<1>. QED
  BY <1>2

(* A span whose numbers are all completed can only be true, and one of whose    *)
(* numbers none is completed can only be false.                                 *)
LEMMA ValuesAgree ==
    ASSUME NEW tokens, Len(tokens) \in Nat, NEW completed, NEW b \in BOOLEAN,
           \A n \in 1..Len(tokens) : tokens[n].kind = "no" => (tokens[n].no \in completed) = b
    PROVE  \A s \in Spans(tokens) : Values(tokens, completed)[s] \subseteq {b}
<1>. DEFINE g == Values(tokens, completed)
            X == {s \in Spans(tokens) : g[s] \subseteq {b}}
<1>1. ASSUME NEW s \in Spans(tokens), \A r : Smaller(tokens, r, s) => r \in X,
             NEW v \in g[s]
      PROVE  v = b
  <2>1. v \in SpanValue(tokens, completed, g, s)
    BY ValuesEquation
  <2>2. \A r : Smaller(tokens, r, s) => g[r] \subseteq {b}
    BY <1>1
  <2>. HIDE DEF g, X
  <2>3. s.i <= s.j
    BY <2>1, SpanCases
  <2>4. CASE /\ s.level = "primary" /\ tokens[s.i].kind = "no" /\ s.i = s.j
             /\ v = (tokens[s.i].no \in completed)
    <3>1. s.i \in 1..Len(tokens)
      BY <2>4 DEF Spans
    <3>. QED
      BY <2>4, <3>1
  <2>5. CASE /\ s.level = "primary" /\ ~(tokens[s.i].kind = "no" /\ s.i = s.j)
             /\ tokens[s.i].kind = "(" /\ tokens[s.j].kind = ")"
             /\ v \in g[Span("or", s.i + 1, s.j - 1)]
    BY <2>2, <2>3, <2>5, PartsAreSmaller
  <2>6. CASE s.level # "primary" /\ v \in g[Span(Below(s.level), s.i, s.j)]
    BY <2>2, <2>3, <2>6, PartsAreSmaller
  <2>7. ASSUME s.level # "primary", NEW k \in s.i..s.j, Combine(s.level, tokens[k].kind),
               v \in Joined(tokens[k].kind, g[Span(s.level, s.i, k - 1)],
                                            g[Span(Below(s.level), k + 1, s.j)])
        PROVE  v = b
    <3>1. PICK p \in g[Span(s.level, s.i, k - 1)], q \in g[Span(Below(s.level), k + 1, s.j)] :
              v = (IF tokens[k].kind = "&" THEN p /\ q ELSE p \/ q)
      BY <2>7, JoinedCases
    <3>2. p = b /\ q = b
      BY <2>2, <2>3, <2>7, PartsAreSmaller
    <3>. QED
      BY <3>1, <3>2
  <2>. QED
    BY <2>1, <2>4, <2>5, <2>6, <2>7, SpanCases
<1>2. Spans(tokens) \subseteq X
  <2>1. \A s \in Spans(tokens) : (\A r : Smaller(tokens, r, s) => r \in X) => s \in X
    BY <1>1
  <2>. HIDE DEF X
  <2>. QED
    BY <2>1, SpanInduction
<1>. QED
  BY <1>2

--------------------------------------------------------------------------------
(* The tokens of a text. *)

LEMMA TextType ==
    ASSUME NEW S, NEW text \in Seq(S)
    PROVE  /\ Len(text) \in Nat /\ DOMAIN text = 1..Len(text)
           /\ \A i : IsDigit(text, i) <=> i \in 1..Len(text) /\ text[i] \in Digits
BY DEF IsDigit

LEMMA NumberEnds ==
    ASSUME NEW S, NEW text \in Seq(S), NEW i, IsDigit(text, i)
    PROVE  /\ EndOfNumber(text, i) \in i..Len(text)
           /\ \A k \in i..EndOfNumber(text, i) : IsDigit(text, k)
           /\ ~IsDigit(text, EndOfNumber(text, i) + 1)
<1>. DEFINE T == {n \in Nat : n >= i /\ ~IsDigit(text, n + 1)}
<1>1. Len(text) \in Nat /\ i \in 1..Len(text)
  BY TextType
<1>2. Len(text) \in T
  BY <1>1, TextType
<1>3. PICK n \in T : \A m \in T : ~(m < n)
  <2>1. T \subseteq Nat /\ T # {}
    BY <1>2
  <2>. HIDE DEF T
  <2>. QED
    BY <2>1, LeastNumber
<1>4. n \in i..Len(text) /\ ~IsDigit(text, n + 1)
  BY <1>1, <1>2, <1>3
<1>5. ASSUME NEW k \in i..n
      PROVE  IsDigit(text, k)
  <2>1. CASE k = i
    BY <2>1
  <2>2. CASE k # i
    <3>1. k - 1 \in Nat /\ k - 1 >= i /\ k - 1 < n /\ (k - 1) + 1 = k
      BY <1>1, <1>4, <2>2
    <3>2. k - 1 \notin T
      BY <1>3, <3>1
    <3>. QED
      BY <3>1, <3>2
  <2>. QED
    BY <2>1, <2>2
<1>6. \E j \in i..Len(text) : (\A k \in i..j : IsDigit(text, k)) /\ ~IsDigit(text, j + 1)
  BY <1>4, <1>5
<1>. QED
  BY <1>6 DEF EndOfNumber

(* The tokens from a place on are made of those from later places on. *)
LEMMA TokensAtDepends ==
    ASSUME NEW S, NEW text \in Seq(S), NEW g, NEW h, NEW i \in 1..(Len(text) + 1),
           \A m \in 1..(Len(text) + 1) : m > i => g[m] = h[m]
    PROVE  TokensAt(text, g, i) = TokensAt(text, h, i)
<1>1. Len(text) \in Nat
  BY TextType
<1>2. CASE i > Len(text)
  BY <1>2 DEF TokensAt
<1>3. CASE ~(i > Len(text))
  <2>1. g[i + 1] = h[i + 1]
    BY <1>1, <1>3
  <2>2. text[i] \in Digits => g[EndOfNumber(text, i) + 1] = h[EndOfNumber(text, i) + 1]
    <3>1. SUFFICES ASSUME text[i] \in Digits
                   PROVE  g[EndOfNumber(text, i) + 1] = h[EndOfNumber(text, i) + 1]
      OBVIOUS
    <3>2. IsDigit(text, i)
      BY <1>1, <1>3, <3>1, TextType
    <3>3. PICK j : j = EndOfNumber(text, i)
      OBVIOUS
    <3>4. j \in i..Len(text)
      BY <3>2, <3>3, NumberEnds
    <3>5. j + 1 \in 1..(Len(text) + 1) /\ j + 1 > i
      BY <1>1, <1>3, <3>4
    <3>. QED
      BY <3>3, <3>5
  <2>3. g[OperatorEnd(text, i) + 1] = h[OperatorEnd(text, i) + 1]
    <3>1. PICK j : j = OperatorEnd(text, i)
      OBVIOUS
    <3>2. j = i \/ (j = i + 1 /\ i < Len(text))
      BY <3>1 DEF OperatorEnd
    <3>3. j + 1 \in 1..(Len(text) + 1) /\ j + 1 > i
      BY <1>1, <1>3, <3>2
    <3>. QED
      BY <3>1, <3>3
  <2>. QED
    BY <1>3, <2>1, <2>2, <2>3 DEF TokensAt
<1>. QED
  BY <1>2, <1>3

LEMMA TokensUpTo ==
    ASSUME NEW S, NEW text \in Seq(S)
    PROVE  \A n \in Nat : \E g : \A i \in 1..(Len(text) + 1) :
               Len(text) + 1 - i < n => g[i] = TokensAt(text, g, i)
<1>. DEFINE T == {n \in Nat : \E g : \A i \in 1..(Len(text) + 1) :
                      Len(text) + 1 - i < n => g[i] = TokensAt(text, g, i)}
<1>0. Len(text) \in Nat
  BY TextType
<1>1. ASSUME NEW n \in Nat, \A m \in Nat : m < n => m \in T
      PROVE  n \in T
  <2>1. CASE n = 0
    <3>1. \A i \in 1..(Len(text) + 1) : ~(Len(text) + 1 - i < 0)
      BY <1>0
    <3>. QED
      BY <2>1, <3>1
  <2>2. CASE n # 0
    <3>1. n - 1 \in Nat /\ n - 1 < n
      BY <2>2
    <3>2. n - 1 \in T
      BY <1>1, <3>1
    <3>3. PICK g : \A i \in 1..(Len(text) + 1) :
              Len(text) + 1 - i < n - 1 => g[i] = TokensAt(text, g, i)
      BY <3>2
    <3>. DEFINE h == [i \in 1..(Len(text) + 1) |-> TokensAt(text, g, i)]
    <3>4. ASSUME NEW i \in 1..(Len(text) + 1), Len(text) + 1 - i < n
          PROVE  h[i] = TokensAt(text, h, i)
      <4>1. ASSUME NEW m \in 1..(Len(text) + 1), m > i
            PROVE  g[m] = h[m]
        <5>1. Len(text) + 1 - m < n - 1
          BY <1>0, <3>1, <3>4, <4>1
        <5>. QED
          BY <3>3, <5>1
      <4>. HIDE DEF h
      <4>2. TokensAt(text, g, i) = TokensAt(text, h, i)
        BY <4>1, TokensAtDepends
      <4>3. h[i] = TokensAt(text, g, i)
        BY DEF h
      <4>. QED
        BY <4>2, <4>3
    <3>. HIDE DEF h
    <3>. QED
      BY <3>4
  <2>. QED
    BY <2>1, <2>2
<1>2. T = Nat
  <2>. HIDE DEF T
  <2>1. T \subseteq Nat
    BY DEF T
  <2>. QED
    BY <1>1, <2>1, Induction
<1>. QED
  BY <1>2

LEMMA TokensEquation ==
    ASSUME NEW S, NEW text \in Seq(S), NEW i \in 1..(Len(text) + 1)
    PROVE  TokensFrom(text)[i] = TokensAt(text, TokensFrom(text), i)
<1>0. Len(text) \in Nat /\ Len(text) + 1 \in Nat
  BY TextType
<1>1. PICK g : \A m \in 1..(Len(text) + 1) :
          Len(text) + 1 - m < Len(text) + 1 => g[m] = TokensAt(text, g, m)
  BY <1>0, TokensUpTo
<1>2. \A m \in 1..(Len(text) + 1) : g[m] = TokensAt(text, g, m)
  BY <1>0, <1>1
<1>. DEFINE h == [m \in 1..(Len(text) + 1) |-> g[m]]
<1>3. \A m \in 1..(Len(text) + 1) : h[m] = g[m]
  OBVIOUS
<1>4. \A m \in 1..(Len(text) + 1) : TokensAt(text, g, m) = TokensAt(text, h, m)
  <2>. HIDE DEF h
  <2>. QED
    BY <1>3, TokensAtDepends
<1>5. h = [m \in 1..(Len(text) + 1) |-> TokensAt(text, h, m)]
  BY <1>2, <1>4
<1>6. TokensFrom(text) =
          CHOOSE f : f = [m \in 1..(Len(text) + 1) |-> TokensAt(text, f, m)]
  BY DEF TokensFrom
<1>. HIDE DEF h
<1>7. \E f : f = [m \in 1..(Len(text) + 1) |-> TokensAt(text, f, m)]
  BY <1>5
<1>8. TokensFrom(text) = [m \in 1..(Len(text) + 1) |-> TokensAt(text, TokensFrom(text), m)]
  BY <1>6, <1>7
<1>. QED
  BY <1>8

(* A token is a number of the text, or one of its other characters. *)
TokenSet(text) ==
    {[kind |-> "no", no |-> n] : n \in NumbersOf(text)} \cup
    {[kind |-> ch] : ch \in DSLChars \ Digits}

LEMMA TokenKinds ==
    ASSUME NEW text, NEW token \in TokenSet(text), token.kind = "no"
    PROVE  token.no \in NumbersOf(text)
<1>1. \A ch \in DSLChars \ Digits : ch # "no"
  BY DEF DSLChars, Digits
<1>. QED
  BY <1>1 DEF TokenSet

(* From any place but the middle of a number. *)
LEMMA TokensTyped ==
    ASSUME NEW S, NEW text \in Seq(S), CharsOf(text) \subseteq DSLChars
    PROVE  Tokens(text) \in Seq(TokenSet(text))
<1>. DEFINE f == TokensFrom(text)
            Boundary(i) == ~(IsDigit(text, i - 1) /\ IsDigit(text, i))
            T == {n \in Nat : \A i \in 1..(Len(text) + 1) :
                      Len(text) + 1 - i = n /\ Boundary(i) => f[i] \in Seq(TokenSet(text))}
<1>0. Len(text) \in Nat
  BY TextType
<1>1. ASSUME NEW n \in Nat, \A m \in Nat : m < n => m \in T,
             NEW i \in 1..(Len(text) + 1), Len(text) + 1 - i = n, Boundary(i)
      PROVE  f[i] \in Seq(TokenSet(text))
  <2>1. f[i] = TokensAt(text, f, i)
    BY TokensEquation
  <2>2. ASSUME NEW m \in (i + 1)..(Len(text) + 1), Boundary(m)
        PROVE  f[m] \in Seq(TokenSet(text))
    <3>1. /\ m \in 1..(Len(text) + 1) /\ Len(text) + 1 - m \in Nat
          /\ Len(text) + 1 - m < n
      BY <1>0, <1>1
    <3>2. Len(text) + 1 - m \in T
      BY <1>1, <3>1
    <3>. QED
      BY <2>2, <3>1, <3>2
  <2>. HIDE DEF f, T
  <2>3. CASE i > Len(text)
    <3>1. f[i] = <<>>
      BY <2>1, <2>3 DEF TokensAt
    <3>. QED
      BY <3>1
  <2>4. CASE ~(i > Len(text)) /\ text[i] \in Digits
    <3>1. i \in 1..Len(text) /\ IsDigit(text, i) /\ ~IsDigit(text, i - 1)
      BY <1>0, <1>1, <2>4, TextType
    <3>2. PICK j : j = EndOfNumber(text, i)
      OBVIOUS
    <3>3. j \in i..Len(text) /\ ~IsDigit(text, j + 1)
      BY <3>1, <3>2, NumberEnds
    <3>4. f[j + 1] \in Seq(TokenSet(text))
      BY <1>0, <2>2, <3>1, <3>3
    <3>5. Number(text, i) \in NumbersOf(text)
      BY <3>1, <3>2, TextType DEF NumbersOf
    <3>6. text[i] # " "
      BY <2>4 DEF Digits
    <3>7. f[i] = <<[kind |-> "no", no |-> Number(text, i)]>> \o f[j + 1]
      BY <2>1, <2>4, <3>2, <3>6 DEF TokensAt
    <3>8. [kind |-> "no", no |-> Number(text, i)] \in TokenSet(text)
      BY <3>5 DEF TokenSet
    <3>9. <<[kind |-> "no", no |-> Number(text, i)]>> \in Seq(TokenSet(text))
      BY <3>8
    <3>. QED
      BY <3>4, <3>7, <3>9, ConcatProperties
  <2>5. CASE ~(i > Len(text)) /\ text[i] \notin Digits
    <3>1. i \in 1..Len(text) /\ ~IsDigit(text, i)
      BY <1>0, <2>5, TextType
    <3>2. f[i + 1] \in Seq(TokenSet(text))
      BY <1>0, <2>2, <3>1
    <3>3. text[i] \in DSLChars \ Digits
      BY <2>5, <3>1, TextType DEF CharsOf
    <3>4. <<[kind |-> text[i]]>> \in Seq(TokenSet(text))
      <4>1. [kind |-> text[i]] \in TokenSet(text)
        BY <3>3 DEF TokenSet
      <4>. QED
        BY <4>1
    <3>5. text[i] \in {"&", "|"} => f[OperatorEnd(text, i) + 1] \in Seq(TokenSet(text))
      <4>1. SUFFICES ASSUME text[i] \in {"&", "|"}
                     PROVE  f[OperatorEnd(text, i) + 1] \in Seq(TokenSet(text))
        OBVIOUS
      <4>2. CASE OperatorEnd(text, i) = i
        BY <3>2, <4>2
      <4>3. CASE OperatorEnd(text, i) # i
        <5>1. OperatorEnd(text, i) = i + 1 /\ i < Len(text) /\ text[i + 1] = text[i]
          BY <4>3 DEF OperatorEnd
        <5>2. ~IsDigit(text, i + 1)
          BY <2>5, <5>1 DEF IsDigit
        <5>3. f[i + 1 + 1] \in Seq(TokenSet(text))
          BY <1>0, <2>2, <3>1, <5>1, <5>2
        <5>. QED
          BY <5>1, <5>3
      <4>. QED
        BY <4>2, <4>3
    <3>6. \/ f[i] = f[i + 1]
          \/ text[i] \in {"&", "|"} /\ f[i] = <<[kind |-> text[i]]>> \o f[OperatorEnd(text, i) + 1]
          \/ f[i] = <<[kind |-> text[i]]>> \o f[i + 1]
      BY <2>1, <2>5 DEF TokensAt
    <3>. QED
      BY <3>2, <3>4, <3>5, <3>6, ConcatProperties
  <2>. QED
    BY <2>3, <2>4, <2>5
<1>2. T = Nat
  <2>1. \A n \in Nat : (\A m \in Nat : m < n => m \in T) => n \in T
    BY <1>1
  <2>2. T \subseteq Nat
    OBVIOUS
  <2>. HIDE DEF T
  <2>. QED
    BY <2>1, <2>2, Induction
<1>3. Len(text) \in T /\ 1 \in 1..(Len(text) + 1) /\ Len(text) + 1 - 1 = Len(text)
  BY <1>0, <1>2
<1>4. Boundary(1)
  BY TextType
<1>. QED
  BY <1>3, <1>4 DEF Tokens

--------------------------------------------------------------------------------

(* A text that is accepted, which is run only once and with nothing completed,  *)
(* can be used: it has a value whatever is completed, is false at first and     *)
(* true at the end, and no completion makes it false.                           *)
THEOREM AcceptedIsUsable ==
    ASSUME NEW S, NEW text \in Seq(S), NEW nos, ValidateTaskExpression(text, nos)
    PROVE  Usable(text, nos)
<1>. DEFINE tokens == Tokens(text)
            s == Span("or", 1, Len(tokens))
            value(completed) == Values(tokens, completed)[s]
<1>1. /\ CharsOf(text) \subseteq DSLChars /\ NumbersOf(text) \subseteq nos
      /\ WellFormed(text, nos) /\ value({}) # {}
  BY DEF ValidateTaskExpression, WellFormed, CompileAndRun, Value
<1>2. tokens \in Seq(TokenSet(text))
  BY <1>1, TokensTyped
<1>3. /\ Len(tokens) \in Nat
      /\ \A n \in 1..Len(tokens) : tokens[n].kind = "no" => tokens[n].no \in nos
  <2>. HIDE DEF tokens
  <2>1. Len(tokens) \in Nat /\ \A n \in 1..Len(tokens) : tokens[n] \in TokenSet(text)
    BY <1>2
  <2>. QED
    BY <1>1, <2>1, TokenKinds
<1>4. \A completed : EvaluateTaskExpression(text, nos, completed) = value(completed)
  BY <1>1 DEF EvaluateTaskExpression, CompileAndRun, Value
<1>. HIDE DEF tokens
<1>5. s \in Spans(tokens)
  BY <1>3 DEF Span, Spans, Levels
<1>6. ASSUME NEW C, NEW D, NEW v \in value(D)
      PROVE  v \in BOOLEAN /\ \E w \in value(C) : w \in BOOLEAN /\ (C \subseteq D /\ w => v)
  <2>. HIDE DEF s
  <2>1. Follows(tokens, C, D, s)
    BY <1>3, <1>5, ValuesFollow
  <2>. QED
    BY <1>6, <2>1 DEF Follows
<1>7. value({}) \subseteq {FALSE}
  <2>1. \A n \in 1..Len(tokens) : tokens[n].kind = "no" => (tokens[n].no \in {}) = FALSE
    OBVIOUS
  <2>. QED
    BY <1>3, <1>5, <2>1, ValuesAgree
<1>8. value(nos) \subseteq {TRUE}
  <2>1. \A n \in 1..Len(tokens) : tokens[n].kind = "no" => (tokens[n].no \in nos) = TRUE
    BY <1>3
  <2>. QED
    BY <1>3, <1>5, <2>1, ValuesAgree
<1>. HIDE DEF value, s
<1>9. \A completed : value(completed) # {}
  BY <1>1, <1>6
<1>10. ASSUME NEW completed, NEW no, value(completed) = {TRUE}
       PROVE  value(completed \cup {no}) = {TRUE}
  <2>1. ASSUME NEW v \in value(completed \cup {no})
        PROVE  v = TRUE
    <3>1. PICK w \in value(completed) :
              /\ v \in BOOLEAN /\ w \in BOOLEAN
              /\ completed \subseteq completed \cup {no} /\ w => v
      BY <1>6
    <3>2. w = TRUE
      BY <1>10
    <3>. QED
      BY <3>1, <3>2
  <2>. QED
    BY <1>9, <2>1
<1>11. value({}) = {FALSE} /\ value(nos) = {TRUE}
  BY <1>7, <1>8, <1>9
<1>12. \A completed \in SUBSET nos : EvaluateTaskExpression(text, nos, completed) # {}
  BY <1>4, <1>9
<1>13. /\ EvaluateTaskExpression(text, nos, {}) = {FALSE}
       /\ EvaluateTaskExpression(text, nos, nos) = {TRUE}
  BY <1>4, <1>11
<1>14. \A completed \in SUBSET nos : \A no \in nos :
           EvaluateTaskExpression(text, nos, completed) = {TRUE} =>
               EvaluateTaskExpression(text, nos, completed \cup {no}) = {TRUE}
  BY <1>4, <1>10
<1>. QED
  BY <1>12, <1>13, <1>14 DEF Usable

================================================================================
