----------------------------- MODULE TextProofs -----------------------------
(***************************************************************************)
(* Proofs about the parsers and the options, for every input and every     *)
(* limit (MCText states the properties, its bounds are constants that no   *)
(* proof reads): the words of a command are those of the reference, which  *)
(* looks at the whole command where the code scans it; the two pipeline    *)
(* parsers keep the limits; the four parsers agree on a line without       *)
(* quotes; dsh runs what its options ask for.                              *)
(*                                                                         *)
(* What a recursive function computes is reached through a lemma that      *)
(* unfolds it (JoinedUnfolds, OpenReads, OptionsCollected), induction      *)
(* through a least member of the set of exceptions (UpInduction, and       *)
(* DownInduction of ParserProofs).                                         *)
(***************************************************************************)
EXTENDS MCText, ParserProofs

-----------------------------------------------------------------------------
(* Induction and iteration. *)

\* Induction from 0 up to n.
LEMMA UpInduction ==
    ASSUME NEW n \in Nat, NEW G, 0 \in G,
           \A i \in 1 .. n : i - 1 \in G => i \in G
    PROVE  0 .. n \subseteq G
<1> DEFINE S == {k \in 0 .. n : k \notin G}
<1>1. SUFFICES ASSUME S # {} PROVE FALSE
  OBVIOUS
<1>2. PICK k \in S : \A m \in S : k <= m
  <2>1. S \subseteq Nat
    OBVIOUS
  <2> HIDE DEF S
  <2> QED BY <1>1, <2>1, LeastMember
<1>3. k \in 1 .. n /\ k - 1 \in 0 .. n
  BY <1>2
<1>4. k - 1 \in G
  <2>1. k - 1 \notin S
    BY <1>2, <1>3
  <2> QED BY <1>3, <2>1
<1> QED BY <1>3, <1>4

\* What n steps make of base, where step says what a step makes of x.
Iterates(n, X, base, step, h) ==
    /\ h \in [0 .. n -> X]
    /\ h[0] = base
    /\ \A i \in 1 .. n : h[i] = step[<<i, h[i - 1]>>]

\* There is such a thing.
LEMMA Iterated ==
    ASSUME NEW n \in Nat, NEW X, NEW base \in X, NEW step,
           \A i \in 1 .. n, x \in X : step[<<i, x>>] \in X
    PROVE  \E h : Iterates(n, X, base, step, h)
<1> DEFINE G == {m \in 0 .. n : \E h : Iterates(m, X, base, step, h)}
<1>1. 0 \in G
  <2> DEFINE h == [i \in 0 .. 0 |-> base]
  <2>1. h \in [0 .. 0 -> X] /\ h[0] = base
    OBVIOUS
  <2> HIDE DEF h
  <2>2. Iterates(0, X, base, step, h)
    BY <2>1 DEF Iterates
  <2> QED BY <2>2
<1>2. ASSUME NEW m \in 1 .. n, m - 1 \in G PROVE m \in G
  <2>1. PICK h : Iterates(m - 1, X, base, step, h)
    <3>1. ASSUME NEW k \in G PROVE \E h : Iterates(k, X, base, step, h)
      BY <3>1
    <3> HIDE DEF G
    <3> QED BY <1>2, <3>1
  <2>2. /\ h \in [0 .. m - 1 -> X] /\ h[0] = base
        /\ \A i \in 1 .. m - 1 : h[i] = step[<<i, h[i - 1]>>]
    BY <2>1 DEF Iterates
  <2> DEFINE g == [i \in 0 .. m |-> IF i = m THEN step[<<m, h[m - 1]>>] ELSE h[i]]
  <2>3. m \in Nat /\ m - 1 \in 0 .. m - 1
    OBVIOUS
  <2>4. h[m - 1] \in X /\ step[<<m, h[m - 1]>>] \in X
    BY <2>2, <2>3
  <2>5. g \in [0 .. m -> X]
    BY <2>2, <2>4
  <2>6. g[m] = step[<<m, h[m - 1]>>] /\ \A i \in 0 .. m - 1 : g[i] = h[i]
    BY <2>3
  <2> HIDE DEF g
  <2>7. g[0] = base /\ g[m - 1] = h[m - 1]
    BY <2>2, <2>3, <2>6
  <2>8. ASSUME NEW i \in 1 .. m PROVE g[i] = step[<<i, g[i - 1]>>]
    <3>1. CASE i = m
      BY <2>6, <2>7, <3>1
    <3>2. CASE i # m
      <4>1. i \in 1 .. m - 1 /\ i - 1 \in 0 .. m - 1 /\ i \in 0 .. m - 1
        BY <3>2
      <4> QED BY <2>2, <2>6, <4>1
    <3> QED BY <3>1, <3>2
  <2>9. Iterates(m, X, base, step, g)
    BY <2>5, <2>7, <2>8 DEF Iterates
  <2> QED BY <2>9
<1>3. 0 .. n \subseteq G
  <2> HIDE DEF G
  <2> QED BY <1>1, <1>2, UpInduction
<1>4. n \in G
  BY <1>3
<1> QED BY <1>4

-----------------------------------------------------------------------------
(* Sequences of sequences. *)

Over(S, a, b, c) == a \in Seq(S) /\ b \in Seq(S) /\ c \in Seq(S)

\* Three sequences can be put together in either order.
LEMMA Regrouped ==
    ASSUME NEW S, NEW a, NEW b, NEW c, Over(S, a, b, c)
    PROVE  (a \o b) \o c = a \o (b \o c)
  BY ConcatAssociative DEF Over

\* What is left of the joined sequences from each of them on.
Rests(s, X, from) ==
    /\ \A i \in 1 .. Len(s) + 1 : from[i] \in Seq(X)
    /\ Joined(s) = from[1]
    /\ from[Len(s) + 1] = <<>>
    /\ \A i \in 1 .. Len(s) : from[i] = s[i] \o from[i + 1]

\* The scan that leaves nothing out.
LEMMA JoinedUnfolds ==
    ASSUME NEW X, NEW s \in Seq(Seq(X))
    PROVE  \E from : Rests(s, X, from)
<1> DEFINE next == [k \in DOMAIN s |-> k + 1]
<1>1. Len(s) \in Nat /\ DOMAIN s = 1 .. Len(s)
  BY LenProperties
<1>2. \A i \in 1 .. Len(s) : next[i] = i + 1
  BY <1>1
<1>3. Joined(s) = Scan(s, next)
  BY DEF Joined
<1> HIDE DEF next
<1>4. Forward(s, next)
  BY <1>1, <1>2 DEF Forward
<1>5. PICK from : Finds(s, next, X, from)
  BY <1>4, ScanUnfolds
<1>6. Rests(s, X, from)
  BY <1>2, <1>3, <1>5 DEF Finds, Rests
<1> QED BY <1>6

\* FlattenSeq puts the members one after the other from the left, Joined from
\* the right.
LEMMA FlattenIsJoined ==
    ASSUME NEW X, NEW s \in Seq(Seq(X))
    PROVE  FlattenSeq(s) = Joined(s)
<1> DEFINE n == Len(s)
<1>1. n \in Nat /\ DOMAIN s = 1 .. n /\ \A i \in 1 .. n : s[i] \in Seq(X)
  BY LenProperties, ElementOfSeq
<1>a. PICK from : Rests(s, X, from)
  BY JoinedUnfolds
<1>2. /\ \A i \in 1 .. n + 1 : from[i] \in Seq(X)
      /\ Joined(s) = from[1]
      /\ from[n + 1] = <<>>
      /\ \A i \in 1 .. n : from[i] = s[i] \o from[i + 1]
  BY <1>a DEF Rests
<1>3. CASE n = 0
  <2>1. s = <<>>
    BY <1>3, EmptySeq
  <2>2. FlattenSeq(s) = s
    BY <1>3 DEF FlattenSeq
  <2> QED BY <1>2, <1>3, <2>1, <2>2
<1>4. CASE n # 0
  <2> DEFINE Step(f, i) == IF i = 1 THEN s[i] ELSE f[i - 1] \o s[i]
             flatten == CHOOSE f : f = [i \in 1 .. n |-> Step(f, i)]
  <2>1. FlattenSeq(s) = flatten[n]
    BY <1>4 DEF FlattenSeq
  <2>2. \E f : f = [i \in 1 .. n |-> Step(f, i)]
    <3> DEFINE step == [p \in (1 .. n) \X Seq(X) |-> p[2] \o s[p[1]]]
    <3>1. \A i \in 1 .. n, x \in Seq(X) : step[<<i, x>>] = x \o s[i] /\ x \o s[i] \in Seq(X)
      BY <1>1, ConcatProperties
    <3>2. <<>> \in Seq(X)
      BY EmptySeq
    <3> HIDE DEF step, n
    <3>3. PICK h : Iterates(n, Seq(X), <<>>, step, h)
      BY <1>1, <3>1, <3>2, Iterated
    <3>4. /\ h[0] = <<>> /\ h \in [0 .. n -> Seq(X)]
          /\ \A i \in 1 .. n : h[i] = h[i - 1] \o s[i]
      <4>1. /\ h[0] = <<>> /\ h \in [0 .. n -> Seq(X)]
            /\ \A i \in 1 .. n : h[i] = step[<<i, h[i - 1]>>]
        BY <3>3 DEF Iterates
      <4>2. \A i \in 1 .. n : h[i - 1] \in Seq(X)
        <5>1. \A i \in 1 .. n : i - 1 \in 0 .. n
          BY <1>1
        <5> QED BY <4>1, <5>1
      <4> QED BY <3>1, <4>1, <4>2
    <3> DEFINE g == [i \in 1 .. n |-> h[i]]
    <3>5. ASSUME NEW i \in 1 .. n PROVE g[i] = Step(g, i)
      <4>1. CASE i = 1
        <5>1. <<>> \o s[1] = s[1]
          BY <1>1, <4>1, ConcatEmptySeq
        <5>2. g[1] = h[1] /\ h[1] = h[0] \o s[1]
          <6>1. 1 \in 1 .. n
            BY <4>1
          <6>2. h[1] = h[1 - 1] \o s[1]
            BY <3>4, <6>1
          <6>3. 1 - 1 = 0
            OBVIOUS
          <6> QED BY <6>1, <6>2, <6>3
        <5> QED BY <3>4, <4>1, <5>1, <5>2
      <4>2. CASE i # 1
        <5>1. i - 1 \in 1 .. n
          BY <1>1, <4>2
        <5>2. g[i - 1] = h[i - 1] /\ g[i] = h[i - 1] \o s[i]
          BY <3>4, <5>1
        <5> QED BY <4>2, <5>2
      <4> QED BY <4>1, <4>2
    <3>6. g = [i \in 1 .. n |-> g[i]]
      OBVIOUS
    <3> HIDE DEF g, Step
    <3>7. g = [i \in 1 .. n |-> Step(g, i)]
      BY <3>5, <3>6
    <3> QED BY <3>7
  <2>3. flatten = [i \in 1 .. n |-> Step(flatten, i)]
    BY <2>2
  <2> HIDE DEF flatten, n
  <2>4. \A i \in 1 .. n : flatten[i] = IF i = 1 THEN s[i] ELSE flatten[i - 1] \o s[i]
    BY <2>3
  <2> DEFINE G == {i \in 0 .. n : i # 0 => /\ flatten[i] \in Seq(X)
                                           /\ flatten[i] \o from[i + 1] = from[1]}
  <2>5. 0 \in G
    BY <1>1
  <2>6. ASSUME NEW i \in 1 .. n, i - 1 \in G PROVE i \in G
    <3>0. i + 1 \in 1 .. n + 1 /\ i \in 1 .. n + 1 /\ i \in 0 .. n
      BY <1>1
    <3>1. CASE i = 1
      BY <1>1, <1>2, <2>4, <3>0, <3>1
    <3>2. CASE i # 1
      <4>1. /\ flatten[i - 1] \in Seq(X) /\ s[i] \in Seq(X) /\ from[i + 1] \in Seq(X)
            /\ flatten[i - 1] \o from[i] = from[1]
        <5>1. i - 1 # 0 /\ (i - 1) + 1 = i
          BY <3>2
        <5>2. flatten[i - 1] \in Seq(X) /\ flatten[i - 1] \o from[(i - 1) + 1] = from[1]
          BY <2>6, <5>1
        <5> QED BY <1>1, <1>2, <3>0, <5>1, <5>2
      <4>2. flatten[i] = flatten[i - 1] \o s[i] /\ from[i] = s[i] \o from[i + 1]
        BY <1>2, <2>4, <3>2
      <4>3. (flatten[i - 1] \o s[i]) \o from[i + 1] = flatten[i - 1] \o (s[i] \o from[i + 1])
        <5> DEFINE a == flatten[i - 1]
                   b == s[i]
                   c == from[i + 1]
        <5>1. Over(X, a, b, c)
          BY <4>1 DEF Over
        <5> HIDE DEF a, b, c
        <5>2. (a \o b) \o c = a \o (b \o c)
          BY <5>1, Regrouped
        <5> QED BY <5>2 DEF a, b, c
      <4>4. flatten[i - 1] \o s[i] \in Seq(X)
        BY <4>1, ConcatProperties
      <4>5. flatten[i] \in Seq(X) /\ flatten[i] \o from[i + 1] = from[1]
        BY <4>1, <4>2, <4>3, <4>4
      <4> QED BY <3>0, <4>5
    <3> QED BY <3>1, <3>2
  <2>7. 0 .. n \subseteq G
    <3> HIDE DEF G
    <3> QED BY <1>1, <2>5, <2>6, UpInduction
  <2>8. n \in 0 .. n
    BY <1>1
  <2>9. flatten[n] \in Seq(X) /\ flatten[n] \o from[n + 1] = from[1]
    BY <1>4, <2>7, <2>8
  <2>10. flatten[n] \o <<>> = flatten[n]
    BY <2>9, ConcatEmptySeq
  <2> QED BY <1>2, <2>1, <2>9, <2>10
<1> QED BY <1>3, <1>4

-----------------------------------------------------------------------------
(* The words of a command. *)

\* The automaton that reads a command from the left.
LEMMA OpenReads ==
    ASSUME NEW C, NEW seg \in Seq(C)
    PROVE  /\ Open(seg)[0] = "none"
           /\ \A i \in 1 .. Len(seg) :
                 Open(seg)[i] = IF Open(seg)[i - 1] = "none"
                                THEN IF seg[i] \in Quotes THEN seg[i] ELSE "none"
                                ELSE IF seg[i] = Open(seg)[i - 1] THEN "none"
                                ELSE Open(seg)[i - 1]
<1> DEFINE n == Len(seg)
           Next1(x, c) == IF x = "none" THEN IF c \in Quotes THEN c ELSE "none"
                          ELSE IF c = x THEN "none" ELSE x
           Step(f, i) == IF i = 0 THEN "none" ELSE Next1(f[i - 1], seg[i])
           open == CHOOSE f : f = [i \in 0 .. n |-> Step(f, i)]
           X == {"none"} \cup Quotes
           step == [p \in (1 .. n) \X X |-> Next1(p[2], seg[p[1]])]
<1>1. n \in Nat
  BY LenProperties
<1>2. \A i \in 1 .. n, x \in X : step[<<i, x>>] = Next1(x, seg[i]) /\ Next1(x, seg[i]) \in X
  OBVIOUS
<1>3. Open(seg) = open
  BY DEF Open
<1> HIDE DEF n, step, Next1
<1>4. \E f : f = [i \in 0 .. n |-> Step(f, i)]
  <2>1. "none" \in X
    OBVIOUS
  <2> HIDE DEF X
  <2>2. PICK h : Iterates(n, X, "none", step, h)
    BY <1>1, <1>2, <2>1, Iterated
  <2>3. /\ h \in [0 .. n -> X] /\ h[0] = "none"
        /\ \A i \in 1 .. n : h[i] = step[<<i, h[i - 1]>>]
    BY <2>2 DEF Iterates
  <2>4. ASSUME NEW i \in 0 .. n PROVE h[i] = Step(h, i)
    <3>1. CASE i = 0
      BY <2>3, <3>1
    <3>2. CASE i # 0
      <4>1. i \in 1 .. n /\ i - 1 \in 0 .. n
        BY <1>1, <3>2
      <4>2. h[i - 1] \in X
        BY <2>3, <4>1
      <4> QED BY <1>2, <2>3, <3>2, <4>1, <4>2
    <3> QED BY <3>1, <3>2
  <2>5. h = [i \in 0 .. n |-> h[i]]
    BY <2>3
  <2> HIDE DEF Step
  <2>6. h = [i \in 0 .. n |-> Step(h, i)]
    BY <2>4, <2>5
  <2> QED BY <2>6
<1>5. open = [i \in 0 .. n |-> Step(open, i)]
  BY <1>4
<1> HIDE DEF open
<1>6. open[0] = "none"
  BY <1>1, <1>5
<1>7. \A i \in 1 .. n : open[i] = Next1(open[i - 1], seg[i])
  BY <1>1, <1>5
<1> QED BY <1>3, <1>6, <1>7 DEF Next1, n

\* A quote opens at cell i and the next one of its kind is at cell e, or there is
\* none: the automaton is inside from i up to the cell before e.
LEMMA QuoteStretch ==
    ASSUME NEW C, NEW seg \in Seq(C), NEW i \in 1 .. Len(seg),
           seg[i] \in Quotes, Open(seg)[i - 1] = "none",
           NEW e \in i + 1 .. Len(seg) + 1,
           \A k \in i + 1 .. e - 1 : seg[k] # seg[i]
    PROVE  \A k \in i .. e - 1 : Open(seg)[k] = seg[i]
<1> DEFINE n == Len(seg)
           m == e - 1 - i
           G == {k \in 0 .. m : Open(seg)[i + k] = seg[i]}
<1>1. n \in Nat /\ i \in Nat /\ e \in Nat /\ m \in Nat
  BY LenProperties
<1>2. seg[i] # "none"
  BY DEF Quotes
<1>3. 0 \in G
  <2>1. Open(seg)[i] = seg[i]
    BY OpenReads
  <2>2. i + 0 = i
    BY <1>1
  <2> QED BY <1>1, <2>1, <2>2
<1>4. ASSUME NEW k \in 1 .. m, k - 1 \in G PROVE k \in G
  <2>1. i + k \in 1 .. n /\ i + k \in i + 1 .. e - 1 /\ i + (k - 1) = (i + k) - 1
    BY <1>1
  <2>2. Open(seg)[(i + k) - 1] = seg[i] /\ seg[i + k] # seg[i]
    BY <1>4, <2>1
  <2>3. Open(seg)[i + k] = seg[i]
    BY <1>2, <2>1, <2>2, OpenReads
  <2> QED BY <1>1, <2>3
<1>5. 0 .. m \subseteq G
  <2> HIDE DEF G, m
  <2> QED BY <1>1, <1>3, <1>4, UpInduction
<1>6. ASSUME NEW k \in i .. e - 1 PROVE Open(seg)[k] = seg[i]
  <2>1. k - i \in 0 .. m /\ i + (k - i) = k
    BY <1>1
  <2> QED BY <1>5, <2>1
<1> QED BY <1>6

\* No quote opens from cell i up to the cell before e: the automaton stays outside.
LEMMA PlainStretch ==
    ASSUME NEW C, NEW seg \in Seq(C), NEW i \in 1 .. Len(seg),
           Open(seg)[i - 1] = "none", NEW e \in i .. Len(seg) + 1,
           \A k \in i .. e - 1 : seg[k] \notin Quotes
    PROVE  \A k \in i - 1 .. e - 1 : Open(seg)[k] = "none"
<1> DEFINE n == Len(seg)
           m == e - i
           j == i - 1
           G == {k \in 0 .. m : Open(seg)[j + k] = "none"}
<1>1. n \in Nat /\ i \in Nat /\ e \in Nat /\ m \in Nat /\ j \in Nat
  BY LenProperties
<1>2. 0 \in G
  <2>1. j + 0 = i - 1
    BY <1>1
  <2> QED BY <1>1, <2>1
<1>3. ASSUME NEW k \in 1 .. m, k - 1 \in G PROVE k \in G
  <2>1. j + k \in 1 .. n /\ j + k \in i .. e - 1 /\ j + (k - 1) = (j + k) - 1
    BY <1>1
  <2>2. Open(seg)[(j + k) - 1] = "none" /\ seg[j + k] \notin Quotes
    BY <1>3, <2>1
  <2>3. Open(seg)[j + k] = "none"
    BY <2>1, <2>2, OpenReads
  <2> QED BY <1>1, <2>3
<1>4. 0 .. m \subseteq G
  <2> HIDE DEF G, m
  <2> QED BY <1>1, <1>2, <1>3, UpInduction
<1>5. ASSUME NEW k \in i - 1 .. e - 1 PROVE Open(seg)[k] = "none"
  <2>1. k - j \in 0 .. m /\ j + (k - j) = k
    BY <1>1
  <2> QED BY <1>4, <2>1
<1> QED BY <1>5

\* What the reference makes of cell i, and of all the cells when some words
\* are lost.
MarkAt(seg, i) == IF SpanEnds(seg, i) = {} THEN <<>>
                  ELSE <<Span(seg, i, CHOOSE j \in SpanEnds(seg, i) : TRUE)>>
Marks(seg, lost) ==
    [i \in DOMAIN seg |-> IF i \in lost THEN <<>> ELSE MarkAt(seg, i)]

\* Cell i lies outside quotes and is not the middle of a plain stretch.
Outside(seg, i) ==
    Open(seg)[i - 1] = "none" /\ ~(Plain(seg, i - 1) /\ Plain(seg, i))

\* The reference finds no word at a cell that is read inside quotes.
LEMMA InsideUnmarked ==
    ASSUME NEW C, NEW seg \in Seq(C), NEW i \in 1 .. Len(seg),
           Open(seg)[i - 1] # "none"
    PROVE  MarkAt(seg, i) = <<>>
<1>1. ~Plain(seg, i) /\ ~Opens(seg, i)
  BY DEF Plain, Opens
<1>2. ASSUME NEW j \in SpanEnds(seg, i) PROVE FALSE
  BY <1>1, <1>2, LenProperties DEF SpanEnds
<1>3. SpanEnds(seg, i) = {}
  BY <1>2
<1> QED BY <1>3 DEF MarkAt

\* Nor in the middle of a plain stretch, nor at a space outside quotes.
LEMMA MiddleUnmarked ==
    ASSUME NEW C, NEW seg \in Seq(C), NEW i \in 1 .. Len(seg),
           Open(seg)[i] = "none", Plain(seg, i - 1) \/ ~Plain(seg, i)
    PROVE  MarkAt(seg, i) = <<>>
<1>1. ~Opens(seg, i)
  BY DEF Opens
<1>2. ASSUME NEW j \in SpanEnds(seg, i) PROVE FALSE
  <2>1. j \in Nat /\ i \in Nat
    BY LenProperties DEF SpanEnds
  <2>2. ~Plain(seg, i - 1) /\ i <= j /\ \A k \in i .. j : Plain(seg, k)
    BY <1>1, <1>2 DEF SpanEnds
  <2>3. Plain(seg, i)
    BY <2>1, <2>2
  <2> QED BY <2>2, <2>3
<1>3. SpanEnds(seg, i) = {}
  BY <1>2
<1> QED BY <1>3 DEF MarkAt

\* A space outside quotes.
LEMMA SpaceRead ==
    ASSUME NEW C, NEW seg \in Seq(C), NEW i \in 1 .. Len(seg),
           Outside(seg, i), seg[i] = Space
    PROVE  /\ MarkAt(seg, i) = <<>>
           /\ GoesOn(seg, i) = i + 1
           /\ i + 1 <= Len(seg) => Outside(seg, i + 1)
<1>1. Open(seg)[i - 1] = "none" /\ seg[i] \notin Quotes
  BY DEF Outside, Space, Quotes
<1>2. Open(seg)[i] = "none"
  BY <1>1, OpenReads
<1>3. ~Plain(seg, i)
  BY DEF Plain
<1>4. MarkAt(seg, i) = <<>>
  BY <1>2, <1>3, MiddleUnmarked
<1>5. GoesOn(seg, i) = i + 1
  <2>1. ~Quoted(seg, i) /\ ~Unclosed(seg, i)
    BY <1>1 DEF Quoted, Unclosed
  <2> QED BY <2>1 DEF GoesOn
<1>6. (i + 1) - 1 = i
  OBVIOUS
<1>7. Outside(seg, i + 1)
  BY <1>2, <1>3, <1>6 DEF Outside
<1> QED BY <1>4, <1>5, <1>7

\* A quote that is never closed.
LEMMA UnclosedRead ==
    ASSUME NEW C, NEW seg \in Seq(C), NEW i \in 1 .. Len(seg),
           Outside(seg, i), Unclosed(seg, i)
    PROVE  /\ \A k \in i .. Len(seg) : MarkAt(seg, k) = <<>>
           /\ GoesOn(seg, i) = Len(seg) + 1
<1> DEFINE n == Len(seg)
<1>1. n \in Nat /\ i \in Nat /\ i <= n
  BY LenProperties
<1>2. /\ Open(seg)[i - 1] = "none" /\ seg[i] \in Quotes
      /\ \A k \in i + 1 .. n : seg[k] # seg[i]
  BY TokenPlace DEF Outside
<1>3. \A k \in i .. n : Open(seg)[k] = seg[i]
  <2>1. n + 1 \in i + 1 .. n + 1 /\ (n + 1) - 1 = n
    BY <1>1
  <2>2. \A k \in i + 1 .. (n + 1) - 1 : seg[k] # seg[i]
    BY <1>2, <2>1
  <2>3. \A k \in i .. (n + 1) - 1 : Open(seg)[k] = seg[i]
    BY <1>2, <2>1, <2>2, QuoteStretch
  <2> QED BY <2>1, <2>3
<1>4. seg[i] # "none" /\ seg[i] # Space
  BY <1>2 DEF Quotes, Space
<1>5. ASSUME NEW k \in i .. n PROVE MarkAt(seg, k) = <<>>
  <2>1. CASE k = i
    <3>1. ASSUME NEW j \in SpanEnds(seg, i) PROVE FALSE
      <4>1. j \in 1 .. n
        BY <1>1, LenProperties DEF SpanEnds
      <4>2. CASE i <= j /\ \A m \in i .. j : Plain(seg, m)
        <5>1. Plain(seg, i)
          BY <1>1, <4>1, <4>2
        <5>2. Open(seg)[i] = seg[i]
          BY <1>1, <1>3
        <5> QED BY <1>4, <5>1, <5>2 DEF Plain
      <4>3. CASE Closes(seg, j) /\ i < j
        <5>1. Open(seg)[j] = seg[i]
          BY <1>1, <1>3, <4>1, <4>3
        <5> QED BY <1>4, <4>3, <5>1 DEF Closes
      <4> QED BY <3>1, <4>2, <4>3 DEF SpanEnds
    <3>2. SpanEnds(seg, i) = {}
      BY <3>1
    <3> QED BY <2>1, <3>2 DEF MarkAt
  <2>2. CASE k # i
    <3>1. k - 1 \in i .. n /\ k \in 1 .. n
      BY <1>1, <2>2
    <3>2. Open(seg)[k - 1] # "none"
      BY <1>3, <1>4, <3>1
    <3> QED BY <3>1, <3>2, InsideUnmarked
  <2> QED BY <2>1, <2>2
<1>6. GoesOn(seg, i) = n + 1
  BY <1>4 DEF GoesOn
<1> QED BY <1>5, <1>6

\* A quote and the next one of its kind.
LEMMA QuotedRead ==
    ASSUME NEW C, NEW seg \in Seq(C), NEW i \in 1 .. Len(seg),
           Outside(seg, i), Quoted(seg, i), ~Unclosed(seg, i)
    PROVE  /\ MarkAt(seg, i) = <<TokenAt(seg, i).word>>
           /\ \A k \in i + 1 .. GoesOn(seg, i) - 1 : MarkAt(seg, k) = <<>>
           /\ GoesOn(seg, i) <= Len(seg) => Outside(seg, GoesOn(seg, i))
<1> DEFINE n == Len(seg)
           e == WordEnd(seg, i)
<1>1. n \in Nat /\ i \in Nat /\ i <= n /\ i + 1 \in 1 .. n + 1
  BY LenProperties
<1>2. Open(seg)[i - 1] = "none" /\ seg[i] \in Quotes
  BY DEF Outside, Quoted
<1>3. seg[i] # "none" /\ seg[i] # Space
  BY <1>2 DEF Quotes, Space
<1>4. e = First(seg, i + 1, {seg[i]})
  BY DEF WordEnd
<1>5. /\ e \in i + 1 .. n + 1
      /\ \A k \in i + 1 .. e - 1 : seg[k] \notin {seg[i]}
      /\ e <= n => seg[e] \in {seg[i]}
  <2> HIDE DEF n, e
  <2> QED BY <1>1, <1>4, FirstStop DEF n
<1>6. e \in i + 1 .. n /\ seg[e] = seg[i] /\ e \in 1 .. n
  BY <1>1, <1>5 DEF Unclosed
<1>7. GoesOn(seg, i) = e + 1
  BY <1>3 DEF GoesOn
<1> HIDE DEF e
<1>8. \A k \in i .. e - 1 : Open(seg)[k] = seg[i]
  <2>1. \A k \in i + 1 .. e - 1 : seg[k] # seg[i]
    BY <1>5
  <2> QED BY <1>2, <1>5, <2>1, QuoteStretch
<1>9. e - 1 \in i .. e - 1 /\ i \in i .. e - 1
  BY <1>1, <1>6
<1>10. Open(seg)[i] = seg[i] /\ Open(seg)[e - 1] = seg[i]
  BY <1>8, <1>9
<1>11. Open(seg)[e] = "none"
  BY <1>3, <1>6, <1>10, OpenReads
<1>12. Opens(seg, i) /\ Closes(seg, e)
  BY <1>2, <1>3, <1>10, <1>11 DEF Opens, Closes
<1>13. \A k \in i + 1 .. e - 1 : ~Closes(seg, k)
  <2>1. ASSUME NEW k \in i + 1 .. e - 1 PROVE Open(seg)[k] # "none"
    <3>1. k \in i .. e - 1
      BY <1>1, <1>6
    <3> QED BY <1>3, <1>8, <3>1
  <2> QED BY <2>1 DEF Closes
<1>14. SpanEnds(seg, i) = {e}
  <2>1. DOMAIN seg = 1 .. n
    BY LenProperties
  <2>2. e \in SpanEnds(seg, i)
    BY <1>1, <1>6, <1>12, <1>13, <2>1 DEF SpanEnds
  <2>3. ASSUME NEW j \in SpanEnds(seg, i) PROVE j = e
    <3>1. j \in 1 .. n
      BY <2>1 DEF SpanEnds
    <3>2. ~Plain(seg, i)
      BY <1>3, <1>10 DEF Plain
    <3>3. ~(i <= j /\ \A k \in i .. j : Plain(seg, k))
      BY <1>1, <3>1, <3>2
    <3>4. Closes(seg, j) /\ i < j /\ \A k \in i + 1 .. j - 1 : ~Closes(seg, k)
      BY <2>3, <3>3 DEF SpanEnds
    <3>5. ~(j < e)
      BY <1>1, <1>6, <1>13, <3>1, <3>4
    <3>6. ~(e < j)
      BY <1>1, <1>6, <1>12, <3>1, <3>4
    <3> QED BY <1>6, <3>1, <3>5, <3>6
  <2> QED BY <2>2, <2>3
<1>15. MarkAt(seg, i) = <<SubSeq(seg, i + 1, e - 1)>>
  <2>1. (CHOOSE j \in SpanEnds(seg, i) : TRUE) = e
    BY <1>14
  <2>2. Span(seg, i, e) = SubSeq(seg, i + 1, e - 1)
    BY <1>2 DEF Span
  <2>3. SpanEnds(seg, i) # {}
    BY <1>14
  <2> QED BY <2>1, <2>2, <2>3 DEF MarkAt
<1>16. TokenAt(seg, i).word = SubSeq(seg, i + 1, e - 1)
  BY DEF TokenAt, e
<1>17. ASSUME NEW k \in i + 1 .. e PROVE MarkAt(seg, k) = <<>>
  <2>1. k - 1 \in i .. e - 1 /\ k \in 1 .. n
    BY <1>1, <1>6
  <2>2. Open(seg)[k - 1] # "none"
    BY <1>3, <1>8, <2>1
  <2> QED BY <2>1, <2>2, InsideUnmarked
<1>18. (e + 1) - 1 = e
  BY <1>6
<1>19. Outside(seg, e + 1)
  <2>1. ~Plain(seg, e)
    BY <1>3, <1>10 DEF Plain
  <2> QED BY <1>11, <1>18, <2>1 DEF Outside
<1> QED BY <1>7, <1>15, <1>16, <1>17, <1>18, <1>19

\* A stretch of plain cells.
LEMMA PlainRead ==
    ASSUME NEW C, NEW seg \in Seq(C), NEW i \in 1 .. Len(seg),
           Outside(seg, i), ~Quoted(seg, i), seg[i] # Space
    PROVE  /\ MarkAt(seg, i) = <<TokenAt(seg, i).word>>
           /\ \A k \in i + 1 .. GoesOn(seg, i) - 1 : MarkAt(seg, k) = <<>>
           /\ GoesOn(seg, i) <= Len(seg) => Outside(seg, GoesOn(seg, i))
<1> DEFINE n == Len(seg)
           e == WordEnd(seg, i)
<1>1. n \in Nat /\ i \in Nat /\ i <= n /\ i \in 1 .. n + 1 /\ DOMAIN seg = 1 .. n
  BY LenProperties
<1>2. Open(seg)[i - 1] = "none" /\ seg[i] \notin Quotes
  BY DEF Outside, Quoted
<1>3. e = First(seg, i, {Space} \cup Quotes)
  BY DEF WordEnd
<1>4. /\ e \in i .. n + 1
      /\ \A k \in i .. e - 1 : seg[k] \notin {Space} \cup Quotes
      /\ e <= n => seg[e] \in {Space} \cup Quotes
  <2> HIDE DEF n, e
  <2> QED BY <1>1, <1>3, FirstStop DEF n
<1>5. GoesOn(seg, i) = e
  BY DEF GoesOn, Unclosed
<1> HIDE DEF e
<1>6. e # i
  BY <1>1, <1>2, <1>4
<1>7. \A k \in i - 1 .. e - 1 : Open(seg)[k] = "none"
  <2>1. \A k \in i .. e - 1 : seg[k] \notin Quotes
    BY <1>4
  <2> QED BY <1>2, <1>4, <2>1, PlainStretch
<1>8. ASSUME NEW k \in i .. e - 1 PROVE Plain(seg, k)
  <2>1. k \in 1 .. n /\ k \in i - 1 .. e - 1 /\ k - 1 \in i - 1 .. e - 1
    BY <1>1, <1>4
  <2>2. Open(seg)[k] = "none" /\ Open(seg)[k - 1] = "none" /\ seg[k] # Space
    BY <1>4, <1>7, <2>1
  <2> QED BY <1>1, <2>1, <2>2 DEF Plain
<1>9. e - 1 \in i .. e - 1 /\ e - 1 \in i - 1 .. e - 1 /\ i \in i .. e - 1 /\ (e - 1) + 1 = e
  BY <1>1, <1>4, <1>6
<1>10. ~Plain(seg, e)
  <2>1. CASE e = n + 1
    BY <1>1, <2>1 DEF Plain
  <2>2. CASE e # n + 1 /\ seg[e] = Space
    BY <2>2 DEF Plain
  <2>3. CASE e # n + 1 /\ seg[e] \in Quotes
    <3>1. e \in 1 .. n /\ Open(seg)[e - 1] = "none"
      BY <1>1, <1>4, <1>7, <1>9, <2>3
    <3>2. Open(seg)[e] = seg[e]
      BY <2>3, <3>1, OpenReads
    <3>3. seg[e] # "none"
      BY <2>3 DEF Quotes
    <3> QED BY <3>2, <3>3 DEF Plain
  <2> QED BY <1>1, <1>4, <2>1, <2>2, <2>3
<1>11. ~Plain(seg, i - 1)
  BY <1>8, <1>9 DEF Outside
<1>12. SpanEnds(seg, i) = {e - 1}
  <2>1. e - 1 \in 1 .. n /\ i <= e - 1
    BY <1>1, <1>4, <1>6
  <2>2. e - 1 \in SpanEnds(seg, i)
    BY <1>1, <1>8, <1>9, <1>10, <1>11, <2>1 DEF SpanEnds
  <2>3. ASSUME NEW j \in SpanEnds(seg, i) PROVE j = e - 1
    <3>1. j \in 1 .. n
      BY <1>1 DEF SpanEnds
    <3>2. ~Opens(seg, i)
      <4>1. Plain(seg, i)
        BY <1>8, <1>9
      <4> QED BY <4>1 DEF Plain, Opens
    <3>3. ~Plain(seg, j + 1) /\ i <= j /\ \A k \in i .. j : Plain(seg, k)
      BY <2>3, <3>2 DEF SpanEnds
    <3>4. ~(j + 1 < e)
      <4>1. ASSUME j + 1 < e PROVE FALSE
        <5>1. j + 1 \in i .. e - 1
          BY <1>1, <1>4, <3>1, <3>3, <4>1
        <5> QED BY <1>8, <3>3, <5>1
      <4> QED BY <4>1
    <3>5. ~(e <= j)
      <4>1. ASSUME e <= j PROVE FALSE
        <5>1. e \in i .. j
          BY <1>4, <3>1, <4>1
        <5> QED BY <1>10, <3>3, <5>1
      <4> QED BY <4>1
    <3> QED BY <1>1, <1>4, <3>1, <3>4, <3>5
  <2> QED BY <2>2, <2>3
<1>13. MarkAt(seg, i) = <<SubSeq(seg, i, e - 1)>>
  <2>1. (CHOOSE j \in SpanEnds(seg, i) : TRUE) = e - 1
    BY <1>12
  <2>2. Span(seg, i, e - 1) = SubSeq(seg, i, e - 1)
    BY <1>2 DEF Span
  <2>3. SpanEnds(seg, i) # {}
    BY <1>12
  <2> QED BY <2>1, <2>2, <2>3 DEF MarkAt
<1>14. TokenAt(seg, i).word = SubSeq(seg, i, e - 1)
  BY DEF TokenAt, e
<1>15. ASSUME NEW k \in i + 1 .. e - 1 PROVE MarkAt(seg, k) = <<>>
  <2>1. k - 1 \in i .. e - 1 /\ k \in 1 .. n /\ k \in i - 1 .. e - 1
    BY <1>1, <1>4
  <2>2. Plain(seg, k - 1) /\ Open(seg)[k] = "none"
    BY <1>7, <1>8, <2>1
  <2> QED BY <2>1, <2>2, MiddleUnmarked
<1>16. Outside(seg, e)
  BY <1>7, <1>9, <1>10 DEF Outside
<1> QED BY <1>5, <1>13, <1>14, <1>15, <1>16

\* The cells at which the scan goes on cut a command into the stretches the
\* reference sees: one word, or none, begins at the first cell of each and
\* nowhere else.
LEMMA StretchRead ==
    ASSUME NEW C, NEW seg \in Seq(C), NEW i \in 1 .. Len(seg), Outside(seg, i)
    PROVE  /\ MarkAt(seg, i) = IF seg[i] = Space \/ Unclosed(seg, i) THEN <<>>
                               ELSE <<TokenAt(seg, i).word>>
           /\ \A k \in i + 1 .. GoesOn(seg, i) - 1 : MarkAt(seg, k) = <<>>
           /\ GoesOn(seg, i) <= Len(seg) => Outside(seg, GoesOn(seg, i))
<1>1. Len(seg) \in Nat
  BY LenProperties
<1>2. CASE seg[i] = Space
  <2>1. /\ MarkAt(seg, i) = <<>> /\ GoesOn(seg, i) = i + 1
        /\ i + 1 <= Len(seg) => Outside(seg, i + 1)
    BY <1>2, SpaceRead
  <2>2. i + 1 .. (i + 1) - 1 = {}
    BY <1>1
  <2> QED BY <1>2, <2>1, <2>2
<1>3. CASE Unclosed(seg, i)
  <2>1. /\ \A k \in i .. Len(seg) : MarkAt(seg, k) = <<>>
        /\ GoesOn(seg, i) = Len(seg) + 1
    BY <1>3, UnclosedRead
  <2>2. /\ i \in i .. Len(seg) /\ ~(Len(seg) + 1 <= Len(seg))
        /\ i + 1 .. (Len(seg) + 1) - 1 \subseteq i .. Len(seg)
    BY <1>1
  <2> QED BY <1>3, <2>1, <2>2
<1>4. CASE seg[i] # Space /\ ~Unclosed(seg, i) /\ Quoted(seg, i)
  BY <1>4, QuotedRead
<1>5. CASE seg[i] # Space /\ ~Unclosed(seg, i) /\ ~Quoted(seg, i)
  BY <1>5, PlainRead
<1> QED BY <1>2, <1>3, <1>4, <1>5

\* What the marks of a command are, and that joining them skips the empty ones.
LEMMA MarksTyped ==
    ASSUME NEW C, NEW seg \in Seq(C), NEW lost
    PROVE  Marks(seg, lost) \in Seq(Seq(Seq(C))) /\ Len(Marks(seg, lost)) = Len(seg)
<1> DEFINE n == Len(seg)
<1>1. n \in Nat /\ DOMAIN seg = 1 .. n
  BY LenProperties
<1>2. ASSUME NEW i \in 1 .. n PROVE MarkAt(seg, i) \in Seq(Seq(C))
  <2>1. CASE SpanEnds(seg, i) = {}
    <3>1. MarkAt(seg, i) = <<>>
      BY <2>1 DEF MarkAt
    <3> QED BY <3>1, EmptySeq
  <2>2. CASE SpanEnds(seg, i) # {}
    <3> DEFINE j == CHOOSE j \in SpanEnds(seg, i) : TRUE
    <3>1. j \in SpanEnds(seg, i)
      BY <2>2
    <3>2. j \in 1 .. n
      <4> HIDE DEF j
      <4> QED BY <1>1, <3>1 DEF SpanEnds
    <3>3. MarkAt(seg, i) = <<Span(seg, i, j)>>
      BY <2>2 DEF MarkAt
    <3> HIDE DEF j
    <3>4. \A a \in {i, i + 1}, b \in {j, j - 1} : SubSeq(seg, a, b) \in Seq(C)
      <4>1. ASSUME NEW a \in {i, i + 1}, NEW b \in {j, j - 1} PROVE SubSeq(seg, a, b) \in Seq(C)
        <5>1. a \in Int /\ b \in Int /\ \A k \in a .. b : k \in 1 .. n
          BY <1>1, <3>2
        <5>2. \A k \in a .. b : seg[k] \in C
          BY <5>1, ElementOfSeq
        <5> QED BY <5>1, <5>2, SubSeqProperties
      <4> QED BY <4>1
    <3>5. Span(seg, i, j) \in Seq(C)
      BY <3>4 DEF Span
    <3> QED BY <3>3, <3>5
  <2> QED BY <2>1, <2>2
<1>3. Marks(seg, lost) \in [1 .. n -> Seq(Seq(C))]
  <2>1. <<>> \in Seq(Seq(C))
    OBVIOUS
  <2> QED BY <1>1, <1>2, <2>1 DEF Marks
<1> HIDE DEF n
<1>4. Marks(seg, lost) \in Seq(Seq(Seq(C))) /\ Len(Marks(seg, lost)) = n
  BY <1>1, <1>3, FunctionIsSeq
<1> QED BY <1>4 DEF n

\* Positions a and b of s, and nothing between the two.
EmptyBetween(s, a, b) ==
    /\ a \in 1 .. Len(s) + 1 /\ b \in a .. Len(s) + 1
    /\ \A k \in a .. b - 1 : s[k] = <<>>

\* Empty members leave the rest as it is.
LEMMA EmptySkipped ==
    ASSUME NEW X, NEW s \in Seq(Seq(X)), NEW from, Rests(s, X, from),
           NEW a, NEW b, EmptyBetween(s, a, b)
    PROVE  from[a] = from[b]
<1> USE DEF EmptyBetween
<1> DEFINE n == Len(s)
           m == b - a
           G == {k \in 0 .. m : from[b - k] = from[b]}
<1>1. n \in Nat /\ a \in Nat /\ b \in Nat /\ m \in Nat
  BY LenProperties
<1>2. 0 \in G
  BY <1>1
<1>3. ASSUME NEW k \in 1 .. m, k - 1 \in G PROVE k \in G
  <2>1. /\ b - k \in a .. b - 1 /\ b - k \in 1 .. n /\ (b - k) + 1 = b - (k - 1)
        /\ b - (k - 1) \in 1 .. n + 1
    BY <1>1
  <2>2. /\ from[b - k] = s[b - k] \o from[(b - k) + 1]
        /\ from[b - (k - 1)] \in Seq(X)
    BY <2>1 DEF Rests
  <2>3. <<>> \o from[b - (k - 1)] = from[b - (k - 1)]
    BY <2>2, ConcatEmptySeq
  <2>4. from[b - k] = from[b - (k - 1)]
    BY <2>1, <2>2, <2>3
  <2>5. from[b - (k - 1)] = from[b]
    BY <1>3
  <2> QED BY <2>4, <2>5
<1>4. 0 .. m \subseteq G
  <2> HIDE DEF G, m
  <2> QED BY <1>1, <1>2, <1>3, UpInduction
<1>5. b - m = a
  BY <1>1
<1>6. from[b - m] = from[b]
  <2> HIDE DEF m
  <2>1. m \in 0 .. m
    BY <1>1
  <2> QED BY <1>4, <2>1
<1> QED BY <1>5, <1>6

\* The word of the first token comes first.
LEMMA WordsInFirst ==
    ASSUME NEW C, NEW x \in [word : Seq(C), next : Nat],
           NEW t \in Seq([word : Seq(C), next : Nat])
    PROVE  WordsIn(<<x>> \o t) = <<x.word>> \o WordsIn(t)
<1> DEFINE X == [word : Seq(C), next : Nat]
           n == Len(t)
           u == <<x>> \o t
           w == WordsIn(t)
           v == <<x.word>> \o w
<1>1. n \in Nat /\ w \in Seq(Seq(C)) /\ Len(w) = n
  BY WordsInTyped, LenProperties
<1>2. <<x>> \in Seq(X) /\ Len(<<x>>) = 1 /\ <<x>>[1] = x
  OBVIOUS
<1>3. <<x.word>> \in Seq(Seq(C)) /\ Len(<<x.word>>) = 1 /\ <<x.word>>[1] = x.word
  OBVIOUS
<1>4. u \in Seq(X) /\ Len(u) = 1 + n
      /\ \A k \in 1 .. 1 + n : u[k] = IF k <= 1 THEN <<x>>[k] ELSE t[k - 1]
  <2>1. t \in Seq(X)
    OBVIOUS
  <2> HIDE DEF X
  <2> QED BY <1>2, <2>1, ConcatProperties
<1>5. v \in Seq(Seq(C)) /\ Len(v) = 1 + n
      /\ \A k \in 1 .. 1 + n : v[k] = IF k <= 1 THEN <<x.word>>[k] ELSE w[k - 1]
  <2> HIDE DEF w
  <2> QED BY <1>1, <1>3, ConcatProperties
<1>6. WordsIn(u) \in Seq(Seq(C)) /\ Len(WordsIn(u)) = 1 + n
  <2> HIDE DEF u
  <2> QED BY <1>4, WordsInTyped
<1>7. DOMAIN u = 1 .. 1 + n /\ DOMAIN t = 1 .. n
  BY <1>4, LenProperties
<1>8. ASSUME NEW k \in 1 .. 1 + n PROVE WordsIn(u)[k] = v[k]
  <2>1. WordsIn(u)[k] = u[k].word
    <3> HIDE DEF u, n
    <3> QED BY <1>7 DEF WordsIn
  <2>2. CASE k = 1
    BY <1>2, <1>3, <1>4, <1>5, <2>1, <2>2
  <2>3. CASE k # 1
    <3>1. k - 1 \in 1 .. n /\ ~(k <= 1)
      BY <1>1, <2>3
    <3>2. u[k] = t[k - 1] /\ v[k] = w[k - 1]
      BY <1>4, <1>5, <3>1
    <3>3. w[k - 1] = t[k - 1].word
      <4> HIDE DEF n
      <4> QED BY <1>7, <3>1 DEF WordsIn
    <3> QED BY <2>1, <3>2, <3>3
  <2> QED BY <2>2, <2>3
<1> HIDE DEF u, v, n
<1>9. WordsIn(u) = v
  BY <1>5, <1>6, <1>8, SeqEqual
<1> QED BY <1>9 DEF u, v

\* The tokens of a command carry the words of the reference, in its order: nothing
\* is merged, split or found twice, and no word is lost but those of lost.
LEMMA WordsAreSpans ==
    ASSUME NEW C, NEW seg \in Seq(C), NEW lost
    PROVE  WordsIn(Tokens(seg, lost)) = RefWords(seg, lost)
<1> DEFINE n == Len(seg)
           X == [word : Seq(C), next : Nat]
           found == [i \in DOMAIN seg |->
                        IF seg[i] = Space \/ Unclosed(seg, i) \/ i \in lost THEN <<>>
                        ELSE <<TokenAt(seg, i)>>]
           next == [i \in DOMAIN seg |-> GoesOn(seg, i)]
<1>1. n \in Nat /\ DOMAIN seg = 1 .. n
  BY LenProperties
<1>2. Tokens(seg, lost) = Scan(found, next)
  BY DEF Tokens
<1>3. ASSUME NEW i \in 1 .. n
      PROVE  /\ next[i] = GoesOn(seg, i) /\ next[i] \in i + 1 .. n + 1
             /\ found[i] = IF seg[i] = Space \/ Unclosed(seg, i) \/ i \in lost THEN <<>>
                           ELSE <<TokenAt(seg, i)>>
             /\ seg[i] # Space /\ ~Unclosed(seg, i) => TokenAt(seg, i) \in X
  BY <1>1, TokenPlace
<1> HIDE DEF next
<1>4. found \in Seq(Seq(X)) /\ Len(found) = n
  <2>1. ASSUME NEW i \in 1 .. n PROVE found[i] \in Seq(X)
    <3>1. CASE seg[i] = Space \/ Unclosed(seg, i) \/ i \in lost
      <4>1. found[i] = <<>>
        BY <1>3, <3>1
      <4> HIDE DEF found, X
      <4> QED BY <4>1, EmptySeq
    <3>2. CASE ~(seg[i] = Space \/ Unclosed(seg, i) \/ i \in lost)
      <4>1. found[i] = <<TokenAt(seg, i)>> /\ TokenAt(seg, i) \in X
        BY <1>3, <3>2
      <4> HIDE DEF found, X
      <4> QED BY <4>1
    <3> QED BY <3>1, <3>2
  <2>2. found \in [1 .. n -> Seq(X)]
    <3>1. found = [i \in 1 .. n |-> found[i]]
      BY <1>1
    <3> HIDE DEF found, X, n
    <3> QED BY <2>1, <3>1
  <2> HIDE DEF found, X, n
  <2> QED BY <1>1, <2>2, FunctionIsSeq
<1> HIDE DEF found
<1>5. Forward(found, next)
  BY <1>3, <1>4 DEF Forward
<1>6. PICK from : Finds(found, next, X, from)
  <2> HIDE DEF X
  <2> QED BY <1>4, <1>5, ScanUnfolds
<1>7. /\ \A i \in 1 .. n + 1 : from[i] \in Seq(X)
      /\ Tokens(seg, lost) = from[1]
      /\ from[n + 1] = <<>>
      /\ \A i \in 1 .. n : from[i] = found[i] \o from[next[i]]
  <2> HIDE DEF X
  <2> QED BY <1>2, <1>4, <1>6 DEF Finds
<1>8. /\ Marks(seg, lost) \in Seq(Seq(Seq(C))) /\ Len(Marks(seg, lost)) = n
      /\ \A i \in 1 .. n :
            Marks(seg, lost)[i] = IF i \in lost THEN <<>> ELSE MarkAt(seg, i)
  BY <1>1, MarksTyped DEF Marks
<1>9. PICK rest : Rests(Marks(seg, lost), Seq(C), rest)
  BY <1>8, JoinedUnfolds
<1>10. /\ \A i \in 1 .. n + 1 : rest[i] \in Seq(Seq(C))
       /\ Joined(Marks(seg, lost)) = rest[1]
       /\ rest[n + 1] = <<>>
       /\ \A i \in 1 .. n : rest[i] = Marks(seg, lost)[i] \o rest[i + 1]
  BY <1>8, <1>9 DEF Rests
<1> DEFINE H == {i \in 1 .. n + 1 : (i <= n => Outside(seg, i)) => WordsIn(from[i]) = rest[i]}
<1>11. WordsIn(<<>>) = <<>>
  BY DEF WordsIn
<1>12. n + 1 \in H
  BY <1>1, <1>7, <1>10, <1>11
<1>13. ASSUME NEW i \in 1 .. n, i + 1 .. n + 1 \subseteq H PROVE i \in H
  <2> SUFFICES ASSUME Outside(seg, i) PROVE WordsIn(from[i]) = rest[i]
    BY <1>1
  <2> DEFINE e == next[i]
  <2>1. e = GoesOn(seg, i) /\ e \in i + 1 .. n + 1
    BY <1>3
  <2> HIDE DEF e
  <2>2. /\ MarkAt(seg, i) = IF seg[i] = Space \/ Unclosed(seg, i) THEN <<>>
                            ELSE <<TokenAt(seg, i).word>>
        /\ \A k \in i + 1 .. e - 1 : MarkAt(seg, k) = <<>>
        /\ e <= n => Outside(seg, e)
    BY <2>1, StretchRead
  <2>3. WordsIn(from[e]) = rest[e]
    BY <1>13, <2>1, <2>2
  <2>4. rest[i + 1] = rest[e]
    <3>1. i + 1 \in 1 .. n + 1 /\ \A k \in i + 1 .. e - 1 : k \in 1 .. n
      BY <1>1, <2>1
    <3>2. \A k \in i + 1 .. e - 1 : Marks(seg, lost)[k] = <<>>
      BY <1>8, <2>2, <3>1
    <3> HIDE DEF n
    <3>3. /\ i + 1 \in 1 .. Len(Marks(seg, lost)) + 1
          /\ e \in i + 1 .. Len(Marks(seg, lost)) + 1
      BY <1>8, <2>1, <3>1
    <3>4. Marks(seg, lost) \in Seq(Seq(Seq(C)))
      BY <1>8
    <3> DEFINE a == i + 1
    <3>5. EmptyBetween(Marks(seg, lost), a, e)
      BY <3>2, <3>3 DEF EmptyBetween
    <3> HIDE DEF a
    <3>6. rest[a] = rest[e]
      BY <1>9, <3>4, <3>5, EmptySkipped
    <3> QED BY <3>6 DEF a
  <2> DEFINE mark == IF i \in lost THEN <<>> ELSE MarkAt(seg, i)
  <2>5. from[i] = found[i] \o from[e] /\ rest[i] = mark \o rest[e]
    BY <1>7, <1>8, <1>10, <2>4 DEF e
  <2>6. from[e] \in Seq(X) /\ rest[e] \in Seq(Seq(C))
    <3>1. e \in 1 .. n + 1
      BY <1>1, <2>1
    <3> HIDE DEF X, n
    <3> QED BY <1>7, <1>10, <3>1
  <2>7. CASE seg[i] = Space \/ Unclosed(seg, i) \/ i \in lost
    <3>1. found[i] = <<>> /\ mark = <<>>
      BY <1>3, <2>2, <2>7
    <3>2. from[i] = from[e] /\ rest[i] = rest[e]
      <4> HIDE DEF X, mark
      <4> QED BY <2>5, <2>6, <3>1, ConcatEmptySeq
    <3> QED BY <2>3, <3>2
  <2>8. CASE ~(seg[i] = Space \/ Unclosed(seg, i) \/ i \in lost)
    <3> DEFINE x == TokenAt(seg, i)
    <3>1. found[i] = <<x>> /\ mark = <<x.word>> /\ x \in X
      BY <1>3, <2>2, <2>8
    <3> HIDE DEF x, mark
    <3>2. WordsIn(<<x>> \o from[e]) = <<x.word>> \o WordsIn(from[e])
      BY <2>6, <3>1, WordsInFirst
    <3> QED BY <2>3, <2>5, <3>1, <3>2
  <2> QED BY <2>7, <2>8
<1>14. 1 .. n + 1 \subseteq H
  <2> HIDE DEF H, n
  <2> QED BY <1>1, <1>12, <1>13, DownInduction
<1>15. 1 \in 1 .. n + 1 /\ (1 <= n => Outside(seg, 1))
  <2>1. 1 - 1 = 0 /\ Open(seg)[0] = "none" /\ ~Plain(seg, 0)
    BY <1>1, OpenReads DEF Plain
  <2> QED BY <1>1, <2>1 DEF Outside
<1>16. WordsIn(from[1]) = rest[1]
  BY <1>14, <1>15
<1>17. RefWords(seg, lost) = Joined(Marks(seg, lost))
  <2>1. RefWords(seg, lost) = FlattenSeq(Marks(seg, lost))
    <3>1. \A i \in DOMAIN seg :
             Marks(seg, lost)[i] =
                IF SpanEnds(seg, i) = {} \/ i \in lost THEN <<>>
                ELSE <<Span(seg, i, CHOOSE j \in SpanEnds(seg, i) : TRUE)>>
      BY DEF Marks, MarkAt
    <3>2. Marks(seg, lost) =
             [i \in DOMAIN seg |->
                IF SpanEnds(seg, i) = {} \/ i \in lost THEN <<>>
                ELSE <<Span(seg, i, CHOOSE j \in SpanEnds(seg, i) : TRUE)>>]
      BY <3>1 DEF Marks
    <3> QED BY <3>2 DEF RefWords
  <2> QED BY <1>8, <2>1, FlattenIsJoined
<1> QED BY <1>7, <1>10, <1>16, <1>17

-----------------------------------------------------------------------------
(* Whole lines. *)

\* The words kept of a command that is not too big are those of the reference.
LEMMA WordsKept ==
    ASSUME NEW C, NEW seg \in Seq(C), NEW lost
    PROVE  /\ TooBig(seg, lost) => Len(RefWords(seg, lost)) > ARG_MAX
           /\ ~TooBig(seg, lost) => Words(seg, lost) = RefWords(seg, lost)
           /\ Len(RefWords(seg, lost)) \in Nat
           /\ RefWords(seg, lost) \in Seq(Seq(C))
<1> DEFINE t == Tokens(seg, lost)
<1>1. t \in Seq([word : Seq(C), next : Nat])
  BY TokensFound
<1>2. DOMAIN t = 1 .. Len(t) /\ Len(t) \in Nat
  BY <1>1, LenProperties
<1>3. WordsIn(t) = RefWords(seg, lost)
  BY WordsAreSpans
<1>4. RefWords(seg, lost) \in Seq(Seq(C)) /\ Len(RefWords(seg, lost)) = Len(t)
  <2> HIDE DEF t
  <2> QED BY <1>1, <1>3, WordsInTyped
<1>5. ASSUME ~TooBig(seg, lost) PROVE Words(seg, lost) = RefWords(seg, lost)
  <2>1. Words(seg, lost) = [k \in 1 .. Len(t) |-> t[k].word]
    BY <1>5 DEF Words
  <2>2. WordsIn(t) = [k \in 1 .. Len(t) |-> t[k].word]
    <3> HIDE DEF t
    <3> QED BY <1>2 DEF WordsIn
  <2> QED BY <1>3, <2>1, <2>2
<1>6. TooBig(seg, lost) => Len(t) > ARG_MAX
  <2> DEFINE many == Len(t) > ARG_MAX
             more == t[ARG_MAX + 1].next <= Len(seg)
  <2>1. TooBig(seg, lost) = (many /\ more)
    BY DEF TooBig
  <2> HIDE DEF many, more
  <2>2. TooBig(seg, lost) => many
    BY <2>1
  <2> QED BY <2>2 DEF many
<1> HIDE DEF t
<1> QED BY <1>2, <1>4, <1>5, <1>6

\* The commands of a line, and the ones that are parsed when none is refused.
LEMMA CommandsTaken ==
    ASSUME NEW C, NEW text \in Seq(C), NEW short
    PROVE  LET cmds == Commands(text)
               taken == Taken(text, short)
           IN /\ cmds \in Seq(Seq(C)) /\ Len(cmds) \in Nat
              /\ DOMAIN cmds = 1 .. Len(cmds)
              /\ \A k \in DOMAIN cmds : cmds[k] \in Seq(C)
              /\ TooMany(text) <=> Len(cmds) > CMD_MAX + 1
              /\ ~TooMany(text) /\ ~Starved(text, short) =>
                    /\ DOMAIN taken = DOMAIN cmds /\ Len(taken) = Len(cmds)
                    /\ \A k \in DOMAIN cmds : <<k, 0>> \notin short
              /\ short = {} => ~Starved(text, short)
              /\ \A k \in DOMAIN taken : k \in DOMAIN cmds /\ taken[k] = cmds[k]
<1> DEFINE segs == Fields(text, Pipe)
           taken == Taken(text, short)
<1>1. segs = Commands(text)
  BY DEF Commands
<1>2. /\ segs \in Seq(Seq(C)) /\ taken \in Seq(Seq(C))
      /\ ~Starved(text, short) =>
            /\ Len(taken) = IF TooMany(text) THEN CMD_MAX + 1 ELSE Len(segs)
            /\ \A k \in 1 .. Len(taken) : <<k, 0>> \notin short
      /\ short = {} => ~Starved(text, short)
      /\ Len(taken) <= Len(segs)
      /\ \A k \in 1 .. Len(taken) : taken[k] = segs[k]
      /\ TooMany(text) <=> Len(segs) > CMD_MAX + 1
  BY TakenFirst
<1> HIDE DEF segs, taken
<1>3. /\ Len(segs) \in Nat /\ DOMAIN segs = 1 .. Len(segs)
      /\ Len(taken) \in Nat /\ DOMAIN taken = 1 .. Len(taken)
      /\ \A k \in 1 .. Len(segs) : segs[k] \in Seq(C)
  BY <1>2, LenProperties, ElementOfSeq
<1>4. ASSUME NEW k \in DOMAIN taken PROVE k \in DOMAIN segs /\ taken[k] = segs[k]
  <2>1. k \in 1 .. Len(taken)
    BY <1>3
  <2>2. Len(taken) <= Len(segs)
    BY <1>2
  <2>3. k \in 1 .. Len(segs)
    BY <1>3, <2>1, <2>2
  <2>4. taken[k] = segs[k]
    BY <1>2, <2>1
  <2> QED BY <1>3, <2>3, <2>4
<1>5. ASSUME ~TooMany(text), ~Starved(text, short)
      PROVE  /\ Len(taken) = Len(segs) /\ DOMAIN taken = DOMAIN segs
             /\ \A k \in DOMAIN segs : <<k, 0>> \notin short
  BY <1>2, <1>3, <1>5
<1>6. \A k \in DOMAIN segs : segs[k] \in Seq(C)
  BY <1>3
<1> HIDE DEF Commands
<1> QED BY <1>1, <1>2, <1>3, <1>4, <1>5, <1>6 DEF taken

\* Neither of the pipeline parsers refuses a line for another reason than the
\* number of its commands, of the words of one, or an array malloc does not
\* give; and both find the same commands.
LEMMA LineTaken ==
    ASSUME NEW text, NEW short,
           NEW parsed \in {parse_buffer_into_cmd(text, short), ParseLine(text, short)}
    PROVE  LET taken == Taken(text, short)
           IN /\ parsed.cmds = [k \in DOMAIN taken |-> Words(taken[k], Lost(short, k))]
              /\ parsed.rc = OK <=>
                    /\ ~Starved(text, short) /\ ~TooMany(text)
                    /\ \A k \in DOMAIN taken : ~TooBig(taken[k], Lost(short, k))
<1> DEFINE taken == Taken(text, short)
           big == SomeTooBig(text, short)
           starved == Starved(text, short)
           many == TooMany(text)
<1>1. parsed.cmds = [k \in DOMAIN taken |-> Words(taken[k], Lost(short, k))]
  BY DEF parse_buffer_into_cmd, ParseLine
<1>2. OK # ERR_TOO_MANY_COMMANDS /\ OK # ERR_CMD_OR_ARGS_TOO_BIG /\ OK # ERR_MEMORY
  BY DEF OK, ERR_TOO_MANY_COMMANDS, ERR_CMD_OR_ARGS_TOO_BIG, ERR_MEMORY
<1>3. big <=> ~ \A k \in DOMAIN taken : ~TooBig(taken[k], Lost(short, k))
  BY DEF SomeTooBig
<1>4. parse_buffer_into_cmd(text, short).rc =
         IF starved THEN ERR_MEMORY
         ELSE IF many THEN ERR_TOO_MANY_COMMANDS
         ELSE IF big THEN ERR_CMD_OR_ARGS_TOO_BIG ELSE OK
  BY DEF parse_buffer_into_cmd
<1>5. ParseLine(text, short).rc =
         IF big THEN ERR_CMD_OR_ARGS_TOO_BIG
         ELSE IF starved THEN ERR_MEMORY
         ELSE IF many THEN ERR_TOO_MANY_COMMANDS ELSE OK
  BY DEF ParseLine
<1> HIDE DEF big, starved, many
<1>6. parsed.rc = OK <=> ~starved /\ ~many /\ ~big
  BY <1>2, <1>4, <1>5
<1> QED BY <1>1, <1>3, <1>6 DEF starved, many

\* No word is lost when malloc gives every block.
LEMMA NoneLost == \A k : Lost({}, k) = {}
BY DEF Lost

\* What the inputs that are grown are made of.
InputTyped == kind \in DOMAIN Cells /\ input \in Seq(Cells[kind])

\* Every input reached is a sequence of the cells of its kind.
LEMMA InputsTyped == Spec => []InputTyped
<1>1. Init => InputTyped
  <2> SUFFICES ASSUME Init PROVE InputTyped
    OBVIOUS
  <2> DEFINE cells == Cells[kind]
  <2>1. <<>> \in Seq(cells)
    <3> HIDE DEF cells
    <3> QED BY EmptySeq
  <2> QED BY <2>1 DEF Init, InputTyped
<1>2. InputTyped /\ [Next]_vars => InputTyped'
  <2> SUFFICES ASSUME InputTyped, [Next]_vars PROVE InputTyped'
    OBVIOUS
  <2>1. CASE Next
    <3>1. PICK c \in Cells[kind] : input' = Append(input, c)
      BY <2>1 DEF Next
    <3>2. kind' = kind
      BY <2>1 DEF Next
    <3>3. input \in Seq(Cells[kind]) /\ kind \in DOMAIN Cells
      BY DEF InputTyped
    <3> DEFINE cells == Cells[kind]
    <3>4. Append(input, c) \in Seq(cells)
      <4>1. c \in cells /\ input \in Seq(cells)
        BY <3>1, <3>3
      <4> HIDE DEF cells
      <4> QED BY <4>1, AppendProperties
    <3>5. Cells' = Cells
      BY DEF Cells
    <3> QED BY <3>1, <3>2, <3>3, <3>4, <3>5 DEF InputTyped
  <2>2. CASE UNCHANGED vars
    BY <2>2 DEF InputTyped, vars, Cells
  <2> QED BY <2>1, <2>2
<1> QED BY <1>1, <1>2, PTL DEF Spec

\* Every command of a line that the server accepts has exactly the words of the
\* reference but for those malloc had no block for, and no array is missing
\* (parse_buffer_into_cmd), for lines of any length, whichever blocks are not
\* given, and for every CMD_MAX, ARG_MAX > CMD_MAX.
THEOREM FaithfulWords == Spec => []WordsFaithful
<1>1. InputTyped => WordsFaithful
  <2> SUFFICES ASSUME InputTyped, kind = "line", NEW short,
                      parse_buffer_into_cmd(input, short).rc = OK
               PROVE  LET cmds == Commands(input)
                      IN /\ parse_buffer_into_cmd(input, short).cmds =
                               [k \in DOMAIN cmds |-> RefWords(cmds[k], Lost(short, k))]
                         /\ \A k \in DOMAIN cmds : <<k, 0>> \notin short
    BY DEF WordsFaithful
  <2> DEFINE C == Cells["line"]
  <2>1. input \in Seq(C)
    BY DEF InputTyped
  <2> HIDE DEF C
  <2> DEFINE taken == Taken(input, short)
             cmds == Commands(input)
             parsed == parse_buffer_into_cmd(input, short)
  <2>2. /\ parsed.cmds = [k \in DOMAIN taken |-> Words(taken[k], Lost(short, k))]
        /\ ~Starved(input, short) /\ ~TooMany(input)
        /\ \A k \in DOMAIN taken : ~TooBig(taken[k], Lost(short, k))
    <3> HIDE DEF parsed
    <3>1. parsed \in {parse_buffer_into_cmd(input, short), ParseLine(input, short)}
          /\ parsed.rc = OK
      BY DEF parsed
    <3> QED BY <3>1, LineTaken
  <2>3. /\ DOMAIN taken = DOMAIN cmds
        /\ \A k \in DOMAIN cmds : cmds[k] \in Seq(C) /\ taken[k] = cmds[k]
        /\ \A k \in DOMAIN cmds : <<k, 0>> \notin short
    BY <2>1, <2>2, CommandsTaken
  <2> HIDE DEF taken, cmds, parsed
  <2>4. \A k \in DOMAIN cmds :
           Words(taken[k], Lost(short, k)) = RefWords(cmds[k], Lost(short, k))
    BY <2>2, <2>3, WordsKept
  <2>5. [k \in DOMAIN taken |-> Words(taken[k], Lost(short, k))]
           = [k \in DOMAIN cmds |-> RefWords(cmds[k], Lost(short, k))]
    BY <2>3, <2>4
  <2> QED BY <2>2, <2>3, <2>5 DEF parsed, cmds
<1>2. Spec => [](InputTyped)
  BY InputsTyped
<1> QED BY <1>1, <1>2, PTL

\* Both pipeline parsers accept a line within the documented limits and store it
\* inside their arrays, and refuse one of two commands too many, for every
\* CMD_MAX and every ARG_MAX > CMD_MAX.
THEOREM KeptLimits == Spec => []LimitsKept
<1>1. InputTyped => LimitsKept
  <2> SUFFICES ASSUME InputTyped, kind = "line",
                      NEW parsed \in {parse_buffer_into_cmd(input, {}), ParseLine(input, {})}
               PROVE  LET cmds == Commands(input)
                          small == /\ Len(cmds) <= CMD_MAX
                                   /\ \A k \in DOMAIN cmds : Len(RefWords(cmds[k], {})) <= CMD_MAX
                      IN /\ small => parsed.rc = OK /\ InBounds(parsed.cmds)
                         /\ Len(cmds) >= CMD_MAX + 2 => parsed.rc # OK
    BY DEF LimitsKept
  <2> DEFINE C == Cells["line"]
             cmds == Commands(input)
             taken == Taken(input, {})
  <2>1. input \in Seq(C)
    BY DEF InputTyped
  <2> HIDE DEF C
  <2>2. /\ parsed.cmds = [k \in DOMAIN taken |-> Words(taken[k], {})]
        /\ parsed.rc = OK <=> /\ ~Starved(input, {}) /\ ~TooMany(input)
                              /\ \A k \in DOMAIN taken : ~TooBig(taken[k], {})
    BY LineTaken, NoneLost
  <2>3. /\ Len(cmds) \in Nat /\ DOMAIN cmds = 1 .. Len(cmds)
        /\ \A k \in DOMAIN cmds : cmds[k] \in Seq(C)
        /\ TooMany(input) <=> Len(cmds) > CMD_MAX + 1
        /\ ~Starved(input, {})
        /\ ~TooMany(input) => DOMAIN taken = DOMAIN cmds
        /\ \A k \in DOMAIN taken : k \in DOMAIN cmds /\ taken[k] = cmds[k]
    BY <2>1, CommandsTaken
  <2> HIDE DEF cmds, taken
  <2>4. Len(cmds) >= CMD_MAX + 2 => parsed.rc # OK
    BY <2>2, <2>3, CmdMaxAssumption
  <2>5. ASSUME Len(cmds) <= CMD_MAX, \A k \in DOMAIN cmds : Len(RefWords(cmds[k], {})) <= CMD_MAX
        PROVE  parsed.rc = OK /\ InBounds(parsed.cmds)
    <3>1. ~TooMany(input)
      BY <2>3, <2>5, CmdMaxAssumption
    <3>2. ASSUME NEW k \in DOMAIN cmds
          PROVE  ~TooBig(cmds[k], {}) /\ Words(cmds[k], {}) = RefWords(cmds[k], {})
                 /\ Len(RefWords(cmds[k], {})) \in Nat /\ Len(RefWords(cmds[k], {})) <= CMD_MAX
      <4>1. cmds[k] \in Seq(C) /\ Len(RefWords(cmds[k], {})) <= CMD_MAX
        BY <2>3, <2>5
      <4> DEFINE seg == cmds[k]
      <4> HIDE DEF seg
      <4>2. /\ TooBig(seg, {}) => Len(RefWords(seg, {})) > ARG_MAX
            /\ ~TooBig(seg, {}) => Words(seg, {}) = RefWords(seg, {})
            /\ Len(RefWords(seg, {})) \in Nat
        BY <4>1, WordsKept DEF seg
      <4>3. Len(RefWords(seg, {})) <= CMD_MAX
        BY <4>1 DEF seg
      <4>4. ~TooBig(seg, {})
        BY <4>2, <4>3, CmdMaxAssumption, ArgMaxAssumption
      <4> QED BY <4>2, <4>3, <4>4 DEF seg
    <3>3. parsed.rc = OK
      BY <2>2, <2>3, <3>1, <3>2
    <3>4. /\ DOMAIN parsed.cmds = 1 .. Len(cmds)
          /\ \A k \in 1 .. Len(cmds) : parsed.cmds[k] = RefWords(cmds[k], {})
      BY <2>2, <2>3, <3>1, <3>2
    <3>5. Len(parsed.cmds) = Len(cmds)
      <4>1. parsed.cmds = [k \in 1 .. Len(cmds) |-> RefWords(cmds[k], {})]
        <5>1. parsed.cmds = [k \in DOMAIN parsed.cmds |-> parsed.cmds[k]]
          BY <2>2
        <5> QED BY <3>4, <5>1
      <4> DEFINE f == [k \in 1 .. Len(cmds) |-> RefWords(cmds[k], {})]
                 m == Len(cmds)
                 X == {RefWords(cmds[k], {}) : k \in 1 .. Len(cmds)}
      <4>2. f \in [1 .. m -> X] /\ m \in Nat
        BY <2>3
      <4> HIDE DEF f, m, X
      <4>3. Len(f) = m
        BY <4>2, FunctionIsSeq
      <4> QED BY <4>1, <4>3 DEF f, m
    <3>6. Len(parsed.cmds) < CMD_ARGV_MAX
      BY <2>3, <2>5, <3>5, CmdMaxAssumption DEF CMD_ARGV_MAX
    <3>7. ASSUME NEW k \in DOMAIN parsed.cmds PROVE Len(parsed.cmds[k]) < CMD_ARGV_MAX
      <4>1. k \in DOMAIN cmds /\ parsed.cmds[k] = RefWords(cmds[k], {})
        BY <2>3, <3>4
      <4>2. Len(RefWords(cmds[k], {})) \in Nat /\ Len(RefWords(cmds[k], {})) <= CMD_MAX
        BY <3>2, <4>1
      <4> QED BY <4>1, <4>2, CmdMaxAssumption DEF CMD_ARGV_MAX
    <3> QED BY <3>3, <3>6, <3>7 DEF InBounds
  <2> QED BY <2>4, <2>5 DEF cmds
<1> QED BY <1>1, InputsTyped, PTL

-----------------------------------------------------------------------------
(* The options of dsh. *)

\* What parse_args may have collected.
Cargs == [mode : {"local", "client", "server"}, ip : {"none", "loopback", "any", "given"},
          port : {"default", "given"}, threaded_server : BOOLEAN,
          exit : {"none", "failure", "usage"}]

\* One option more.
LEMMA OptionTyped ==
    ASSUME NEW cargs \in Cargs, NEW opt \in Options
    PROVE  parse_option(cargs, opt) \in Cargs
<1>1. CASE cargs.exit # "none"
  BY <1>1 DEF parse_option
<1>2. CASE cargs.exit = "none" /\ Refused(cargs, opt)
  BY <1>2 DEF parse_option, Cargs
<1>3. CASE cargs.exit = "none" /\ ~Refused(cargs, opt)
  <2>1. parse_option(cargs, opt) =
           CASE opt = "c" -> [cargs EXCEPT !.mode = "client", !.ip = "loopback"]
             [] opt = "s" -> [cargs EXCEPT !.mode = "server", !.ip = "any"]
             [] opt = "i" -> [cargs EXCEPT !.ip = "given"]
             [] opt = "p" -> [cargs EXCEPT !.port = "given"]
             [] opt = "x" -> [cargs EXCEPT !.threaded_server = TRUE]
             [] opt \in {"h", "?"} -> [cargs EXCEPT !.exit = "usage"]
    BY <1>3 DEF parse_option
  <2>2. opt # "p0"
    BY <1>3 DEF Refused
  <2> QED BY <2>1, <2>2 DEF Cargs, Options
<1> QED BY <1>1, <1>2, <1>3

\* What is collected after each of the options.
Collects(opts, after) ==
    /\ after \in [0 .. Len(opts) -> Cargs]
    /\ after[0] = Defaults
    /\ \A n \in 1 .. Len(opts) : after[n] = parse_option(after[n - 1], opts[n])
    /\ parse_args(opts) = IF /\ after[Len(opts)].exit = "none"
                             /\ after[Len(opts)].threaded_server
                             /\ after[Len(opts)].mode # "server"
                          THEN [after[Len(opts)] EXCEPT !.exit = "failure"]
                          ELSE after[Len(opts)]

\* parse_args goes through the options one after the other.
LEMMA OptionsCollected ==
    ASSUME NEW opts \in Seq(Options)
    PROVE  \E after : Collects(opts, after)
<1> DEFINE len == Len(opts)
           Step(f, n) == IF n = 0 THEN Defaults ELSE parse_option(f[n - 1], opts[n])
           after == CHOOSE f : f = [n \in 0 .. len |-> Step(f, n)]
           step == [p \in (1 .. len) \X Cargs |-> parse_option(p[2], opts[p[1]])]
<1>1. len \in Nat /\ \A n \in 1 .. len : opts[n] \in Options
  BY LenProperties, ElementOfSeq
<1>2. \A n \in 1 .. len, x \in Cargs : step[<<n, x>>] = parse_option(x, opts[n])
                                       /\ step[<<n, x>>] \in Cargs
  BY <1>1, OptionTyped
<1>3. Defaults \in Cargs
  BY DEF Defaults, Cargs
<1>4. parse_args(opts) = IF /\ after[len].exit = "none"
                            /\ after[len].threaded_server
                            /\ after[len].mode # "server"
                         THEN [after[len] EXCEPT !.exit = "failure"]
                         ELSE after[len]
  BY DEF parse_args
<1> HIDE DEF step, len
<1>5. PICK h : Iterates(len, Cargs, Defaults, step, h)
  BY <1>1, <1>2, <1>3, Iterated
<1>6. /\ h \in [0 .. len -> Cargs] /\ h[0] = Defaults
      /\ \A n \in 1 .. len : h[n] = step[<<n, h[n - 1]>>]
  BY <1>5 DEF Iterates
<1>7. ASSUME NEW n \in 0 .. len PROVE h[n] = Step(h, n)
  <2>1. CASE n = 0
    BY <1>6, <2>1
  <2>2. CASE n # 0
    <3>1. n \in 1 .. len /\ n - 1 \in 0 .. len
      BY <1>1, <2>2
    <3>2. h[n - 1] \in Cargs
      BY <1>6, <3>1
    <3> QED BY <1>2, <1>6, <2>2, <3>1, <3>2
  <2> QED BY <2>1, <2>2
<1>8. h = [n \in 0 .. len |-> h[n]]
  BY <1>6
<1>9. \E f : f = [n \in 0 .. len |-> Step(f, n)]
  <2> HIDE DEF Step
  <2> QED BY <1>7, <1>8
<1>10. after = [n \in 0 .. len |-> Step(after, n)]
  BY <1>9
<1> HIDE DEF after
<1>11. after[0] = Defaults /\ \A n \in 1 .. len : after[n] = parse_option(after[n - 1], opts[n])
  BY <1>1, <1>10
<1> DEFINE G == {n \in 0 .. len : after[n] \in Cargs}
<1>12. 0 .. len \subseteq G
  <2>1. 0 \in G
    BY <1>1, <1>3, <1>11
  <2>2. ASSUME NEW n \in 1 .. len, n - 1 \in G PROVE n \in G
    <3>1. after[n - 1] \in Cargs /\ opts[n] \in Options
      BY <1>1, <2>2
    <3>2. after[n] \in Cargs
      BY <1>11, <3>1, OptionTyped
    <3> QED BY <1>1, <3>2
  <2> HIDE DEF G
  <2> QED BY <1>1, <2>1, <2>2, UpInduction
<1>13. after \in [0 .. len -> Cargs]
  <2>1. \A n \in 0 .. len : after[n] \in Cargs
    BY <1>12
  <2>2. after = [n \in 0 .. len |-> after[n]]
    BY <1>10
  <2> QED BY <2>1, <2>2
<1>14. Collects(opts, after)
  BY <1>4, <1>11, <1>13 DEF Collects, len
<1> QED BY <1>14

\* After n options that are all right: what they ask for.
AskedFor(opts, n, cargs) ==
    /\ cargs.exit = "none"
    /\ cargs.mode = IF Before(opts, n + 1, {"s"}) THEN "server"
                    ELSE IF Before(opts, n + 1, {"c"}) THEN "client" ELSE "local"
    /\ cargs.threaded_server <=> Before(opts, n + 1, {"x"})
    /\ cargs.port = "given" <=> Before(opts, n + 1, {"p"})
    /\ cargs.ip = "given" <=> Before(opts, n + 1, {"i"})

\* After n options the k-th of which is the first that stops the program.
StoppedAt(opts, n, k, cargs) ==
    /\ k \in 1 .. n /\ k \in Stops(opts)
    /\ \A j \in 1 .. k - 1 : j \notin Stops(opts)
    /\ cargs.exit = IF Wrong(opts, k) THEN "failure" ELSE "usage"

\* One more option was given before the next.
LEMMA BeforeNext ==
    ASSUME NEW opts, NEW n \in Nat \ {0}, NEW some
    PROVE  Before(opts, n + 1, some) <=> Before(opts, n, some) \/ opts[n] \in some
<1>1. 1 .. (n + 1) - 1 = (1 .. n - 1) \cup {n}
  OBVIOUS
<1> QED BY <1>1 DEF Before

\* What parse_args has collected after an option follows from what it had
\* collected before it.
LEMMA OptionRead ==
    ASSUME NEW opts \in Seq(Options), NEW n \in 1 .. Len(opts), NEW cargs \in Cargs,
           AskedFor(opts, n - 1, cargs), \A j \in 1 .. n - 1 : j \notin Stops(opts)
    PROVE  LET next == parse_option(cargs, opts[n])
           IN /\ n \in Stops(opts) => next.exit = IF Wrong(opts, n) THEN "failure" ELSE "usage"
              /\ n \notin Stops(opts) => AskedFor(opts, n, next)
<1> DEFINE opt == opts[n]
           next == parse_option(cargs, opt)
           B(some) == Before(opts, n, some)
<1>1. n \in Nat \ {0} /\ opt \in Options /\ (n - 1) + 1 = n /\ DOMAIN opts = 1 .. Len(opts)
  BY LenProperties, ElementOfSeq
<1>2. /\ cargs.exit = "none"
      /\ cargs.mode = IF B({"s"}) THEN "server" ELSE IF B({"c"}) THEN "client" ELSE "local"
      /\ cargs.threaded_server <=> B({"x"})
      /\ cargs.port = "given" <=> B({"p"})
      /\ cargs.ip = "given" <=> B({"i"})
  BY <1>1 DEF AskedFor
<1>3. B({"c", "s"}) <=> B({"c"}) \/ B({"s"})
  BY DEF Before
<1>4. Refused(cargs, opt) <=> Wrong(opts, n)
  <2>1. cargs.mode # "local" <=> B({"c", "s"})
    <3> HIDE DEF B
    <3> QED BY <1>2, <1>3
  <2>2. cargs.mode = "server" <=> B({"s"})
    <3> HIDE DEF B
    <3> QED BY <1>2
  <2> QED BY <2>1, <2>2 DEF Refused, Wrong
<1>5. CASE Wrong(opts, n)
  <2>1. n \in Stops(opts)
    BY <1>1, <1>5 DEF Stops
  <2>2. next = [cargs EXCEPT !.exit = "failure"]
    BY <1>2, <1>4, <1>5 DEF parse_option
  <2>3. next.exit = "failure"
    BY <2>2 DEF Cargs
  <2> QED BY <1>5, <2>1, <2>3
<1>6. CASE ~Wrong(opts, n) /\ opt \in {"h", "?"}
  <2>1. n \in Stops(opts)
    BY <1>1, <1>6 DEF Stops
  <2>2. next = [cargs EXCEPT !.exit = "usage"]
    BY <1>2, <1>4, <1>6 DEF parse_option
  <2>3. next.exit = "usage"
    BY <2>2 DEF Cargs
  <2> QED BY <1>6, <2>1, <2>3
<1>7. CASE ~Wrong(opts, n) /\ opt \notin {"h", "?"}
  <2>1. n \notin Stops(opts) /\ opt # "p0"
    BY <1>7 DEF Stops, Wrong
  <2>2. opt \in {"c", "s", "i", "p", "x"}
    BY <1>1, <1>7, <2>1 DEF Options
  <2>3. next = CASE opt = "c" -> [cargs EXCEPT !.mode = "client", !.ip = "loopback"]
                 [] opt = "s" -> [cargs EXCEPT !.mode = "server", !.ip = "any"]
                 [] opt = "i" -> [cargs EXCEPT !.ip = "given"]
                 [] opt = "p" -> [cargs EXCEPT !.port = "given"]
                 [] opt = "x" -> [cargs EXCEPT !.threaded_server = TRUE]
                 [] opt \in {"h", "?"} -> [cargs EXCEPT !.exit = "usage"]
    BY <1>2, <1>4, <1>7 DEF parse_option
  <2>4. \A some : Before(opts, n + 1, some) <=> B(some) \/ opt \in some
    BY <1>1, BeforeNext
  <2>5. opt \in {"c", "s"} => ~B({"c"}) /\ ~B({"s"}) /\ ~B({"i"})
    <3> SUFFICES ASSUME opt \in {"c", "s"} PROVE ~B({"c"}) /\ ~B({"s"}) /\ ~B({"i"})
      OBVIOUS
    <3>1. ~B({"c"}) /\ ~B({"s"})
      BY <1>3, <1>7 DEF Wrong
    <3>2. ASSUME B({"i"}) PROVE FALSE
      <4>1. PICK j \in 1 .. n - 1 : opts[j] = "i"
        BY <3>2 DEF Before
      <4>2. j \in DOMAIN opts /\ j \notin Stops(opts)
        BY <1>1, <4>1
      <4>3. Before(opts, j, {"c", "s"})
        BY <4>1, <4>2 DEF Stops, Wrong
      <4>4. PICK m \in 1 .. j - 1 : opts[m] \in {"c", "s"}
        BY <4>3 DEF Before
      <4>5. m \in 1 .. n - 1
        BY <1>1, <4>1, <4>4
      <4> QED BY <1>3, <3>1, <4>4, <4>5 DEF Before
    <3> QED BY <3>1, <3>2
  <2>6. opt \in {"i", "p"} => B({"c"}) \/ B({"s"})
    BY <1>3, <1>7 DEF Wrong
  <2>7. AskedFor(opts, n, next)
    <3> HIDE DEF B, opt
    <3>1. CASE opt = "c"
      <4>1. next = [cargs EXCEPT !.mode = "client", !.ip = "loopback"]
        BY <2>3, <3>1
      <4>2. /\ next.exit = "none" /\ next.mode = "client" /\ next.ip = "loopback"
            /\ next.port = cargs.port /\ next.threaded_server = cargs.threaded_server
        BY <1>2, <4>1 DEF Cargs
      <4> HIDE DEF next
      <4> QED BY <1>2, <2>4, <2>5, <3>1, <4>2 DEF AskedFor
    <3>2. CASE opt = "s"
      <4>1. next = [cargs EXCEPT !.mode = "server", !.ip = "any"]
        BY <2>3, <3>2
      <4>2. /\ next.exit = "none" /\ next.mode = "server" /\ next.ip = "any"
            /\ next.port = cargs.port /\ next.threaded_server = cargs.threaded_server
        BY <1>2, <4>1 DEF Cargs
      <4> HIDE DEF next
      <4> QED BY <1>2, <2>4, <2>5, <3>2, <4>2 DEF AskedFor
    <3>3. CASE opt = "i"
      <4>1. next = [cargs EXCEPT !.ip = "given"]
        BY <2>3, <3>3
      <4>2. /\ next.exit = "none" /\ next.mode = cargs.mode /\ next.ip = "given"
            /\ next.port = cargs.port /\ next.threaded_server = cargs.threaded_server
        BY <1>2, <4>1 DEF Cargs
      <4> HIDE DEF next
      <4> QED BY <1>2, <2>4, <3>3, <4>2 DEF AskedFor
    <3>4. CASE opt = "p"
      <4>1. next = [cargs EXCEPT !.port = "given"]
        BY <2>3, <3>4
      <4>2. /\ next.exit = "none" /\ next.mode = cargs.mode /\ next.ip = cargs.ip
            /\ next.port = "given" /\ next.threaded_server = cargs.threaded_server
        BY <1>2, <4>1 DEF Cargs
      <4> HIDE DEF next
      <4> QED BY <1>2, <2>4, <3>4, <4>2 DEF AskedFor
    <3>5. CASE opt = "x"
      <4>1. next = [cargs EXCEPT !.threaded_server = TRUE]
        BY <2>3, <3>5
      <4>2. /\ next.exit = "none" /\ next.mode = cargs.mode /\ next.ip = cargs.ip
            /\ next.port = cargs.port /\ next.threaded_server
        BY <1>2, <4>1 DEF Cargs
      <4> HIDE DEF next
      <4> QED BY <1>2, <2>4, <3>5, <4>2 DEF AskedFor
    <3> QED BY <2>2, <3>1, <3>2, <3>3, <3>4, <3>5
  <2> QED BY <2>1, <2>7
<1> QED BY <1>5, <1>6, <1>7

\* After any number of options: either all are right and the program has what
\* they ask for, or the first that is not has decided how it ends.
LEMMA OptionsRead ==
    ASSUME NEW opts \in Seq(Options), NEW after, Collects(opts, after),
           NEW n \in 0 .. Len(opts)
    PROVE  \/ /\ \A j \in 1 .. n : j \notin Stops(opts)
              /\ AskedFor(opts, n, after[n])
           \/ \E k \in 1 .. n : StoppedAt(opts, n, k, after[n])
<1> DEFINE len == Len(opts)
           Right(m) == /\ \A j \in 1 .. m : j \notin Stops(opts)
                       /\ AskedFor(opts, m, after[m])
           Ended(m) == \E k \in 1 .. m : StoppedAt(opts, m, k, after[m])
           G == {m \in 0 .. len : Right(m) \/ Ended(m)}
<1>1. len \in Nat
  BY LenProperties
<1>2. /\ after[0] = Defaults
      /\ \A m \in 1 .. len : after[m] = parse_option(after[m - 1], opts[m])
      /\ \A m \in 0 .. len : after[m] \in Cargs
  BY DEF Collects
<1>3. 0 \in G
  <2>1. \A some : ~Before(opts, 0 + 1, some)
    BY DEF Before
  <2>2. AskedFor(opts, 0, after[0])
    BY <1>2, <2>1 DEF AskedFor, Defaults
  <2> QED BY <1>1, <2>2
<1>4. ASSUME NEW m \in 1 .. len, m - 1 \in G PROVE m \in G
  <2>1. /\ after[m] = parse_option(after[m - 1], opts[m])
        /\ after[m - 1] \in Cargs /\ m \in 0 .. len /\ m - 1 \in 0 .. len
    BY <1>1, <1>2
  <2>2. CASE Right(m - 1)
    <3>1. /\ m \in Stops(opts) => after[m].exit = IF Wrong(opts, m) THEN "failure" ELSE "usage"
          /\ m \notin Stops(opts) => AskedFor(opts, m, after[m])
      BY <2>1, <2>2, OptionRead
    <3>2. CASE m \in Stops(opts)
      <4>1. StoppedAt(opts, m, m, after[m])
        BY <1>1, <2>2, <3>1, <3>2 DEF StoppedAt
      <4>2. m \in 1 .. m
        BY <1>1
      <4>3. Ended(m)
        BY <4>1, <4>2
      <4> QED BY <2>1, <4>3
    <3>3. CASE m \notin Stops(opts)
      <4>1. \A j \in 1 .. m : j \in 1 .. m - 1 \/ j = m
        BY <1>1
      <4>2. Right(m)
        BY <2>2, <3>1, <3>3, <4>1
      <4> QED BY <2>1, <4>2
    <3> QED BY <3>2, <3>3
  <2>3. CASE Ended(m - 1)
    <3>1. PICK k \in 1 .. m - 1 : StoppedAt(opts, m - 1, k, after[m - 1])
      BY <2>3
    <3>2. after[m] = after[m - 1]
      BY <2>1, <3>1 DEF StoppedAt, parse_option
    <3>3. k \in 1 .. m
      BY <1>1
    <3>4. StoppedAt(opts, m, k, after[m])
      BY <3>1, <3>2, <3>3 DEF StoppedAt
    <3>5. Ended(m)
      BY <3>3, <3>4
    <3> QED BY <2>1, <3>5
  <2> QED BY <1>4, <2>2, <2>3
<1>5. 0 .. len \subseteq G
  <2> HIDE DEF G, len
  <2> QED BY <1>1, <1>3, <1>4, UpInduction
<1>6. n \in G
  BY <1>5
<1> QED BY <1>6

\* dsh runs exactly what its options, in their order, ask for (parse_args, main),
\* for any number of options.
THEOREM HonouredOptions == Spec => []OptionsHonoured
<1>1. InputTyped => OptionsHonoured
  <2> SUFFICES ASSUME InputTyped, kind = "options" PROVE OptionsHonoured
    BY DEF OptionsHonoured
  <2> DEFINE len == Len(input)
             cargs == parse_args(input)
             stops == Stops(input)
             asked == ToSet(input)
  <2>1. input \in Seq(Options)
    BY DEF InputTyped, Cells
  <2>2. len \in Nat /\ DOMAIN input = 1 .. len
    BY <2>1, LenProperties
  <2>3. PICK after : Collects(input, after)
    BY <2>1, OptionsCollected
  <2>4. /\ after[len] \in Cargs
        /\ cargs = IF /\ after[len].exit = "none"
                      /\ after[len].threaded_server
                      /\ after[len].mode # "server"
                   THEN [after[len] EXCEPT !.exit = "failure"]
                   ELSE after[len]
    BY <2>2, <2>3 DEF Collects
  <2>5. \/ /\ \A j \in 1 .. len : j \notin stops
           /\ AskedFor(input, len, after[len])
        \/ \E k \in 1 .. len : StoppedAt(input, len, k, after[len])
    <3>1. len \in 0 .. len
      BY <2>2
    <3> HIDE DEF len
    <3> QED BY <2>1, <2>3, <3>1, OptionsRead DEF len
  <2>6. \A o : o \in asked <=> Before(input, len + 1, {o})
    <3>1. 1 .. (len + 1) - 1 = DOMAIN input
      BY <2>2
    <3> QED BY <3>1 DEF ToSet, Before
  <2>7. CASE /\ \A j \in 1 .. len : j \notin stops
             /\ AskedFor(input, len, after[len])
    <3>1. stops = {}
      BY <2>2, <2>7 DEF Stops
    <3>2. "x" \in asked => "s" \in asked
      <4> SUFFICES ASSUME "x" \in asked PROVE "s" \in asked
        OBVIOUS
      <4>1. PICK j \in DOMAIN input : input[j] = "x"
        BY DEF ToSet
      <4>2. Before(input, j, {"s"})
        BY <2>2, <2>7, <4>1 DEF Stops, Wrong
      <4>3. PICK m \in 1 .. j - 1 : input[m] = "s"
        BY <4>2 DEF Before
      <4>4. m \in DOMAIN input
        BY <2>2, <4>1, <4>3
      <4> QED BY <4>3, <4>4 DEF ToSet
    <3>3. /\ after[len].exit = "none"
          /\ after[len].mode = IF "s" \in asked THEN "server"
                               ELSE IF "c" \in asked THEN "client" ELSE "local"
          /\ after[len].threaded_server <=> "x" \in asked
          /\ after[len].port = "given" <=> "p" \in asked
          /\ after[len].ip = "given" <=> "i" \in asked
      <4> HIDE DEF asked, len
      <4> QED BY <2>6, <2>7 DEF AskedFor
    <3>4. cargs = after[len]
      <4> HIDE DEF cargs, asked
      <4> QED BY <2>4, <3>2, <3>3
    <3>5. /\ cargs.threaded_server = ("x" \in asked)
          /\ (cargs.port = "given") = ("p" \in asked)
          /\ (cargs.ip = "given") = ("i" \in asked)
      <4>1. cargs.threaded_server \in BOOLEAN
        BY <2>4, <3>4 DEF Cargs
      <4> HIDE DEF cargs, asked
      <4> QED BY <3>3, <3>4, <4>1
    <3>6. LoopOf(input) = IF "s" \in asked THEN "start_server"
                          ELSE IF "c" \in asked THEN "exec_remote_cmd_loop"
                          ELSE "exec_local_cmd_loop"
      <4>1. LoopOf(input) = CASE cargs.exit # "none"      -> cargs.exit
                              [] cargs.exit = "none" /\ cargs.mode = "local"  -> "exec_local_cmd_loop"
                              [] cargs.exit = "none" /\ cargs.mode = "client" -> "exec_remote_cmd_loop"
                              [] cargs.exit = "none" /\ cargs.mode = "server" -> "start_server"
        BY DEF LoopOf
      <4> HIDE DEF cargs, asked
      <4> QED BY <3>3, <3>4, <4>1
    <3> HIDE DEF cargs, asked, stops
    <3> QED BY <3>1, <3>5, <3>6 DEF OptionsHonoured, cargs, asked, stops
  <2>8. CASE \E k \in 1 .. len : StoppedAt(input, len, k, after[len])
    <3>1. PICK k \in 1 .. len : StoppedAt(input, len, k, after[len])
      BY <2>8
    <3>2. /\ k \in stops /\ \A j \in 1 .. k - 1 : j \notin stops
          /\ after[len].exit = IF Wrong(input, k) THEN "failure" ELSE "usage"
      BY <3>1 DEF StoppedAt
    <3>3. stops # {} /\ stops \subseteq Nat
      BY <2>2, <3>2 DEF Stops
    <3>4. Min(stops) = k
      <4> HIDE DEF stops
      <4>1. Min(stops) \in stops /\ \A y \in stops : Min(stops) <= y
        BY <3>3, MinIsLeast
      <4>2. Min(stops) \in Nat /\ Min(stops) >= 1
        BY <2>2, <4>1 DEF stops, Stops
      <4> QED BY <2>2, <3>2, <4>1, <4>2
    <3>5. cargs = after[len]
      <4> HIDE DEF cargs
      <4> QED BY <2>4, <3>2
    <3>6. LoopOf(input) = IF Wrong(input, Min(stops)) THEN "failure" ELSE "usage"
      <4>1. cargs.exit = IF Wrong(input, k) THEN "failure" ELSE "usage"
        BY <3>2, <3>5
      <4>2. LoopOf(input) = CASE cargs.exit # "none"      -> cargs.exit
                              [] cargs.exit = "none" /\ cargs.mode = "local"  -> "exec_local_cmd_loop"
                              [] cargs.exit = "none" /\ cargs.mode = "client" -> "exec_remote_cmd_loop"
                              [] cargs.exit = "none" /\ cargs.mode = "server" -> "start_server"
        BY DEF LoopOf
      <4> HIDE DEF cargs, stops
      <4> QED BY <3>4, <4>1, <4>2
    <3> HIDE DEF cargs, asked, stops
    <3> QED BY <3>3, <3>6 DEF OptionsHonoured, cargs, asked, stops
  <2> QED BY <2>5, <2>7, <2>8
<1> QED BY <1>1, InputsTyped, PTL

-----------------------------------------------------------------------------
(* Lines without quotes. *)

\* A scan for tokens and a scan for words find the same at each cell.
FindSame(found, words, C) ==
    \A i \in 1 .. Len(found) :
        \/ found[i] = <<>> /\ words[i] = <<>>
        \/ \E x \in [word : Seq(C), next : Nat] :
              found[i] = <<x>> /\ words[i] = <<x.word>>

\* Then they find the same in all.
LEMMA WordsOfScan ==
    ASSUME NEW C, NEW found \in Seq(Seq([word : Seq(C), next : Nat])),
           NEW words \in Seq(Seq(Seq(C))), Len(words) = Len(found),
           NEW next, Forward(found, next), FindSame(found, words, C)
    PROVE  WordsIn(Scan(found, next)) = Scan(words, next)
<1> DEFINE n == Len(found)
           X == [word : Seq(C), next : Nat]
<1>1. n \in Nat
  BY LenProperties
<1>2. Forward(words, next)
  BY DEF Forward
<1>3. PICK from : Finds(found, next, X, from)
  <2> HIDE DEF X
  <2> QED BY ScanUnfolds DEF X
<1>4. PICK rest : Finds(words, next, Seq(C), rest)
  BY <1>2, ScanUnfolds
<1>5. /\ \A i \in 1 .. n + 1 : from[i] \in Seq(X)
      /\ Scan(found, next) = from[1]
      /\ from[n + 1] = <<>>
      /\ \A i \in 1 .. n : from[i] = found[i] \o from[next[i]]
  <2> HIDE DEF X
  <2> QED BY <1>3 DEF Finds
<1>6. /\ \A i \in 1 .. n + 1 : rest[i] \in Seq(Seq(C))
      /\ Scan(words, next) = rest[1]
      /\ rest[n + 1] = <<>>
      /\ \A i \in 1 .. n : rest[i] = words[i] \o rest[next[i]]
  BY <1>4 DEF Finds
<1>7. \A i \in 1 .. n : next[i] \in i + 1 .. n + 1
  BY DEF Forward
<1> DEFINE H == {i \in 1 .. n + 1 : WordsIn(from[i]) = rest[i]}
<1>8. n + 1 \in H
  BY <1>1, <1>5, <1>6 DEF WordsIn
<1>9. ASSUME NEW i \in 1 .. n, i + 1 .. n + 1 \subseteq H PROVE i \in H
  <2> DEFINE e == next[i]
  <2>1. e \in i + 1 .. n + 1 /\ e \in 1 .. n + 1
    BY <1>1, <1>7
  <2>2. WordsIn(from[e]) = rest[e]
    BY <1>9, <2>1
  <2>3. /\ from[i] = found[i] \o from[e] /\ from[e] \in Seq(X)
        /\ rest[i] = words[i] \o rest[e] /\ rest[e] \in Seq(Seq(C))
    <3> HIDE DEF X, n
    <3> QED BY <1>5, <1>6, <2>1
  <2> HIDE DEF e
  <2>4. CASE found[i] = <<>> /\ words[i] = <<>>
    <3>1. from[i] = from[e] /\ rest[i] = rest[e]
      <4> HIDE DEF X
      <4> QED BY <2>3, <2>4, ConcatEmptySeq
    <3> QED BY <1>1, <2>2, <3>1
  <2>5. CASE \E x \in X : found[i] = <<x>> /\ words[i] = <<x.word>>
    <3>1. PICK x \in X : found[i] = <<x>> /\ words[i] = <<x.word>>
      BY <2>5
    <3>2. WordsIn(<<x>> \o from[e]) = <<x.word>> \o WordsIn(from[e])
      BY <2>3, WordsInFirst
    <3>3. WordsIn(from[i]) = rest[i]
      <4> HIDE DEF X
      <4> QED BY <2>2, <2>3, <3>1, <3>2
    <3> QED BY <1>1, <3>3
  <2> QED BY <2>4, <2>5 DEF FindSame
<1>10. 1 .. n + 1 \subseteq H
  <2> HIDE DEF H, n
  <2> QED BY <1>1, <1>8, <1>9, DownInduction
<1>11. 1 \in 1 .. n + 1
  BY <1>1
<1>12. WordsIn(from[1]) = rest[1]
  BY <1>10, <1>11
<1> QED BY <1>5, <1>6, <1>12

\* Without quotes the words of a command are what its spaces leave.
LEMMA FieldsAreWords ==
    ASSUME NEW C, C \cap Quotes = {}, NEW seg \in Seq(C)
    PROVE  WordsIn(Tokens(seg, {})) = Fields(seg, Space)
<1> DEFINE n == Len(seg)
           X == [word : Seq(C), next : Nat]
           found == [i \in DOMAIN seg |->
                        IF seg[i] = Space \/ Unclosed(seg, i) \/ i \in {} THEN <<>>
                        ELSE <<TokenAt(seg, i)>>]
           next == [i \in DOMAIN seg |-> GoesOn(seg, i)]
           words == [i \in DOMAIN seg |->
                        IF seg[i] = Space THEN <<>>
                        ELSE <<SubSeq(seg, i, First(seg, i, {Space}) - 1)>>]
           goes == [i \in DOMAIN seg |->
                       IF seg[i] = Space THEN i + 1 ELSE First(seg, i, {Space})]
<1>1. n \in Nat /\ DOMAIN seg = 1 .. n /\ \A i \in 1 .. n : seg[i] \notin Quotes
  BY LenProperties, ElementOfSeq
<1>2. Tokens(seg, {}) = Scan(found, next) /\ Fields(seg, Space) = Scan(words, goes)
  BY DEF Tokens, Fields
<1>3. ASSUME NEW i \in 1 .. n
      PROVE  /\ ~Quoted(seg, i) /\ ~Unclosed(seg, i)
             /\ WordEnd(seg, i) = First(seg, i, {Space})
             /\ GoesOn(seg, i) = IF seg[i] = Space THEN i + 1 ELSE First(seg, i, {Space})
             /\ GoesOn(seg, i) \in i + 1 .. n + 1
             /\ seg[i] # Space => /\ TokenAt(seg, i) \in X
                                  /\ TokenAt(seg, i).word
                                        = SubSeq(seg, i, First(seg, i, {Space}) - 1)
  <2>1. ~Quoted(seg, i) /\ ~Unclosed(seg, i)
    BY <1>1 DEF Quoted, Unclosed
  <2>2. {k \in i .. n : seg[k] \in {Space} \cup Quotes} = {k \in i .. n : seg[k] \in {Space}}
    BY <1>1
  <2>3. WordEnd(seg, i) = First(seg, i, {Space})
    BY <2>1, <2>2 DEF WordEnd, First
  <2>4. GoesOn(seg, i) = IF seg[i] = Space THEN i + 1 ELSE First(seg, i, {Space})
    BY <2>1, <2>3 DEF GoesOn
  <2>5. /\ GoesOn(seg, i) \in i + 1 .. n + 1
        /\ seg[i] # Space => TokenAt(seg, i) \in X
    BY <2>1, TokenPlace
  <2>6. TokenAt(seg, i).word = SubSeq(seg, i, First(seg, i, {Space}) - 1)
    BY <2>1, <2>3 DEF TokenAt
  <2> QED BY <2>1, <2>3, <2>4, <2>5, <2>6
<1>4. next = goes
  BY <1>1, <1>3
<1>5. ASSUME NEW i \in 1 .. n
      PROVE  \/ found[i] = <<>> /\ words[i] = <<>>
             \/ \E x \in X : found[i] = <<x>> /\ words[i] = <<x.word>>
  <2>1. CASE seg[i] = Space
    BY <1>1, <2>1
  <2>2. CASE seg[i] # Space
    <3> DEFINE x == TokenAt(seg, i)
    <3>1. x \in X /\ found[i] = <<x>> /\ words[i] = <<x.word>>
      BY <1>1, <1>3, <2>2
    <3> HIDE DEF x, X, found, words
    <3> QED BY <3>1
  <2> QED BY <2>1, <2>2
<1>6. \A i \in 1 .. n : next[i] \in i + 1 .. n + 1
  BY <1>1, <1>3
<1>7. DOMAIN found = 1 .. n /\ DOMAIN words = 1 .. n
  BY <1>1
<1>8. found = [i \in 1 .. n |-> found[i]] /\ words = [i \in 1 .. n |-> words[i]]
  BY <1>1
<1> HIDE DEF found, words, next, goes, X
<1>9. \A i \in 1 .. n : found[i] \in Seq(X) /\ words[i] \in Seq(Seq(C))
  <2>1. ASSUME NEW i \in 1 .. n PROVE found[i] \in Seq(X) /\ words[i] \in Seq(Seq(C))
    <3>1. CASE found[i] = <<>> /\ words[i] = <<>>
      BY <3>1, EmptySeq
    <3>2. CASE \E x \in X : found[i] = <<x>> /\ words[i] = <<x.word>>
      <4>1. PICK x \in X : found[i] = <<x>> /\ words[i] = <<x.word>>
        BY <3>2
      <4>2. x.word \in Seq(C)
        BY <4>1 DEF X
      <4> QED BY <4>1, <4>2
    <3> QED BY <1>5, <3>1, <3>2
  <2> QED BY <2>1
<1> HIDE DEF n
<1>10. found \in Seq(Seq(X)) /\ Len(found) = n /\ words \in Seq(Seq(Seq(C))) /\ Len(words) = n
  <2>1. found \in [1 .. n -> Seq(X)] /\ words \in [1 .. n -> Seq(Seq(C))]
    BY <1>8, <1>9
  <2>2. found \in Seq(Seq(X)) /\ Len(found) = n
    BY <1>1, <2>1, FunctionIsSeq
  <2>3. words \in Seq(Seq(Seq(C))) /\ Len(words) = n
    BY <1>1, <2>1, FunctionIsSeq
  <2> QED BY <2>2, <2>3
<1>11. Forward(found, next)
  BY <1>6, <1>10 DEF Forward
<1>12. WordsIn(Scan(found, next)) = Scan(words, next)
  <2>1. Len(words) = Len(found) /\ found \in Seq(Seq(X))
    BY <1>10
  <2>2. FindSame(found, words, C)
    BY <1>5, <1>10 DEF FindSame, X
  <2>3. found \in Seq(Seq([word : Seq(C), next : Nat]))
    BY <2>1 DEF X
  <2> QED BY <1>10, <1>11, <2>1, <2>2, <2>3, WordsOfScan
<1> QED BY <1>2, <1>4, <1>12

\* What build_cmd_list makes of one command.
ExeOf(seg) == IF Fields(seg, Space) = <<>> THEN <<>>
              ELSE SubSeq(Fields(seg, Space)[1], 1,
                          Min({Len(Fields(seg, Space)[1]), EXE_MAX - 1}))
ArgsOf(seg) == IF Fields(seg, Space) = <<>> THEN <<>> ELSE Tail(Fields(seg, Space))

\* The words of one command of a line without quotes, for the pipeline shell and
\* for the first shell.
LEMMA CommandAgrees ==
    ASSUME NEW D, D \cap Quotes = {}, NEW seg \in Seq(D), ~TooBig(seg, {})
    PROVE  /\ Words(seg, {}) = Fields(seg, Space)
           /\ Words(seg, {}) # <<>> =>
                 /\ IsPrefix(ExeOf(seg), Words(seg, {})[1])
                 /\ Len(ExeOf(seg)) = Min({Len(Words(seg, {})[1]), EXE_MAX - 1})
<1> DEFINE exe == ExeOf(seg)
           words == Words(seg, {})
           w == words[1]
           m == Min({Len(w), EXE_MAX - 1})
<1>1. words = Fields(seg, Space)
  BY WordsKept, WordsAreSpans, FieldsAreWords
<1>2. words \in Seq(Seq(D))
  BY WordsFound
<1>3. ASSUME words # <<>>
      PROVE  IsPrefix(exe, w) /\ Len(exe) = m
  <2>1. w \in Seq(D)
    <3>1. 1 \in 1 .. Len(words)
      <4> HIDE DEF words
      <4> QED BY <1>2, <1>3, EmptySeq
    <3> HIDE DEF words
    <3> QED BY <1>2, <3>1, ElementOfSeq
  <2>2. exe = SubSeq(w, 1, m)
    BY <1>1, <1>3 DEF ExeOf
  <2> HIDE DEF words, w, exe
  <2>3. Len(w) \in Nat /\ EXE_MAX - 1 \in Nat
    BY <2>1, LenProperties, ExeMaxAssumption
  <2>4. m \in Nat /\ m <= Len(w)
    <3> DEFINE S == {Len(w), EXE_MAX - 1}
    <3>1. S \subseteq Nat /\ S # {}
      BY <2>3
    <3>2. Min(S) \in S /\ \A y \in S : Min(S) <= y
      <4> HIDE DEF S
      <4> QED BY <3>1, MinIsLeast
    <3> QED BY <2>3, <3>2
  <2> HIDE DEF m
  <2>5. Len(exe) = m /\ exe \in Seq(D) /\ \A i \in 1 .. m : exe[i] = w[i]
    <3>1. \A i \in 1 .. m : w[i] \in D
      <4>1. \A i \in 1 .. m : i \in 1 .. Len(w)
        BY <2>3, <2>4
      <4> QED BY <2>1, <4>1, ElementOfSeq
    <3>2. /\ SubSeq(w, 1, m) \in Seq(D)
          /\ Len(SubSeq(w, 1, m)) = IF 1 <= m THEN m - 1 + 1 ELSE 0
          /\ \A i \in 1 .. m - 1 + 1 : SubSeq(w, 1, m)[i] = w[1 + i - 1]
      BY <2>4, <3>1, SubSeqProperties
    <3>3. m - 1 + 1 = m /\ \A i \in 1 .. m : 1 + i - 1 = i
      BY <2>4
    <3>4. Len(SubSeq(w, 1, m)) = m
      BY <2>4, <3>2, <3>3
    <3> QED BY <2>2, <3>2, <3>3, <3>4
  <2>6. SubSeq(exe, 1, Len(exe)) = exe
    BY <2>5, SubSeqFull
  <2>7. IsPrefix(exe, w)
    BY <2>2, <2>4, <2>5, <2>6 DEF IsPrefix
  <2> QED BY <2>5, <2>7
<1> QED BY <1>1, <1>3

\* The first shell parses each of the commands it takes like that.
LEMMA ListRead ==
    ASSUME NEW text
    PROVE  /\ build_cmd_list(text).cmds =
                 [k \in DOMAIN Taken(text, {}) |->
                    [exe |-> ExeOf(Taken(text, {})[k]), args |-> ArgsOf(Taken(text, {})[k])]]
           /\ build_cmd_list(text).rc =
                 IF TooMany(text) THEN ERR_TOO_MANY_COMMANDS ELSE OK
BY DEF build_cmd_list, ExeOf, ArgsOf

\* A line without quotes means the same to the four parsers, whatever its length
\* and the limits.
THEOREM AgreeingParsers == Spec => []ParsersAgree
<1>1. InputTyped => ParsersAgree
  <2> SUFFICES ASSUME InputTyped, kind = "line", ToSet(input) \cap Quotes = {},
                      ParseLine(input, {}).rc = OK
               PROVE  LET cmds == ParseLine(input, {}).cmds
                          list == build_cmd_list(input)
                      IN /\ ParseWords(input, {}) = FlattenSeq(cmds)
                         /\ list.rc = OK /\ DOMAIN list.cmds = DOMAIN cmds
                         /\ \A k \in DOMAIN cmds :
                               IF cmds[k] = <<>> THEN list.cmds[k].exe = <<>>
                               ELSE /\ list.cmds[k].args = Tail(cmds[k])
                                    /\ IsPrefix(list.cmds[k].exe, cmds[k][1])
                                    /\ Len(list.cmds[k].exe)
                                          = Min({Len(cmds[k][1]), EXE_MAX - 1})
    BY DEF ParsersAgree
  <2> DEFINE D == Cells["line"] \ Quotes
             segs == Commands(input)
             taken == Taken(input, {})
             cmds == ParseLine(input, {}).cmds
             list == build_cmd_list(input)
  <2>1. input \in Seq(D)
    <3>1. input \in Seq(Cells["line"])
      BY DEF InputTyped
    <3>2. Len(input) \in Nat /\ DOMAIN input = 1 .. Len(input)
      BY <3>1, LenProperties
    <3>3. \A i \in 1 .. Len(input) : input[i] \in Cells["line"] /\ input[i] \notin Quotes
      BY <3>1, <3>2, ElementOfSeq DEF ToSet
    <3>4. input \in [1 .. Len(input) -> D]
      <4>1. input \in [1 .. Len(input) -> Cells["line"]]
        BY <3>1, LenProperties
      <4> QED BY <3>3, <4>1
    <3> HIDE DEF D
    <3> QED BY <3>2, <3>4, FunctionIsSeq
  <2>2. D \cap Quotes = {}
    OBVIOUS
  <2> HIDE DEF D
  <2>3. /\ cmds = [k \in DOMAIN taken |-> Words(taken[k], {})]
        /\ ~Starved(input, {}) /\ ~TooMany(input) /\ \A k \in DOMAIN taken : ~TooBig(taken[k], {})
    <3> DEFINE parsed == ParseLine(input, {})
    <3>1. parsed \in {parse_buffer_into_cmd(input, {}), ParseLine(input, {})} /\ parsed.rc = OK
      OBVIOUS
    <3> HIDE DEF parsed
    <3>2. /\ parsed.cmds = [k \in DOMAIN taken |-> Words(taken[k], {})]
          /\ ~Starved(input, {}) /\ ~TooMany(input)
          /\ \A k \in DOMAIN taken : ~TooBig(taken[k], {})
      BY <3>1, LineTaken, NoneLost
    <3> QED BY <3>2 DEF parsed
  <2>4. /\ segs \in Seq(Seq(D)) /\ Len(segs) \in Nat /\ DOMAIN segs = 1 .. Len(segs)
        /\ DOMAIN taken = DOMAIN segs
        /\ \A k \in DOMAIN segs : taken[k] = segs[k] /\ segs[k] \in Seq(D)
    BY <2>1, <2>3, CommandsTaken
  <2>5. /\ list.cmds = [k \in DOMAIN taken |->
                            [exe |-> ExeOf(taken[k]), args |-> ArgsOf(taken[k])]]
        /\ list.rc = IF TooMany(input) THEN ERR_TOO_MANY_COMMANDS ELSE OK
    BY ListRead
  <2>6. Fields(input, Pipe) = segs
    BY DEF Commands
  <2> HIDE DEF segs, taken, cmds, list
  <2>7. ASSUME NEW k \in DOMAIN segs
        PROVE  /\ Words(segs[k], {}) = Fields(segs[k], Space)
               /\ Words(segs[k], {}) # <<>> =>
                     /\ IsPrefix(ExeOf(segs[k]), Words(segs[k], {})[1])
                     /\ Len(ExeOf(segs[k])) = Min({Len(Words(segs[k], {})[1]), EXE_MAX - 1})
    <3> DEFINE seg == segs[k]
    <3>1. seg \in Seq(D) /\ ~TooBig(seg, {})
      BY <2>3, <2>4
    <3> HIDE DEF seg
    <3>2. /\ Words(seg, {}) = Fields(seg, Space)
          /\ Words(seg, {}) # <<>> =>
                /\ IsPrefix(ExeOf(seg), Words(seg, {})[1])
                /\ Len(ExeOf(seg)) = Min({Len(Words(seg, {})[1]), EXE_MAX - 1})
      BY <2>2, <3>1, CommandAgrees
    <3> QED BY <3>2 DEF seg
  <2>8. cmds = [k \in DOMAIN segs |-> Words(segs[k], {})]
    BY <2>3, <2>4
  <2>9. ParseWords(input, {}) = FlattenSeq(cmds)
    <3>1. ASSUME NEW k \in DOMAIN segs
          PROVE  WordsIn(Tokens(segs[k], Lost({}, k))) = Words(segs[k], {})
      <4> DEFINE seg == segs[k]
      <4>1. seg \in Seq(D) /\ ~TooBig(seg, {})
        BY <2>3, <2>4
      <4> HIDE DEF seg
      <4>2. WordsIn(Tokens(seg, {})) = Words(seg, {})
        BY <4>1, WordsKept, WordsAreSpans
      <4> QED BY <4>2, NoneLost DEF seg
    <3>2. ParseWords(input, {}) = Joined(cmds)
      <4>1. [k \in DOMAIN segs |-> WordsIn(Tokens(segs[k], Lost({}, k)))] = cmds
        BY <2>8, <3>1
      <4> QED BY <2>6, <4>1 DEF ParseWords
    <3>3. \A k \in 1 .. Len(segs) : Words(segs[k], {}) \in Seq(Seq(D))
      BY <2>4, WordsFound
    <3>4. cmds \in [1 .. Len(segs) -> Seq(Seq(D))]
      BY <2>4, <2>8, <3>3
    <3>5. cmds \in Seq(Seq(Seq(D)))
      BY <2>4, <3>4, FunctionIsSeq
    <3> QED BY <3>2, <3>5, FlattenIsJoined
  <2>10. list.rc = OK /\ DOMAIN list.cmds = DOMAIN cmds
    BY <2>3, <2>5
  <2>11. ASSUME NEW k \in DOMAIN cmds
         PROVE  IF cmds[k] = <<>> THEN list.cmds[k].exe = <<>>
                ELSE /\ list.cmds[k].args = Tail(cmds[k])
                     /\ IsPrefix(list.cmds[k].exe, cmds[k][1])
                     /\ Len(list.cmds[k].exe) = Min({Len(cmds[k][1]), EXE_MAX - 1})
    <3>1. k \in DOMAIN segs /\ cmds[k] = Words(segs[k], {})
          /\ k \in DOMAIN taken /\ taken[k] = segs[k]
      BY <2>3, <2>4, <2>8
    <3>2. list.cmds[k].exe = ExeOf(segs[k]) /\ list.cmds[k].args = ArgsOf(segs[k])
      <4>1. list.cmds = [j \in DOMAIN taken |-> [exe |-> ExeOf(taken[j]), args |-> ArgsOf(taken[j])]]
        BY <2>5
      <4>2. list.cmds[k] = [exe |-> ExeOf(taken[k]), args |-> ArgsOf(taken[k])]
        BY <3>1, <4>1
      <4> QED BY <3>1, <4>2
    <3>3. CASE cmds[k] = <<>>
      <4>1. ExeOf(segs[k]) = <<>>
        BY <2>7, <3>1, <3>3 DEF ExeOf
      <4> QED BY <3>2, <3>3, <4>1
    <3>4. CASE cmds[k] # <<>>
      <4>1. ArgsOf(segs[k]) = Tail(cmds[k])
        BY <2>7, <3>1, <3>4 DEF ArgsOf
      <4>2. /\ IsPrefix(ExeOf(segs[k]), cmds[k][1])
            /\ Len(ExeOf(segs[k])) = Min({Len(cmds[k][1]), EXE_MAX - 1})
        BY <2>7, <3>1, <3>4
      <4> QED BY <3>2, <3>4, <4>1, <4>2
    <3> QED BY <3>3, <3>4
  <2> QED BY <2>9, <2>10, <2>11 DEF cmds, list
<1> QED BY <1>1, InputsTyped, PTL

=============================================================================
