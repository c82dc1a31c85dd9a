---------------------------- MODULE ParserProofs ----------------------------
(***************************************************************************)
(* What the parsers compute for every line, of any length, and for any     *)
(* limits: that a scan always goes forward and ends (ScanUnfolds, by       *)
(* induction from the end of the text), what the fields, tokens and words  *)
(* of a text are made of, how many there can be, and what a command        *)
(* without a word looks like (WordsFound).  The induction is that of a     *)
(* least member, which needs sets and no operators (LeastMember).          *)
(***************************************************************************)
EXTENDS CmdParser, SequenceTheorems, WellFoundedInduction, TLAPS

Less == {p \in Nat \X Nat : p[1] < p[2]}

\* Every set of natural numbers that is not empty has a least member.
LEMMA LeastMember ==
    ASSUME NEW S, S \subseteq Nat, S # {}
    PROVE  \E x \in S : \A y \in S : x <= y
<1>1. IsWellFoundedOn(Less, Nat)
  <2>1. OpToRel(<, Nat) = Less
    BY DEF OpToRel, Less
  <2> QED BY <2>1, NatLessThanWellFounded
<1>2. PICK x \in S : \A y \in S : <<y, x>> \notin Less
  BY <1>1, WFMin
<1>3. ASSUME NEW y \in S PROVE x <= y
  <2>1. y \in Nat /\ x \in Nat
    OBVIOUS
  <2>2. <<y, x>> \in Nat \X Nat /\ <<y, x>>[1] = y /\ <<y, x>>[2] = x
    BY <2>1
  <2>3. ~ (y < x)
    BY <1>2, <2>2 DEF Less
  <2> QED BY <2>1, <2>3
<1> QED BY <1>3

\* Min finds it.
LEMMA MinIsLeast ==
    ASSUME NEW S, S \subseteq Nat, S # {}
    PROVE  Min(S) \in S /\ \A y \in S : Min(S) <= y
BY LeastMember DEF Min

\* Induction from the end of a text to its first cell.
LEMMA DownInduction ==
    ASSUME NEW n \in Nat, NEW G, n + 1 \in G,
           \A i \in 1 .. n : i + 1 .. n + 1 \subseteq G => i \in G
    PROVE  1 .. n + 1 \subseteq G
<1> DEFINE S == {k \in Nat : k <= n /\ n + 1 - k \notin G}
<1>1. SUFFICES ASSUME S # {} PROVE FALSE
  <2>1. ASSUME NEW i \in 1 .. n + 1, i \notin G PROVE FALSE
    <3>1. n + 1 - i \in S
      BY <2>1
    <3> QED BY <1>1, <3>1
  <2> QED BY <2>1
<1>2. PICK k \in S : \A m \in S : k <= m
  <2>1. S \subseteq Nat
    OBVIOUS
  <2> HIDE DEF S
  <2> QED BY <1>1, <2>1, LeastMember
<1>3. k # 0
  OBVIOUS
<1>4. \A m \in n + 2 - k .. n + 1 : m \in G
  <2>1. ASSUME NEW m \in n + 2 - k .. n + 1, m \notin G PROVE FALSE
    <3>1. n + 1 - m \in S /\ n + 1 - m < k
      BY <2>1
    <3> QED BY <1>2, <3>1
  <2> QED BY <2>1
<1>5. n + 1 - k \in 1 .. n
  BY <1>3
<1> QED BY <1>4, <1>5

-----------------------------------------------------------------------------
\* The scan always goes forward.
Forward(found, next) ==
    \A i \in 1 .. Len(found) : next[i] \in i + 1 .. Len(found) + 1

\* What is found from each of the cells on.
Finds(found, next, X, from) ==
    /\ \A i \in 1 .. Len(found) + 1 : from[i] \in Seq(X)
    /\ Scan(found, next) = from[1]
    /\ from[Len(found) + 1] = <<>>
    /\ \A i \in 1 .. Len(found) : from[i] = found[i] \o from[next[i]]

\* A scan that always goes forward finds at each cell what is there, and then
\* what it finds from the next one on.
LEMMA ScanUnfolds ==
    ASSUME NEW X, NEW found \in Seq(Seq(X)), NEW next, Forward(found, next)
    PROVE  \E from : Finds(found, next, X, from)
<1> DEFINE n == Len(found)
           Step(h, i) == IF i \in DOMAIN found THEN found[i] \o h[next[i]] ELSE <<>>
           Partial(h, i) == \A j \in i .. n + 1 : h[j] = Step(h, j)
           G == {i \in 1 .. n + 1 :
                    \E h \in [i .. n + 1 -> Seq(X)] : Partial(h, i)}
<1>0. n \in Nat /\ DOMAIN found = 1 .. n /\ \A i \in 1 .. n : found[i] \in Seq(X)
  BY LenProperties, ElementOfSeq
<1>a. \A s, t : s \in Seq(X) /\ t \in Seq(X) => s \o t \in Seq(X)
  BY ConcatProperties
<1>b. <<>> \in Seq(X)
  BY EmptySeq
<1> HIDE DEF n
<1>c. ASSUME NEW h, NEW i \in Nat \ (1 .. n) PROVE Step(h, i) = <<>>
  BY <1>0
<1>c1. n + 1 \in Nat \ (1 .. n)
  BY <1>0
<1>d. ASSUME NEW h, NEW i \in 1 .. n PROVE Step(h, i) = found[i] \o h[next[i]]
  <2>1. i \in DOMAIN found
    BY <1>0
  <2> QED BY <2>1
<1>e. \A i \in 1 .. n : next[i] \in i + 1 .. n + 1
  BY DEF n, Forward
<1> HIDE DEF Step
<1>1. n + 1 \in G
  <2> DEFINE h == [j \in n + 1 .. n + 1 |-> <<>>]
  <2>1. h \in [n + 1 .. n + 1 -> Seq(X)]
    BY <1>b
  <2>2. Partial(h, n + 1)
    BY <1>0, <1>c, <1>c1
  <2> HIDE DEF h
  <2> QED BY <1>0, <2>1, <2>2
<1>2. ASSUME NEW i \in 1 .. n, i + 1 .. n + 1 \subseteq G PROVE i \in G
  <2>1. i + 1 \in G
    <3>1. i + 1 \in i + 1 .. n + 1
      BY <1>0
    <3> HIDE DEF G
    <3> QED BY <1>2, <3>1
  <2>2. PICK h \in [i + 1 .. n + 1 -> Seq(X)] : Partial(h, i + 1)
    BY <2>1
  <2> DEFINE first == found[i] \o h[next[i]]
  <2>3. next[i] \in i + 1 .. n + 1
    BY <1>e
  <2>4. first \in Seq(X)
    BY <1>0, <1>a, <2>3
  <2> HIDE DEF first
  <2> DEFINE g == [j \in i .. n + 1 |-> IF j = i THEN first ELSE h[j]]
  <2>5. g \in [i .. n + 1 -> Seq(X)]
    BY <1>0, <2>4
  <2>6. \A j \in i + 1 .. n + 1 : g[j] = h[j]
    BY <1>0
  <2>7. g[i] = first
    BY <1>0
  <2> HIDE DEF g
  <2>8. ASSUME NEW j \in i .. n + 1 PROVE g[j] = Step(g, j)
    <3>1. CASE j = i
      <4>1. first = found[i] \o g[next[i]]
        BY <2>3, <2>6 DEF first
      <4> QED BY <1>d, <2>7, <3>1, <4>1
    <3>2. CASE j \in i + 1 .. n
      <4>1. next[j] \in i + 1 .. n + 1 /\ j \in i + 1 .. n + 1 /\ j \in 1 .. n
        BY <1>0, <1>e, <3>2, SMTT(30)
      <4>2. h[j] = found[j] \o h[next[j]]
        BY <1>d, <2>2, <4>1
      <4>3. g[j] = found[j] \o g[next[j]]
        BY <2>6, <4>1, <4>2
      <4> QED BY <1>d, <4>1, <4>3
    <3>3. CASE j = n + 1
      <4>1. j \in i + 1 .. n + 1
        BY <1>0, <3>3
      <4>2. h[j] = <<>> /\ g[j] = h[j]
        BY <1>c, <1>c1, <2>2, <2>6, <3>3, <4>1
      <4> QED BY <1>c, <1>c1, <3>3, <4>2
    <3> QED BY <1>0, <3>1, <3>2, <3>3
  <2>9. Partial(g, i)
    BY <2>8
  <2> HIDE DEF Partial
  <2>10. i \in 1 .. n + 1
    BY <1>0
  <2> QED BY <2>5, <2>9, <2>10
<1>3. 1 \in G
  <2>1. 1 .. n + 1 \subseteq G
    <3> HIDE DEF G
    <3> QED BY <1>0, <1>1, <1>2, DownInduction
  <2> HIDE DEF G
  <2> QED BY <1>0, <2>1
<1>4. PICK h \in [1 .. n + 1 -> Seq(X)] : Partial(h, 1)
  BY <1>3
<1> DEFINE g == [i \in Nat |-> IF i \in 1 .. n THEN h[i] ELSE <<>>]
<1>5. g = [i \in Nat |-> Step(g, i)]
  <2>1. \A i \in 1 .. n + 1 : g[i] = h[i]
    <3>1. h[n + 1] = <<>> /\ n + 1 \in Nat /\ n + 1 \notin 1 .. n
      BY <1>0, <1>4, <1>c, <1>c1
    <3>2. \A i \in 1 .. n + 1 : i \in Nat /\ (i \in 1 .. n \/ i = n + 1)
      BY <1>0
    <3> QED BY <3>1, <3>2
  <2>2. \A i \in Nat \ (1 .. n) : g[i] = <<>>
    OBVIOUS
  <2>3. g = [i \in Nat |-> g[i]]
    OBVIOUS
  <2> HIDE DEF g
  <2>4. ASSUME NEW i \in Nat PROVE g[i] = Step(g, i)
    <3>1. CASE i \in 1 .. n
      <4>1. i \in 1 .. n + 1 /\ next[i] \in 1 .. n + 1
        BY <1>0, <1>e, <3>1
      <4>2. h[i] = found[i] \o h[next[i]]
        BY <1>4, <1>d, <3>1, <4>1
      <4>3. g[i] = found[i] \o g[next[i]]
        BY <2>1, <4>1, <4>2
      <4> QED BY <1>d, <3>1, <4>3
    <3>2. CASE i \notin 1 .. n
      BY <1>c, <2>2, <3>2
    <3> QED BY <3>1, <3>2
  <2> QED BY <2>3, <2>4
<1> HIDE DEF g
<1> DEFINE from == CHOOSE f : f = [i \in Nat |-> Step(f, i)]
<1>6. from = [i \in Nat |-> Step(from, i)]
  BY <1>5
<1>7. Scan(found, next) = from[1]
  BY DEF Scan, Step
<1> HIDE DEF from
<1>8. \A i \in Nat \ (1 .. n) : from[i] = <<>>
  BY <1>6, <1>c
<1>9. ASSUME NEW i \in 1 .. n PROVE from[i] = found[i] \o from[next[i]]
  <2>1. i \in Nat
    BY <1>0
  <2> QED BY <1>6, <1>d, <2>1
<1>10. \A i \in 1 .. n + 1 : from[i] \in Seq(X)
  <2> DEFINE H == {i \in 1 .. n + 1 : from[i] \in Seq(X)}
  <2>1. n + 1 \in H
    <3>1. n + 1 \in 1 .. n + 1
      BY <1>0
    <3> QED BY <1>8, <1>b, <1>c1, <3>1
  <2>2. ASSUME NEW i \in 1 .. n, i + 1 .. n + 1 \subseteq H PROVE i \in H
    <3>1. next[i] \in i + 1 .. n + 1
      BY <1>e
    <3>2. from[next[i]] \in Seq(X)
      BY <2>2, <3>1
    <3>3. found[i] \o from[next[i]] \in Seq(X)
      BY <1>0, <1>a, <3>2
    <3>4. i \in 1 .. n + 1
      BY <1>0
    <3> QED BY <1>9, <3>3, <3>4
  <2>3. 1 .. n + 1 \subseteq H
    <3> HIDE DEF H
    <3> QED BY <1>0, <2>1, <2>2, DownInduction
  <2> QED BY <2>3
<1>11. Finds(found, next, X, from)
  BY <1>7, <1>8, <1>9, <1>10, <1>c1 DEF n, Finds
<1> QED BY <1>11

\* A scan that finds at most one thing at each cell finds no more than there
\* are cells.
LEMMA ScanBounded ==
    ASSUME NEW X, NEW found \in Seq(Seq(X)), NEW next, Forward(found, next),
           \A i \in 1 .. Len(found) : Len(found[i]) <= 1
    PROVE  Scan(found, next) \in Seq(X) /\ Len(Scan(found, next)) <= Len(found)
<1> DEFINE n == Len(found)
<1>0. n \in Nat /\ \A i \in 1 .. n : found[i] \in Seq(X)
  BY LenProperties, ElementOfSeq
<1>a. PICK from : Finds(found, next, X, from)
  BY ScanUnfolds
<1>1. /\ \A i \in 1 .. n + 1 : from[i] \in Seq(X)
      /\ Scan(found, next) = from[1]
      /\ from[n + 1] = <<>>
      /\ \A i \in 1 .. n : from[i] = found[i] \o from[next[i]]
  BY <1>a DEF Finds
<1>2. \A i \in 1 .. n : next[i] \in i + 1 .. n + 1 /\ Len(found[i]) <= 1
  BY DEF Forward
<1> HIDE DEF n
<1> DEFINE H == {i \in 1 .. n + 1 : Len(from[i]) <= n + 1 - i}
<1>3. n + 1 \in H
  <2>1. Len(from[n + 1]) = 0
    BY <1>1, EmptySeq
  <2> QED BY <1>0, <2>1
<1>4. ASSUME NEW i \in 1 .. n, i + 1 .. n + 1 \subseteq H PROVE i \in H
  <2>1. next[i] \in i + 1 .. n + 1 /\ next[i] \in 1 .. n + 1 /\ i \in 1 .. n + 1
    BY <1>0, <1>2
  <2>2. Len(from[next[i]]) <= n + 1 - next[i]
    BY <1>4, <2>1
  <2>3. found[i] \in Seq(X) /\ from[next[i]] \in Seq(X)
    BY <1>0, <1>1, <2>1
  <2>4. Len(found[i] \o from[next[i]]) = Len(found[i]) + Len(from[next[i]])
    BY <2>3, ConcatProperties
  <2>5. Len(found[i]) \in Nat /\ Len(from[next[i]]) \in Nat
    BY <2>3, LenProperties
  <2>6. Len(from[i]) = Len(found[i]) + Len(from[next[i]])
    BY <1>1, <2>4
  <2>7. Len(found[i]) <= 1 /\ i \in Nat /\ next[i] \in Nat /\ next[i] >= i + 1
    BY <1>0, <1>2, <2>1
  <2>8. Len(from[i]) <= n + 1 - i
    <3> DEFINE a == Len(found[i])
               b == Len(from[next[i]])
               m == next[i]
    <3>1. a \in Nat /\ b \in Nat /\ m \in Nat /\ a <= 1 /\ m >= i + 1 /\ b <= n + 1 - m
      BY <2>2, <2>5, <2>7
    <3>2. Len(from[i]) = a + b
      BY <2>6
    <3>3. i \in Nat
      OBVIOUS
    <3> HIDE DEF a, b, m
    <3> QED BY <1>0, <3>1, <3>2, <3>3
  <2> QED BY <2>1, <2>8
<1>5. 1 .. n + 1 \subseteq H
  <2> HIDE DEF H
  <2> QED BY <1>0, <1>3, <1>4, DownInduction
<1>6. 1 \in 1 .. n + 1
  BY <1>0
<1>7. Len(from[1]) <= n + 1 - 1
  BY <1>5, <1>6
<1>8. from[1] \in Seq(X)
  BY <1>1, <1>6
<1> QED BY <1>0, <1>1, <1>7, <1>8 DEF n

\* What the scan finds comes from the cells.
LEMMA ScanTyped ==
    ASSUME NEW X, NEW found \in Seq(Seq(X)), NEW next, Forward(found, next)
    PROVE  Scan(found, next) \in Seq(X)
<1>1. PICK from : Finds(found, next, X, from)
  BY ScanUnfolds
<1>2. 1 \in 1 .. Len(found) + 1
  BY LenProperties
<1> QED BY <1>1, <1>2 DEF Finds

\* The members of sequences of X are members of X.
LEMMA JoinedTyped ==
    ASSUME NEW X, NEW seqs \in Seq(Seq(X))
    PROVE  Joined(seqs) \in Seq(X)
<1> DEFINE next == [k \in DOMAIN seqs |-> k + 1]
<1>1. Len(seqs) \in Nat /\ DOMAIN seqs = 1 .. Len(seqs)
  BY LenProperties
<1>2. Forward(seqs, next)
  BY <1>1 DEF Forward
<1> HIDE DEF next
<1>3. Scan(seqs, next) \in Seq(X)
  BY <1>2, ScanTyped
<1> QED BY <1>3 DEF Joined, next

-----------------------------------------------------------------------------
\* First finds the first of the stops, and stops at the end of the text.
LEMMA FirstStop ==
    ASSUME NEW C, NEW text \in Seq(C), NEW i \in 1 .. Len(text) + 1, NEW stops
    PROVE  /\ First(text, i, stops) \in i .. Len(text) + 1
           /\ \A k \in i .. First(text, i, stops) - 1 : text[k] \notin stops
           /\ First(text, i, stops) <= Len(text) => text[First(text, i, stops)] \in stops
<1> DEFINE n == Len(text)
           S == {k \in i .. n : text[k] \in stops} \cup {n + 1}
<1>0. n \in Nat
  BY LenProperties
<1>1. S \subseteq Nat /\ S # {} /\ S \subseteq i .. n + 1
  BY <1>0
<1>2. First(text, i, stops) = Min(S)
  BY DEF First
<1>3. \A k \in S : k <= n => text[k] \in stops
  BY <1>0
<1>4. \A k \in i .. n : text[k] \in stops => k \in S
  OBVIOUS
<1> HIDE DEF S
<1>5. Min(S) \in S /\ \A k \in S : Min(S) <= k
  BY <1>1, MinIsLeast
<1>6. Min(S) \in i .. n + 1
  BY <1>1, <1>5
<1>7. ASSUME NEW k \in i .. Min(S) - 1 PROVE text[k] \notin stops
  <2>1. k \in i .. n /\ k < Min(S)
    BY <1>0, <1>6
  <2> QED BY <1>0, <1>4, <1>5, <1>6, <2>1
<1> QED BY <1>2, <1>3, <1>5, <1>6, <1>7

\* A function on the numbers from 1 to n is a sequence of length n.
LEMMA FunctionIsSeq ==
    ASSUME NEW X, NEW n \in Nat, NEW f \in [1 .. n -> X]
    PROVE  f \in Seq(X) /\ Len(f) = n /\ DOMAIN f = 1 .. n
<1>1. f \in Seq(X)
  BY SeqDef
<1>2. DOMAIN f = 1 .. n
  OBVIOUS
<1>3. DOMAIN f = 1 .. Len(f) /\ Len(f) \in Nat
  BY <1>1, LenProperties
<1> QED BY <1>1, <1>2, <1>3

\* Each stretch between separators is made of cells of the text, and no longer
\* than the text.
LEMMA FieldsTyped ==
    ASSUME NEW C, NEW text \in Seq(C), NEW sep
    PROVE  /\ Fields(text, sep) \in Seq(Seq(C))
           /\ \A k \in 1 .. Len(Fields(text, sep)) :
                 Len(Fields(text, sep)[k]) <= Len(text)
<1> DEFINE n == Len(text)
           X == {s \in Seq(C) : Len(s) <= n}
           found == [i \in DOMAIN text |->
                        IF text[i] = sep THEN <<>>
                        ELSE <<SubSeq(text, i, First(text, i, {sep}) - 1)>>]
           next == [i \in DOMAIN text |->
                       IF text[i] = sep THEN i + 1 ELSE First(text, i, {sep})]
<1>0. n \in Nat /\ DOMAIN text = 1 .. n
  BY LenProperties
<1>1. ASSUME NEW i \in 1 .. n PROVE found[i] \in Seq(X) /\ next[i] \in i + 1 .. n + 1
  <2>1. CASE text[i] = sep
    <3>1. <<>> \in Seq(X)
      BY EmptySeq
    <3> HIDE DEF X
    <3> QED BY <1>0, <2>1, <3>1
  <2>2. CASE text[i] # sep
    <3> DEFINE end == First(text, i, {sep})
    <3>1. i \in 1 .. n + 1
      BY <1>0
    <3>2. end \in i .. n + 1 /\ (end <= n => text[end] \in {sep})
      BY <3>1, FirstStop
    <3>3. end \in i + 1 .. n + 1
      BY <1>0, <2>2, <3>2
    <3> HIDE DEF end
    <3>4. SubSeq(text, i, end - 1) \in Seq(C) /\ Len(SubSeq(text, i, end - 1)) <= n
      <4>1. /\ SubSeq(text, i, end - 1) \in Seq(C)
            /\ Len(SubSeq(text, i, end - 1)) = IF i <= end - 1 THEN end - 1 - i + 1 ELSE 0
        BY <1>0, <3>3, SubSeqProperties
      <4> QED BY <1>0, <3>3, <4>1
    <3>5. SubSeq(text, i, end - 1) \in X
      BY <3>4
    <3>6. <<SubSeq(text, i, end - 1)>> \in Seq(X)
      <4> HIDE DEF X
      <4> QED BY <3>5
    <3> HIDE DEF X
    <3> QED BY <1>0, <2>2, <3>3, <3>6 DEF end
  <2> QED BY <2>1, <2>2
<1> HIDE DEF X
<1>2. found \in [1 .. n -> Seq(X)]
  BY <1>0, <1>1
<1>3. found \in Seq(Seq(X)) /\ Len(found) = n
  BY <1>0, <1>2, FunctionIsSeq
<1>4. Forward(found, next)
  BY <1>1, <1>3 DEF Forward
<1>5. Fields(text, sep) = Scan(found, next)
  BY DEF Fields
<1> HIDE DEF found, next
<1>6. Fields(text, sep) \in Seq(X)
  BY <1>3, <1>4, <1>5, ScanTyped
<1>7. \A k \in 1 .. Len(Fields(text, sep)) : Fields(text, sep)[k] \in X
  BY <1>6, ElementOfSeq
<1>8. \A s \in X : s \in Seq(C) /\ Len(s) <= n
  BY DEF X
<1>9. X \subseteq Seq(C)
  BY <1>8
<1>10. Fields(text, sep) \in Seq(Seq(C))
  BY <1>6, <1>9, SeqMonotonic
<1> QED BY <1>7, <1>8, <1>10

-----------------------------------------------------------------------------
\* Where the scan of a command finds a word, and where it goes on.
LEMMA TokenPlace ==
    ASSUME NEW C, NEW seg \in Seq(C), NEW i \in 1 .. Len(seg)
    PROVE  /\ GoesOn(seg, i) \in i + 1 .. Len(seg) + 1
           /\ seg[i] # Space /\ ~Unclosed(seg, i) =>
                 TokenAt(seg, i) \in [word : Seq(C), next : Nat]
           /\ Unclosed(seg, i) =>
                 seg[i] \in Quotes /\ \A k \in i + 1 .. Len(seg) : seg[k] # seg[i]
<1> DEFINE n == Len(seg)
           end == WordEnd(seg, i)
<1>0. n \in Nat /\ i \in Nat /\ i <= n
  BY LenProperties
<1>1. CASE Quoted(seg, i)
  <2>1. i + 1 \in 1 .. n + 1
    BY <1>0
  <2>2. end = First(seg, i + 1, {seg[i]})
    BY <1>1 DEF WordEnd
  <2>3. end \in i + 1 .. n + 1 /\ \A k \in i + 1 .. end - 1 : seg[k] \notin {seg[i]}
    BY <2>1, <2>2, FirstStop
  <2>4. seg[i] # Space
    BY <1>1 DEF Quoted, Quotes, Space
  <2>5. CASE end > n
    <3>1. Unclosed(seg, i) /\ GoesOn(seg, i) = n + 1
      BY <1>1, <2>4, <2>5 DEF Unclosed, GoesOn
    <3>2. end = n + 1
      BY <1>0, <2>3, <2>5
    <3> QED BY <1>0, <1>1, <2>3, <3>1, <3>2 DEF Quoted
  <2>6. CASE end <= n
    <3>1. ~Unclosed(seg, i)
      BY <1>0, <2>3, <2>6 DEF Unclosed
    <3>2. GoesOn(seg, i) = end + 1
      BY <1>1, <2>4, <3>1 DEF GoesOn
    <3>3. GoesOn(seg, i) \in i + 1 .. n + 1
      BY <1>0, <2>3, <2>6, <3>2
    <3>4. TokenAt(seg, i) = [word |-> SubSeq(seg, i + 1, end - 1), next |-> GoesOn(seg, i)]
      BY <1>1 DEF TokenAt
    <3>5. SubSeq(seg, i + 1, end - 1) \in Seq(C)
      <4> HIDE DEF end
      <4> QED BY <1>0, <2>3, <2>6, SubSeqProperties
    <3>6. GoesOn(seg, i) \in Nat
      BY <1>0, <3>3
    <3>7. TokenAt(seg, i) \in [word : Seq(C), next : Nat]
      BY <3>4, <3>5, <3>6
    <3> QED BY <3>1, <3>3, <3>7
  <2>7. end \in Nat
    BY <1>0, <2>3
  <2> QED BY <1>0, <2>5, <2>6, <2>7
<1>2. CASE ~Quoted(seg, i)
  <2>1. i \in 1 .. n + 1
    BY <1>0
  <2>2. end = First(seg, i, {Space} \cup Quotes)
    BY <1>2 DEF WordEnd
  <2>3. /\ end \in i .. n + 1
        /\ end <= n => seg[end] \in {Space} \cup Quotes
    BY <2>1, <2>2, FirstStop
  <2>4. ~Unclosed(seg, i)
    BY <1>2 DEF Unclosed
  <2>5. CASE seg[i] = Space
    <3>1. GoesOn(seg, i) = i + 1
      BY <1>2, <2>4, <2>5 DEF GoesOn
    <3> QED BY <1>0, <2>4, <2>5, <3>1
  <2>6. CASE seg[i] # Space
    <3>1. end \in i + 1 .. n + 1
      BY <1>0, <1>2, <2>3, <2>6 DEF Quoted
    <3>2. GoesOn(seg, i) = end
      BY <1>2, <2>4, <2>6 DEF GoesOn
    <3>3. TokenAt(seg, i) = [word |-> SubSeq(seg, i, end - 1), next |-> end]
      BY <1>2, <3>2 DEF TokenAt
    <3>4. SubSeq(seg, i, end - 1) \in Seq(C)
      <4> HIDE DEF end
      <4> QED BY <1>0, <3>1, SubSeqProperties
    <3>5. end \in Nat
      BY <1>0, <3>1
    <3>6. TokenAt(seg, i) \in [word : Seq(C), next : Nat]
      BY <3>3, <3>4, <3>5
    <3> QED BY <2>4, <3>1, <3>2, <3>6
  <2> QED BY <2>5, <2>6
<1> QED BY <1>1, <1>2

\* From cell i on the command has no word: there are only spaces, up to the
\* end or to a quote that is never closed.
WordlessFrom(seg, i) ==
    \E j \in i .. Len(seg) + 1 :
        /\ \A k \in i .. j - 1 : seg[k] = Space
        /\ j <= Len(seg) => /\ seg[j] \in Quotes
                            /\ \A k \in j + 1 .. Len(seg) : seg[k] # seg[j]

\* The words of a command are made of its cells, there are at most as many
\* as it has cells, and none only when there is nothing to find.
LEMMA TokensFound ==
    ASSUME NEW C, NEW seg \in Seq(C), NEW lost
    PROVE  /\ Tokens(seg, lost) \in Seq([word : Seq(C), next : Nat])
           /\ Len(Tokens(seg, lost)) <= Len(seg)
           /\ lost = {} /\ Tokens(seg, lost) = <<>> => WordlessFrom(seg, 1)
<1> DEFINE n == Len(seg)
           X == [word : Seq(C), next : Nat]
           found == [i \in DOMAIN seg |->
                        IF seg[i] = Space \/ Unclosed(seg, i) \/ i \in lost THEN <<>>
                        ELSE <<TokenAt(seg, i)>>]
           next == [i \in DOMAIN seg |-> GoesOn(seg, i)]
<1>0. n \in Nat /\ DOMAIN seg = 1 .. n
  BY LenProperties
<1>1. Tokens(seg, lost) = Scan(found, next)
  BY DEF Tokens
<1>2. ASSUME NEW i \in 1 .. n
      PROVE  /\ found[i] \in Seq(X) /\ Len(found[i]) <= 1
             /\ found[i] = <<>> => seg[i] = Space \/ Unclosed(seg, i) \/ i \in lost
  <2>1. CASE seg[i] = Space \/ Unclosed(seg, i) \/ i \in lost
    <3>1. found[i] = <<>>
      BY <1>0, <2>1
    <3>2. <<>> \in Seq(X) /\ Len(<<>>) = 0
      BY EmptySeq
    <3> QED BY <2>1, <3>1, <3>2
  <2>2. CASE ~(seg[i] = Space \/ Unclosed(seg, i) \/ i \in lost)
    <3>1. found[i] = <<TokenAt(seg, i)>>
      BY <1>0, <2>2
    <3>2. TokenAt(seg, i) \in X
      BY <2>2, TokenPlace
    <3> HIDE DEF X
    <3>3. <<TokenAt(seg, i)>> \in Seq(X) /\ Len(<<TokenAt(seg, i)>>) = 1
      BY <3>2
    <3>4. <<TokenAt(seg, i)>> # <<>>
      OBVIOUS
    <3> QED BY <3>1, <3>3, <3>4
  <2> QED BY <2>1, <2>2
<1>3. \A i \in 1 .. n : next[i] = GoesOn(seg, i) /\ next[i] \in i + 1 .. n + 1
  BY <1>0, TokenPlace
<1>4. found \in [1 .. n -> Seq(X)]
  <2> HIDE DEF X
  <2>1. DOMAIN found = 1 .. n
    BY <1>0
  <2>2. found = [i \in 1 .. n |-> found[i]]
    BY <1>0
  <2> HIDE DEF found
  <2> QED BY <1>2, <2>2
<1> HIDE DEF found, next, X
<1>5. found \in Seq(Seq(X)) /\ Len(found) = n
  BY <1>0, <1>4, FunctionIsSeq
<1>6. Forward(found, next)
  BY <1>3, <1>5 DEF Forward
<1>7. Scan(found, next) \in Seq(X) /\ Len(Scan(found, next)) <= n
  BY <1>2, <1>5, <1>6, ScanBounded
<1>8. ASSUME lost = {}, Tokens(seg, lost) = <<>> PROVE WordlessFrom(seg, 1)
  <2>1. PICK from : Finds(found, next, X, from)
    BY <1>5, <1>6, ScanUnfolds
  <2>2. /\ \A i \in 1 .. n + 1 : from[i] \in Seq(X)
        /\ from[1] = <<>> /\ \A i \in 1 .. n : from[i] = found[i] \o from[next[i]]
    BY <1>1, <1>5, <1>8, <2>1 DEF Finds
  <2> DEFINE H == {i \in 1 .. n + 1 : from[i] = <<>> => WordlessFrom(seg, i)}
  <2>3. n + 1 \in H
    <3>1. WordlessFrom(seg, n + 1)
      BY <1>0 DEF WordlessFrom
    <3> QED BY <1>0, <3>1
  <2>4. ASSUME NEW i \in 1 .. n, i + 1 .. n + 1 \subseteq H PROVE i \in H
    <3>1. SUFFICES ASSUME from[i] = <<>> PROVE WordlessFrom(seg, i)
      BY <1>0
    <3>2. next[i] \in i + 1 .. n + 1 /\ next[i] \in 1 .. n + 1
      BY <1>0, <1>3
    <3>3. found[i] \in Seq(X) /\ from[next[i]] \in Seq(X)
      BY <1>2, <2>2, <3>2
    <3>4. found[i] = <<>> /\ from[next[i]] = <<>>
      <4> DEFINE a == found[i]
                 b == from[next[i]]
      <4>1. a \in Seq(X) /\ b \in Seq(X) /\ a \o b = <<>>
        BY <2>2, <3>1, <3>3
      <4> HIDE DEF a, b
      <4>2. Len(a) + Len(b) = 0
        BY <4>1, ConcatProperties, EmptySeq
      <4>3. Len(a) \in Nat /\ Len(b) \in Nat
        BY <4>1, LenProperties
      <4>4. Len(a) = 0 /\ Len(b) = 0
        BY <4>2, <4>3
      <4>5. a = <<>> /\ b = <<>>
        BY <4>1, <4>4, EmptySeq
      <4> QED BY <4>5 DEF a, b
    <3>5. CASE Unclosed(seg, i)
      <4>1. seg[i] \in Quotes /\ \A k \in i + 1 .. n : seg[k] # seg[i]
        BY <3>5, TokenPlace
      <4>2. i \in i .. n + 1 /\ \A k \in i .. i - 1 : FALSE
        BY <1>0
      <4> QED BY <4>1, <4>2 DEF WordlessFrom
    <3>6. CASE ~Unclosed(seg, i)
      <4>1. seg[i] = Space
        BY <1>2, <1>8, <3>4, <3>6
      <4>2. next[i] = i + 1
        <5>1. ~Quoted(seg, i)
          BY <4>1 DEF Quoted, Quotes, Space
        <5>2. GoesOn(seg, i) = i + 1
          BY <3>6, <4>1, <5>1 DEF GoesOn
        <5> QED BY <1>3, <5>2
      <4>3. WordlessFrom(seg, i + 1)
        BY <2>4, <3>2, <3>4, <4>2
      <4>4. PICK j \in i + 1 .. n + 1 :
               /\ \A k \in i + 1 .. j - 1 : seg[k] = Space
               /\ j <= n => /\ seg[j] \in Quotes
                            /\ \A k \in j + 1 .. n : seg[k] # seg[j]
        BY <4>3 DEF WordlessFrom
      <4>5. j \in i .. n + 1 /\ \A k \in i .. j - 1 : k = i \/ k \in i + 1 .. j - 1
        BY <1>0
      <4>6. \A k \in i .. j - 1 : seg[k] = Space
        BY <4>1, <4>4, <4>5
      <4> QED BY <4>4, <4>5, <4>6 DEF WordlessFrom
    <3> QED BY <3>5, <3>6
  <2>5. 1 .. n + 1 \subseteq H
    <3> HIDE DEF H
    <3> QED BY <1>0, <2>3, <2>4, DownInduction
  <2>6. 1 \in H
    <3> HIDE DEF H
    <3> QED BY <1>0, <2>5
  <2> QED BY <2>2, <2>6
<1> QED BY <1>1, <1>7, <1>8 DEF X

\* A command has at most as many words as cells, also when the scan is given
\* up, and none only when there is nothing to find; a command with fewer
\* cells than ARG_MAX is never given up.
LEMMA WordsFound ==
    ASSUME NEW C, NEW seg \in Seq(C), NEW lost
    PROVE  /\ Words(seg, lost) \in Seq(Seq(C))
           /\ lost = {} /\ Words(seg, lost) = <<>> => WordlessFrom(seg, 1)
           /\ TooBig(seg, lost) => Len(seg) > ARG_MAX
           /\ TooBig(seg, lost) \in BOOLEAN
<1> DEFINE t == Tokens(seg, lost)
           X == [word : Seq(C), next : Nat]
           m == IF TooBig(seg, lost) THEN ARG_MAX + 1 ELSE Len(t)
<1>1. /\ t \in Seq(X) /\ Len(t) <= Len(seg)
      /\ lost = {} /\ t = <<>> => WordlessFrom(seg, 1)
  BY TokensFound
<1>2. Len(t) \in Nat /\ Len(seg) \in Nat /\ ARG_MAX \in Nat
  BY <1>1, LenProperties, ArgMaxAssumption
<1>3. TooBig(seg, lost) => Len(t) > ARG_MAX
  BY DEF TooBig
<1>4. Words(seg, lost) = [k \in 1 .. m |-> t[k].word]
  BY DEF Words
<1>5. TooBig(seg, lost) \in BOOLEAN
  BY DEF TooBig
<1> HIDE DEF t
<1>6. m \in Nat /\ m <= Len(t) /\ (m = 0 => Len(t) = 0)
  BY <1>2, <1>3
<1> HIDE DEF m
<1>7. ASSUME NEW k \in 1 .. m PROVE t[k].word \in Seq(C)
  <2>1. k \in 1 .. Len(t)
    BY <1>2, <1>6
  <2>2. t[k] \in X
    <3> HIDE DEF X
    <3> QED BY <1>1, <2>1, ElementOfSeq
  <2> QED BY <2>2
<1>8. [k \in 1 .. m |-> t[k].word] \in [1 .. m -> Seq(C)]
  BY <1>7
<1>9. Words(seg, lost) \in Seq(Seq(C)) /\ Len(Words(seg, lost)) = m
  BY <1>4, <1>6, <1>8, FunctionIsSeq
<1>10. ASSUME lost = {}, Words(seg, lost) = <<>> PROVE WordlessFrom(seg, 1)
  <2>1. m = 0
    BY <1>9, <1>10, EmptySeq
  <2>2. t = <<>>
    <3> HIDE DEF X
    <3> QED BY <1>1, <1>6, <2>1, EmptySeq
  <2> QED BY <1>1, <1>10, <2>2
<1> QED BY <1>1, <1>2, <1>3, <1>5, <1>9, <1>10

\* The commands that are parsed are the first of those of the text.
LEMMA TakenFirst ==
    ASSUME NEW C, NEW text \in Seq(C), NEW short
    PROVE  LET segs  == Fields(text, Pipe)
               taken == Taken(text, short)
           IN /\ segs \in Seq(Seq(C)) /\ taken \in Seq(Seq(C))
              /\ Len(taken) <= Len(segs) /\ Len(taken) <= CMD_MAX + 1
              /\ \A k \in 1 .. Len(taken) : taken[k] = segs[k]
              /\ ~Starved(text, short) =>
                    /\ Len(taken) = IF TooMany(text) THEN CMD_MAX + 1 ELSE Len(segs)
                    /\ \A k \in 1 .. Len(taken) : <<k, 0>> \notin short
              /\ short = {} => ~Starved(text, short)
              /\ TooMany(text) <=> Len(segs) > CMD_MAX + 1
<1> DEFINE segs == Fields(text, Pipe)
           taken == Taken(text, short)
           gaps == {k \in DOMAIN segs : <<k, 0>> \in short}
           S == {Len(segs), CMD_MAX + 1} \cup gaps
           m == Min(S)
<1>1. segs \in Seq(Seq(C))
  BY FieldsTyped
<1>2. /\ Len(segs) \in Nat /\ CMD_MAX \in Nat /\ DOMAIN segs = 1 .. Len(segs)
      /\ \A k \in 1 .. Len(segs) : segs[k] \in Seq(C)
  BY <1>1, LenProperties, ElementOfSeq, CmdMaxAssumption
<1>3. taken = SubSeq(segs, 1, m) /\ (TooMany(text) <=> Len(segs) > CMD_MAX + 1)
  BY DEF Taken, TooMany
<1>4. Starved(text, short) <=> \E k \in DOMAIN taken : <<k, 0>> \in short
  BY DEF Starved
<1> HIDE DEF segs
<1>5. m \in S /\ m <= Len(segs) /\ m <= CMD_MAX + 1
  <2>1. S \subseteq Nat /\ Len(segs) \in S /\ CMD_MAX + 1 \in S
    BY <1>2
  <2> HIDE DEF S
  <2> QED BY <2>1, MinIsLeast
<1>6. m \in Nat
  BY <1>2, <1>5
<1>7. m \in gaps => m \in 1 .. Len(segs) /\ <<m, 0>> \in short
  BY <1>2
<1>8. m \in gaps \/ m = IF TooMany(text) THEN CMD_MAX + 1 ELSE Len(segs)
  BY <1>2, <1>3, <1>5
<1> HIDE DEF m, S
<1>9. /\ taken \in Seq(Seq(C)) /\ Len(taken) = m
      /\ \A k \in 1 .. m : taken[k] = segs[k]
  <2>1. \A k \in 1 .. m : segs[k] \in Seq(C)
    BY <1>2, <1>5, <1>6
  <2>2. /\ SubSeq(segs, 1, m) \in Seq(Seq(C))
        /\ Len(SubSeq(segs, 1, m)) = IF 1 <= m THEN m - 1 + 1 ELSE 0
        /\ \A k \in 1 .. m - 1 + 1 : SubSeq(segs, 1, m)[k] = segs[1 + k - 1]
    BY <1>6, <2>1, SubSeqProperties
  <2> HIDE DEF taken
  <2>3. m - 1 + 1 = m /\ \A k \in 1 .. m : 1 + k - 1 = k
    BY <1>6
  <2> QED BY <1>3, <1>6, <2>2, <2>3
<1> HIDE DEF taken
<1>10. DOMAIN taken = 1 .. m
  BY <1>9, LenProperties
<1>11. ASSUME ~Starved(text, short)
       PROVE  /\ m = IF TooMany(text) THEN CMD_MAX + 1 ELSE Len(segs)
              /\ \A k \in 1 .. m : <<k, 0>> \notin short
  <2>1. \A k \in 1 .. m : <<k, 0>> \notin short
    BY <1>4, <1>10, <1>11
  <2>2. m \notin gaps
    BY <1>6, <1>7, <2>1
  <2> QED BY <1>8, <2>1, <2>2
<1>12. short = {} => ~Starved(text, short)
  BY <1>4
<1> QED BY <1>1, <1>3, <1>5, <1>9, <1>11, <1>12 DEF segs, taken

-----------------------------------------------------------------------------
\* The commands that the pipeline parsers store are the words of the commands
\* taken, and the local one fails for the reason its code gives.
LEMMA LineParsed ==
    ASSUME NEW C, NEW text \in Seq(C), NEW short
    PROVE  LET parsed == ParseLine(text, short)
               taken  == Taken(text, short)
           IN /\ parsed.cmds \in Seq(Seq(Seq(C)))
              /\ Len(parsed.cmds) = Len(taken)
              /\ \A k \in 1 .. Len(taken) :
                    parsed.cmds[k] = Words(Fields(text, Pipe)[k], Lost(short, k))
              /\ parsed.rc \in
                    {OK, ERR_MEMORY, ERR_TOO_MANY_COMMANDS, ERR_CMD_OR_ARGS_TOO_BIG}
              /\ parsed.rc = ERR_TOO_MANY_COMMANDS => TooMany(text)
              /\ parsed.rc = ERR_MEMORY => short # {}
              /\ parsed.rc = OK => ~TooMany(text) /\ ~Starved(text, short)
              /\ parsed.rc = ERR_CMD_OR_ARGS_TOO_BIG =>
                    \E k \in 1 .. Len(taken) : Len(Fields(text, Pipe)[k]) > ARG_MAX
<1> DEFINE taken == Taken(text, short)
           cmds == [k \in DOMAIN taken |-> Words(taken[k], Lost(short, k))]
           parsed == ParseLine(text, short)
<1>1. /\ taken \in Seq(Seq(C))
      /\ \A k \in 1 .. Len(taken) : taken[k] = Fields(text, Pipe)[k]
      /\ short = {} => ~Starved(text, short)
  BY TakenFirst
<1>2. Len(taken) \in Nat /\ DOMAIN taken = 1 .. Len(taken)
  BY <1>1, LenProperties
<1>3. \A k \in 1 .. Len(taken) : taken[k] \in Seq(C)
  BY <1>1, ElementOfSeq
<1>4. parsed.cmds = cmds
  BY DEF ParseLine, parse_buffer_into_cmd
<1>5. cmds \in Seq(Seq(Seq(C))) /\ Len(cmds) = Len(taken)
  <2>1. \A k \in 1 .. Len(taken) : Words(taken[k], Lost(short, k)) \in Seq(Seq(C))
    BY <1>3, WordsFound
  <2>2. cmds \in [1 .. Len(taken) -> Seq(Seq(C))]
    BY <1>2, <2>1
  <2> QED BY <1>2, <2>2, FunctionIsSeq
<1>6. \A k \in 1 .. Len(taken) : cmds[k] = Words(Fields(text, Pipe)[k], Lost(short, k))
  BY <1>1, <1>2
<1>7. parsed.rc = IF SomeTooBig(text, short) THEN ERR_CMD_OR_ARGS_TOO_BIG
                  ELSE IF Starved(text, short) THEN ERR_MEMORY
                  ELSE IF TooMany(text) THEN ERR_TOO_MANY_COMMANDS ELSE OK
  BY DEF ParseLine
<1>8. SomeTooBig(text, short) =>
         \E k \in 1 .. Len(taken) : Len(Fields(text, Pipe)[k]) > ARG_MAX
  BY <1>1, <1>2, <1>3, WordsFound DEF SomeTooBig
<1> HIDE DEF taken, cmds, parsed
<1>9. /\ parsed.rc \in {OK, ERR_MEMORY, ERR_TOO_MANY_COMMANDS, ERR_CMD_OR_ARGS_TOO_BIG}
      /\ parsed.rc = ERR_TOO_MANY_COMMANDS => TooMany(text)
      /\ parsed.rc = ERR_MEMORY => Starved(text, short)
      /\ parsed.rc = OK => ~TooMany(text) /\ ~Starved(text, short)
      /\ parsed.rc = ERR_CMD_OR_ARGS_TOO_BIG => SomeTooBig(text, short)
  BY <1>7 DEF OK, ERR_MEMORY, ERR_TOO_MANY_COMMANDS, ERR_CMD_OR_ARGS_TOO_BIG
<1> QED BY <1>1, <1>4, <1>5, <1>6, <1>8, <1>9 DEF taken, parsed

\* The words of tokens are as many as the tokens, each that of its token.
LEMMA WordsInTyped ==
    ASSUME NEW C, NEW t \in Seq([word : Seq(C), next : Nat])
    PROVE  WordsIn(t) \in Seq(Seq(C)) /\ Len(WordsIn(t)) = Len(t)
           /\ DOMAIN WordsIn(t) = 1 .. Len(t)
<1> DEFINE n == Len(t)
<1>1. n \in Nat /\ DOMAIN t = 1 .. n
      /\ \A k \in 1 .. n : t[k] \in [word : Seq(C), next : Nat]
  BY LenProperties, ElementOfSeq
<1>2. WordsIn(t) \in [1 .. n -> Seq(C)]
  BY <1>1 DEF WordsIn
<1> HIDE DEF n
<1>3. WordsIn(t) \in Seq(Seq(C)) /\ Len(WordsIn(t)) = n /\ DOMAIN WordsIn(t) = 1 .. n
  BY <1>1, <1>2, FunctionIsSeq
<1> QED BY <1>3 DEF n

\* The words of the single-command shell are made of the cells of the line.
LEMMA AllWordsTyped ==
    ASSUME NEW C, NEW text \in Seq(C), NEW short
    PROVE  ParseWords(text, short) \in Seq(Seq(C))
<1> DEFINE segs == Fields(text, Pipe)
           part(k) == WordsIn(Tokens(segs[k], Lost(short, k)))
           parts == [k \in DOMAIN segs |-> part(k)]
<1>1. segs \in Seq(Seq(C))
  BY FieldsTyped
<1>2. Len(segs) \in Nat /\ DOMAIN segs = 1 .. Len(segs)
      /\ \A k \in 1 .. Len(segs) : segs[k] \in Seq(C)
  BY <1>1, LenProperties, ElementOfSeq
<1>3. \A k \in 1 .. Len(segs) : part(k) \in Seq(Seq(C))
  BY <1>2, TokensFound, WordsInTyped
<1>4. ParseWords(text, short) = Joined(parts)
  BY DEF ParseWords
<1> HIDE DEF part
<1>5. parts \in [1 .. Len(segs) -> Seq(Seq(C))]
  BY <1>2, <1>3
<1>6. parts \in Seq(Seq(Seq(C)))
  BY <1>2, <1>5, FunctionIsSeq
<1> QED BY <1>4, <1>6, JoinedTyped

-----------------------------------------------------------------------------
(* A word that is lost makes a command shorter. *)

\* A scan that finds no more than another at any cell finds no more.
LEMMA ScanShorter ==
    ASSUME NEW X, NEW Y, NEW some \in Seq(Seq(X)), NEW all \in Seq(Seq(Y)), NEW next,
           Len(some) = Len(all), Forward(all, next),
           \A i \in 1 .. Len(all) : Len(some[i]) <= Len(all[i])
    PROVE  Len(Scan(some, next)) <= Len(Scan(all, next))
<1> DEFINE n == Len(all)
<1>1. n \in Nat /\ Forward(some, next)
      /\ \A i \in 1 .. n : some[i] \in Seq(X) /\ all[i] \in Seq(Y)
  BY LenProperties, ElementOfSeq DEF Forward
<1>2. PICK s : Finds(some, next, X, s)
  BY <1>1, ScanUnfolds
<1>3. PICK a : Finds(all, next, Y, a)
  BY ScanUnfolds
<1>4. /\ \A i \in 1 .. n + 1 : s[i] \in Seq(X) /\ a[i] \in Seq(Y)
      /\ Scan(some, next) = s[1] /\ Scan(all, next) = a[1]
      /\ s[n + 1] = <<>> /\ a[n + 1] = <<>>
      /\ \A i \in 1 .. n : s[i] = some[i] \o s[next[i]] /\ a[i] = all[i] \o a[next[i]]
      /\ \A i \in 1 .. n : next[i] \in i + 1 .. n + 1
  BY <1>2, <1>3 DEF Finds, Forward
<1> DEFINE H == {i \in 1 .. n + 1 : Len(s[i]) <= Len(a[i])}
<1>5. n + 1 \in H
  BY <1>1, <1>4
<1>6. ASSUME NEW i \in 1 .. n, i + 1 .. n + 1 \subseteq H PROVE i \in H
  <2> DEFINE e == next[i]
  <2>1. e \in i + 1 .. n + 1 /\ e \in 1 .. n + 1 /\ Len(s[e]) <= Len(a[e])
    BY <1>1, <1>4, <1>6
  <2>2. Len(some[i]) <= Len(all[i])
    OBVIOUS
  <2>3. /\ s[i] = some[i] \o s[e] /\ a[i] = all[i] \o a[e]
        /\ s[e] \in Seq(X) /\ a[e] \in Seq(Y)
    BY <1>4, <2>1
  <2> HIDE DEF e
  <2>4. Len(s[i]) = Len(some[i]) + Len(s[e]) /\ Len(a[i]) = Len(all[i]) + Len(a[e])
    BY <1>1, <2>3, ConcatProperties
  <2>5. Len(some[i]) \in Nat /\ Len(all[i]) \in Nat /\ Len(s[e]) \in Nat /\ Len(a[e]) \in Nat
    BY <1>1, <2>3, LenProperties
  <2>6. Len(s[i]) <= Len(a[i])
    <3> DEFINE p == Len(some[i])
               q == Len(all[i])
               u == Len(s[e])
               v == Len(a[e])
    <3>1. p \in Nat /\ q \in Nat /\ u \in Nat /\ v \in Nat /\ p <= q /\ u <= v
      BY <2>1, <2>2, <2>5 DEF e
    <3>2. Len(s[i]) = p + u /\ Len(a[i]) = q + v
      BY <2>4
    <3> HIDE DEF p, q, u, v
    <3> QED BY <3>1, <3>2
  <2> QED BY <1>1, <2>6
<1>7. 1 .. n + 1 \subseteq H
  <2> HIDE DEF H, n
  <2> QED BY <1>1, <1>5, <1>6, DownInduction
<1>8. 1 \in 1 .. n + 1
  BY <1>1
<1> QED BY <1>4, <1>7, <1>8

\* The tokens of a command, with some words lost and with none.
LEMMA TokensFewer ==
    ASSUME NEW C, NEW seg \in Seq(C), NEW lost
    PROVE  Len(Tokens(seg, lost)) <= Len(Tokens(seg, {}))
<1> DEFINE n == Len(seg)
           X == [word : Seq(C), next : Nat]
           found(l, i) == IF seg[i] = Space \/ Unclosed(seg, i) \/ i \in l THEN <<>>
                          ELSE <<TokenAt(seg, i)>>
           some == [i \in DOMAIN seg |-> found(lost, i)]
           all == [i \in DOMAIN seg |-> found({}, i)]
           next == [i \in DOMAIN seg |-> GoesOn(seg, i)]
<1>1. n \in Nat /\ DOMAIN seg = 1 .. n
  BY LenProperties
<1>2. Tokens(seg, lost) = Scan(some, next) /\ Tokens(seg, {}) = Scan(all, next)
  BY DEF Tokens
<1>3. ASSUME NEW i \in 1 .. n, NEW l \in {lost, {}}
      PROVE  /\ found(l, i) \in Seq(X) /\ Len(found({}, i)) \in {0, 1}
             /\ Len(found(l, i)) <= Len(found({}, i))
  <2>1. CASE seg[i] = Space \/ Unclosed(seg, i)
    <3>1. found(l, i) = <<>> /\ found({}, i) = <<>>
      BY <2>1
    <3> HIDE DEF found, X
    <3> QED BY <3>1, EmptySeq
  <2>2. CASE ~(seg[i] = Space \/ Unclosed(seg, i))
    <3> DEFINE x == TokenAt(seg, i)
    <3>1. x \in X
      BY <2>2, TokenPlace
    <3>2. found({}, i) = <<x>>
      BY <2>2
    <3>3. /\ i \in l => found(l, i) = <<>>
          /\ i \notin l => found(l, i) = <<x>>
      <4>1. CASE i \in l
        BY <4>1
      <4>2. CASE i \notin l
        BY <2>2, <4>2
      <4> QED BY <4>1, <4>2
    <3> HIDE DEF found, X, x
    <3>4. <<x>> \in Seq(X) /\ Len(<<x>>) = 1 /\ <<>> \in Seq(X) /\ Len(<<>>) = 0
      BY <3>1
    <3>5. CASE i \in l
      BY <3>2, <3>3, <3>4, <3>5
    <3>6. CASE i \notin l
      BY <3>2, <3>3, <3>4, <3>6
    <3> QED BY <3>5, <3>6
  <2> QED BY <2>1, <2>2
<1>4. \A i \in 1 .. n : next[i] = GoesOn(seg, i) /\ next[i] \in i + 1 .. n + 1
  BY <1>1, TokenPlace
<1> HIDE DEF found, next, X
<1>5. some \in [1 .. n -> Seq(X)] /\ all \in [1 .. n -> Seq(X)]
  BY <1>1, <1>3
<1>6. \A i \in 1 .. n : Len(some[i]) <= Len(all[i])
  BY <1>1, <1>3
<1> HIDE DEF some, all, n
<1>7. some \in Seq(Seq(X)) /\ Len(some) = n /\ all \in Seq(Seq(X)) /\ Len(all) = n
  BY <1>1, <1>5, FunctionIsSeq
<1>8. Forward(all, next)
  BY <1>4, <1>7 DEF Forward
<1> QED BY <1>2, <1>6, <1>7, <1>8, ScanShorter

\* The words a pipeline parser keeps of a command that is not given up.
LEMMA WordsFewer ==
    ASSUME NEW C, NEW seg \in Seq(C), Len(seg) <= ARG_MAX, NEW lost
    PROVE  Len(Words(seg, lost)) <= Len(Words(seg, {}))
<1>1. ASSUME NEW l PROVE Len(Words(seg, l)) = Len(Tokens(seg, l))
  <2> DEFINE t == Tokens(seg, l)
             X == [word : Seq(C), next : Nat]
  <2>1. ~TooBig(seg, l) /\ t \in Seq(X)
    <3>1. Len(seg) \in Nat /\ ARG_MAX \in Nat /\ ~(Len(seg) > ARG_MAX)
      BY LenProperties, ArgMaxAssumption
    <3>2. TooBig(seg, l) => Len(seg) > ARG_MAX
      BY WordsFound
    <3>3. t \in Seq(X)
      BY TokensFound
    <3> QED BY <3>1, <3>2, <3>3
  <2>2. Words(seg, l) = [k \in 1 .. Len(t) |-> t[k].word]
    BY <2>1 DEF Words
  <2> HIDE DEF t
  <2>3. Len(t) \in Nat /\ DOMAIN t = 1 .. Len(t)
    BY <2>1, LenProperties
  <2>4. Words(seg, l) = WordsIn(t)
    BY <2>2, <2>3 DEF WordsIn
  <2>5. Len(WordsIn(t)) = Len(t)
    BY <2>1, WordsInTyped DEF X
  <2> QED BY <2>4, <2>5 DEF t
<1> QED BY <1>1, TokensFewer

\* The words of the single-command shell.
LEMMA AllWordsFewer ==
    ASSUME NEW C, NEW text \in Seq(C), NEW short
    PROVE  Len(ParseWords(text, short)) <= Len(ParseWords(text, {}))
<1> DEFINE segs == Fields(text, Pipe)
           n == Len(segs)
           part(s, k) == WordsIn(Tokens(segs[k], Lost(s, k)))
           some == [k \in DOMAIN segs |-> part(short, k)]
           all == [k \in DOMAIN segs |-> part({}, k)]
           next == [k \in 1 .. n |-> k + 1]
<1>1. segs \in Seq(Seq(C))
  BY FieldsTyped
<1>2. n \in Nat /\ DOMAIN segs = 1 .. n /\ \A k \in 1 .. n : segs[k] \in Seq(C)
  BY <1>1, LenProperties, ElementOfSeq
<1>3. ASSUME NEW k \in 1 .. n
      PROVE  /\ part(short, k) \in Seq(Seq(C)) /\ part({}, k) \in Seq(Seq(C))
             /\ Len(part(short, k)) <= Len(part({}, k))
  <2> DEFINE seg == segs[k]
             lost == Lost(short, k)
  <2>1. seg \in Seq(C)
    BY <1>2
  <2>2. Lost({}, k) = {}
    BY DEF Lost
  <2>3. /\ WordsIn(Tokens(seg, lost)) \in Seq(Seq(C)) /\ WordsIn(Tokens(seg, {})) \in Seq(Seq(C))
        /\ Len(WordsIn(Tokens(seg, lost))) = Len(Tokens(seg, lost))
        /\ Len(WordsIn(Tokens(seg, {}))) = Len(Tokens(seg, {}))
        /\ Len(Tokens(seg, lost)) <= Len(Tokens(seg, {}))
    <3> HIDE DEF seg, lost
    <3> QED BY <2>1, TokensFound, TokensFewer, WordsInTyped
  <2> QED BY <2>2, <2>3
<1>4. ParseWords(text, short) = Joined(some) /\ ParseWords(text, {}) = Joined(all)
  BY DEF ParseWords
<1> HIDE DEF part
<1>5. DOMAIN some = 1 .. n /\ DOMAIN all = 1 .. n
  BY <1>2
<1>6. Joined(some) = Scan(some, next) /\ Joined(all) = Scan(all, next)
  BY <1>5 DEF Joined
<1>7. some \in [1 .. n -> Seq(Seq(C))] /\ all \in [1 .. n -> Seq(Seq(C))]
      /\ \A k \in 1 .. n : Len(some[k]) <= Len(all[k])
  BY <1>2, <1>3
<1>8. \A k \in 1 .. n : next[k] \in k + 1 .. n + 1
  BY <1>2
<1> HIDE DEF some, all, n, next
<1>9. some \in Seq(Seq(Seq(C))) /\ Len(some) = n /\ all \in Seq(Seq(Seq(C))) /\ Len(all) = n
  BY <1>2, <1>7, FunctionIsSeq
<1>10. Forward(all, next)
  BY <1>8, <1>9 DEF Forward
<1> QED BY <1>4, <1>6, <1>7, <1>9, <1>10, ScanShorter

-----------------------------------------------------------------------------
\* The names of the first shell's commands are made of the cells of the line,
\* and there are as many commands as are taken.
LEMMA ListBuilt ==
    ASSUME NEW C, NEW text \in Seq(C)
    PROVE  LET cmds == build_cmd_list(text).cmds
           IN /\ DOMAIN cmds = 1 .. Len(Taken(text, {}))
              /\ Len(cmds) = Len(Taken(text, {}))
              /\ \A k \in DOMAIN cmds : cmds[k].exe \in Seq(C)
<1> DEFINE taken == Taken(text, {})
           cmds == build_cmd_list(text).cmds
<1>1. /\ taken \in Seq(Seq(C)) /\ Len(taken) \in Nat /\ DOMAIN taken = 1 .. Len(taken)
      /\ \A k \in 1 .. Len(taken) : taken[k] \in Seq(C)
  BY TakenFirst, LenProperties, ElementOfSeq
<1> DEFINE words(seg) == Fields(seg, Space)
           exe(seg) == IF words(seg) = <<>> THEN <<>>
                       ELSE SubSeq(words(seg)[1], 1, Min({Len(words(seg)[1]), EXE_MAX - 1}))
           args(seg) == IF words(seg) = <<>> THEN <<>> ELSE Tail(words(seg))
<1>2. cmds = [k \in DOMAIN taken |-> [exe |-> exe(taken[k]), args |-> args(taken[k])]]
  BY DEF build_cmd_list
<1>3. ASSUME NEW seg \in Seq(C) PROVE exe(seg) \in Seq(C)
  <2>1. words(seg) \in Seq(Seq(C))
    BY FieldsTyped
  <2>2. CASE words(seg) = <<>>
    <3>1. exe(seg) = <<>>
      BY <2>2
    <3> QED BY <3>1, EmptySeq
  <2>3. CASE words(seg) # <<>>
    <3> DEFINE first == words(seg)[1]
               m == Min({Len(first), EXE_MAX - 1})
    <3>1. first \in Seq(C)
      <4> HIDE DEF words
      <4>1. Len(words(seg)) \in Nat \ {0}
        BY <2>1, <2>3, EmptySeq
      <4>2. 1 \in 1 .. Len(words(seg))
        BY <4>1
      <4> QED BY <2>1, <4>2, ElementOfSeq
    <3>2. exe(seg) = SubSeq(first, 1, m)
      BY <2>3
    <3> HIDE DEF first
    <3>3. Len(first) \in Nat /\ EXE_MAX - 1 \in Nat
          /\ \A k \in 1 .. Len(first) : first[k] \in C
      BY <3>1, LenProperties, ElementOfSeq, ExeMaxAssumption
    <3>4. m \in Nat /\ m <= Len(first)
      <4>1. {Len(first), EXE_MAX - 1} \subseteq Nat
        BY <3>3
      <4> QED BY <4>1, MinIsLeast
    <3> HIDE DEF m
    <3>5. \A k \in 1 .. m : first[k] \in C
      BY <3>3, <3>4
    <3>6. SubSeq(first, 1, m) \in Seq(C)
      BY <3>4, <3>5, SubSeqProperties
    <3> QED BY <3>2, <3>6 DEF m
  <2> QED BY <2>2, <2>3
<1> HIDE DEF exe, args, taken
<1>4. DOMAIN cmds = 1 .. Len(taken)
  BY <1>1, <1>2
<1>5. \A k \in 1 .. Len(taken) : cmds[k].exe \in Seq(C)
  BY <1>1, <1>2, <1>3
<1>6. cmds = [k \in 1 .. Len(taken) |-> cmds[k]]
  BY <1>1, <1>2
<1> DEFINE Y == {cmds[k] : k \in 1 .. Len(taken)}
<1> HIDE DEF cmds
<1>7. cmds \in [1 .. Len(taken) -> Y]
  BY <1>6
<1> HIDE DEF Y
<1>8. Len(cmds) = Len(taken)
  BY <1>1, <1>7, FunctionIsSeq
<1> QED BY <1>4, <1>5, <1>8 DEF cmds, taken
=============================================================================
