---------------------------- MODULE StringProofs ----------------------------
(***************************************************************************)
(* Proofs about the string utility, for every string and every BUFFER_SZ:  *)
(* what setup_buff stores, which strings are served, how much              *)
(* reverse_words writes, and that the three services agree on what the     *)
(* words are.                                                              *)
(*                                                                         *)
(* Filled, Counted, Reversed and Printed unfold the loops of the code;     *)
(* after that each result is an induction over the characters, with what   *)
(* is still to be found in the rest of the text as the other half of the   *)
(* invariant.                                                              *)
(***************************************************************************)
EXTENDS TextProofs, FiniteSetTheorems

\* What setup_buff has after each character.
Fills(str, after) ==
    /\ after[0] = Unfilled
    /\ \A i \in 1 .. Len(str) : after[i] = SetupStep(after[i - 1], str[i])
    /\ setup_buff(str) =
          [buff |-> after[Len(str)].buff \o [k \in 1 .. BUFFER_SZ - Len(str) |-> Dot],
           rc   |-> after[Len(str)].curr_buff_len]

\* setup_buff goes through the string one character after the other.
LEMMA Filled ==
    ASSUME NEW C, NEW str \in Seq(C)
    PROVE  \E after : Fills(str, after)
<1> DEFINE n == Len(str)
           Next1(x, i) == SetupStep(x, str[i])
           Step(f, i) == IF i = 0 THEN Unfilled ELSE Next1(f[i - 1], i)
           after == CHOOSE f : f = [i \in 0 .. n |-> Step(f, i)]
           Upto(m, h) == h[0] = Unfilled /\ \A i \in 1 .. m : h[i] = Next1(h[i - 1], i)
           G == {m \in 0 .. n : \E h : Upto(m, h)}
<1>1. n \in Nat
  BY LenProperties
<1>2. setup_buff(str) =
         [buff |-> after[n].buff \o [k \in 1 .. BUFFER_SZ - n |-> Dot],
          rc   |-> after[n].curr_buff_len]
  BY DEF setup_buff
<1> HIDE DEF n, Next1
<1>3. 0 \in G
  <2> DEFINE h == [i \in 0 .. 0 |-> Unfilled]
  <2>1. h[0] = Unfilled
    OBVIOUS
  <2> HIDE DEF h
  <2>2. Upto(0, h)
    BY <2>1
  <2> QED BY <1>1, <2>2
<1>4. ASSUME NEW m \in 1 .. n, m - 1 \in G PROVE m \in G
  <2>1. PICK h : Upto(m - 1, h)
    BY <1>4
  <2> DEFINE g == [i \in 0 .. m |-> IF i = m THEN Next1(h[m - 1], m) ELSE h[i]]
  <2>2. g[m] = Next1(h[m - 1], m) /\ \A i \in 0 .. m - 1 : g[i] = h[i]
    BY <1>1
  <2> HIDE DEF g
  <2>3. g[0] = Unfilled
    BY <1>1, <2>1, <2>2
  <2>4. ASSUME NEW i \in 1 .. m PROVE g[i] = Next1(g[i - 1], i)
    <3>1. i - 1 \in 0 .. m - 1 /\ g[i - 1] = h[i - 1]
      BY <1>1, <2>2
    <3>2. CASE i = m
      BY <2>2, <3>1, <3>2
    <3>3. CASE i # m
      <4>1. i \in 1 .. m - 1 /\ i \in 0 .. m - 1
        BY <1>1, <3>3
      <4> QED BY <2>1, <2>2, <3>1, <4>1
    <3> QED BY <3>2, <3>3
  <2>5. Upto(m, g)
    BY <2>3, <2>4
  <2>6. \E h2 : Upto(m, h2)
    <3> HIDE DEF Upto
    <3> QED BY <2>5
  <2> QED BY <1>1, <2>6
<1>5. 0 .. n \subseteq G
  <2> HIDE DEF G
  <2> QED BY <1>1, <1>3, <1>4, UpInduction
<1>6. PICK h : Upto(n, h)
  <2>1. n \in 0 .. n
    BY <1>1
  <2>2. n \in G
    <3> HIDE DEF G
    <3> QED BY <1>5, <2>1
  <2> QED BY <2>2
<1> DEFINE g == [i \in 0 .. n |-> h[i]]
<1>7. ASSUME NEW i \in 0 .. n PROVE g[i] = Step(g, i)
  <2>1. CASE i = 0
    BY <1>6, <2>1
  <2>2. CASE i # 0
    <3>1. i \in 1 .. n /\ i - 1 \in 0 .. n
      BY <1>1, <2>2
    <3> QED BY <1>6, <2>2, <3>1
  <2> QED BY <2>1, <2>2
<1>8. \E f : f = [i \in 0 .. n |-> Step(f, i)]
  <2>1. g = [i \in 0 .. n |-> g[i]]
    OBVIOUS
  <2> HIDE DEF g, Step
  <2>2. g = [i \in 0 .. n |-> Step(g, i)]
    BY <1>7, <2>1
  <2> QED BY <2>2
<1>9. after = [i \in 0 .. n |-> Step(after, i)]
  BY <1>8
<1> HIDE DEF after
<1>10. after[0] = Unfilled
  BY <1>1, <1>9
<1>11. \A i \in 1 .. n : after[i] = Next1(after[i - 1], i)
  BY <1>1, <1>9
<1>12. Fills(str, after)
  BY <1>2, <1>10, <1>11 DEF Fills, Next1, n
<1> QED BY <1>12

\* A string with its tabs made blanks.
LEMMA BlankedTyped ==
    ASSUME NEW C, NEW str \in Seq(C)
    PROVE  /\ Blanked(str) \in Seq(C \cup {Blank}) /\ Len(Blanked(str)) = Len(str)
           /\ \A i \in 1 .. Len(str) :
                 Blanked(str)[i] = IF str[i] = Tab THEN Blank ELSE str[i]
<1> DEFINE n == Len(str)
           D == C \cup {Blank}
<1>1. n \in Nat /\ DOMAIN str = 1 .. n /\ \A i \in 1 .. n : str[i] \in C
  BY LenProperties, ElementOfSeq
<1>2. Blanked(str) \in [1 .. n -> D]
  BY <1>1 DEF Blanked
<1> HIDE DEF n, D
<1>3. Blanked(str) \in Seq(D) /\ Len(Blanked(str)) = n
  BY <1>1, <1>2, FunctionIsSeq
<1> QED BY <1>1, <1>3 DEF n, D, Blanked

\* After n characters that fit, the buffer holds them all, and the check of the
\* length stops the program from the second one that does not.
LEMMA FilledUpTo ==
    ASSUME NEW C, NEW str \in Seq(C), NEW after, Fills(str, after),
           NEW n \in 0 .. Len(str)
    PROVE  /\ n <= BUFFER_SZ + 1 => /\ after[n].curr_buff_len = n
                                    /\ after[n].buff = SubSeq(Blanked(str), 1, n)
           /\ n > BUFFER_SZ + 1 => after[n].curr_buff_len = TooLong
<1> DEFINE len == Len(str)
           D == C \cup {Blank}
           b == Blanked(str)
           Good(m) == /\ m <= BUFFER_SZ + 1 =>
                            /\ after[m].curr_buff_len = m
                            /\ after[m].buff = SubSeq(b, 1, m)
                            /\ m # 0 => after[m].is_valid_char = TRUE
                      /\ m > BUFFER_SZ + 1 => after[m].curr_buff_len = TooLong
           G == {m \in 0 .. len : Good(m)}
<1>1. /\ len \in Nat /\ b \in Seq(D) /\ Len(b) = len
      /\ \A i \in 1 .. len : b[i] = IF str[i] = Tab THEN Blank ELSE str[i]
  BY BlankedTyped, LenProperties
<1> HIDE DEF b, D
<1>2. BUFFER_SZ \in Nat /\ TooLong = 0 - 1
  BY BufferAssumption DEF TooLong
<1>3. 0 \in G
  <2>1. SubSeq(b, 1, 0) = <<>>
    BY SubSeqEmpty
  <2>2. after[0] = Unfilled
    BY DEF Fills
  <2>3. Good(0)
    BY <1>2, <2>1, <2>2 DEF Unfilled
  <2> QED BY <1>1, <2>3
<1>4. ASSUME NEW m \in 1 .. len, m - 1 \in G PROVE m \in G
  <2> DEFINE s == after[m - 1]
             ch == IF str[m] = Tab THEN Blank ELSE str[m]
  <2>1. after[m] = SetupStep(s, str[m])
    BY DEF Fills
  <2>2. Good(m - 1) /\ m \in Nat /\ m # 0
    BY <1>1, <1>4
  <2> HIDE DEF s
  <2>3. CASE m <= BUFFER_SZ + 1
    <3>1. s.curr_buff_len = m - 1 /\ s.buff = SubSeq(b, 1, m - 1)
      BY <1>2, <2>2, <2>3 DEF s
    <3>2. ~(s.curr_buff_len > BUFFER_SZ \/ s.curr_buff_len = TooLong)
      BY <1>2, <2>2, <2>3, <3>1
    <3>3. s.is_valid_char = TRUE \/ s.has_preceeding_space_char = FALSE
      <4>1. CASE m = 1
        <5>1. s = Unfilled
          BY <4>1 DEF Fills, s
        <5> QED BY <5>1 DEF Unfilled
      <4>2. CASE m # 1
        <5>1. m - 1 # 0 /\ m - 1 <= BUFFER_SZ + 1
          BY <1>2, <2>2, <2>3, <4>2
        <5> QED BY <2>2, <5>1 DEF s
      <4> QED BY <4>1, <4>2
    <3>4. after[m] = [buff |-> Append(s.buff, ch), curr_buff_len |-> s.curr_buff_len + 1,
                      has_preceeding_space_char |-> ch = Blank, is_valid_char |-> TRUE]
      <4> DEFINE valid == \/ s.is_valid_char
                          \/ ch # Blank
                          \/ ~s.has_preceeding_space_char
      <4>1. valid = TRUE
        BY <3>3
      <4>2. after[m] = [buff |-> Append(s.buff, IF valid THEN ch ELSE Hole),
                        curr_buff_len |-> s.curr_buff_len + (IF valid THEN 1 ELSE 0),
                        has_preceeding_space_char |-> ch = Blank,
                        is_valid_char |-> valid]
        BY <2>1, <3>2 DEF SetupStep
      <4> HIDE DEF valid, ch
      <4> QED BY <4>1, <4>2
    <3>5. Append(SubSeq(b, 1, m - 1), ch) = SubSeq(b, 1, m)
      <4>1. ch = b[m]
        BY <1>1
      <4>2. \A i \in 1 .. m - 1 : b[i] \in D
        <5>1. \A i \in 1 .. m - 1 : i \in 1 .. Len(b)
          BY <1>1
        <5> QED BY <1>1, <5>1, ElementOfSeq
      <4>3. SubSeq(b, 1, m - 1) \in Seq(D) /\ b[m] \in D
        BY <1>1, <4>2, SubSeqProperties, ElementOfSeq
      <4>4. SubSeq(b, 1, m) = SubSeq(b, 1, m - 1) \o <<b[m]>>
        <5>1. 1 \in 1 .. Len(b) /\ m \in 1 .. Len(b)
          BY <1>1
        <5> QED BY <1>1, <5>1, SubSeqRecursiveSecond
      <4> DEFINE t == SubSeq(b, 1, m - 1)
                 c == b[m]
      <4>5. t \in Seq(D) /\ c \in D
        BY <4>3
      <4> HIDE DEF t, c
      <4>6. Append(t, c) = t \o <<c>>
        BY <4>5, AppendIsConcat
      <4> QED BY <4>1, <4>4, <4>6 DEF t, c
    <3>6. /\ after[m].curr_buff_len = m /\ after[m].buff = SubSeq(b, 1, m)
          /\ after[m].is_valid_char = TRUE
      <4>1. after[m].curr_buff_len = s.curr_buff_len + 1 /\ after[m].is_valid_char = TRUE
            /\ after[m].buff = Append(s.buff, ch)
        <5> HIDE DEF ch
        <5> QED BY <3>4
      <4>2. (m - 1) + 1 = m
        BY <2>2
      <4> HIDE DEF ch
      <4> QED BY <3>1, <3>5, <4>1, <4>2
    <3>7. Good(m)
      BY <1>2, <2>2, <2>3, <3>6
    <3> QED BY <3>7
  <2>4. CASE m > BUFFER_SZ + 1
    <3>1. s.curr_buff_len > BUFFER_SZ \/ s.curr_buff_len = TooLong
      <4>1. CASE m - 1 <= BUFFER_SZ + 1
        <5>1. s.curr_buff_len = m - 1
          BY <2>2, <4>1 DEF s
        <5> QED BY <1>2, <2>2, <2>4, <5>1
      <4>2. CASE ~(m - 1 <= BUFFER_SZ + 1)
        <5>1. m - 1 > BUFFER_SZ + 1
          BY <1>2, <2>2, <4>2
        <5> QED BY <2>2, <5>1 DEF s
      <4> QED BY <4>1, <4>2
    <3>2. after[m] = [s EXCEPT !.curr_buff_len = TooLong]
      BY <2>1, <3>1 DEF SetupStep
    <3>3. after[m].curr_buff_len = TooLong
      BY <3>2
    <3>4. Good(m)
      BY <1>2, <2>2, <2>4, <3>3
    <3> QED BY <3>4
  <2>5. m <= BUFFER_SZ + 1 \/ m > BUFFER_SZ + 1
    BY <1>2, <2>2
  <2> HIDE DEF G
  <2> QED BY <2>3, <2>4, <2>5
<1>5. 0 .. len \subseteq G
  <2> HIDE DEF G, len
  <2> QED BY <1>1, <1>3, <1>4, UpInduction
<1>6. Good(n)
  <2>1. n \in G
    <3> HIDE DEF G
    <3> QED BY <1>5
  <2> QED BY <2>1
<1> QED BY <1>6 DEF b

\* What setup_buff makes of a string.
LEMMA SetupResult ==
    ASSUME NEW C, NEW str \in Seq(C)
    PROVE  /\ Len(str) <= BUFFER_SZ + 1 =>
                 /\ setup_buff(str).rc = Len(str)
                 /\ setup_buff(str).buff =
                       Blanked(str) \o [k \in 1 .. BUFFER_SZ - Len(str) |-> Dot]
           /\ Len(str) > BUFFER_SZ + 1 => setup_buff(str).rc = TooLong
<1> DEFINE n == Len(str)
<1>1. PICK after : Fills(str, after)
  BY Filled
<1>2. setup_buff(str) =
          [buff |-> after[n].buff \o [k \in 1 .. BUFFER_SZ - n |-> Dot],
           rc   |-> after[n].curr_buff_len]
  BY <1>1 DEF Fills
<1>3. /\ n <= BUFFER_SZ + 1 => /\ after[n].curr_buff_len = n
                               /\ after[n].buff = SubSeq(Blanked(str), 1, n)
      /\ n > BUFFER_SZ + 1 => after[n].curr_buff_len = TooLong
  <2>1. n \in 0 .. n
    BY LenProperties
  <2> HIDE DEF n
  <2> QED BY <1>1, <2>1, FilledUpTo DEF n
<1>4. SubSeq(Blanked(str), 1, n) = Blanked(str)
  BY BlankedTyped, SubSeqFull
<1> HIDE DEF n
<1>5. setup_buff(str).rc = after[n].curr_buff_len
      /\ setup_buff(str).buff = after[n].buff \o [k \in 1 .. BUFFER_SZ - n |-> Dot]
  <2> DEFINE buff == after[n].buff \o [k \in 1 .. BUFFER_SZ - n |-> Dot]
  <2>1. setup_buff(str) = [buff |-> buff, rc |-> after[n].curr_buff_len]
    BY <1>2
  <2> HIDE DEF buff
  <2>2. setup_buff(str).rc = after[n].curr_buff_len /\ setup_buff(str).buff = buff
    BY <2>1
  <2> QED BY <2>2 DEF buff
<1>6. /\ n <= BUFFER_SZ + 1 =>
            /\ setup_buff(str).rc = n
            /\ setup_buff(str).buff = Blanked(str) \o [k \in 1 .. BUFFER_SZ - n |-> Dot]
      /\ n > BUFFER_SZ + 1 => setup_buff(str).rc = TooLong
  BY <1>3, <1>4, <1>5
<1> QED BY <1>6 DEF n

\* What count_words has after each character.
Counts(buff, n, started, after) ==
    /\ after[0] = [in_word |-> started, count |-> 0]
    /\ \A i \in 1 .. n : after[i] = CountStep(after[i - 1], buff[i])
    /\ count_words(buff, n, started) = after[n].count

\* count_words goes through the buffer one character after the other.
LEMMA Counted ==
    ASSUME NEW buff, NEW len \in Nat, len <= BUFFER_SZ, NEW started
    PROVE  \E after : Counts(buff, len, started, after)
<1> DEFINE n == len
           Next1(x, i) == CountStep(x, buff[i])
           Step(f, i) == IF i = 0 THEN [in_word |-> started, count |-> 0] ELSE Next1(f[i - 1], i)
           after == CHOOSE f : f = [i \in 0 .. n |-> Step(f, i)]
           Upto(m, h) == h[0] = [in_word |-> started, count |-> 0] /\ \A i \in 1 .. m : h[i] = Next1(h[i - 1], i)
           G == {m \in 0 .. n : \E h : Upto(m, h)}
<1>1. n \in Nat
  OBVIOUS
<1>2. count_words(buff, len, started) = after[n].count
  BY <1>1, BufferAssumption DEF count_words
<1> HIDE DEF n, Next1
<1>3. 0 \in G
  <2> DEFINE h == [i \in 0 .. 0 |-> [in_word |-> started, count |-> 0]]
  <2>1. h[0] = [in_word |-> started, count |-> 0]
    OBVIOUS
  <2> HIDE DEF h
  <2>2. Upto(0, h)
    BY <2>1
  <2> QED BY <1>1, <2>2
<1>4. ASSUME NEW m \in 1 .. n, m - 1 \in G PROVE m \in G
  <2>1. PICK h : Upto(m - 1, h)
    BY <1>4
  <2> DEFINE g == [i \in 0 .. m |-> IF i = m THEN Next1(h[m - 1], m) ELSE h[i]]
  <2>2. g[m] = Next1(h[m - 1], m) /\ \A i \in 0 .. m - 1 : g[i] = h[i]
    BY <1>1
  <2> HIDE DEF g
  <2>3. g[0] = [in_word |-> started, count |-> 0]
    BY <1>1, <2>1, <2>2
  <2>4. ASSUME NEW i \in 1 .. m PROVE g[i] = Next1(g[i - 1], i)
    <3>1. i - 1 \in 0 .. m - 1 /\ g[i - 1] = h[i - 1]
      BY <1>1, <2>2
    <3>2. CASE i = m
      BY <2>2, <3>1, <3>2
    <3>3. CASE i # m
      <4>1. i \in 1 .. m - 1 /\ i \in 0 .. m - 1
        BY <1>1, <3>3
      <4> QED BY <2>1, <2>2, <3>1, <4>1
    <3> QED BY <3>2, <3>3
  <2>5. Upto(m, g)
    BY <2>3, <2>4
  <2>6. \E h2 : Upto(m, h2)
    <3> HIDE DEF Upto
    <3> QED BY <2>5
  <2> QED BY <1>1, <2>6
<1>5. 0 .. n \subseteq G
  <2> HIDE DEF G
  <2> QED BY <1>1, <1>3, <1>4, UpInduction
<1>6. PICK h : Upto(n, h)
  <2>1. n \in 0 .. n
    BY <1>1
  <2>2. n \in G
    <3> HIDE DEF G
    <3> QED BY <1>5, <2>1
  <2> QED BY <2>2
<1> DEFINE g == [i \in 0 .. n |-> h[i]]
<1>7. ASSUME NEW i \in 0 .. n PROVE g[i] = Step(g, i)
  <2>1. CASE i = 0
    BY <1>6, <2>1
  <2>2. CASE i # 0
    <3>1. i \in 1 .. n /\ i - 1 \in 0 .. n
      BY <1>1, <2>2
    <3> QED BY <1>6, <2>2, <3>1
  <2> QED BY <2>1, <2>2
<1>8. \E f : f = [i \in 0 .. n |-> Step(f, i)]
  <2>1. g = [i \in 0 .. n |-> g[i]]
    OBVIOUS
  <2> HIDE DEF g, Step
  <2>2. g = [i \in 0 .. n |-> Step(g, i)]
    BY <1>7, <2>1
  <2> QED BY <2>2
<1>9. after = [i \in 0 .. n |-> Step(after, i)]
  BY <1>8
<1> HIDE DEF after
<1>10. after[0] = [in_word |-> started, count |-> 0]
  BY <1>1, <1>9
<1>11. \A i \in 1 .. n : after[i] = Next1(after[i - 1], i)
  BY <1>1, <1>9
<1>12. Counts(buff, len, started, after)
  BY <1>2, <1>10, <1>11 DEF Counts, Next1, n
<1> QED BY <1>12

\* What reverse_words has after each character.
Reverses(buff, n, after) ==
    /\ after[0] = [out |-> <<>>, j |-> 1]
    /\ \A i \in 1 .. n : after[i] = ReverseStep(buff, n, after[i - 1], i)
    /\ reverse_words(buff, n) = [out |-> after[n].out, rc |-> 0]

\* reverse_words goes through the buffer one character after the other.
LEMMA Reversed ==
    ASSUME NEW buff, NEW len \in Nat, len <= BUFFER_SZ
    PROVE  \E after : Reverses(buff, len, after)
<1> DEFINE n == len
           Next1(x, i) == ReverseStep(buff, len, x, i)
           Step(f, i) == IF i = 0 THEN [out |-> <<>>, j |-> 1] ELSE Next1(f[i - 1], i)
           after == CHOOSE f : f = [i \in 0 .. n |-> Step(f, i)]
           Upto(m, h) == h[0] = [out |-> <<>>, j |-> 1] /\ \A i \in 1 .. m : h[i] = Next1(h[i - 1], i)
           G == {m \in 0 .. n : \E h : Upto(m, h)}
<1>1. n \in Nat
  OBVIOUS
<1>2. reverse_words(buff, len) = [out |-> after[n].out, rc |-> 0]
  BY <1>1, BufferAssumption DEF reverse_words
<1> HIDE DEF n, Next1
<1>3. 0 \in G
  <2> DEFINE h == [i \in 0 .. 0 |-> [out |-> <<>>, j |-> 1]]
  <2>1. h[0] = [out |-> <<>>, j |-> 1]
    OBVIOUS
  <2> HIDE DEF h
  <2>2. Upto(0, h)
    BY <2>1
  <2> QED BY <1>1, <2>2
<1>4. ASSUME NEW m \in 1 .. n, m - 1 \in G PROVE m \in G
  <2>1. PICK h : Upto(m - 1, h)
    BY <1>4
  <2> DEFINE g == [i \in 0 .. m |-> IF i = m THEN Next1(h[m - 1], m) ELSE h[i]]
  <2>2. g[m] = Next1(h[m - 1], m) /\ \A i \in 0 .. m - 1 : g[i] = h[i]
    BY <1>1
  <2> HIDE DEF g
  <2>3. g[0] = [out |-> <<>>, j |-> 1]
    BY <1>1, <2>1, <2>2
  <2>4. ASSUME NEW i \in 1 .. m PROVE g[i] = Next1(g[i - 1], i)
    <3>1. i - 1 \in 0 .. m - 1 /\ g[i - 1] = h[i - 1]
      BY <1>1, <2>2
    <3>2. CASE i = m
      BY <2>2, <3>1, <3>2
    <3>3. CASE i # m
      <4>1. i \in 1 .. m - 1 /\ i \in 0 .. m - 1
        BY <1>1, <3>3
      <4> QED BY <2>1, <2>2, <3>1, <4>1
    <3> QED BY <3>2, <3>3
  <2>5. Upto(m, g)
    BY <2>3, <2>4
  <2>6. \E h2 : Upto(m, h2)
    <3> HIDE DEF Upto
    <3> QED BY <2>5
  <2> QED BY <1>1, <2>6
<1>5. 0 .. n \subseteq G
  <2> HIDE DEF G
  <2> QED BY <1>1, <1>3, <1>4, UpInduction
<1>6. PICK h : Upto(n, h)
  <2>1. n \in 0 .. n
    BY <1>1
  <2>2. n \in G
    <3> HIDE DEF G
    <3> QED BY <1>5, <2>1
  <2> QED BY <2>2
<1> DEFINE g == [i \in 0 .. n |-> h[i]]
<1>7. ASSUME NEW i \in 0 .. n PROVE g[i] = Step(g, i)
  <2>1. CASE i = 0
    BY <1>6, <2>1
  <2>2. CASE i # 0
    <3>1. i \in 1 .. n /\ i - 1 \in 0 .. n
      BY <1>1, <2>2
    <3> QED BY <1>6, <2>2, <3>1
  <2> QED BY <2>1, <2>2
<1>8. \E f : f = [i \in 0 .. n |-> Step(f, i)]
  <2>1. g = [i \in 0 .. n |-> g[i]]
    OBVIOUS
  <2> HIDE DEF g, Step
  <2>2. g = [i \in 0 .. n |-> Step(g, i)]
    BY <1>7, <2>1
  <2> QED BY <2>2
<1>9. after = [i \in 0 .. n |-> Step(after, i)]
  BY <1>8
<1> HIDE DEF after
<1>10. after[0] = [out |-> <<>>, j |-> 1]
  BY <1>1, <1>9
<1>11. \A i \in 1 .. n : after[i] = Next1(after[i - 1], i)
  BY <1>1, <1>9
<1>12. Reverses(buff, len, after)
  BY <1>2, <1>10, <1>11 DEF Reverses, Next1, n
<1> QED BY <1>12

\* What print_words_and_their_lengths has after each character.
Prints(buff, n, after) ==
    /\ after[0] = [words |-> <<>>, j |-> 1]
    /\ \A i \in 1 .. n + 1 : after[i] = PrintStep(buff, n, after[i - 1], i)
    /\ print_words_and_their_lengths(buff, n) = [words |-> after[n + 1].words, rc |-> 0]

\* print_words_and_their_lengths goes through the buffer one character after
\* the other, and one beyond.
LEMMA Printed ==
    ASSUME NEW buff, NEW len \in Nat, len <= BUFFER_SZ
    PROVE  \E after : Prints(buff, len, after)
<1> DEFINE n == len + 1
           Next1(x, i) == PrintStep(buff, len, x, i)
           Step(f, i) == IF i = 0 THEN [words |-> <<>>, j |-> 1] ELSE Next1(f[i - 1], i)
           after == CHOOSE f : f = [i \in 0 .. n |-> Step(f, i)]
           Upto(m, h) == h[0] = [words |-> <<>>, j |-> 1] /\ \A i \in 1 .. m : h[i] = Next1(h[i - 1], i)
           G == {m \in 0 .. n : \E h : Upto(m, h)}
<1>1. n \in Nat
  OBVIOUS
<1>2. print_words_and_their_lengths(buff, len) = [words |-> after[n].words, rc |-> 0]
  BY <1>1, BufferAssumption DEF print_words_and_their_lengths
<1> HIDE DEF n, Next1
<1>3. 0 \in G
  <2> DEFINE h == [i \in 0 .. 0 |-> [words |-> <<>>, j |-> 1]]
  <2>1. h[0] = [words |-> <<>>, j |-> 1]
    OBVIOUS
  <2> HIDE DEF h
  <2>2. Upto(0, h)
    BY <2>1
  <2> QED BY <1>1, <2>2
<1>4. ASSUME NEW m \in 1 .. n, m - 1 \in G PROVE m \in G
  <2>1. PICK h : Upto(m - 1, h)
    BY <1>4
  <2> DEFINE g == [i \in 0 .. m |-> IF i = m THEN Next1(h[m - 1], m) ELSE h[i]]
  <2>2. g[m] = Next1(h[m - 1], m) /\ \A i \in 0 .. m - 1 : g[i] = h[i]
    BY <1>1
  <2> HIDE DEF g
  <2>3. g[0] = [words |-> <<>>, j |-> 1]
    BY <1>1, <2>1, <2>2
  <2>4. ASSUME NEW i \in 1 .. m PROVE g[i] = Next1(g[i - 1], i)
    <3>1. i - 1 \in 0 .. m - 1 /\ g[i - 1] = h[i - 1]
      BY <1>1, <2>2
    <3>2. CASE i = m
      BY <2>2, <3>1, <3>2
    <3>3. CASE i # m
      <4>1. i \in 1 .. m - 1 /\ i \in 0 .. m - 1
        BY <1>1, <3>3
      <4> QED BY <2>1, <2>2, <3>1, <4>1
    <3> QED BY <3>2, <3>3
  <2>5. Upto(m, g)
    BY <2>3, <2>4
  <2>6. \E h2 : Upto(m, h2)
    <3> HIDE DEF Upto
    <3> QED BY <2>5
  <2> QED BY <1>1, <2>6
<1>5. 0 .. n \subseteq G
  <2> HIDE DEF G
  <2> QED BY <1>1, <1>3, <1>4, UpInduction
<1>6. PICK h : Upto(n, h)
  <2>1. n \in 0 .. n
    BY <1>1
  <2>2. n \in G
    <3> HIDE DEF G
    <3> QED BY <1>5, <2>1
  <2> QED BY <2>2
<1> DEFINE g == [i \in 0 .. n |-> h[i]]
<1>7. ASSUME NEW i \in 0 .. n PROVE g[i] = Step(g, i)
  <2>1. CASE i = 0
    BY <1>6, <2>1
  <2>2. CASE i # 0
    <3>1. i \in 1 .. n /\ i - 1 \in 0 .. n
      BY <1>1, <2>2
    <3> QED BY <1>6, <2>2, <3>1
  <2> QED BY <2>1, <2>2
<1>8. \E f : f = [i \in 0 .. n |-> Step(f, i)]
  <2>1. g = [i \in 0 .. n |-> g[i]]
    OBVIOUS
  <2> HIDE DEF g, Step
  <2>2. g = [i \in 0 .. n |-> Step(g, i)]
    BY <1>7, <2>1
  <2> QED BY <2>2
<1>9. after = [i \in 0 .. n |-> Step(after, i)]
  BY <1>8
<1> HIDE DEF after
<1>10. after[0] = [words |-> <<>>, j |-> 1]
  BY <1>1, <1>9
<1>11. \A i \in 1 .. n : after[i] = Next1(after[i - 1], i)
  BY <1>1, <1>9
<1>12. Prints(buff, len, after)
  BY <1>2, <1>10, <1>11 DEF Prints, Next1, n
<1> QED BY <1>12

-----------------------------------------------------------------------------
(* The services. *)

\* A buffer that holds a string that fits.
LEMMA BufferRead ==
    ASSUME NEW C, NEW str \in Seq(C), Len(str) <= BUFFER_SZ
    PROVE  /\ setup_buff(str).buff \in Seq(C \cup {Blank, Dot})
           /\ Len(setup_buff(str).buff) = BUFFER_SZ
           /\ \A k \in 1 .. Len(str) : setup_buff(str).buff[k] = Blanked(str)[k]
           /\ \A k \in Len(str) + 1 .. BUFFER_SZ : setup_buff(str).buff[k] = Dot
           /\ setup_buff(str).rc = Len(str)
<1> DEFINE n == Len(str)
           D == C \cup {Blank, Dot}
           b == Blanked(str)
           m == BUFFER_SZ - n
           dots == [k \in 1 .. m |-> Dot]
<1>1. n \in Nat /\ BUFFER_SZ \in Nat /\ n <= BUFFER_SZ + 1 /\ m \in Nat
  BY LenProperties, BufferAssumption
<1>2. b \in Seq(D) /\ Len(b) = n
  <2>1. b \in Seq(C \cup {Blank}) /\ Len(b) = n
    BY BlankedTyped
  <2>2. C \cup {Blank} \subseteq D
    OBVIOUS
  <2> HIDE DEF b, D
  <2> QED BY <2>1, <2>2, SeqMonotonic
<1>3. dots \in Seq(D) /\ Len(dots) = m /\ \A k \in 1 .. m : dots[k] = Dot
  <2>1. dots \in [1 .. m -> D] /\ \A k \in 1 .. m : dots[k] = Dot
    OBVIOUS
  <2> HIDE DEF dots, D, m
  <2> QED BY <1>1, <2>1, FunctionIsSeq
<1>4. setup_buff(str).buff = b \o dots /\ setup_buff(str).rc = n
  BY <1>1, SetupResult
<1> HIDE DEF b, D, dots, n
<1>5. /\ b \o dots \in Seq(D) /\ Len(b \o dots) = n + m
      /\ \A k \in 1 .. n + m : (b \o dots)[k] = IF k <= n THEN b[k] ELSE dots[k - n]
  <2> HIDE DEF m
  <2> QED BY <1>2, <1>3, ConcatProperties
<1>6. n + m = BUFFER_SZ
  BY <1>1
<1>7. \A k \in 1 .. n : k \in 1 .. n + m /\ k <= n
  BY <1>1
<1> HIDE DEF m
<1>8. \A k \in 1 .. n : (b \o dots)[k] = b[k]
  BY <1>5, <1>7
<1>9. \A k \in n + 1 .. BUFFER_SZ : k \in 1 .. n + m /\ ~(k <= n) /\ k - n \in 1 .. m
  BY <1>1, <1>6
<1>10. \A k \in n + 1 .. BUFFER_SZ : (b \o dots)[k] = Dot
  BY <1>3, <1>5, <1>9
<1> QED BY <1>4, <1>5, <1>6, <1>8, <1>10 DEF n, D, b

\* The count is one of words.
LEMMA CountTyped ==
    ASSUME NEW buff, NEW len \in Nat, len <= BUFFER_SZ, NEW started
    PROVE  count_words(buff, len, started) \in Nat
<1>1. PICK after : Counts(buff, len, started, after)
  BY Counted
<1> DEFINE G == {i \in 0 .. len : after[i].count \in Nat}
<1>2. 0 \in G
  BY <1>1 DEF Counts
<1>3. ASSUME NEW i \in 1 .. len, i - 1 \in G PROVE i \in G
  <2>1. after[i] = CountStep(after[i - 1], buff[i])
    BY <1>1 DEF Counts
  <2>2. after[i - 1].count \in Nat
    BY <1>3
  <2> DEFINE one == IF buff[i] # Blank /\ ~after[i - 1].in_word THEN 1 ELSE 0
  <2>3. after[i].count = after[i - 1].count + one
    BY <2>1 DEF CountStep
  <2>4. one \in Nat
    OBVIOUS
  <2> HIDE DEF one
  <2> QED BY <2>2, <2>3, <2>4
<1>4. 0 .. len \subseteq G
  <2> HIDE DEF G
  <2> QED BY <1>2, <1>3, UpInduction
<1>5. len \in G
  <2>1. len \in 0 .. len
    OBVIOUS
  <2> HIDE DEF G
  <2> QED BY <1>4, <2>1
<1> QED BY <1>1, <1>5 DEF Counts

\* A string that fits is in the buffer with its words, in cells that were all
\* written, with dots behind it (setup_buff), for strings of any length and every
\* BUFFER_SZ.
THEOREM FilledBuffer == Spec => []BufferFilled
<1>1. InputTyped => BufferFilled
  <2> SUFFICES ASSUME InputTyped, kind = "string", Len(input) <= BUFFER_SZ
               PROVE  LET setup == setup_buff(input)
                      IN /\ setup.rc \in 0 .. BUFFER_SZ /\ Len(setup.buff) = BUFFER_SZ
                         /\ Fields(SubSeq(setup.buff, 1, setup.rc), Blank) = WordsOf(input)
                         /\ \A k \in 1 .. BUFFER_SZ : /\ setup.buff[k] \notin {Hole, Tab}
                                                      /\ k > setup.rc => setup.buff[k] = Dot
    BY DEF BufferFilled
  <2> DEFINE C == Cells["string"]
             D == C \cup {Blank, Dot}
             E == C \cup {Blank}
             n == Len(input)
             buff == setup_buff(input).buff
             text == Blanked(input)
  <2>1. input \in Seq(C)
    BY DEF InputTyped
  <2>2. C = {"a", "b", Blank, Tab}
    BY DEF Cells
  <2> HIDE DEF C
  <2>3. n \in Nat /\ BUFFER_SZ \in Nat /\ \A k \in 1 .. n : input[k] \in C
    BY <2>1, LenProperties, ElementOfSeq, BufferAssumption
  <2>4. /\ buff \in Seq(D) /\ Len(buff) = BUFFER_SZ
        /\ \A k \in 1 .. n : buff[k] = text[k]
        /\ \A k \in n + 1 .. BUFFER_SZ : buff[k] = Dot
        /\ setup_buff(input).rc = n
    BY <2>1, BufferRead
  <2>5. /\ text \in Seq(E) /\ Len(text) = n
        /\ \A k \in 1 .. n : text[k] = IF input[k] = Tab THEN Blank ELSE input[k]
    BY <2>1, BlankedTyped
  <2>6. WordsOf(input) = Fields(text, Blank)
    BY DEF WordsOf
  <2> HIDE DEF D, E, buff, text
  <2>7. SubSeq(buff, 1, n) = text
    <3> DEFINE t == SubSeq(buff, 1, n)
    <3>1. \A k \in 1 .. n : k \in 1 .. Len(buff)
      BY <2>3, <2>4 DEF n
    <3>2. \A k \in 1 .. n : buff[k] \in D
      BY <2>4, <3>1, ElementOfSeq
    <3> HIDE DEF n
    <3>3. /\ t \in Seq(D) /\ Len(t) = IF 1 <= n THEN n - 1 + 1 ELSE 0
          /\ \A k \in 1 .. n - 1 + 1 : t[k] = buff[1 + k - 1]
      BY <2>3, <3>2, SubSeqProperties
    <3>4. Len(t) = n /\ \A k \in 1 .. n : t[k] = text[k]
      <4>1. n - 1 + 1 = n /\ Len(t) = n
        BY <2>3, <3>3
      <4>2. \A k \in 1 .. n : 1 + k - 1 = k
        BY <2>3
      <4> QED BY <2>4, <3>3, <4>1, <4>2
    <3> HIDE DEF t
    <3> QED BY <2>5, <3>3, <3>4, SeqEqual DEF t
  <2>8. ASSUME NEW k \in 1 .. BUFFER_SZ
        PROVE  buff[k] \notin {Hole, Tab} /\ (k > n => buff[k] = Dot)
    <3>1. CASE k > n
      <4>1. k \in n + 1 .. BUFFER_SZ
        BY <2>3, <3>1
      <4> QED BY <2>4, <4>1 DEF Dot, Hole, Tab
    <3>2. CASE ~(k > n)
      <4>1. k \in 1 .. n
        BY <2>3, <3>2
      <4>2. buff[k] \in {"a", "b", Blank}
        BY <2>2, <2>3, <2>4, <2>5, <4>1
      <4> QED BY <3>2, <4>2 DEF Blank, Hole, Tab
    <3> QED BY <3>1, <3>2
  <2>9. n \in 0 .. BUFFER_SZ
    BY <2>3
  <2> HIDE DEF n
  <2> QED BY <2>4, <2>6, <2>7, <2>8, <2>9 DEF buff
<1> QED BY <1>1, InputsTyped, PTL

\* What the three services return: what was noticed counts for -r alone, and a
\* length that exceeds the buffer is reported.
LEMMA ServiceReturns ==
    ASSUME NEW opt \in {"c", "r", "w"}, NEW buff, NEW len \in Nat
    PROVE  /\ len <= BUFFER_SZ =>
                 ServiceResult(opt, buff, len)
                    = {0} \cup IF opt = "r" THEN Noticed(reverse_words(buff, len).out)
                               ELSE {}
           /\ len > BUFFER_SZ => ServiceResult(opt, buff, len) = {2}
<1>1. BUFFER_SZ \in Nat
  BY BufferAssumption
<1>2. ASSUME len <= BUFFER_SZ
      PROVE  ServiceResult(opt, buff, len)
                = {0} \cup IF opt = "r" THEN Noticed(reverse_words(buff, len).out) ELSE {}
  <2>1. \A in_word \in BOOLEAN : Status(count_words(buff, len, in_word)) = 0
    <3> TAKE in_word \in BOOLEAN
    <3> DEFINE c == count_words(buff, len, in_word)
    <3>1. c \in Nat
      BY <1>2, CountTyped
    <3> HIDE DEF c
    <3>2. Status(c) = 0
      BY <3>1 DEF Status
    <3> QED BY <3>2 DEF c
  <2>2. reverse_words(buff, len).rc = 0
    <3>1. PICK after : Reverses(buff, len, after)
      BY <1>2, Reversed
    <3>2. reverse_words(buff, len) = [out |-> after[len].out, rc |-> 0]
      BY <3>1 DEF Reverses
    <3> QED BY <3>2
  <2>3. print_words_and_their_lengths(buff, len).rc = 0
    <3>1. PICK after : Prints(buff, len, after)
      BY <1>2, Printed
    <3>2. print_words_and_their_lengths(buff, len) = [words |-> after[len + 1].words, rc |-> 0]
      BY <3>1 DEF Prints
    <3> QED BY <3>2
  <2>4. Status(0) = 0
    BY DEF Status
  <2>5. CASE opt = "c"
    <3>1. ServiceResult(opt, buff, len)
             = {Status(count_words(buff, len, in_word)) : in_word \in BOOLEAN}
      BY <2>5 DEF ServiceResult
    <3> QED BY <2>1, <2>5, <3>1
  <2>6. CASE opt = "r"
    <3>1. ServiceResult(opt, buff, len)
             = {Status(reverse_words(buff, len).rc)}
                  \cup Noticed(reverse_words(buff, len).out)
      BY <2>6 DEF ServiceResult
    <3> QED BY <2>2, <2>4, <2>6, <3>1
  <2>7. CASE opt = "w"
    <3>1. ServiceResult(opt, buff, len)
             = {Status(print_words_and_their_lengths(buff, len).rc)}
      BY <2>7 DEF ServiceResult
    <3> QED BY <2>3, <2>4, <2>7, <3>1
  <2> QED BY <2>5, <2>6, <2>7
<1>3. ASSUME len > BUFFER_SZ PROVE ServiceResult(opt, buff, len) = {2}
  <2>1. \A in_word \in BOOLEAN : count_words(buff, len, in_word) = TooLong
    BY <1>1, <1>3 DEF count_words
  <2>2. reverse_words(buff, len) = [out |-> <<>>, rc |-> TooLong]
    BY <1>1, <1>3 DEF reverse_words
  <2>3. print_words_and_their_lengths(buff, len).rc = TooLong
    BY <1>1, <1>3 DEF print_words_and_their_lengths
  <2>4. Status(TooLong) = 2
    BY DEF Status, TooLong
  <2>5. CASE opt = "c"
    <3>1. ServiceResult(opt, buff, len)
             = {Status(count_words(buff, len, in_word)) : in_word \in BOOLEAN}
      BY <2>5 DEF ServiceResult
    <3> QED BY <2>1, <2>4, <3>1
  <2>6. CASE opt = "r"
    <3>1. ServiceResult(opt, buff, len)
             = {Status(reverse_words(buff, len).rc)}
                  \cup Noticed(reverse_words(buff, len).out)
      BY <2>6 DEF ServiceResult
    <3>2. reverse_words(buff, len).rc = TooLong /\ reverse_words(buff, len).out = <<>>
      BY <2>2
    <3>3. Noticed(<<>>) = {}
      BY <1>1 DEF Noticed
    <3> QED BY <2>4, <3>1, <3>2, <3>3
  <2>7. CASE opt = "w"
    <3>1. ServiceResult(opt, buff, len)
             = {Status(print_words_and_their_lengths(buff, len).rc)}
      BY <2>7 DEF ServiceResult
    <3> QED BY <2>3, <2>4, <3>1
  <2> QED BY <2>5, <2>6, <2>7
<1> QED BY <1>2, <1>3

-----------------------------------------------------------------------------
(* How much reverse_words writes. *)

\* The places at which the first i of n characters end a stretch.
BreaksIn(buff, n, i) == {k \in 1 .. i : buff[k] = Blank \/ k = n}

\* A stretch, turned round and closed.
LEMMA TurnedLength ==
    ASSUME NEW D, NEW buff \in Seq(D), NEW i \in 1 .. Len(buff), NEW j \in 1 .. i
    PROVE  /\ Reverse(SubSeq(buff, j, i)) \in Seq(D)
           /\ Len(Reverse(SubSeq(buff, j, i))) = i - j + 1
           /\ \A k \in 1 .. i - j + 1 : Reverse(SubSeq(buff, j, i))[k] = buff[i - k + 1]
<1> DEFINE s == SubSeq(buff, j, i)
           m == i - j + 1
<1>1. Len(buff) \in Nat /\ i \in Nat /\ j \in Nat /\ j <= i /\ m \in Nat
  BY LenProperties
<1>2. \A k \in j .. i : buff[k] \in D
  <2>1. \A k \in j .. i : k \in 1 .. Len(buff)
    BY <1>1
  <2> QED BY <2>1, ElementOfSeq
<1>3. /\ s \in Seq(D) /\ Len(s) = m
      /\ \A k \in 1 .. m : s[k] = buff[j + k - 1]
  <2>1. /\ s \in Seq(D) /\ Len(s) = IF j <= i THEN i - j + 1 ELSE 0
        /\ \A k \in 1 .. i - j + 1 : s[k] = buff[j + k - 1]
    BY <1>1, <1>2, SubSeqProperties
  <2> QED BY <1>1, <2>1
<1> HIDE DEF s, m
<1>4. Reverse(s) = [k \in 1 .. m |-> s[(m - k) + 1]]
  BY <1>3 DEF Reverse
<1>5. \A k \in 1 .. m : (m - k) + 1 \in 1 .. m /\ j + ((m - k) + 1) - 1 = i - k + 1
  BY <1>1 DEF m
<1>6. \A k \in 1 .. m : s[(m - k) + 1] = buff[i - k + 1] /\ s[(m - k) + 1] \in D
  <2>1. \A k \in 1 .. m : s[k] \in D
    BY <1>3, ElementOfSeq
  <2> QED BY <1>3, <1>5, <2>1
<1>7. Reverse(s) \in [1 .. m -> D]
  BY <1>4, <1>6
<1>8. Reverse(s) \in Seq(D) /\ Len(Reverse(s)) = m
  BY <1>1, <1>7, FunctionIsSeq
<1>9. \A k \in 1 .. m : Reverse(s)[k] = buff[i - k + 1]
  BY <1>4, <1>6
<1> QED BY <1>8, <1>9 DEF s, m

\* After i characters everything up to the last break has been written, with two
\* characters more for each break.
LEMMA WrittenUpTo ==
    ASSUME NEW D, Blank \in D, NEW buff \in Seq(D), NEW n \in Nat, n <= Len(buff),
           NEW after, Reverses(buff, n, after), NEW i \in 0 .. n
    PROVE  /\ after[i].out \in Seq(D) /\ after[i].j \in Nat
           /\ IsFiniteSet(BreaksIn(buff, n, i))
           /\ Cardinality(BreaksIn(buff, n, i)) \in Nat
           /\ Cardinality(BreaksIn(buff, n, i)) <= i
           /\ Len(after[i].out) = after[i].j - 1 + 2 * Cardinality(BreaksIn(buff, n, i))
           /\ 1 <= after[i].j /\ after[i].j <= i + 1
           /\ i # 0 => after[i].j <= i
           /\ i = n /\ n # 0 => after[i].j = n
<1> DEFINE c(k) == Cardinality(BreaksIn(buff, n, k))
           s(k) == after[k]
           Good(k) == /\ s(k).out \in Seq(D) /\ s(k).j \in Nat
                      /\ IsFiniteSet(BreaksIn(buff, n, k))
                      /\ c(k) \in Nat /\ c(k) <= k
                      /\ Len(s(k).out) = s(k).j - 1 + 2 * c(k)
                      /\ 1 <= s(k).j /\ s(k).j <= k + 1
                      /\ k # 0 => s(k).j <= k
                      /\ k = n /\ n # 0 => s(k).j = n
           G == {k \in 0 .. n : Good(k)}
<1>1. Len(buff) \in Nat /\ 0 \in 0 .. n
  BY LenProperties
<1>2. 0 \in G
  <2>1. s(0) = [out |-> <<>>, j |-> 1]
    BY DEF Reverses
  <2>2. BreaksIn(buff, n, 0) = {}
    BY DEF BreaksIn
  <2>3. IsFiniteSet(BreaksIn(buff, n, 0)) /\ c(0) = 0
    BY <2>2, FS_EmptySet
  <2>4. s(0).out = <<>> /\ s(0).j = 1
    BY <2>1
  <2> HIDE DEF s, c
  <2>5. s(0).out \in Seq(D) /\ Len(s(0).out) = 0
    BY <2>4, EmptySeq
  <2>6. Len(s(0).out) = s(0).j - 1 + 2 * c(0)
    BY <2>3, <2>4, <2>5
  <2>7. c(0) \in Nat /\ c(0) <= 0 /\ s(0).j \in Nat /\ 1 <= s(0).j /\ s(0).j <= 0 + 1
    BY <2>3, <2>4
  <2>8. Good(0)
    BY <2>3, <2>5, <2>6, <2>7
  <2> QED BY <1>1, <2>8
<1>3. ASSUME NEW k \in 1 .. n, k - 1 \in G PROVE k \in G
  <2>1. Good(k - 1) /\ k \in Nat /\ k >= 1 /\ k <= n /\ k \in 0 .. n
    BY <1>3
  <2>2. s(k) = ReverseStep(buff, n, s(k - 1), k)
    BY DEF Reverses
  <2> DEFINE old == s(k - 1)
             b == BreaksIn(buff, n, k - 1)
  <2>3. 1 .. k = (1 .. k - 1) \cup {k}
    BY <2>1
  <2> DEFINE ends == buff[k] = Blank \/ k = n
  <2>4. BreaksIn(buff, n, k) = IF ends THEN b \cup {k} ELSE b
    BY <2>3 DEF BreaksIn
  <2>5. k \notin b
    BY <2>1 DEF BreaksIn
  <2>6. /\ old.out \in Seq(D) /\ old.j \in Nat /\ IsFiniteSet(b)
        /\ c(k - 1) = Cardinality(b) /\ c(k - 1) \in Nat /\ c(k - 1) <= k - 1
        /\ Len(old.out) = old.j - 1 + 2 * c(k - 1)
        /\ 1 <= old.j /\ old.j <= k
    BY <2>1
  <2>7. CASE ends
    <3> DEFINE r == Reverse(SubSeq(buff, old.j, k))
    <3>1. s(k) = [out |-> old.out \o r \o <<Blank>>, j |-> k]
      BY <2>2, <2>7 DEF ReverseStep
    <3>2. k \in 1 .. Len(buff) /\ old.j \in 1 .. k
      BY <1>1, <2>1, <2>6
    <3>3. r \in Seq(D) /\ Len(r) = k - old.j + 1
      <4> DEFINE j == old.j
      <4>1. j \in 1 .. k
        BY <3>2
      <4> HIDE DEF j, old
      <4>2. Reverse(SubSeq(buff, j, k)) \in Seq(D)
            /\ Len(Reverse(SubSeq(buff, j, k))) = k - j + 1
        BY <3>2, <4>1, TurnedLength
      <4> QED BY <4>2 DEF j
    <3>4. c(k) = c(k - 1) + 1 /\ IsFiniteSet(BreaksIn(buff, n, k))
      <4>1. BreaksIn(buff, n, k) = b \cup {k}
        BY <2>4, <2>7
      <4> HIDE DEF b
      <4>2. IsFiniteSet(b \cup {k}) /\ Cardinality(b \cup {k}) = Cardinality(b) + 1
        BY <2>5, <2>6, FS_AddElement
      <4> QED BY <2>6, <4>1, <4>2
    <3> HIDE DEF r
    <3>5. /\ old.out \o r \in Seq(D) /\ Len(old.out \o r) = Len(old.out) + Len(r)
      <4> DEFINE o == old.out
      <4>1. o \in Seq(D) /\ r \in Seq(D)
        BY <2>6, <3>3
      <4> HIDE DEF o
      <4>2. o \o r \in Seq(D) /\ Len(o \o r) = Len(o) + Len(r)
        BY <4>1, ConcatProperties
      <4> QED BY <4>2 DEF o
    <3> DEFINE x == old.out \o r
    <3>6. x \o <<Blank>> \in Seq(D) /\ Len(x \o <<Blank>>) = Len(x) + 1
      <4>1. <<Blank>> \in Seq(D) /\ Len(<<Blank>>) = 1
        OBVIOUS
      <4> HIDE DEF x
      <4> QED BY <3>5, <4>1, ConcatProperties DEF x
    <3>7. s(k).out = x \o <<Blank>> /\ s(k).j = k
      <4> HIDE DEF x
      <4> QED BY <3>1 DEF x
    <3>8. /\ Len(s(k).out) = Len(old.out) + Len(r) + 1
          /\ s(k).out \in Seq(D)
      <4> DEFINE o == s(k).out
                 y == x \o <<Blank>>
      <4>1. o = y
        BY <3>7
      <4>2. y \in Seq(D) /\ Len(y) = Len(x) + 1 /\ Len(x) = Len(old.out) + Len(r)
        BY <3>5, <3>6
      <4> HIDE DEF o, y, x
      <4>3. o \in Seq(D) /\ Len(o) = Len(x) + 1
        BY <4>1, <4>2
      <4> QED BY <4>2, <4>3 DEF o
    <3> DEFINE lo == Len(old.out)
               lr == Len(r)
               ln == Len(s(k).out)
    <3>9. /\ lo = old.j - 1 + 2 * c(k - 1) /\ lr = k - old.j + 1 /\ ln = lo + lr + 1
      BY <2>6, <3>3, <3>8
    <3>10. ln = k - 1 + 2 * c(k) /\ c(k) <= k /\ c(k) \in Nat
      <4> DEFINE new == c(k)
                 was == c(k - 1)
                 oj == old.j
      <4>1. /\ new = was + 1 /\ was \in Nat /\ was <= k - 1 /\ oj \in Nat /\ k \in Nat
            /\ lo = oj - 1 + 2 * was /\ lr = k - oj + 1 /\ ln = lo + lr + 1
        BY <2>1, <2>6, <3>4, <3>9
      <4> HIDE DEF lo, lr, ln, new, was, oj
      <4>2. ln = k - 1 + 2 * new /\ new <= k /\ new \in Nat
        BY <4>1
      <4> QED BY <4>2 DEF new
    <3>11. Good(k)
      <4> HIDE DEF c, s
      <4> QED BY <2>1, <3>4, <3>7, <3>8, <3>10
    <3> QED BY <2>1, <3>11
  <2>8. CASE ~ends
    <3>1. s(k) = old
      BY <2>2, <2>8 DEF ReverseStep
    <3>2. BreaksIn(buff, n, k) = b
      BY <2>4, <2>8
    <3>3. c(k) = c(k - 1) /\ IsFiniteSet(BreaksIn(buff, n, k))
      BY <2>6, <3>2
    <3>4. k # n
      BY <2>8
    <3>5. Good(k)
      <4> HIDE DEF c, s, b
      <4> QED BY <2>1, <2>6, <3>1, <3>3, <3>4
    <3> QED BY <2>1, <3>5
  <2> HIDE DEF ends, G
  <2> QED BY <2>7, <2>8
<1>4. 0 .. n \subseteq G
  <2> HIDE DEF G
  <2> QED BY <1>2, <1>3, UpInduction
<1>5. Good(i)
  <2>1. i \in G
    <3> HIDE DEF G
    <3> QED BY <1>4
  <2> QED BY <2>1
<1> QED BY <1>5

\* The length of what is written for a string that fits.
LEMMA ReversedLength ==
    ASSUME NEW C, NEW str \in Seq(C), Len(str) <= BUFFER_SZ
    PROVE  LET setup == setup_buff(str)
               out   == reverse_words(setup.buff, setup.rc).out
           IN /\ str = <<>> => Len(out) = 0
              /\ str # <<>> => /\ Len(out) = Len(str) - 1 + 2 * Cardinality(Breaks(str))
                               /\ Cardinality(Breaks(str)) \in Nat
                               /\ Cardinality(Breaks(str)) <= Len(str)
<1> DEFINE D == C \cup {Blank, Dot}
           n == Len(str)
           buff == setup_buff(str).buff
           out == reverse_words(buff, n).out
<1>1. n \in Nat /\ BUFFER_SZ \in Nat /\ DOMAIN str = 1 .. n /\ (n = 0 <=> str = <<>>)
  BY LenProperties, EmptySeq, BufferAssumption
<1>2. /\ buff \in Seq(D) /\ Len(buff) = BUFFER_SZ
      /\ \A k \in 1 .. n : buff[k] = Blanked(str)[k]
      /\ setup_buff(str).rc = n
  BY BufferRead
<1> HIDE DEF n, buff
<1>3. PICK after : Reverses(buff, n, after)
  BY <1>1, Reversed DEF n
<1>4. out = after[n].out
  <2>1. reverse_words(buff, n) = [out |-> after[n].out, rc |-> 0]
    BY <1>3 DEF Reverses
  <2> QED BY <2>1
<1> HIDE DEF D, out
<1>5. CASE n = 0
  <2>1. after[n] = [out |-> <<>>, j |-> 1]
    BY <1>3, <1>5 DEF Reverses
  <2>2. out = <<>>
    BY <1>4, <2>1
  <2> QED BY <1>1, <1>2, <1>5, <2>2 DEF out, buff
<1>6. CASE n # 0
  <2>1. Breaks(str) = BreaksIn(buff, n, n)
    BY <1>1, <1>2, <1>6 DEF BreaksIn, Breaks, n
  <2>2. /\ Len(out) = after[n].j - 1 + 2 * Cardinality(Breaks(str))
        /\ after[n].j = n
        /\ Cardinality(Breaks(str)) \in Nat /\ Cardinality(Breaks(str)) <= n
    <3>1. Blank \in D /\ n \in 0 .. n /\ n <= Len(buff) /\ n \in Nat
      BY <1>1, <1>2 DEF D, n
    <3> QED BY <1>2, <1>3, <1>4, <1>6, <2>1, <3>1, WrittenUpTo
  <2> QED BY <1>1, <1>2, <1>6, <2>2 DEF out, buff, n
<1> QED BY <1>5, <1>6

\* Exactly which strings overrun the result of reverse_words is known, and none
\* of up to a third of the buffer does, for every BUFFER_SZ.
THEOREM OverrunsKnown == Spec => []ReverseOverruns
<1>1. InputTyped => ReverseOverruns
  <2> SUFFICES ASSUME InputTyped, kind = "string", input # <<>>, Len(input) <= BUFFER_SZ
               PROVE  LET setup  == setup_buff(input)
                          out    == reverse_words(setup.buff, setup.rc).out
                      IN /\ Len(out) > BUFFER_SZ
                               <=> Len(input) + 2 * Cardinality(Breaks(input)) > BUFFER_SZ + 1
                         /\ 3 * Len(input) <= BUFFER_SZ + 1 => Len(out) <= BUFFER_SZ
    BY DEF ReverseOverruns
  <2> DEFINE C == Cells["string"]
             n == Len(input)
             l == Len(reverse_words(setup_buff(input).buff, setup_buff(input).rc).out)
             c == Cardinality(Breaks(input))
  <2>1. input \in Seq(C)
    BY DEF InputTyped
  <2> HIDE DEF C
  <2>2. n \in Nat /\ BUFFER_SZ \in Nat
    BY <2>1, LenProperties, BufferAssumption
  <2>3. l = n - 1 + 2 * c /\ c \in Nat /\ c <= n
    BY <2>1, ReversedLength
  <2> HIDE DEF n, l, c
  <2>4. /\ l > BUFFER_SZ <=> n + 2 * c > BUFFER_SZ + 1
        /\ 3 * n <= BUFFER_SZ + 1 => l <= BUFFER_SZ
    BY <2>2, <2>3
  <2> QED BY <2>4 DEF n, l, c
<1> QED BY <1>1, InputsTyped, PTL

\* The status is 0 only for a string that fits, with the memory its service needs;
\* then nothing is reported, and -r may abort exactly when reverse_words leaves its
\* block (main), for every string and every BUFFER_SZ.
THEOREM ServedStrings == Spec => []ServedOrReported
<1>1. InputTyped => ServedOrReported
  <2> SUFFICES ASSUME InputTyped, kind = "string",
                      NEW opt \in {"c", "r", "w"}, NEW blocks \in 0 .. 2
               PROVE  LET status == main(<<opt, input>>, blocks)
                          served == /\ Len(input) <= BUFFER_SZ
                                    /\ blocks >= IF opt = "r" THEN 2 ELSE 1
                      IN /\ 0 \in status <=> served
                         /\ served => status \subseteq {0, Aborted}
                         /\ Aborted \in status <=>
                               /\ served /\ opt = "r" /\ input # <<>>
                               /\ Len(input) + 2 * Cardinality(Breaks(input)) > BUFFER_SZ + 1
    BY DEF ServedOrReported
  <2> DEFINE C == Cells["string"]
             n == Len(input)
             setup == setup_buff(input)
             status == main(<<opt, input>>, blocks)
             enough == blocks >= IF opt = "r" THEN 2 ELSE 1
             out == reverse_words(setup.buff, setup.rc).out
             over == input # <<>> /\ n + 2 * Cardinality(Breaks(input)) > BUFFER_SZ + 1
  <2>1. input \in Seq(C)
    BY DEF InputTyped
  <2> HIDE DEF C
  <2>2. n \in Nat /\ BUFFER_SZ \in Nat /\ TooLong = 0 - 1
    BY <2>1, LenProperties, BufferAssumption DEF TooLong
  <2>3. /\ n <= BUFFER_SZ + 1 => setup.rc = n
        /\ n > BUFFER_SZ + 1 => setup.rc = TooLong
    BY <2>1, SetupResult
  <2> HIDE DEF n, setup
  <2>4. status = IF blocks = 0 THEN {99}
                 ELSE IF setup.rc < 0 THEN {2}
                 ELSE IF opt = "r" /\ blocks = 1 THEN {99}
                 ELSE ServiceResult(opt, setup.buff, setup.rc)
    BY DEF main, setup
  <2>5. enough <=> ~(blocks = 0) /\ ~(opt = "r" /\ blocks = 1)
    OBVIOUS
  <2> HIDE DEF status, enough, out, over
  <2>6. CASE n <= BUFFER_SZ /\ enough
    <3>1. setup.rc = n /\ ~(setup.rc < 0)
      BY <2>2, <2>3, <2>6
    <3>2. status = {0} \cup IF opt = "r" THEN Noticed(out) ELSE {}
      BY <2>2, <2>4, <2>5, <2>6, <3>1, ServiceReturns DEF out
    <3>3. Len(out) > BUFFER_SZ <=> over
      <4> DEFINE l == Len(out)
                 c == Cardinality(Breaks(input))
      <4>1. /\ input = <<>> => l = 0
            /\ input # <<>> => l = n - 1 + 2 * c /\ c \in Nat
        BY <2>1, <2>6, ReversedLength DEF n, out, setup
      <4> HIDE DEF l, c
      <4>2. l > BUFFER_SZ <=> input # <<>> /\ n + 2 * c > BUFFER_SZ + 1
        BY <2>2, <4>1
      <4> QED BY <4>2 DEF l, c, over
    <3>4. Noticed(out) = IF over THEN {Aborted} ELSE {}
      BY <3>3 DEF Noticed
    <3>5. Aborted # 0
      BY DEF Aborted
    <3>6. /\ 0 \in status /\ status \subseteq {0, Aborted}
          /\ Aborted \in status <=> opt = "r" /\ over
      BY <3>2, <3>4, <3>5
    <3> QED BY <2>6, <3>6 DEF status, enough, over, n
  <2>7. CASE ~(n <= BUFFER_SZ /\ enough)
    <3>1. status \in {{2}, {99}}
      <4>1. CASE ~enough
        BY <2>4, <2>5, <4>1
      <4>2. CASE n = BUFFER_SZ + 1
        <5>1. setup.rc = n /\ n > BUFFER_SZ
          BY <2>2, <2>3, <4>2
        <5>2. ServiceResult(opt, setup.buff, setup.rc) = {2}
          BY <2>2, <5>1, ServiceReturns
        <5> QED BY <2>4, <5>2
      <4>3. CASE n > BUFFER_SZ + 1
        <5>1. setup.rc < 0
          BY <2>2, <2>3, <4>3
        <5> QED BY <2>4, <5>1
      <4>4. n <= BUFFER_SZ \/ n = BUFFER_SZ + 1 \/ n > BUFFER_SZ + 1
        BY <2>2
      <4> QED BY <2>7, <4>1, <4>2, <4>3, <4>4
    <3>2. 0 \notin status /\ Aborted \notin status
      BY <3>1 DEF Aborted
    <3> QED BY <2>7, <3>2 DEF status, enough, n
  <2> QED BY <2>6, <2>7
<1> QED BY <1>1, InputsTyped, PTL

-----------------------------------------------------------------------------
(* The stretches between separators. *)

\* What strtok_r finds from each cell on.
Stretches(text, sep, C, from) ==
    /\ \A i \in 1 .. Len(text) + 1 : from[i] \in Seq(Seq(C))
    /\ Fields(text, sep) = from[1]
    /\ from[Len(text) + 1] = <<>>
    /\ \A i \in 1 .. Len(text) : text[i] = sep => from[i] = from[i + 1]
    /\ \A i \in 1 .. Len(text) : text[i] # sep =>
          from[i] = <<SubSeq(text, i, First(text, i, {sep}) - 1)>>
                       \o from[First(text, i, {sep})]

\* The stretches of a text are found from its first cell on.
LEMMA FieldsUnfold ==
    ASSUME NEW C, NEW text \in Seq(C), NEW sep
    PROVE  \E from : Stretches(text, sep, C, from)
<1> DEFINE n == Len(text)
           X == Seq(C)
           found == [i \in DOMAIN text |->
                        IF text[i] = sep THEN <<>>
                        ELSE <<SubSeq(text, i, First(text, i, {sep}) - 1)>>]
           next == [i \in DOMAIN text |->
                       IF text[i] = sep THEN i + 1 ELSE First(text, i, {sep})]
<1>1. n \in Nat /\ DOMAIN text = 1 .. n
  BY LenProperties
<1>2. Fields(text, sep) = Scan(found, next)
  BY DEF Fields
<1>3. ASSUME NEW i \in 1 .. n, text[i] # sep
      PROVE  /\ First(text, i, {sep}) \in i + 1 .. n + 1
             /\ SubSeq(text, i, First(text, i, {sep}) - 1) \in X
  <2> DEFINE e == First(text, i, {sep})
  <2>1. i \in 1 .. n + 1
    BY <1>1
  <2>2. /\ e \in i .. n + 1
        /\ e <= n => text[e] \in {sep}
    <3> HIDE DEF e
    <3> QED BY <2>1, FirstStop DEF e
  <2> HIDE DEF e
  <2>3. e \in i + 1 .. n + 1
    BY <1>1, <1>3, <2>2
  <2>4. \A k \in i .. e - 1 : text[k] \in C
    <3>1. \A k \in i .. e - 1 : k \in 1 .. n
      BY <1>1, <2>3
    <3> QED BY <3>1, ElementOfSeq
  <2>5. i \in Int /\ e - 1 \in Int
    BY <1>1, <2>3
  <2>6. SubSeq(text, i, e - 1) \in Seq(C)
    BY <2>4, <2>5, SubSeqProperties
  <2> QED BY <2>3, <2>6 DEF e
<1>4. ASSUME NEW i \in 1 .. n
      PROVE  /\ next[i] = IF text[i] = sep THEN i + 1 ELSE First(text, i, {sep})
             /\ found[i] = IF text[i] = sep THEN <<>>
                           ELSE <<SubSeq(text, i, First(text, i, {sep}) - 1)>>
             /\ next[i] \in i + 1 .. n + 1
  <2>1. i \in DOMAIN text /\ i + 1 \in i + 1 .. n + 1
    BY <1>1
  <2>2. next[i] = IF text[i] = sep THEN i + 1 ELSE First(text, i, {sep})
    BY <2>1
  <2>3. found[i] = IF text[i] = sep THEN <<>>
                   ELSE <<SubSeq(text, i, First(text, i, {sep}) - 1)>>
    BY <2>1
  <2>4. next[i] \in i + 1 .. n + 1
    <3> HIDE DEF next, n
    <3> QED BY <1>3, <2>1, <2>2
  <2> HIDE DEF found, next, n
  <2> QED BY <2>2, <2>3, <2>4
<1>5. found = [i \in 1 .. n |-> found[i]]
  BY <1>1
<1> HIDE DEF found, next, X
<1>6. \A i \in 1 .. n : found[i] \in Seq(X)
  <2>1. ASSUME NEW i \in 1 .. n PROVE found[i] \in Seq(X)
    <3>1. CASE text[i] = sep
      <4>1. found[i] = <<>>
        BY <1>4, <3>1
      <4> QED BY <4>1, EmptySeq
    <3>2. CASE text[i] # sep
      <4> DEFINE w == SubSeq(text, i, First(text, i, {sep}) - 1)
      <4>1. found[i] = <<w>> /\ w \in X
        BY <1>3, <1>4, <3>2
      <4> HIDE DEF w
      <4> QED BY <4>1
    <3> QED BY <3>1, <3>2
  <2> QED BY <2>1
<1> HIDE DEF n
<1>7. found \in Seq(Seq(X)) /\ Len(found) = n
  <2>1. found \in [1 .. n -> Seq(X)]
    BY <1>5, <1>6
  <2> QED BY <1>1, <2>1, FunctionIsSeq
<1>8. Forward(found, next)
  BY <1>4, <1>7 DEF Forward
<1>9. PICK from : Finds(found, next, X, from)
  BY <1>7, <1>8, ScanUnfolds
<1>10. /\ \A i \in 1 .. n + 1 : from[i] \in Seq(X)
       /\ Scan(found, next) = from[1]
       /\ from[n + 1] = <<>>
       /\ \A i \in 1 .. n : from[i] = found[i] \o from[next[i]]
  BY <1>7, <1>9 DEF Finds
<1>11. ASSUME NEW i \in 1 .. n, text[i] = sep PROVE from[i] = from[i + 1]
  <2>1. found[i] = <<>> /\ next[i] = i + 1 /\ i + 1 \in 1 .. n + 1
    <3>1. found[i] = <<>>
      BY <1>4, <1>11
    <3>2. next[i] = i + 1
      BY <1>4, <1>11
    <3> QED BY <1>1, <3>1, <3>2
  <2>2. from[i] = <<>> \o from[i + 1] /\ from[i + 1] \in Seq(X)
    BY <1>10, <2>1
  <2> QED BY <2>2, ConcatEmptySeq
<1>12. ASSUME NEW i \in 1 .. n, text[i] # sep
       PROVE  from[i] = <<SubSeq(text, i, First(text, i, {sep}) - 1)>>
                           \o from[First(text, i, {sep})]
  <2>1. found[i] = <<SubSeq(text, i, First(text, i, {sep}) - 1)>>
        /\ next[i] = First(text, i, {sep})
    BY <1>4, <1>12
  <2> QED BY <1>10, <2>1
<1>13. Stretches(text, sep, C, from)
  BY <1>2, <1>10, <1>11, <1>12 DEF Stretches, n, X
<1> QED BY <1>13

\* A stretch of a text, as a sequence of at most one word.
WordOf(text, a, e) == IF a = e THEN <<>> ELSE <<SubSeq(text, a, e - 1)>>

\* What is found from a cell on when the next separator, or the end, is at e.
LEMMA StretchFound ==
    ASSUME NEW C, NEW text \in Seq(C), NEW sep, NEW from, Stretches(text, sep, C, from),
           NEW a \in 1 .. Len(text) + 1, NEW e \in a .. Len(text) + 1,
           \A k \in a .. e - 1 : text[k] # sep, e <= Len(text) => text[e] = sep
    PROVE  from[a] = WordOf(text, a, e) \o from[e] /\ WordOf(text, a, e) \in Seq(Seq(C))
<1> DEFINE n == Len(text)
<1>1. n \in Nat /\ a \in Nat /\ e \in Nat /\ e \in 1 .. n + 1
  BY LenProperties
<1>2. from[e] \in Seq(Seq(C))
  BY <1>1 DEF Stretches
<1>3. CASE a = e
  <2>1. WordOf(text, a, e) = <<>>
    BY <1>3 DEF WordOf
  <2> QED BY <1>2, <1>3, <2>1, EmptySeq, ConcatEmptySeq
<1>4. CASE a # e
  <2>1. a \in 1 .. n /\ a \in a .. e - 1 /\ a \in 1 .. n + 1
    BY <1>1, <1>4
  <2>2. text[a] # sep
    BY <2>1
  <2> DEFINE f == First(text, a, {sep})
  <2>3. /\ f \in a .. n + 1
        /\ \A k \in a .. f - 1 : text[k] \notin {sep}
        /\ f <= n => text[f] \in {sep}
    <3> HIDE DEF f
    <3> QED BY <2>1, FirstStop DEF f
  <2>4. from[a] = <<SubSeq(text, a, f - 1)>> \o from[f]
    BY <2>1, <2>2 DEF Stretches
  <2> HIDE DEF f
  <2>5. f = e
    <3>1. ~(f < e)
      <4>1. ASSUME f < e PROVE FALSE
        <5>1. f \in a .. e - 1 /\ f <= n
          BY <1>1, <2>3, <4>1
        <5> QED BY <2>3, <5>1
      <4> QED BY <4>1
    <3>2. ~(e < f)
      <4>1. ASSUME e < f PROVE FALSE
        <5>1. e \in a .. f - 1 /\ e <= n
          BY <1>1, <2>3, <4>1
        <5> QED BY <2>3, <5>1
      <4> QED BY <4>1
    <3> QED BY <1>1, <2>3, <3>1, <3>2
  <2>6. WordOf(text, a, e) = <<SubSeq(text, a, e - 1)>>
    BY <1>4 DEF WordOf
  <2>7. SubSeq(text, a, e - 1) \in Seq(C)
    <3>1. \A k \in a .. e - 1 : k \in 1 .. n
      BY <1>1
    <3>2. \A k \in a .. e - 1 : text[k] \in C
      BY <3>1, ElementOfSeq
    <3>3. a \in Int /\ e - 1 \in Int
      BY <1>1
    <3> QED BY <3>2, <3>3, SubSeqProperties
  <2> DEFINE w == SubSeq(text, a, e - 1)
  <2>8. <<w>> \in Seq(Seq(C))
    <3>1. w \in Seq(C)
      BY <2>7
    <3> HIDE DEF w
    <3> QED BY <3>1
  <2> QED BY <2>4, <2>5, <2>6, <2>8
<1> QED BY <1>3, <1>4

-----------------------------------------------------------------------------
(* Printing the words. *)

\* One more sequence at the end.
LEMMA JoinedAppend ==
    ASSUME NEW X, NEW s \in Seq(Seq(X)), NEW x \in Seq(X)
    PROVE  Joined(Append(s, x)) = Joined(s) \o x
<1> DEFINE n == Len(s)
           t == Append(s, x)
<1>1. n \in Nat
  BY LenProperties
<1>2. /\ t \in Seq(Seq(X)) /\ Len(t) = n + 1
      /\ \A i \in 1 .. n : t[i] = s[i]
      /\ t[n + 1] = x
  BY <1>1, AppendProperties
<1> HIDE DEF t
<1>3. PICK from : Rests(s, X, from)
  BY JoinedUnfolds
<1>4. PICK rest : Rests(t, X, rest)
  BY <1>2, JoinedUnfolds
<1>5. /\ \A i \in 1 .. n + 1 : from[i] \in Seq(X)
      /\ Joined(s) = from[1]
      /\ from[n + 1] = <<>>
      /\ \A i \in 1 .. n : from[i] = s[i] \o from[i + 1] /\ s[i] \in Seq(X)
  BY <1>3, ElementOfSeq DEF Rests
<1>6. /\ \A i \in 1 .. n + 2 : rest[i] \in Seq(X)
      /\ Joined(t) = rest[1]
      /\ rest[n + 2] = <<>>
      /\ \A i \in 1 .. n + 1 : rest[i] = t[i] \o rest[i + 1]
  <2>1. (n + 1) + 1 = n + 2
    BY <1>1
  <2> HIDE DEF n
  <2> QED BY <1>2, <1>4, <2>1 DEF Rests
<1> DEFINE H == {i \in 1 .. n + 1 : rest[i] = from[i] \o x}
<1>7. n + 1 \in H
  <2>1. n + 1 \in 1 .. n + 1 /\ (n + 1) + 1 = n + 2
    BY <1>1
  <2>2. rest[n + 1] = x \o <<>>
    <3> HIDE DEF n
    <3> QED BY <1>2, <1>6, <2>1
  <2>3. x \o <<>> = x /\ <<>> \o x = x
    BY ConcatEmptySeq
  <2>4. rest[n + 1] = from[n + 1] \o x
    <3> HIDE DEF n
    <3> QED BY <1>5, <2>2, <2>3
  <2> QED BY <2>1, <2>4
<1>8. ASSUME NEW i \in 1 .. n, i + 1 .. n + 1 \subseteq H PROVE i \in H
  <2>1. i + 1 \in i + 1 .. n + 1 /\ i \in 1 .. n + 1 /\ i + 1 \in 1 .. n + 1
    BY <1>1
  <2>2. rest[i + 1] = from[i + 1] \o x
    BY <1>8, <2>1
  <2>3. rest[i] = s[i] \o rest[i + 1] /\ from[i] = s[i] \o from[i + 1]
    BY <1>2, <1>5, <1>6, <2>1
  <2> DEFINE a == s[i]
             b == from[i + 1]
  <2>4. a \in Seq(X) /\ b \in Seq(X)
    BY <1>5, <2>1
  <2> HIDE DEF a, b
  <2>5. (a \o b) \o x = a \o (b \o x)
    <3>1. Over(X, a, b, x)
      BY <2>4 DEF Over
    <3> QED BY <3>1, Regrouped
  <2>6. rest[i] = from[i] \o x
    BY <2>2, <2>3, <2>5 DEF a, b
  <2> QED BY <2>1, <2>6
<1>9. 1 .. n + 1 \subseteq H
  <2> HIDE DEF H, n
  <2> QED BY <1>1, <1>7, <1>8, DownInduction
<1>10. 1 \in 1 .. n + 1
  BY <1>1
<1>11. rest[1] = from[1] \o x
  BY <1>9, <1>10
<1> QED BY <1>5, <1>6, <1>11 DEF t

\* One more line.
Kept(w) == IF w = <<>> THEN <<>> ELSE <<w>>

\* The lines that are not empty are lines of the text.
LEMMA KeptLines ==
    ASSUME NEW C, NEW lines \in Seq(Seq(C))
    PROVE  /\ [k \in DOMAIN lines |-> Kept(lines[k])] \in Seq(Seq(Seq(C)))
           /\ NonEmpty(lines) = Joined([k \in DOMAIN lines |-> Kept(lines[k])])
           /\ NonEmpty(lines) \in Seq(Seq(C))
<1> DEFINE n == Len(lines)
           kept == [k \in DOMAIN lines |-> Kept(lines[k])]
<1>1. n \in Nat /\ DOMAIN lines = 1 .. n /\ \A k \in 1 .. n : lines[k] \in Seq(C)
  BY LenProperties, ElementOfSeq
<1>2. \A w \in Seq(C) : Kept(w) \in Seq(Seq(C))
  <2>1. ASSUME NEW w \in Seq(C) PROVE Kept(w) \in Seq(Seq(C))
    <3>1. CASE w = <<>>
      BY <3>1, EmptySeq DEF Kept
    <3>2. CASE w # <<>>
      <4>1. Kept(w) = <<w>>
        BY <3>2 DEF Kept
      <4> QED BY <4>1
    <3> QED BY <3>1, <3>2
  <2> QED BY <2>1
<1>3. kept \in [1 .. n -> Seq(Seq(C))]
  BY <1>1, <1>2
<1>4. NonEmpty(lines) = Joined(kept)
  BY DEF NonEmpty, Kept
<1> HIDE DEF kept, n
<1>5. kept \in Seq(Seq(Seq(C)))
  BY <1>1, <1>3, FunctionIsSeq
<1>6. Joined(kept) \in Seq(Seq(C))
  BY <1>5, JoinedTyped
<1> QED BY <1>4, <1>5, <1>6 DEF kept

\* One more line is kept if it is not empty.
LEMMA OneLineMore ==
    ASSUME NEW C, NEW lines \in Seq(Seq(C)), NEW w \in Seq(C)
    PROVE  NonEmpty(Append(lines, w)) = NonEmpty(lines) \o Kept(w)
<1> DEFINE n == Len(lines)
           more == Append(lines, w)
           kept == [k \in DOMAIN lines |-> Kept(lines[k])]
           all  == [k \in DOMAIN more |-> Kept(more[k])]
<1>1. n \in Nat /\ DOMAIN lines = 1 .. n
  BY LenProperties
<1>2. /\ more \in Seq(Seq(C)) /\ Len(more) = n + 1
      /\ \A i \in 1 .. n : more[i] = lines[i]
      /\ more[n + 1] = w
  BY <1>1, AppendProperties
<1>3. /\ kept \in Seq(Seq(Seq(C))) /\ NonEmpty(lines) = Joined(kept)
  BY KeptLines
<1>4. /\ all \in Seq(Seq(Seq(C))) /\ NonEmpty(more) = Joined(all)
  <2> HIDE DEF more
  <2> QED BY <1>2, KeptLines
<1>5. DOMAIN more = 1 .. n + 1
  <2> HIDE DEF more
  <2> QED BY <1>2, LenProperties
<1>6. Kept(w) \in Seq(Seq(C))
  <2>1. CASE w = <<>>
    BY <2>1, EmptySeq DEF Kept
  <2>2. CASE w # <<>>
    <3>1. Kept(w) = <<w>>
      BY <2>2 DEF Kept
    <3> QED BY <3>1
  <2> QED BY <2>1, <2>2
<1>7. DOMAIN kept = 1 .. n /\ \A i \in 1 .. n : kept[i] = Kept(lines[i])
  BY <1>1
<1>8. DOMAIN all = 1 .. n + 1 /\ \A i \in 1 .. n + 1 : all[i] = Kept(more[i])
  BY <1>5
<1> HIDE DEF more, kept, all
<1>9. Len(kept) = n /\ Len(all) = n + 1
  <2>1. Len(kept) \in Nat /\ DOMAIN kept = 1 .. Len(kept)
    BY <1>3, LenProperties
  <2>2. Len(all) \in Nat /\ DOMAIN all = 1 .. Len(all)
    BY <1>4, LenProperties
  <2>3. Len(kept) = n
    BY <1>1, <1>7, <2>1
  <2> DEFINE m == n + 1
  <2>4. m \in Nat \ {0} /\ DOMAIN all = 1 .. m
    <3>1. m \in Nat \ {0}
      BY <1>1
    <3>2. DOMAIN all = 1 .. m
      BY <1>8
    <3> QED BY <3>1, <3>2
  <2> HIDE DEF m
  <2> DEFINE l == Len(all)
  <2>5. l \in Nat /\ 1 .. l = 1 .. m
    BY <2>2, <2>4
  <2> HIDE DEF l
  <2>6. l = m
    <3>1. m \in 1 .. l
      BY <2>4, <2>5
    <3>2. l # 0 => l \in 1 .. m
      <4>1. l # 0 => l \in 1 .. l
        BY <2>5
      <4> QED BY <2>5, <4>1
    <3> QED BY <2>4, <2>5, <3>1, <3>2
  <2> QED BY <2>3, <2>6 DEF m, l
<1> DEFINE y == Append(kept, Kept(w))
<1>10. /\ y \in Seq(Seq(Seq(C))) /\ Len(y) = n + 1
       /\ \A i \in 1 .. n : y[i] = kept[i]
       /\ y[n + 1] = Kept(w)
  <2> DEFINE z == Kept(w)
  <2>1. z \in Seq(Seq(C))
    BY <1>6
  <2> HIDE DEF z
  <2>2. /\ Append(kept, z) \in Seq(Seq(Seq(C)))
        /\ Len(Append(kept, z)) = Len(kept) + 1
        /\ \A i \in 1 .. Len(kept) : Append(kept, z)[i] = kept[i]
        /\ Append(kept, z)[Len(kept) + 1] = z
    BY <1>3, <2>1, AppendProperties
  <2> HIDE DEF n
  <2> QED BY <1>9, <2>2 DEF z
<1> HIDE DEF y
<1>11. all = y
  <2>1. \A i \in 1 .. n + 1 : all[i] = y[i]
    <3>1. ASSUME NEW i \in 1 .. n + 1 PROVE all[i] = y[i]
      <4>1. CASE i = n + 1
        BY <1>2, <1>8, <1>10, <4>1
      <4>2. CASE i # n + 1
        <5>1. i \in 1 .. n
          BY <1>1, <4>2
        <5> QED BY <1>2, <1>7, <1>8, <1>10, <5>1
      <4> QED BY <4>1, <4>2
    <3> QED BY <3>1
  <2> QED BY <1>4, <1>9, <1>10, <2>1, SeqEqual
<1>12. Joined(y) = Joined(kept) \o Kept(w)
  BY <1>3, <1>6, JoinedAppend DEF y
<1> QED BY <1>3, <1>4, <1>11, <1>12 DEF more

\* The same cells are the same stretch.
LEMMA SameStretch ==
    ASSUME NEW D, NEW text \in Seq(D), NEW buff,
           \A k \in 1 .. Len(text) : buff[k] = text[k],
           NEW a \in 1 .. Len(text) + 1, NEW e \in a .. Len(text) + 1
    PROVE  /\ SubSeq(buff, a, e - 1) = SubSeq(text, a, e - 1)
           /\ SubSeq(buff, a, e - 1) \in Seq(D)
           /\ Len(SubSeq(buff, a, e - 1)) = e - a
           /\ Kept(SubSeq(buff, a, e - 1)) = WordOf(text, a, e)
<1> DEFINE s == SubSeq(buff, a, e - 1)
           t == SubSeq(text, a, e - 1)
<1>1. Len(text) \in Nat /\ a \in Int /\ e - 1 \in Int /\ e \in Nat /\ a \in Nat /\ a <= e
  BY LenProperties
<1>2. \A k \in a .. e - 1 : buff[k] = text[k] /\ text[k] \in D
  <2>1. \A k \in a .. e - 1 : k \in 1 .. Len(text)
    BY <1>1
  <2> QED BY <2>1, ElementOfSeq
<1>3. /\ s \in Seq(D) /\ Len(s) = IF a <= e - 1 THEN (e - 1) - a + 1 ELSE 0
      /\ \A i \in 1 .. (e - 1) - a + 1 : s[i] = buff[a + i - 1]
  BY <1>1, <1>2, SubSeqProperties
<1>4. /\ t \in Seq(D) /\ Len(t) = IF a <= e - 1 THEN (e - 1) - a + 1 ELSE 0
      /\ \A i \in 1 .. (e - 1) - a + 1 : t[i] = text[a + i - 1]
  BY <1>1, <1>2, SubSeqProperties
<1> HIDE DEF s, t
<1>5. Len(s) = e - a /\ Len(t) = e - a
  BY <1>1, <1>3, <1>4
<1>6. \A i \in 1 .. Len(s) : s[i] = t[i]
  <2>1. ASSUME NEW i \in 1 .. Len(s) PROVE s[i] = t[i]
    <3>1. i \in 1 .. (e - 1) - a + 1 /\ a + i - 1 \in a .. e - 1
      BY <1>1, <1>5
    <3> QED BY <1>2, <1>3, <1>4, <3>1
  <2> QED BY <2>1
<1>7. s = t
  BY <1>3, <1>4, <1>5, <1>6, SeqEqual
<1>8. Kept(s) = WordOf(text, a, e)
  <2>1. s = <<>> <=> a = e
    <3>1. s = <<>> => Len(s) = 0
      BY EmptySeq
    <3>2. s # <<>> => Len(s) # 0
      BY <1>3, EmptySeq
    <3> QED BY <1>1, <1>5, <3>1, <3>2
  <2> QED BY <1>7, <2>1 DEF Kept, WordOf, t
<1> QED BY <1>3, <1>5, <1>7, <1>8 DEF s, t

\* The lines that print_words_and_their_lengths prints, without the empty ones,
\* are the words.
LEMMA PrintedWords ==
    ASSUME NEW D, NEW text \in Seq(D), Len(text) <= BUFFER_SZ, NEW buff,
           \A k \in 1 .. Len(text) : buff[k] = text[k]
    PROVE  NonEmpty(print_words_and_their_lengths(buff, Len(text)).words)
              = Fields(text, Blank)
<1> DEFINE n == Len(text)
<1>1. n \in Nat
  BY LenProperties
<1>2. PICK after : Prints(buff, n, after)
  BY <1>1, Printed
<1>3. PICK from : Stretches(text, Blank, D, from)
  BY FieldsUnfold
<1>4. /\ \A i \in 1 .. n + 1 : from[i] \in Seq(Seq(D))
      /\ Fields(text, Blank) = from[1]
      /\ from[n + 1] = <<>>
      /\ \A i \in 1 .. n : text[i] = Blank => from[i] = from[i + 1]
  BY <1>3 DEF Stretches
<1> DEFINE Rest(j) == IF j <= n THEN from[j] ELSE <<>>
           Good(k) == /\ after[k].j \in 1 .. k + 1
                      /\ \A m \in after[k].j .. k : text[m] # Blank
                      /\ after[k].words \in Seq(Seq(D))
                      /\ NonEmpty(after[k].words) \o Rest(after[k].j) = from[1]
                      /\ k = n + 1 => after[k].j = n + 2
           G == {k \in 0 .. n + 1 : Good(k)}
<1>5. \A j \in 1 .. n + 1 : Rest(j) = from[j]
  BY <1>1, <1>4
<1>6. \A lines \in Seq(Seq(D)) : NonEmpty(lines) \in Seq(Seq(D))
  BY KeptLines
<1>7. 0 \in G
  <2>1. after[0] = [words |-> <<>>, j |-> 1]
    BY <1>2 DEF Prints
  <2>2. after[0].words = <<>> /\ after[0].j = 1
    BY <2>1
  <2>3. after[0].words \in Seq(Seq(D))
    BY <2>2, EmptySeq
  <2>4. NonEmpty(after[0].words) = <<>>
    <3>1. NonEmpty(<<>>) = Joined([k \in DOMAIN <<>> |-> Kept(<<>>[k])])
      BY DEF NonEmpty, Kept
    <3>2. [k \in DOMAIN <<>> |-> Kept(<<>>[k])] = <<>>
      OBVIOUS
    <3>3. <<>> \in Seq(Seq(D)) /\ Len(<<>>) = 0
      BY EmptySeq
    <3>4. PICK r : Rests(<<>>, D, r)
      BY <3>3, JoinedUnfolds
    <3>5. Joined(<<>>) = r[1] /\ r[0 + 1] = <<>>
      BY <3>3, <3>4 DEF Rests
    <3> QED BY <2>2, <3>1, <3>2, <3>5
  <2>5. <<>> \o from[1] = from[1]
    <3>1. from[1] \in Seq(Seq(D))
      BY <1>1, <1>4
    <3> QED BY <3>1, ConcatEmptySeq
  <2>6. Rest(1) = from[1]
    BY <1>1, <1>5
  <2> HIDE DEF Rest
  <2>7. Good(0)
    <3>1. /\ 1 \in 1 .. 0 + 1 /\ 1 .. 0 = {}
          /\ 0 # n + 1
      BY <1>1
    <3>2. NonEmpty(after[0].words) \o Rest(after[0].j) = from[1]
      BY <2>2, <2>4, <2>5, <2>6
    <3> HIDE DEF n
    <3> QED BY <2>2, <2>3, <3>1, <3>2
  <2> QED BY <1>1, <2>7
<1>8. ASSUME NEW k \in 1 .. n + 1, k - 1 \in G PROVE k \in G
  <2> DEFINE old == after[k - 1]
             j == old.j
  <2>1. /\ j \in 1 .. k /\ \A m \in j .. k - 1 : text[m] # Blank
        /\ old.words \in Seq(Seq(D))
        /\ NonEmpty(old.words) \o Rest(j) = from[1]
    <3>1. (k - 1) + 1 = k
      BY <1>1
    <3> HIDE DEF Rest
    <3> QED BY <1>8, <3>1
  <2>2. after[k] = PrintStep(buff, n, old, k)
    BY <1>2 DEF Prints
  <2>3. k \in Nat /\ k \in 0 .. n + 1 /\ k \in 1 .. n + 1 /\ j \in Nat
    BY <1>1, <2>1
  <2> HIDE DEF old, Rest, j
  <2>4. CASE k > n \/ text[k] = Blank
    <3> DEFINE w == SubSeq(buff, j, k - 1)
    <3>1. after[k] = [words |-> Append(old.words, w), j |-> k + 1]
      <4>1. k > n \/ buff[k] = Blank
        BY <1>1, <2>3, <2>4
      <4> QED BY <2>2, <4>1 DEF PrintStep, j
    <3>2. j \in 1 .. n + 1 /\ k \in j .. n + 1
      BY <1>1, <2>1, <2>3
    <3>3. w \in Seq(D) /\ Kept(w) = WordOf(text, j, k)
      <4> HIDE DEF n, w
      <4> QED BY <3>2, SameStretch DEF n, w
    <3>4. from[j] = WordOf(text, j, k) \o from[k] /\ WordOf(text, j, k) \in Seq(Seq(D))
      <4>1. k <= n => text[k] = Blank
        BY <1>1, <2>3, <2>4
      <4> HIDE DEF n
      <4> QED BY <1>3, <2>1, <3>2, <4>1, StretchFound DEF n
    <3>5. Rest(k + 1) = from[k] /\ Rest(j) = from[j] /\ from[k] \in Seq(Seq(D))
      <4>1. CASE k = n + 1
        BY <1>1, <1>4, <1>5, <3>2, <4>1 DEF Rest
      <4>2. CASE k # n + 1
        <5>1. k \in 1 .. n /\ k + 1 \in 1 .. n + 1 /\ text[k] = Blank
          BY <1>1, <2>3, <2>4, <4>2
        <5> QED BY <1>4, <1>5, <2>3, <3>2, <5>1
      <4> QED BY <4>1, <4>2
    <3> HIDE DEF w
    <3>6. after[k].words = Append(old.words, w) /\ after[k].j = k + 1
      BY <3>1
    <3>7. NonEmpty(after[k].words) = NonEmpty(old.words) \o WordOf(text, j, k)
      BY <2>1, <3>3, <3>6, OneLineMore
    <3>8. NonEmpty(after[k].words) \o Rest(k + 1) = from[1]
      <4> DEFINE a == NonEmpty(old.words)
                 b == WordOf(text, j, k)
                 c == from[k]
      <4>1. a \in Seq(Seq(D)) /\ b \in Seq(Seq(D)) /\ c \in Seq(Seq(D))
        BY <1>6, <2>1, <3>4, <3>5
      <4>2. a \o (b \o c) = from[1]
        BY <2>1, <3>4, <3>5
      <4> HIDE DEF a, b, c
      <4>3. (a \o b) \o c = a \o (b \o c)
        <5>1. Over(Seq(D), a, b, c)
          BY <4>1 DEF Over
        <5> QED BY <5>1, Regrouped
      <4> QED BY <3>5, <3>7, <4>2, <4>3 DEF a, b, c
    <3>9. after[k].words \in Seq(Seq(D))
      <4> DEFINE o == old.words
      <4>1. o \in Seq(Seq(D)) /\ w \in Seq(D)
        BY <2>1, <3>3
      <4> HIDE DEF o
      <4>2. Append(o, w) \in Seq(Seq(D))
        BY <4>1, AppendProperties
      <4> QED BY <3>6, <4>2 DEF o
    <3>10. Good(k)
      <4>1. k + 1 \in 1 .. k + 1 /\ k + 1 .. k = {}
        BY <2>3
      <4>2. k = n + 1 => k + 1 = n + 2
        BY <1>1
      <4> HIDE DEF n
      <4> QED BY <3>6, <3>8, <3>9, <4>1, <4>2
    <3> QED BY <2>3, <3>10
  <2>5. CASE ~(k > n \/ text[k] = Blank)
    <3>1. k \in 1 .. n /\ text[k] # Blank /\ k # n + 1
      BY <1>1, <2>3, <2>5
    <3>2. after[k] = old
      BY <1>1, <2>2, <3>1 DEF PrintStep
    <3>3. \A m \in j .. k : text[m] # Blank
      <4>1. \A m \in j .. k : m \in j .. k - 1 \/ m = k
        BY <2>3
      <4> QED BY <2>1, <3>1, <4>1
    <3>4. j \in 1 .. k + 1
      BY <2>1, <2>3
    <3>5. Good(k)
      BY <2>1, <3>1, <3>2, <3>3, <3>4 DEF j
    <3> QED BY <2>3, <3>5
  <2> HIDE DEF G
  <2> QED BY <2>4, <2>5
<1>9. 0 .. n + 1 \subseteq G
  <2> DEFINE m == n + 1
  <2> HIDE DEF G
  <2>1. m \in Nat /\ 0 \in G /\ \A i \in 1 .. m : i - 1 \in G => i \in G
    <3>1. m \in Nat
      BY <1>1
    <3> QED BY <1>7, <1>8, <3>1
  <2> HIDE DEF m
  <2>2. 0 .. m \subseteq G
    BY <2>1, UpInduction
  <2> QED BY <2>2 DEF m
<1>10. Good(n + 1)
  <2>1. n + 1 \in 0 .. n + 1
    BY <1>1
  <2>2. n + 1 \in G
    <3> HIDE DEF G
    <3> QED BY <1>9, <2>1
  <2> QED BY <2>2
<1>11. Rest(n + 2) = <<>>
  BY <1>1
<1> HIDE DEF Rest
<1>12. /\ after[n + 1].words \in Seq(Seq(D))
       /\ NonEmpty(after[n + 1].words) \o <<>> = from[1]
  BY <1>10, <1>11
<1>13. NonEmpty(after[n + 1].words) = from[1]
  <2> DEFINE a == NonEmpty(after[n + 1].words)
  <2>1. a \in Seq(Seq(D)) /\ a \o <<>> = from[1]
    BY <1>6, <1>12
  <2> HIDE DEF a
  <2>2. a = from[1]
    BY <2>1, ConcatEmptySeq
  <2> QED BY <2>2 DEF a
<1>14. print_words_and_their_lengths(buff, n).words = after[n + 1].words
  <2>1. print_words_and_their_lengths(buff, n) = [words |-> after[n + 1].words, rc |-> 0]
    BY <1>2 DEF Prints
  <2> QED BY <2>1
<1> QED BY <1>4, <1>13, <1>14

-----------------------------------------------------------------------------
(* Counting the words. *)

\* The first stop from a cell on is that cell, or the first from the next on.
LEMMA FirstSkips ==
    ASSUME NEW C, NEW text \in Seq(C), NEW stops
    PROVE  /\ First(text, Len(text) + 1, stops) = Len(text) + 1
           /\ \A i \in 1 .. Len(text) :
                 First(text, i, stops) = IF text[i] \in stops THEN i
                                         ELSE First(text, i + 1, stops)
<1> DEFINE n == Len(text)
           f(i) == First(text, i, stops)
<1>1. n \in Nat
  BY LenProperties
<1>2. \A i \in 1 .. n + 1 : /\ f(i) \in i .. n + 1
                            /\ \A k \in i .. f(i) - 1 : text[k] \notin stops
                            /\ f(i) <= n => text[f(i)] \in stops
  <2> HIDE DEF f
  <2>1. ASSUME NEW i \in 1 .. n + 1
        PROVE  /\ f(i) \in i .. n + 1
               /\ \A k \in i .. f(i) - 1 : text[k] \notin stops
               /\ f(i) <= n => text[f(i)] \in stops
    BY FirstStop DEF f
  <2> QED BY <2>1
<1> HIDE DEF f
<1>3. f(n + 1) = n + 1
  <2>1. n + 1 \in 1 .. n + 1
    BY <1>1
  <2>2. f(n + 1) \in n + 1 .. n + 1
    BY <1>2, <2>1
  <2> QED BY <1>1, <2>2
<1>4. ASSUME NEW i \in 1 .. n
      PROVE  f(i) = IF text[i] \in stops THEN i ELSE f(i + 1)
  <2> DEFINE x == f(i)
             y == f(i + 1)
  <2>1. i \in 1 .. n + 1 /\ i + 1 \in 1 .. n + 1 /\ i \in Nat
    BY <1>1
  <2>2. /\ x \in i .. n + 1
        /\ \A k \in i .. x - 1 : text[k] \notin stops
        /\ x <= n => text[x] \in stops
    BY <1>2, <2>1
  <2>3. /\ y \in i + 1 .. n + 1
        /\ \A k \in i + 1 .. y - 1 : text[k] \notin stops
        /\ y <= n => text[y] \in stops
    BY <1>2, <2>1
  <2> HIDE DEF x, y
  <2>4. CASE text[i] \in stops
    <3>1. ~(i < x)
      <4>1. i < x => i \in i .. x - 1
        BY <1>1, <2>1, <2>2
      <4> QED BY <2>2, <2>4, <4>1
    <3> QED BY <1>1, <2>1, <2>2, <2>4, <3>1 DEF x
  <2>5. CASE text[i] \notin stops
    <3>1. x # i
      BY <1>1, <2>2, <2>5
    <3>2. ~(x < y)
      <4>1. x < y => x \in i + 1 .. y - 1 /\ x <= n
        BY <1>1, <2>1, <2>2, <2>3, <3>1
      <4> QED BY <2>2, <2>3, <4>1
    <3>3. ~(y < x)
      <4>1. y < x => y \in i .. x - 1 /\ y <= n
        BY <1>1, <2>1, <2>2, <2>3
      <4> QED BY <2>2, <2>3, <4>1
    <3>4. x = y
      BY <1>1, <2>1, <2>2, <2>3, <3>2, <3>3
    <3> QED BY <2>5, <3>4 DEF x, y
  <2> QED BY <2>4, <2>5
<1> QED BY <1>3, <1>4 DEF f, n

\* count_words counts the words of a text that fits; one less when in_word
\* starts TRUE and the text with a word.
LEMMA CountedWords ==
    ASSUME NEW D, NEW text \in Seq(D), Len(text) <= BUFFER_SZ, NEW buff,
           \A k \in 1 .. Len(text) : buff[k] = text[k], NEW started \in BOOLEAN
    PROVE  count_words(buff, Len(text), started)
              = Len(Fields(text, Blank))
                   - IF started /\ Len(text) # 0 /\ text[1] # Blank THEN 1 ELSE 0
<1> DEFINE n == Len(text)
           f(i) == First(text, i, {Blank})
<1>1. n \in Nat
  BY LenProperties
<1>2. PICK after : Counts(buff, n, started, after)
  BY <1>1, Counted
<1>3. PICK from : Stretches(text, Blank, D, from)
  BY FieldsUnfold
<1>4. /\ \A i \in 1 .. n + 1 : f(i) \in i .. n + 1
      /\ f(n + 1) = n + 1
      /\ \A i \in 1 .. n : f(i) = IF text[i] = Blank THEN i ELSE f(i + 1)
  <2>1. ASSUME NEW i \in 1 .. n + 1 PROVE f(i) \in i .. n + 1
    BY FirstStop
  <2>2. /\ f(n + 1) = n + 1
        /\ \A i \in 1 .. n : f(i) = IF text[i] \in {Blank} THEN i ELSE f(i + 1)
    BY FirstSkips
  <2> HIDE DEF f
  <2> QED BY <2>1, <2>2
<1> DEFINE found(i) == Len(from[i])
           Left(i, in_word) == IF in_word THEN found(f(i)) ELSE found(i)
<1>5. /\ \A i \in 1 .. n + 1 : found(i) \in Nat
      /\ found(1) = Len(Fields(text, Blank))
      /\ found(n + 1) = 0
      /\ \A i \in 1 .. n : text[i] = Blank => found(i) = found(i + 1)
      /\ \A i \in 1 .. n : text[i] # Blank => found(i) = 1 + found(f(i))
  <2>1. /\ \A i \in 1 .. n + 1 : from[i] \in Seq(Seq(D))
        /\ Fields(text, Blank) = from[1]
        /\ from[n + 1] = <<>>
        /\ \A i \in 1 .. n : text[i] = Blank => from[i] = from[i + 1]
        /\ \A i \in 1 .. n : text[i] # Blank =>
              from[i] = <<SubSeq(text, i, f(i) - 1)>> \o from[f(i)]
    BY <1>3 DEF Stretches
  <2> HIDE DEF f
  <2>2. \A i \in 1 .. n + 1 : Len(from[i]) \in Nat
    BY <2>1, LenProperties
  <2>3. ASSUME NEW i \in 1 .. n, text[i] # Blank PROVE Len(from[i]) = 1 + Len(from[f(i)])
    <3> DEFINE w == SubSeq(text, i, f(i) - 1)
               r == from[f(i)]
    <3>1. f(i) \in i .. n + 1 /\ i \in 1 .. n + 1
      BY <1>1, <1>4
    <3>2. f(i) \in 1 .. n + 1
      BY <1>1, <3>1
    <3>3. r \in Seq(Seq(D))
      BY <2>1, <3>2
    <3>4. w \in Seq(D)
      <4>1. \A k \in i .. f(i) - 1 : k \in 1 .. n
        BY <1>1, <3>1
      <4>2. \A k \in i .. f(i) - 1 : text[k] \in D
        BY <4>1, ElementOfSeq
      <4>3. i \in Int /\ f(i) - 1 \in Int
        BY <1>1, <3>1
      <4> QED BY <4>2, <4>3, SubSeqProperties
    <3>5. from[i] = <<w>> \o r
      BY <2>1, <2>3
    <3> HIDE DEF w, r
    <3>6. <<w>> \in Seq(Seq(D)) /\ Len(<<w>>) = 1
      BY <3>4
    <3>7. Len(<<w>> \o r) = 1 + Len(r)
      BY <3>3, <3>6, ConcatProperties
    <3> QED BY <3>5, <3>7 DEF r
  <2>4. Len(from[n + 1]) = 0
    BY <2>1, EmptySeq
  <2> QED BY <2>1, <2>2, <2>3, <2>4
<1> HIDE DEF found, f
<1> DEFINE s(i) == after[i]
           Good(i) == /\ s(i).in_word \in BOOLEAN /\ s(i).count \in Nat
                      /\ s(i).count + Left(i + 1, s(i).in_word) = Left(1, started)
           G == {i \in 0 .. n : Good(i)}
<1>6. 0 \in G
  <2>1. after[0] = [in_word |-> started, count |-> 0]
    BY <1>2 DEF Counts
  <2>2. s(0).in_word = started /\ s(0).count = 0
    BY <2>1
  <2>3. Left(1, started) \in Nat
    BY <1>1, <1>4, <1>5
  <2> HIDE DEF s, Left
  <2>4. Good(0)
    BY <2>2, <2>3
  <2> QED BY <1>1, <2>4
<1>7. ASSUME NEW i \in 1 .. n, i - 1 \in G PROVE i \in G
  <2> DEFINE in == s(i - 1).in_word
             count == s(i - 1).count
  <2>1. /\ in \in BOOLEAN /\ count \in Nat
        /\ count + Left(i, in) = Left(1, started)
    <3>1. (i - 1) + 1 = i
      BY <1>1
    <3> HIDE DEF s, Left
    <3> QED BY <1>7, <3>1
  <2>2. after[i] = CountStep(after[i - 1], buff[i]) /\ buff[i] = text[i]
    BY <1>2 DEF Counts
  <2>3. /\ s(i).in_word = (text[i] # Blank)
        /\ s(i).count = count + IF text[i] # Blank /\ ~in THEN 1 ELSE 0
    BY <2>2 DEF CountStep
  <2>4. i \in 1 .. n + 1 /\ i + 1 \in 1 .. n + 1 /\ i \in 0 .. n
    BY <1>1
  <2>5. f(i) \in 1 .. n + 1 /\ f(i + 1) \in 1 .. n + 1
    <3>1. f(i) \in i .. n + 1 /\ f(i + 1) \in i + 1 .. n + 1
      BY <1>4, <2>4
    <3> QED BY <1>1, <2>4, <3>1
  <2> HIDE DEF s, in, count
  <2>6. CASE text[i] = Blank
    <3>1. s(i).in_word = FALSE /\ s(i).count = count
      <4>1. (text[i] # Blank) = FALSE
        BY <2>6
      <4>2. s(i).in_word = FALSE
        BY <2>3, <4>1
      <4>3. s(i).count = count + 0
        BY <2>3, <2>6
      <4> QED BY <2>1, <4>2, <4>3
    <3>2. f(i) = i /\ found(i) = found(i + 1)
      BY <1>4, <1>5, <2>6
    <3>3. Left(i, in) = found(i + 1) /\ Left(i + 1, FALSE) = found(i + 1)
      BY <3>2
    <3> QED BY <2>1, <2>4, <3>1, <3>3
  <2>7. CASE text[i] # Blank
    <3>1. f(i) = f(i + 1) /\ found(i) = 1 + found(f(i))
      BY <1>4, <1>5, <2>7
    <3>2. s(i).in_word = TRUE
      BY <2>3, <2>7
    <3>3. found(f(i + 1)) \in Nat
      BY <1>5, <2>5
    <3>4. CASE in
      <4>1. s(i).count = count
        BY <2>1, <2>3, <3>4
      <4>2. Left(i, in) = found(f(i + 1)) /\ Left(i + 1, TRUE) = found(f(i + 1))
        BY <3>1, <3>4
      <4> QED BY <2>1, <2>4, <3>2, <4>1, <4>2
    <3>5. CASE ~in
      <4>1. s(i).count = count + 1
        BY <2>1, <2>3, <2>7, <3>5
      <4>2. Left(i, in) = 1 + found(f(i + 1)) /\ Left(i + 1, TRUE) = found(f(i + 1))
        BY <3>1, <3>5
      <4> DEFINE r == found(f(i + 1))
                 q == Left(i, in)
      <4>3. r \in Nat /\ q = 1 + r /\ count + q = Left(1, started)
        BY <2>1, <3>3, <4>2
      <4> HIDE DEF r, q
      <4>4. (count + 1) + r = count + q
        BY <2>1, <4>3
      <4>5. (count + 1) + r = Left(1, started)
        BY <4>3, <4>4
      <4>6. count + 1 \in Nat
        BY <2>1
      <4> HIDE DEF Left
      <4> QED BY <2>4, <3>2, <4>1, <4>2, <4>5, <4>6 DEF r
    <3> QED BY <2>1, <3>4, <3>5
  <2> QED BY <2>6, <2>7
<1>8. 0 .. n \subseteq G
  <2> HIDE DEF G
  <2>1. \A i \in 1 .. n : i - 1 \in G => i \in G
    BY <1>7
  <2> HIDE DEF n
  <2> QED BY <1>1, <1>6, <2>1, UpInduction
<1>9. Good(n)
  <2>1. n \in 0 .. n
    BY <1>1
  <2>2. n \in G
    <3> HIDE DEF G
    <3> QED BY <1>8, <2>1
  <2> QED BY <2>2
<1>10. Left(n + 1, s(n).in_word) = 0
  BY <1>4, <1>5
<1>11. s(n).count = Left(1, started)
  <2> HIDE DEF Left, s
  <2> QED BY <1>9, <1>10
<1>12. count_words(buff, n, started) = s(n).count
  BY <1>2 DEF Counts
<1>13. Left(1, started) = found(1) - IF started /\ n # 0 /\ text[1] # Blank THEN 1 ELSE 0
  <2>1. 1 \in 1 .. n + 1 /\ found(1) \in Nat
    BY <1>1, <1>5
  <2>2. CASE ~started
    BY <2>1, <2>2
  <2>3. CASE started /\ n = 0
    BY <1>4, <2>1, <2>3
  <2>4. CASE started /\ n # 0
    <3>1. 1 \in 1 .. n /\ f(1) \in 1 .. n + 1
      BY <1>1, <1>4, <2>4
    <3>2. found(f(1)) \in Nat
      BY <1>5, <3>1
    <3>3. CASE text[1] = Blank
      <4>1. f(1) = 1
        BY <1>4, <3>1, <3>3
      <4> QED BY <2>1, <2>4, <3>3, <4>1
    <3>4. CASE text[1] # Blank
      <4>1. found(1) = 1 + found(f(1))
        BY <1>5, <3>1, <3>4
      <4> QED BY <2>1, <2>4, <3>2, <3>4, <4>1
    <3> QED BY <3>3, <3>4
  <2> QED BY <2>2, <2>3, <2>4
<1> QED BY <1>5, <1>11, <1>12, <1>13

-----------------------------------------------------------------------------
(* Reversing the words. *)

\* Two texts have the same stretch at two places.
Alike(s, a, e, t, b, f, sep) ==
    /\ a \in 1 .. Len(s) + 1 /\ e \in a .. Len(s) + 1
    /\ b \in 1 .. Len(t) + 1 /\ f \in b .. Len(t) + 1
    /\ e - a = f - b
    /\ \A k \in 0 .. (e - a) - 1 : s[a + k] = t[b + k] /\ s[a + k] # sep
    /\ e <= Len(s) => s[e] = sep
    /\ f <= Len(t) => t[f] = sep

\* The same cells at two places are the same word.
LEMMA SameWord ==
    ASSUME NEW D, NEW s, NEW t, NEW a, NEW e, NEW b, NEW f, NEW sep,
           s \in Seq(D), t \in Seq(D), Alike(s, a, e, t, b, f, sep)
    PROVE  WordOf(s, a, e) = WordOf(t, b, f)
<1> DEFINE x == SubSeq(s, a, e - 1)
           y == SubSeq(t, b, f - 1)
<1>0. /\ a \in 1 .. Len(s) + 1 /\ e \in a .. Len(s) + 1
      /\ b \in 1 .. Len(t) + 1 /\ f \in b .. Len(t) + 1
      /\ e - a = f - b
      /\ \A k \in 0 .. (e - a) - 1 : s[a + k] = t[b + k]
  BY DEF Alike
<1>1. /\ Len(s) \in Nat /\ Len(t) \in Nat /\ a \in Nat /\ b \in Nat /\ e \in Nat /\ f \in Nat
      /\ a \in Int /\ e - 1 \in Int /\ b \in Int /\ f - 1 \in Int /\ a <= e /\ b <= f
  BY <1>0, LenProperties
<1>2. \A k \in a .. e - 1 : s[k] \in D
  <2>1. \A k \in a .. e - 1 : k \in 1 .. Len(s)
    BY <1>0, <1>1
  <2> QED BY <2>1, ElementOfSeq
<1>3. \A k \in b .. f - 1 : t[k] \in D
  <2>1. \A k \in b .. f - 1 : k \in 1 .. Len(t)
    BY <1>0, <1>1
  <2> QED BY <2>1, ElementOfSeq
<1>4. /\ x \in Seq(D)
      /\ Len(x) = IF a <= e - 1 THEN (e - 1) - a + 1 ELSE 0
      /\ \A i \in 1 .. (e - 1) - a + 1 : x[i] = s[a + i - 1]
  BY <1>1, <1>2, SubSeqProperties
<1>5. /\ y \in Seq(D)
      /\ Len(y) = IF b <= f - 1 THEN (f - 1) - b + 1 ELSE 0
      /\ \A i \in 1 .. (f - 1) - b + 1 : y[i] = t[b + i - 1]
  BY <1>1, <1>3, SubSeqProperties
<1> HIDE DEF x, y
<1>6. Len(x) = e - a /\ Len(y) = f - b /\ Len(x) = Len(y)
  BY <1>0, <1>1, <1>4, <1>5
<1>7. \A i \in 1 .. Len(x) : x[i] = y[i]
  <2>1. ASSUME NEW i \in 1 .. Len(x) PROVE x[i] = y[i]
    <3>1. /\ i \in 1 .. (e - 1) - a + 1 /\ i \in 1 .. (f - 1) - b + 1
          /\ i - 1 \in 0 .. (e - a) - 1
          /\ a + (i - 1) = a + i - 1 /\ b + (i - 1) = b + i - 1
      BY <1>0, <1>1, <1>6, SMTT(30)
    <3>2. s[a + (i - 1)] = t[b + (i - 1)]
      BY <1>0, <3>1
    <3> QED BY <1>4, <1>5, <3>1, <3>2
  <2> QED BY <2>1
<1>8. x = y
  BY <1>4, <1>5, <1>6, <1>7, SeqEqual
<1>9. a = e <=> b = f
  BY <1>0, <1>1
<1> QED BY <1>8, <1>9 DEF WordOf, x, y

\* Nothing is found among separators.
LEMMA SeparatorsSkipped ==
    ASSUME NEW C, NEW text \in Seq(C), NEW sep, NEW from, Stretches(text, sep, C, from),
           NEW b \in 1 .. Len(text) + 1, NEW e \in b .. Len(text) + 1,
           \A k \in b .. e - 1 : text[k] = sep
    PROVE  from[b] = from[e]
<1> DEFINE n == e - 1
           G == {i \in 1 .. e : i < b \/ from[i] = from[e]}
<1>1. Len(text) \in Nat /\ b \in Nat /\ e \in Nat /\ n \in Nat /\ n + 1 = e /\ b \in 1 .. e
      /\ e \in 1 .. e /\ n <= Len(text)
  BY LenProperties
<1>2. n + 1 \in G
  BY <1>1
<1>3. ASSUME NEW i \in 1 .. n, i + 1 .. n + 1 \subseteq G PROVE i \in G
  <2>1. i + 1 \in i + 1 .. n + 1 /\ i \in 1 .. e /\ i \in Nat
    BY <1>1
  <2>2. i + 1 \in G
    <3> HIDE DEF G
    <3> QED BY <1>3, <2>1
  <2>3. CASE i < b
    BY <2>1, <2>3
  <2>4. CASE ~(i < b)
    <3>1. i \in b .. e - 1 /\ i \in 1 .. Len(text) /\ ~(i + 1 < b)
      BY <1>1, <2>1, <2>4
    <3>2. from[i] = from[i + 1]
      BY <3>1 DEF Stretches
    <3>3. from[i + 1] = from[e]
      BY <2>2, <3>1
    <3> QED BY <2>1, <3>2, <3>3
  <2> QED BY <2>3, <2>4
<1>4. 1 .. n + 1 \subseteq G
  <2> HIDE DEF G
  <2>1. \A i \in 1 .. n : i + 1 .. n + 1 \subseteq G => i \in G
    BY <1>3
  <2> HIDE DEF n
  <2> QED BY <1>1, <1>2, <2>1, DownInduction
<1>5. b \in G
  <2> HIDE DEF G
  <2>1. b \in 1 .. n + 1
    BY <1>1
  <2> QED BY <1>4, <2>1
<1> QED BY <1>1, <1>5

\* Cells a up to e are all that is not a separator.
Lone(text, sep, a, e) ==
    /\ a \in 1 .. Len(text) + 1 /\ e \in a .. Len(text) + 1
    /\ \A k \in 1 .. a - 1 : text[k] = sep
    /\ \A k \in a .. e - 1 : text[k] # sep
    /\ \A k \in e .. Len(text) : text[k] = sep

\* A text with one stretch between separators.
LEMMA OneStretch ==
    ASSUME NEW C, NEW text, NEW sep, NEW a, NEW e,
           text \in Seq(C), Lone(text, sep, a, e)
    PROVE  Fields(text, sep) = WordOf(text, a, e)
<1> DEFINE n == Len(text)
<1>0. /\ a \in 1 .. n + 1 /\ e \in a .. n + 1
      /\ \A k \in 1 .. a - 1 : text[k] = sep
      /\ \A k \in a .. e - 1 : text[k] # sep
      /\ \A k \in e .. n : text[k] = sep
  BY DEF Lone
<1>1. n \in Nat /\ a \in Nat /\ e \in Nat /\ 1 \in 1 .. n + 1 /\ a \in 1 .. n + 1
      /\ e \in 1 .. n + 1 /\ n + 1 \in e .. n + 1 /\ (n + 1) - 1 = n
      /\ 1 <= a /\ a <= n + 1
  BY <1>0, LenProperties
<1>2. PICK from : Stretches(text, sep, C, from)
  BY FieldsUnfold
<1>3. from[1] = from[a]
  <2>1. a \in 1 .. Len(text) + 1
    BY <1>1
  <2> QED BY <1>0, <1>1, <1>2, <2>1, SeparatorsSkipped
<1>4. from[a] = WordOf(text, a, e) \o from[e] /\ WordOf(text, a, e) \in Seq(Seq(C))
  <2>1. e <= Len(text) => text[e] = sep
    BY <1>0, <1>1
  <2> QED BY <1>0, <1>2, <2>1, StretchFound
<1>5. from[e] = from[n + 1]
  <2>1. \A k \in e .. (n + 1) - 1 : text[k] = sep
    BY <1>0, <1>1
  <2> QED BY <1>0, <1>1, <1>2, <2>1, SeparatorsSkipped
<1>6. from[n + 1] = <<>> /\ Fields(text, sep) = from[1]
  BY <1>2 DEF Stretches
<1> DEFINE w == WordOf(text, a, e)
<1>7. w \in Seq(Seq(C)) /\ Fields(text, sep) = w \o <<>>
  BY <1>3, <1>4, <1>5, <1>6
<1> HIDE DEF w
<1>8. w \o <<>> = w
  BY <1>7, ConcatEmptySeq
<1> QED BY <1>7, <1>8 DEF w

\* What is found at cell a is word, and then what is found at cell e.
Leads(from, a, word, e) == from[a] = word \o from[e]

\* The same word is found in both.
LEMMA SameFound ==
    ASSUME NEW C, NEW sep, NEW s, NEW t, NEW fs, NEW ft, NEW a, NEW e, NEW b, NEW f,
           s \in Seq(C), t \in Seq(C), Stretches(s, sep, C, fs), Stretches(t, sep, C, ft),
           Alike(s, a, e, t, b, f, sep)
    PROVE  \E w \in Seq(Seq(C)) : Leads(fs, a, w, e) /\ Leads(ft, b, w, f)
<1>1. Len(s) \in Nat /\ Len(t) \in Nat
  BY LenProperties
<1>2. /\ a \in 1 .. Len(s) + 1 /\ e \in a .. Len(s) + 1
      /\ b \in 1 .. Len(t) + 1 /\ f \in b .. Len(t) + 1
      /\ e - a = f - b
      /\ e <= Len(s) => s[e] = sep
      /\ f <= Len(t) => t[f] = sep
  BY DEF Alike
<1>3. \A k \in 0 .. (e - a) - 1 : s[a + k] = t[b + k] /\ s[a + k] # sep
  BY DEF Alike
<1>4. \A k \in a .. e - 1 : s[k] # sep
  <2>1. ASSUME NEW k \in a .. e - 1 PROVE s[k] # sep
    <3>1. k - a \in 0 .. (e - a) - 1 /\ a + (k - a) = k
      BY <1>1, <1>2
    <3> QED BY <1>3, <3>1
  <2> QED BY <2>1
<1>5. \A k \in b .. f - 1 : t[k] # sep
  <2>1. ASSUME NEW k \in b .. f - 1 PROVE t[k] # sep
    <3>1. k - b \in 0 .. (e - a) - 1 /\ b + (k - b) = k
      BY <1>1, <1>2
    <3> QED BY <1>3, <3>1
  <2> QED BY <2>1
<1>6. fs[a] = WordOf(s, a, e) \o fs[e] /\ WordOf(s, a, e) \in Seq(Seq(C))
  BY <1>2, <1>4, StretchFound
<1>7. ft[b] = WordOf(t, b, f) \o ft[f]
  BY <1>2, <1>5, StretchFound
<1>8. WordOf(s, a, e) = WordOf(t, b, f)
  BY SameWord
<1> DEFINE w == WordOf(s, a, e)
<1>9. w \in Seq(Seq(C)) /\ Leads(fs, a, w, e) /\ Leads(ft, b, w, f)
  BY <1>6, <1>7, <1>8 DEF Leads
<1> HIDE DEF w
<1> QED BY <1>9

\* Is a text empty, or ended by a separator?
Ended(text, sep) == text = <<>> \/ text[Len(text)] = sep

\* Behind a separator a text begins anew.
LEMMA FieldsApart ==
    ASSUME NEW C, NEW sep, NEW s \in Seq(C), NEW t \in Seq(C),
           Ended(s, sep)
    PROVE  Fields(s \o t, sep) = Fields(s, sep) \o Fields(t, sep)
<1> DEFINE n == Len(s)
           m == Len(t)
           u == s \o t
<1>1. /\ n \in Nat /\ m \in Nat
      /\ u \in Seq(C) /\ Len(u) = n + m
      /\ \A i \in 1 .. n : u[i] = s[i]
      /\ \A i \in 1 .. m : u[n + i] = t[i]
  <2>1. /\ u \in Seq(C) /\ Len(u) = n + m
        /\ \A i \in 1 .. n + m : u[i] = IF i <= n THEN s[i] ELSE t[i - n]
    BY ConcatProperties
  <2>2. n \in Nat /\ m \in Nat
    BY LenProperties
  <2> HIDE DEF n, m, u
  <2>3. ASSUME NEW i \in 1 .. m PROVE u[n + i] = t[i]
    <3>1. n + i \in 1 .. n + m /\ ~(n + i <= n) /\ (n + i) - n = i
      BY <2>2
    <3> QED BY <2>1, <3>1
  <2>4. ASSUME NEW i \in 1 .. n PROVE u[i] = s[i]
    <3>1. i \in 1 .. n + m /\ i <= n
      BY <2>2
    <3> QED BY <2>1, <3>1
  <2> QED BY <2>1, <2>2, <2>3, <2>4
<1> HIDE DEF u
<1>2. PICK fs : Stretches(s, sep, C, fs)
  BY FieldsUnfold
<1>3. PICK ft : Stretches(t, sep, C, ft)
  BY FieldsUnfold
<1>4. PICK fu : Stretches(u, sep, C, fu)
  BY <1>1, FieldsUnfold
<1>5. /\ \A i \in 1 .. n + 1 : fs[i] \in Seq(Seq(C))
      /\ Fields(s, sep) = fs[1]
      /\ fs[n + 1] = <<>>
      /\ \A i \in 1 .. n : s[i] = sep => fs[i] = fs[i + 1]
  BY <1>2 DEF Stretches
<1>6. /\ Fields(t, sep) = ft[1]
      /\ ft[m + 1] = <<>>
      /\ \A i \in 1 .. m : t[i] = sep => ft[i] = ft[i + 1]
      /\ \A i \in 1 .. m + 1 : ft[i] \in Seq(Seq(C))
  BY <1>3 DEF Stretches
<1>7. /\ \A i \in 1 .. n + m + 1 : fu[i] \in Seq(Seq(C))
      /\ Fields(u, sep) = fu[1]
      /\ fu[n + m + 1] = <<>>
      /\ \A i \in 1 .. n + m : u[i] = sep => fu[i] = fu[i + 1]
  <2> DEFINE l == n + m
  <2>1. Len(u) = l
    BY <1>1
  <2> HIDE DEF l
  <2>2. /\ \A i \in 1 .. l + 1 : fu[i] \in Seq(Seq(C))
        /\ Fields(u, sep) = fu[1]
        /\ fu[l + 1] = <<>>
        /\ \A i \in 1 .. l : u[i] = sep => fu[i] = fu[i + 1]
    BY <1>4, <2>1 DEF Stretches
  <2> QED BY <2>2 DEF l
<1> HIDE DEF n, m
<1>8. fu[n + (m + 1)] = ft[m + 1]
  <2>1. n + (m + 1) = n + m + 1
    BY <1>1
  <2> QED BY <1>6, <1>7, <2>1
<1>9. ASSUME NEW i \in 1 .. m, \A k \in i + 1 .. m + 1 : fu[n + k] = ft[k]
      PROVE  fu[n + i] = ft[i]
  <2>1. i \in 1 .. m + 1 /\ i \in Nat /\ n + i \in 1 .. n + m /\ n + i \in 1 .. n + m + 1
    BY <1>1
  <2>2. CASE t[i] = sep
    <3>1. i + 1 \in i + 1 .. m + 1 /\ (n + i) + 1 = n + (i + 1)
      BY <1>1, <2>1
    <3>2. fu[n + (i + 1)] = ft[i + 1]
      BY <1>9, <3>1
    <3>3. fu[n + i] = fu[n + (i + 1)] /\ ft[i] = ft[i + 1]
      BY <1>1, <1>6, <1>7, <2>1, <2>2, <3>1
    <3> QED BY <2>1, <3>2, <3>3
  <2>3. CASE t[i] # sep
    <3> DEFINE e == First(t, i, {sep})
    <3>1. /\ e \in i .. m + 1
          /\ \A k \in i .. e - 1 : t[k] # sep
          /\ e <= m => t[e] = sep
      <4>1. i \in 1 .. Len(t) + 1
        BY <2>1 DEF m
      <4>2. /\ e \in i .. Len(t) + 1
            /\ \A k \in i .. e - 1 : t[k] \notin {sep}
            /\ e <= Len(t) => t[e] \in {sep}
        <5> HIDE DEF e
        <5> QED BY <4>1, FirstStop DEF e
      <4> QED BY <4>2 DEF m
    <3> HIDE DEF e
    <3>2. e # i
      BY <1>1, <2>1, <2>3, <3>1
    <3>3. /\ e \in i + 1 .. m + 1 /\ e \in Nat /\ e \in 1 .. m + 1
          /\ n + e \in n + i .. (n + m) + 1 /\ n + i \in 1 .. (n + m) + 1
          /\ n + e \in 1 .. n + m + 1
      BY <1>1, <2>1, <3>1, <3>2
    <3>4. fu[n + e] = ft[e]
      BY <1>9, <3>3
    <3> DEFINE b == n + i
               f == n + e
    <3>5. Alike(u, b, f, t, i, e, sep)
      <4>1. /\ b \in 1 .. (n + m) + 1 /\ f \in b .. (n + m) + 1 /\ f - b = e - i
            /\ i \in 1 .. m + 1 /\ e \in i .. m + 1
        BY <1>1, <2>1, <3>3
      <4>2. ASSUME NEW k \in 0 .. (f - b) - 1
            PROVE  u[b + k] = t[i + k] /\ u[b + k] # sep
        <5>1. i + k \in 1 .. m /\ b + k = n + (i + k) /\ i + k \in i .. e - 1
          BY <1>1, <2>1, <3>3
        <5> QED BY <1>1, <3>1, <5>1
      <4>3. f <= n + m => u[f] = sep
        <5>1. SUFFICES ASSUME f <= n + m PROVE u[f] = sep
          OBVIOUS
        <5>2. e \in 1 .. m /\ e <= m
          BY <1>1, <3>3, <5>1
        <5> QED BY <1>1, <3>1, <5>2
      <4>4. Len(u) = n + m /\ Len(t) = m
        BY <1>1 DEF m
      <4> HIDE DEF b, f
      <4> QED BY <3>1, <4>1, <4>2, <4>3, <4>4 DEF Alike
    <3> HIDE DEF b, f
    <3>7. PICK w \in Seq(Seq(C)) : Leads(fu, b, w, f) /\ Leads(ft, i, w, e)
      BY <1>1, <1>3, <1>4, <3>5, SameFound
    <3>8. fu[b] = ft[i]
      BY <3>4, <3>7 DEF f, Leads
    <3> QED BY <3>8 DEF b
  <2> QED BY <2>2, <2>3
<1>10. fu[n + 1] = ft[1]
  <2> DEFINE H == {i \in 1 .. m + 1 : fu[n + i] = ft[i]}
  <2>1. m + 1 \in H /\ 1 \in 1 .. m + 1
    BY <1>1, <1>8
  <2>2. ASSUME NEW i \in 1 .. m, i + 1 .. m + 1 \subseteq H PROVE i \in H
    <3>1. \A k \in i + 1 .. m + 1 : fu[n + k] = ft[k]
      BY <2>2
    <3>2. fu[n + i] = ft[i]
      BY <1>9, <3>1
    <3>3. i \in 1 .. m + 1
      BY <1>1
    <3> QED BY <3>2, <3>3
  <2>3. 1 \in H
    <3> HIDE DEF H
    <3>1. \A i \in 1 .. m : i + 1 .. m + 1 \subseteq H => i \in H
      BY <2>2
    <3>2. 1 .. m + 1 \subseteq H
      BY <1>1, <2>1, <3>1, DownInduction
    <3> QED BY <2>1, <3>2
  <2> QED BY <2>3
<1>11. ft[1] \in Seq(Seq(C))
  <2>1. 1 \in 1 .. m + 1
    BY <1>1
  <2> QED BY <1>6, <2>1
<1> DEFINE x == ft[1]
<1>12. fu[n + 1] = fs[n + 1] \o x
  <2>2. x \in Seq(Seq(C)) /\ fu[n + 1] = x
    BY <1>10, <1>11
  <2> HIDE DEF x
  <2>3. <<>> \o x = x
    BY <2>2, ConcatEmptySeq
  <2> QED BY <1>5, <2>2, <2>3
<1>13. ASSUME NEW i \in 1 .. n, \A k \in i + 1 .. n + 1 : fu[k] = fs[k] \o x
       PROVE  fu[i] = fs[i] \o x
  <2>1. i \in 1 .. n + 1 /\ i \in Nat /\ i \in 1 .. n + m /\ i \in 1 .. n + m + 1
    BY <1>1
  <2>2. CASE s[i] = sep
    <3>1. i + 1 \in i + 1 .. n + 1
      BY <1>1, <2>1
    <3>2. fu[i + 1] = fs[i + 1] \o x
      BY <1>13, <3>1
    <3>3. fu[i] = fu[i + 1] /\ fs[i] = fs[i + 1]
      BY <1>1, <1>5, <1>7, <2>1, <2>2
    <3> QED BY <2>1, <3>2, <3>3
  <2>3. CASE s[i] # sep
    <3> DEFINE e == First(s, i, {sep})
    <3>1. /\ e \in i .. n + 1
          /\ \A k \in i .. e - 1 : s[k] # sep
          /\ e <= n => s[e] = sep
      <4>1. i \in 1 .. Len(s) + 1
        BY <2>1 DEF n
      <4>2. /\ e \in i .. Len(s) + 1
            /\ \A k \in i .. e - 1 : s[k] \notin {sep}
            /\ e <= Len(s) => s[e] \in {sep}
        <5> HIDE DEF e
        <5> QED BY <4>1, FirstStop DEF e
      <4> QED BY <4>2 DEF n
    <3> HIDE DEF e
    <3>2. e # i
      BY <1>1, <2>1, <2>3, <3>1
    <3>3. e # n + 1
      <4>1. s[n] = sep
        <5>1. s # <<>>
          BY <1>1, EmptySeq DEF n
        <5> QED BY <5>1 DEF n, Ended
      <4>2. e = n + 1 => n \in i .. e - 1
        BY <1>1, <2>1
      <4> QED BY <3>1, <4>1, <4>2
    <3>4. /\ e \in i + 1 .. n + 1 /\ e \in Nat /\ e \in 1 .. n
          /\ e \in i .. (n + m) + 1 /\ i \in 1 .. (n + m) + 1 /\ e <= n
      BY <1>1, <2>1, <3>1, <3>2, <3>3
    <3>5. fu[e] = fs[e] \o x
      BY <1>13, <3>4
    <3>7. Alike(u, i, e, s, i, e, sep)
      <4>1. /\ i \in 1 .. (n + m) + 1 /\ e \in i .. (n + m) + 1
            /\ i \in 1 .. n + 1 /\ e \in i .. n + 1
        BY <1>1, <2>1, <3>4
      <4>2. ASSUME NEW k \in 0 .. (e - i) - 1
            PROVE  u[i + k] = s[i + k] /\ u[i + k] # sep
        <5>1. i + k \in 1 .. n /\ i + k \in i .. e - 1
          BY <1>1, <2>1, <3>4
        <5> QED BY <1>1, <3>1, <5>1
      <4>3. s[e] = sep /\ u[e] = sep
        BY <1>1, <3>1, <3>4
      <4>4. Len(u) = n + m /\ Len(s) = n
        BY <1>1 DEF n
      <4> QED BY <4>1, <4>2, <4>3, <4>4 DEF Alike
    <3>8. PICK w \in Seq(Seq(C)) : Leads(fu, i, w, e) /\ Leads(fs, i, w, e)
      BY <1>1, <1>2, <1>4, <3>7, SameFound
    <3> DEFINE b == fs[e]
               Y == Seq(C)
    <3>9. w \in Seq(Y) /\ b \in Seq(Y) /\ x \in Seq(Y)
      <4>1. e \in 1 .. n + 1
        BY <1>1, <3>4
      <4> QED BY <1>5, <1>11, <4>1
    <3>10. fu[i] = w \o (b \o x) /\ fs[i] = w \o b
      BY <3>5, <3>8 DEF Leads
    <3> HIDE DEF b, x, Y
    <3>11. w \o (b \o x) = (w \o b) \o x
      <4>1. Over(Y, w, b, x)
        BY <3>9 DEF Over
      <4> QED BY <4>1, Regrouped
    <3> QED BY <3>10, <3>11
  <2> QED BY <2>2, <2>3
<1>14. fu[1] = fs[1] \o x
  <2> HIDE DEF x
  <2> DEFINE K == {i \in 1 .. n + 1 : fu[i] = fs[i] \o x}
  <2>1. n + 1 \in K /\ 1 \in 1 .. n + 1
    BY <1>1, <1>12
  <2>2. ASSUME NEW i \in 1 .. n, i + 1 .. n + 1 \subseteq K PROVE i \in K
    <3>1. \A k \in i + 1 .. n + 1 : fu[k] = fs[k] \o x
      BY <2>2
    <3>2. fu[i] = fs[i] \o x
      BY <1>13, <3>1
    <3>3. i \in 1 .. n + 1
      BY <1>1
    <3> QED BY <3>2, <3>3
  <2>3. 1 \in K
    <3> HIDE DEF K
    <3>1. \A i \in 1 .. n : i + 1 .. n + 1 \subseteq K => i \in K
      BY <2>2
    <3>2. 1 .. n + 1 \subseteq K
      BY <1>1, <2>1, <3>1, DownInduction
    <3> QED BY <2>1, <3>2
  <2> QED BY <2>3
<1> QED BY <1>5, <1>6, <1>7, <1>14 DEF u

\* All words read backwards.
Turned(words) == [k \in DOMAIN words |-> Reverse(words[k])]

\* A word read backwards.
LEMMA ReverseRead ==
    ASSUME NEW C, NEW w \in Seq(C)
    PROVE  /\ Reverse(w) \in Seq(C) /\ Len(Reverse(w)) = Len(w)
           /\ \A k \in 1 .. Len(w) : Reverse(w)[k] = w[(Len(w) - k) + 1]
<1> DEFINE n == Len(w)
<1>1. n \in Nat /\ \A k \in 1 .. n : w[k] \in C
  BY LenProperties, ElementOfSeq
<1>2. Reverse(w) = [k \in 1 .. n |-> w[(n - k) + 1]]
  BY DEF Reverse
<1> HIDE DEF n
<1>3. \A k \in 1 .. n : (n - k) + 1 \in 1 .. n
  BY <1>1
<1>4. Reverse(w) \in [1 .. n -> C] /\ \A k \in 1 .. n : Reverse(w)[k] = w[(n - k) + 1]
  BY <1>1, <1>2, <1>3
<1>5. Reverse(w) \in Seq(C) /\ Len(Reverse(w)) = n
  BY <1>1, <1>4, FunctionIsSeq
<1> QED BY <1>4, <1>5 DEF n

\* They are as many words as before.
LEMMA TurnedTyped ==
    ASSUME NEW C, NEW words \in Seq(Seq(C))
    PROVE  /\ Turned(words) \in Seq(Seq(C)) /\ Len(Turned(words)) = Len(words)
           /\ \A k \in 1 .. Len(words) : Turned(words)[k] = Reverse(words[k])
<1> DEFINE n == Len(words)
<1>1. n \in Nat /\ DOMAIN words = 1 .. n /\ \A k \in 1 .. n : words[k] \in Seq(C)
  BY LenProperties, ElementOfSeq
<1>2. \A k \in 1 .. n : Reverse(words[k]) \in Seq(C)
  BY <1>1, ReverseRead
<1>3. Turned(words) = [k \in 1 .. n |-> Reverse(words[k])]
  BY <1>1 DEF Turned
<1> HIDE DEF n
<1>4. Turned(words) \in [1 .. n -> Seq(C)]
      /\ \A k \in 1 .. n : Turned(words)[k] = Reverse(words[k])
  BY <1>2, <1>3
<1>5. Turned(words) \in Seq(Seq(C)) /\ Len(Turned(words)) = n
  BY <1>1, <1>4, FunctionIsSeq
<1> QED BY <1>4, <1>5 DEF n

\* Both read backwards, one after the other.
LEMMA TurnedConcat ==
    ASSUME NEW C, NEW s \in Seq(Seq(C)), NEW t \in Seq(Seq(C))
    PROVE  Turned(s \o t) = Turned(s) \o Turned(t)
<1> DEFINE X == Seq(C)
           n == Len(s)
           m == Len(t)
           u == s \o t
           x == Turned(s)
           y == Turned(t)
           v == x \o y
           z == Turned(u)
<1>1. n \in Nat /\ m \in Nat
  BY LenProperties
<1>2. /\ u \in Seq(X) /\ Len(u) = n + m
      /\ \A i \in 1 .. n + m : u[i] = IF i <= n THEN s[i] ELSE t[i - n]
  <2>1. s \in Seq(X) /\ t \in Seq(X)
    OBVIOUS
  <2> HIDE DEF X
  <2> QED BY <2>1, ConcatProperties
<1>3. /\ x \in Seq(X) /\ Len(x) = n
      /\ \A i \in 1 .. n : x[i] = Reverse(s[i])
  BY TurnedTyped
<1>4. /\ y \in Seq(X) /\ Len(y) = m
      /\ \A i \in 1 .. m : y[i] = Reverse(t[i])
  BY TurnedTyped
<1> HIDE DEF n, m, u, x, y
<1>5. /\ v \in Seq(X) /\ Len(v) = n + m
      /\ \A i \in 1 .. n + m : v[i] = IF i <= n THEN x[i] ELSE y[i - n]
  <2> HIDE DEF X
  <2>1. /\ x \o y \in Seq(X) /\ Len(x \o y) = Len(x) + Len(y)
        /\ \A i \in 1 .. Len(x) + Len(y) :
              (x \o y)[i] = IF i <= Len(x) THEN x[i] ELSE y[i - Len(x)]
    BY <1>3, <1>4, ConcatProperties
  <2> HIDE DEF v
  <2> QED BY <1>3, <1>4, <2>1 DEF v
<1> HIDE DEF v
<1>6. /\ z \in Seq(X) /\ Len(z) = n + m
      /\ \A i \in 1 .. n + m : z[i] = Reverse(u[i])
  BY <1>2, TurnedTyped
<1> HIDE DEF z, X
<1>7. \A i \in 1 .. n + m : z[i] = v[i]
  <2>1. ASSUME NEW i \in 1 .. n + m PROVE z[i] = v[i]
    <3>1. CASE i <= n
      <4>1. i \in 1 .. n
        BY <1>1, <3>1
      <4> QED BY <1>2, <1>3, <1>5, <1>6, <3>1, <4>1
    <3>2. CASE ~(i <= n)
      <4>1. i - n \in 1 .. m
        BY <1>1, <3>2
      <4> QED BY <1>2, <1>4, <1>5, <1>6, <3>2, <4>1
    <3> QED BY <3>1, <3>2
  <2> QED BY <2>1
<1>8. z = v
  BY <1>5, <1>6, <1>7, SeqEqual
<1> QED BY <1>8 DEF z, v, u, x, y

\* What reverse_words writes at one blank or at the end.
Closed(text, j, i) == Reverse(SubSeq(text, j, i)) \o <<Blank>>

\* It is the stretch backwards, and one blank more.
LEMMA ClosedRead ==
    ASSUME NEW D, Blank \in D, NEW text \in Seq(D),
           NEW i \in 1 .. Len(text), NEW j \in 1 .. i
    PROVE  /\ Closed(text, j, i) \in Seq(D) /\ Len(Closed(text, j, i)) = i - j + 2
           /\ \A k \in 1 .. i - j + 1 : Closed(text, j, i)[k] = text[i - k + 1]
           /\ Closed(text, j, i)[i - j + 2] = Blank
<1> DEFINE r == Reverse(SubSeq(text, j, i))
           b == <<Blank>>
           u == r \o b
           m == i - j + 1
<1>1. i \in Nat /\ j \in Nat /\ m \in Nat
  BY LenProperties
<1>2. /\ r \in Seq(D) /\ Len(r) = m
      /\ \A k \in 1 .. m : r[k] = text[i - k + 1]
  BY TurnedLength
<1>3. b \in Seq(D) /\ Len(b) = 1 /\ b[1] = Blank
  OBVIOUS
<1>4. i - j + 2 = m + 1
  BY <1>1
<1> HIDE DEF r, b, m
<1>5. /\ u \in Seq(D) /\ Len(u) = m + 1
      /\ \A k \in 1 .. m + 1 : u[k] = IF k <= m THEN r[k] ELSE b[k - m]
  <2>1. /\ u \in Seq(D) /\ Len(u) = Len(r) + Len(b)
        /\ \A k \in 1 .. Len(r) + Len(b) :
              u[k] = IF k <= Len(r) THEN r[k] ELSE b[k - Len(r)]
    BY <1>2, <1>3, ConcatProperties
  <2> HIDE DEF u
  <2> QED BY <1>2, <1>3, <2>1
<1> HIDE DEF u
<1>6. \A k \in 1 .. m : u[k] = text[i - k + 1]
  <2>1. \A k \in 1 .. m : k \in 1 .. m + 1 /\ k <= m
    BY <1>1
  <2> QED BY <1>2, <1>5, <2>1
<1>7. u[m + 1] = Blank
  <2>1. m + 1 \in 1 .. m + 1 /\ ~(m + 1 <= m) /\ (m + 1) - m = 1
    BY <1>1
  <2> QED BY <1>3, <1>5, <2>1
<1>8. u = Closed(text, j, i)
  BY DEF u, r, b, Closed
<1> QED BY <1>4, <1>5, <1>6, <1>7, <1>8 DEF m

\* Cells a up to e lie between blanks j and i, or begin or end with them when
\* they are none.
Between(text, j, i, a, e) ==
    /\ a \in {j, j + 1} /\ e \in {i, i + 1} /\ a <= e
    /\ a = j <=> text[j] # Blank
    /\ e = i <=> text[i] = Blank
    /\ \A m \in j + 1 .. i - 1 : text[m] # Blank

\* What is written at one blank holds the word before it, turned round.
LEMMA ClosedWord ==
    ASSUME NEW D, Blank \in D, NEW text \in Seq(D),
           NEW i \in 1 .. Len(text), NEW j \in 1 .. i,
           NEW a, NEW e, Between(text, j, i, a, e)
    PROVE  Fields(Closed(text, j, i), Blank) = Turned(WordOf(text, a, e))
<1> DEFINE u == Closed(text, j, i)
           n == Len(text)
           l == i - j + 2
           b == i - e + 2
           f == i - a + 2
<1>1. n \in Nat /\ i \in Nat /\ j \in Nat /\ l \in Nat /\ l - 1 = i - j + 1 /\ 1 <= j /\ j <= i /\ i <= n
  BY LenProperties
<1>2. /\ u \in Seq(D) /\ Len(u) = l
      /\ \A k \in 1 .. l - 1 : u[k] = text[i - k + 1]
      /\ u[l] = Blank
  BY <1>1, ClosedRead
<1> HIDE DEF u, n
<1>3. /\ a \in {j, j + 1} /\ e \in {i, i + 1} /\ a <= e
      /\ a = j <=> text[j] # Blank
      /\ e = i <=> text[i] = Blank
      /\ \A m \in j + 1 .. i - 1 : text[m] # Blank
  BY DEF Between
<1>4. /\ a \in Nat /\ e \in Nat /\ b \in Nat /\ f \in Nat
      /\ b \in 1 .. l + 1 /\ f \in b .. l + 1 /\ f \in 1 .. l
      /\ a \in 1 .. n + 1 /\ e \in a .. n + 1
  BY <1>1, <1>3
<1>5. ASSUME NEW k \in 1 .. b - 1 PROVE u[k] = Blank
  <2>1. e = i /\ k = 1 /\ k \in 1 .. l - 1 /\ i - k + 1 = i
    BY <1>1, <1>3, <1>5
  <2> QED BY <1>2, <1>3, <2>1
<1>6. \A m \in a .. e - 1 : text[m] # Blank /\ m \in 1 .. n
  <2>1. ASSUME NEW m \in a .. e - 1 PROVE text[m] # Blank /\ m \in 1 .. n
    <3>1. m \in 1 .. n /\ (m = j \/ m = i \/ m \in j + 1 .. i - 1)
      BY <1>1, <1>3, <2>1
    <3>2. m = j => a = j
      BY <1>1, <1>3, <2>1
    <3>3. m = i => e # i
      BY <1>1, <1>3, <2>1
    <3> QED BY <1>3, <3>1, <3>2, <3>3
  <2> QED BY <2>1
<1>7. ASSUME NEW k \in b .. f - 1
      PROVE  /\ u[k] = text[i - k + 1] /\ i - k + 1 \in a .. e - 1
             /\ k \in 1 .. l - 1
  <2>1. k \in 1 .. l - 1 /\ i - k + 1 \in a .. e - 1
    BY <1>1, <1>3, <1>7
  <2> QED BY <1>2, <2>1
<1>8. ASSUME NEW k \in f .. l PROVE u[k] = Blank
  <2>1. CASE k = l
    BY <1>2, <2>1
  <2>2. CASE k # l
    <3>1. a = j + 1 /\ k \in 1 .. l - 1 /\ i - k + 1 = j
      BY <1>1, <1>3, <1>8, <2>2
    <3>2. text[j] = Blank
      BY <1>1, <1>3, <3>1
    <3> QED BY <1>2, <3>1, <3>2
  <2> QED BY <2>1, <2>2
<1> HIDE DEF l, b, f
<1>9. Fields(u, Blank) = WordOf(u, b, f)
  <2>1. \A k \in 1 .. b - 1 : u[k] = Blank
    BY <1>5
  <2>2. \A k \in b .. f - 1 : u[k] # Blank
    BY <1>6, <1>7
  <2>3. \A k \in f .. Len(u) : u[k] = Blank
    BY <1>2, <1>8
  <2>4. b \in 1 .. Len(u) + 1 /\ f \in b .. Len(u) + 1
    BY <1>2, <1>4
  <2>5. Lone(u, Blank, b, f)
    BY <2>1, <2>2, <2>3, <2>4 DEF Lone
  <2> QED BY <1>2, <2>5, OneStretch
<1>10. a = e <=> b = f
  BY <1>1, <1>4 DEF b, f
<1>11. CASE a = e
  <2>1. WordOf(text, a, e) = <<>> /\ WordOf(u, b, f) = <<>>
    BY <1>10, <1>11 DEF WordOf
  <2>2. Turned(<<>>) = <<>>
    BY DEF Turned
  <2> QED BY <1>9, <2>1, <2>2 DEF u
<1>12. CASE a # e
  <2> DEFINE w == SubSeq(text, a, e - 1)
             v == SubSeq(u, b, f - 1)
             c == e - a
  <2>1. /\ WordOf(text, a, e) = <<w>> /\ WordOf(u, b, f) = <<v>>
    BY <1>10, <1>12 DEF WordOf
  <2>2. c \in Nat /\ c = f - b /\ a <= e - 1 /\ b <= f - 1
    BY <1>1, <1>3, <1>4, <1>12 DEF b, f
  <2>3. /\ w \in Seq(D) /\ Len(w) = c
        /\ \A k \in 1 .. c : w[k] = text[a + k - 1]
    <3>1. \A m \in a .. e - 1 : text[m] \in D
      BY <1>6, ElementOfSeq DEF n
    <3>2. a \in Int /\ e - 1 \in Int /\ (e - 1) - a + 1 = c
      BY <1>4
    <3>3. /\ w \in Seq(D)
          /\ Len(w) = IF a <= e - 1 THEN (e - 1) - a + 1 ELSE 0
          /\ \A k \in 1 .. (e - 1) - a + 1 : w[k] = text[a + k - 1]
      BY <3>1, <3>2, SubSeqProperties
    <3> HIDE DEF w, c
    <3> QED BY <2>2, <3>2, <3>3
  <2>4. /\ v \in Seq(D) /\ Len(v) = c
        /\ \A k \in 1 .. c : v[k] = u[b + k - 1]
    <3>1. \A m \in b .. f - 1 : u[m] \in D
      <4>1. \A m \in b .. f - 1 : m \in 1 .. Len(u)
        BY <1>2, <1>4, <1>7
      <4> QED BY <1>2, <4>1, ElementOfSeq
    <3>2. b \in Int /\ f - 1 \in Int /\ (f - 1) - b + 1 = c
      BY <1>4, <2>2
    <3>3. /\ v \in Seq(D)
          /\ Len(v) = IF b <= f - 1 THEN (f - 1) - b + 1 ELSE 0
          /\ \A k \in 1 .. (f - 1) - b + 1 : v[k] = u[b + k - 1]
      BY <3>1, <3>2, SubSeqProperties
    <3> HIDE DEF v, c
    <3> QED BY <2>2, <3>2, <3>3
  <2> HIDE DEF w, v
  <2> DEFINE r == Reverse(w)
  <2>5. r \in Seq(D) /\ Len(r) = c /\ \A k \in 1 .. c : r[k] = w[(c - k) + 1]
    <3>1. /\ Reverse(w) \in Seq(D) /\ Len(Reverse(w)) = Len(w)
          /\ \A k \in 1 .. Len(w) : Reverse(w)[k] = w[(Len(w) - k) + 1]
      BY <2>3, ReverseRead
    <3> HIDE DEF r, c
    <3> QED BY <2>3, <3>1 DEF r
  <2> HIDE DEF r
  <2>6. \A k \in 1 .. c : v[k] = r[k]
    <3>1. ASSUME NEW k \in 1 .. c PROVE v[k] = r[k]
      <4>1. /\ b + k - 1 \in b .. f - 1 /\ (c - k) + 1 \in 1 .. c
            /\ i - (b + k - 1) + 1 = a + ((c - k) + 1) - 1
        BY <1>1, <1>4, <2>2 DEF b, f
      <4>2. u[b + k - 1] = text[i - (b + k - 1) + 1]
        BY <1>7, <4>1
      <4> QED BY <2>3, <2>4, <2>5, <4>1, <4>2
    <3> QED BY <3>1
  <2>7. v = r
    BY <2>4, <2>5, <2>6, SeqEqual
  <2>8. Turned(<<w>>) = <<Reverse(w)>>
    BY DEF Turned
  <2> QED BY <1>9, <2>1, <2>7, <2>8 DEF u, r
<1> QED BY <1>11, <1>12

\* What is still to be found at blank k, or at the end.
Later(text, from, k) == IF k = Len(text) THEN <<>> ELSE from[k]

\* Cell k ends a stretch whose cells behind cell j are no blanks.
EndsStretch(text, j, k) ==
    /\ k \in 1 .. Len(text) /\ j \in 1 .. k
    /\ \A m \in j + 1 .. k - 1 : text[m] # Blank
    /\ text[k] = Blank \/ k = Len(text)

Splits(x, y, z) == x = y \o z

\* What is written at a blank, and what is still to be written behind it, is
\* what was to be written behind the blank before.
LEMMA ClosedStretch ==
    ASSUME NEW D, NEW text, NEW from, NEW k, NEW j, Blank \in D, text \in Seq(D),
           Stretches(text, Blank, D, from), EndsStretch(text, j, k)
    PROVE  /\ Splits(Turned(from[j]), Fields(Closed(text, j, k), Blank),
                     Turned(Later(text, from, k)))
           /\ Fields(Closed(text, j, k), Blank) \in Seq(Seq(D))
<1> DEFINE n == Len(text)
           r == Later(text, from, k)
           x == Fields(Closed(text, j, k), Blank)
<1>0. /\ k \in 1 .. n /\ j \in 1 .. k
      /\ \A m \in j + 1 .. k - 1 : text[m] # Blank
      /\ text[k] = Blank \/ k = n
  BY DEF EndsStretch
<1>1. n \in Nat /\ k \in Nat /\ j \in Nat /\ 1 <= j /\ j <= k /\ k <= n /\ j \in 1 .. n
      /\ k \in 1 .. n + 1 /\ j \in 1 .. n + 1
  BY <1>0, LenProperties
<1>2. /\ \A i \in 1 .. n + 1 : from[i] \in Seq(Seq(D))
      /\ from[n + 1] = <<>>
      /\ \A i \in 1 .. n : text[i] = Blank => from[i] = from[i + 1]
  BY DEF Stretches
<1>3. k = n /\ text[k] = Blank => from[k] = <<>>
  BY <1>1, <1>2
<1>4. r \in Seq(Seq(D)) /\ (text[k] = Blank => r = from[k])
  <2>1. CASE k = n
    BY <1>1, <1>2, <1>3, <2>1, EmptySeq DEF Later
  <2>2. CASE k # n
    BY <1>1, <1>2, <2>2 DEF Later
  <2> QED BY <2>1, <2>2
<1> HIDE DEF r
<1>5. CASE j = k /\ text[k] = Blank
  <2> DEFINE u == Closed(text, j, k)
  <2>1. /\ u \in Seq(D) /\ Len(u) = 2 /\ u[1] = Blank /\ u[2] = Blank
    <3>1. /\ u \in Seq(D) /\ Len(u) = k - j + 2
          /\ \A m \in 1 .. k - j + 1 : u[m] = text[k - m + 1]
          /\ u[k - j + 2] = Blank
      BY <1>0, ClosedRead
    <3> HIDE DEF u
    <3>2. k - j + 2 = 2 /\ k - j + 1 = 1 /\ 1 \in 1 .. 1 /\ k - 1 + 1 = k
      BY <1>1, <1>5
    <3> QED BY <1>5, <3>1, <3>2
  <2> HIDE DEF u
  <2>2. Lone(u, Blank, 1, 1)
    <3>1. \A m \in 1 .. 2 : m = 1 \/ m = 2
      OBVIOUS
    <3>2. 1 .. 1 - 1 = {} /\ 1 \in 1 .. 2 + 1
      OBVIOUS
    <3> QED BY <2>1, <3>1, <3>2 DEF Lone
  <2>3. x = <<>>
    <3>1. Fields(u, Blank) = WordOf(u, 1, 1)
      BY <2>1, <2>2, OneStretch
    <3> QED BY <3>1 DEF WordOf, u
  <2>4. from[j] = r
    BY <1>4, <1>5
  <2> DEFINE y == Turned(r)
  <2>5. y \in Seq(Seq(D))
    BY <1>4, TurnedTyped
  <2> HIDE DEF x, y
  <2>6. <<>> \o y = y /\ <<>> \in Seq(Seq(D))
    BY <2>5, ConcatEmptySeq, EmptySeq
  <2>7. Turned(from[j]) = x \o y /\ x \in Seq(Seq(D))
    BY <2>3, <2>4, <2>6 DEF y
  <2> QED BY <2>7 DEF x, y, r, Splits
<1>6. CASE ~(j = k /\ text[k] = Blank)
  <2> DEFINE a == IF text[j] = Blank THEN j + 1 ELSE j
             e == IF text[k] = Blank THEN k ELSE k + 1
  <2>1. Between(text, j, k, a, e)
    <3>1. /\ a = j <=> text[j] # Blank
          /\ e = k <=> text[k] = Blank
          /\ a \in {j, j + 1} /\ e \in {k, k + 1}
      BY <1>0, <1>1
    <3> HIDE DEF a, e
    <3>2. a <= e
      BY <1>1, <1>6, <3>1
    <3> QED BY <1>0, <3>1, <3>2 DEF Between
  <2> HIDE DEF a, e
  <2>2. /\ a \in {j, j + 1} /\ e \in {k, k + 1} /\ a <= e
        /\ a = j <=> text[j] # Blank
        /\ e = k <=> text[k] = Blank
    BY <2>1 DEF Between
  <2>3. x = Turned(WordOf(text, a, e))
    <3> HIDE DEF x
    <3> QED BY <1>0, <2>1, ClosedWord DEF x
  <2>4. a \in 1 .. n + 1 /\ e \in a .. n + 1 /\ a \in Nat /\ e \in Nat
    BY <1>1, <2>2
  <2>5. \A m \in a .. e - 1 : text[m] # Blank
    <3>1. ASSUME NEW m \in a .. e - 1 PROVE text[m] # Blank
      <4>1. m = j \/ m = k \/ m \in j + 1 .. k - 1
        BY <1>1, <2>2, <2>4, <3>1
      <4>2. m = j => a = j
        BY <1>1, <2>2, <2>4, <3>1
      <4>3. m = k => e # k
        BY <1>1, <2>2, <2>4, <3>1
      <4> QED BY <1>0, <2>2, <4>1, <4>2, <4>3
    <3> QED BY <3>1
  <2>6. e <= n => text[e] = Blank
    <3>1. e = k + 1 => k = n
      BY <1>0, <1>1, <2>2
    <3> QED BY <1>0, <1>1, <2>2, <3>1
  <2> DEFINE w == WordOf(text, a, e)
  <2>7. from[a] = w \o from[e] /\ w \in Seq(Seq(D))
    BY <2>4, <2>5, <2>6, StretchFound
  <2>8. from[j] = from[a]
    BY <1>1, <1>2, <2>2
  <2>9. from[e] = r
    <3>1. CASE e = k
      BY <1>4, <2>2, <3>1
    <3>2. CASE e # k
      <4>1. e = n + 1 /\ k = n
        BY <1>0, <1>1, <2>2, <2>4, <2>6, <3>2
      <4> QED BY <1>2, <4>1 DEF r, Later
    <3> QED BY <3>1, <3>2
  <2> HIDE DEF w, x
  <2>10. from[j] = w \o r
    BY <2>7, <2>8, <2>9
  <2>11. Turned(w \o r) = Turned(w) \o Turned(r)
    BY <1>4, <2>7, TurnedConcat
  <2>12. Turned(w) \in Seq(Seq(D))
    BY <2>7, TurnedTyped
  <2> DEFINE y == Turned(w)
             z == Turned(r)
  <2>13. Turned(from[j]) = y \o z /\ x = y /\ y \in Seq(Seq(D))
    BY <2>3, <2>10, <2>11, <2>12 DEF w
  <2> HIDE DEF y
  <2> QED BY <2>13 DEF x, r, Splits
<1> QED BY <1>5, <1>6

\* The reversed text has the words of the text, each turned round.
LEMMA ReversedWords ==
    ASSUME NEW D, Blank \in D, NEW text \in Seq(D), Len(text) <= BUFFER_SZ, NEW buff,
           \A k \in 1 .. Len(text) : buff[k] = text[k]
    PROVE  Fields(reverse_words(buff, Len(text)).out, Blank) = Turned(Fields(text, Blank))
<1> DEFINE n == Len(text)
           X == Seq(D)
<1>1. n \in Nat
  BY LenProperties
<1>2. PICK after : Reverses(buff, n, after)
  BY <1>1, Reversed
<1>3. PICK from : Stretches(text, Blank, D, from)
  BY FieldsUnfold
<1>4. /\ \A i \in 1 .. n + 1 : from[i] \in Seq(X)
      /\ Fields(text, Blank) = from[1]
      /\ from[n + 1] = <<>>
  BY <1>3 DEF Stretches
<1>5. Turned(<<>>) = <<>>
  BY DEF Turned
<1>6. Fields(<<>>, Blank) = <<>>
  <2>1. <<>> \in Seq(D) /\ Len(<<>>) = 0
    BY EmptySeq
  <2>2. PICK f : Stretches(<<>>, Blank, D, f)
    BY <2>1, FieldsUnfold
  <2> QED BY <2>1, <2>2 DEF Stretches
<1>7. after[0].out = <<>> /\ after[0].j = 1
  <2>1. after[0] = [out |-> <<>>, j |-> 1]
    BY <1>2 DEF Reverses
  <2> QED BY <2>1
<1>8. reverse_words(buff, n).out = after[n].out
  <2>1. reverse_words(buff, n) = [out |-> after[n].out, rc |-> 0]
    BY <1>2 DEF Reverses
  <2> QED BY <2>1
<1> DEFINE all == Turned(from[1])
           o(i) == after[i].out
           j(i) == after[i].j
           Whole(i) == Fields(o(i), Blank) = all
           Begun(i) == /\ j(i) \in 1 .. n /\ j(i) <= i + 1 /\ (i # 0 => j(i) <= i)
                       /\ \A m \in j(i) + 1 .. i : text[m] # Blank
                       /\ Fields(o(i), Blank) \o Turned(from[j(i)]) = all
           Good(i) == /\ o(i) \in Seq(D) /\ Ended(o(i), Blank)
                      /\ i < n => Begun(i)
                      /\ i = n => Whole(i)
           G == {i \in 0 .. n : Good(i)}
<1>9. CASE n = 0
  <2>1. from[1] = <<>>
    BY <1>4, <1>9
  <2> QED BY <1>4, <1>5, <1>6, <1>7, <1>8, <1>9, <2>1
<1>10. CASE n # 0
  <2>1. all \in Seq(X)
    <3>1. 1 \in 1 .. n + 1
      BY <1>1
    <3>2. from[1] \in Seq(X)
      BY <1>4, <3>1
    <3> QED BY <3>2, TurnedTyped
  <2> HIDE DEF all
  <2>2. 0 \in G
    <3>1. <<>> \in Seq(D) /\ Ended(<<>>, Blank)
      BY EmptySeq DEF Ended
    <3>2. 1 \in 1 .. n /\ 1 <= 0 + 1 /\ 1 + 1 .. 0 = {} /\ 0 \in 0 .. n /\ 0 # n
      BY <1>1, <1>10
    <3>3. <<>> \o all = all
      BY <2>1, ConcatEmptySeq
    <3> HIDE DEF n
    <3>4. Fields(o(0), Blank) \o Turned(from[j(0)]) = all
      BY <1>6, <1>7, <3>3 DEF all
    <3>5. Begun(0)
      BY <1>7, <3>2, <3>4
    <3>6. o(0) \in Seq(D) /\ Ended(o(0), Blank)
      BY <1>7, <3>1
    <3> HIDE DEF Begun, Whole, o
    <3> QED BY <3>2, <3>5, <3>6
  <2>3. ASSUME NEW k \in 1 .. n, k - 1 \in G PROVE k \in G
    <3> DEFINE p == after[k - 1].out
               q == after[k - 1].j
    <3>1. k \in Nat /\ k - 1 < n /\ k - 1 \in Nat /\ k \in 0 .. n /\ (k - 1) + 1 = k /\ 1 <= k /\ k <= n
      BY <1>1
    <3>2. /\ p \in Seq(D) /\ Ended(p, Blank)
          /\ q \in 1 .. n /\ q <= k /\ (k # 1 => q <= k - 1)
          /\ \A m \in q + 1 .. k - 1 : text[m] # Blank
          /\ Fields(p, Blank) \o Turned(from[q]) = all
      <4>1. Good(k - 1)
        BY <2>3
      <4>2. Begun(k - 1)
        BY <3>1, <4>1
      <4>3. k - 1 # 0 <=> k # 1
        BY <3>1
      <4> QED BY <3>1, <4>1, <4>2, <4>3
    <3>3. after[k] = ReverseStep(buff, n, after[k - 1], k) /\ buff[k] = text[k]
      BY <1>2 DEF Reverses
    <3> HIDE DEF p, q
    <3>4. q \in Nat /\ 1 <= q /\ q \in 1 .. k
      BY <1>1, <3>1, <3>2
    <3>5. CASE text[k] = Blank \/ k = n
      <4> DEFINE u == Closed(text, q, k)
                 x == Fields(u, Blank)
                 r == Turned(Later(text, from, k))
      <4>1. SubSeq(buff, q, k) = SubSeq(text, q, k)
        <5> DEFINE e == k + 1
        <5>1. q \in 1 .. Len(text) + 1 /\ e \in q .. Len(text) + 1 /\ e - 1 = k
          BY <1>1, <3>1, <3>2
        <5> HIDE DEF e
        <5>2. SubSeq(buff, q, e - 1) = SubSeq(text, q, e - 1)
          BY <5>1, SameStretch
        <5> QED BY <5>1, <5>2
      <4>2. /\ after[k].out = (p \o Reverse(SubSeq(text, q, k))) \o <<Blank>>
            /\ after[k].j = k
        <5>1. after[k] = [out |-> p \o Reverse(SubSeq(buff, q, k)) \o <<Blank>>, j |-> k]
          BY <3>3, <3>5 DEF ReverseStep, p, q
        <5> QED BY <4>1, <5>1
      <4>3. u \in Seq(D) /\ Len(u) = k - q + 2 /\ u[k - q + 2] = Blank
        BY <3>4, ClosedRead
      <4>4. after[k].out = p \o u
        <5> DEFINE s == Reverse(SubSeq(text, q, k))
                   b == <<Blank>>
        <5>1. s \in Seq(D) /\ b \in Seq(D)
          BY <3>4, TurnedLength
        <5>2. u = s \o b /\ after[k].out = (p \o s) \o b
          BY <4>2 DEF Closed
        <5> HIDE DEF s, b, u
        <5>3. (p \o s) \o b = p \o (s \o b)
          <6>1. Over(D, p, s, b)
            BY <3>2, <5>1 DEF Over
          <6> QED BY <6>1, Regrouped
        <5> QED BY <5>2, <5>3
      <4> HIDE DEF u
      <4>5. /\ p \o u \in Seq(D) /\ Ended(p \o u, Blank)
        <5> DEFINE a == Len(p)
                   b == Len(u)
        <5>1. a \in Nat /\ b \in Nat \ {0} /\ u[b] = Blank
          BY <3>1, <3>2, <3>4, <4>3, LenProperties
        <5>2. /\ p \o u \in Seq(D) /\ Len(p \o u) = a + b
              /\ \A i \in 1 .. a + b : (p \o u)[i] = IF i <= a THEN p[i] ELSE u[i - a]
          BY <3>2, <4>3, ConcatProperties
        <5> HIDE DEF a, b
        <5>3. a + b \in 1 .. a + b /\ ~(a + b <= a) /\ (a + b) - a = b
          BY <5>1
        <5> DEFINE v == p \o u
        <5>4. v \in Seq(D) /\ Len(v) = a + b /\ v[a + b] = Blank
          BY <5>1, <5>2, <5>3
        <5> HIDE DEF v
        <5>5. Ended(v, Blank)
          BY <5>4 DEF Ended
        <5> QED BY <5>4, <5>5 DEF v
      <4>6. Turned(from[q]) = x \o r /\ x \in Seq(X)
        <5> HIDE DEF n
        <5>1. EndsStretch(text, q, k)
          BY <3>2, <3>4, <3>5 DEF n, EndsStretch
        <5>2. /\ Splits(Turned(from[q]), Fields(Closed(text, q, k), Blank),
                        Turned(Later(text, from, k)))
              /\ Fields(Closed(text, q, k), Blank) \in Seq(Seq(D))
          BY <1>3, <5>1, ClosedStretch
        <5> QED BY <5>2 DEF u, Splits
      <4>7. r \in Seq(X)
        <5>1. Later(text, from, k) \in Seq(X)
          <6>1. k \in 1 .. n + 1
            BY <1>1
          <6>2. CASE k = n
            <7>1. Later(text, from, k) = <<>>
              BY <6>2 DEF Later
            <7> QED BY <7>1, EmptySeq
          <6>3. CASE k # n
            <7>1. Later(text, from, k) = from[k]
              BY <6>3 DEF Later
            <7> QED BY <1>4, <6>1, <7>1
          <6> QED BY <6>2, <6>3
        <5> QED BY <5>1, TurnedTyped
      <4>8. Fields(p \o u, Blank) = Fields(p, Blank) \o x
        BY <3>2, <4>3, FieldsApart
      <4>9. Fields(p \o u, Blank) \o r = all
        <5> DEFINE y == Fields(p, Blank)
        <5>1. y \in Seq(X)
          BY <3>2, FieldsTyped
        <5>2. y \o (x \o r) = all
          BY <3>2, <4>6
        <5> HIDE DEF x, r, y, X
        <5>3. (y \o x) \o r = y \o (x \o r)
          <6>1. Over(X, y, x, r)
            BY <4>6, <4>7, <5>1 DEF Over
          <6> QED BY <6>1, Regrouped
        <5> QED BY <4>8, <5>2, <5>3 DEF y
      <4>10. k < n => Begun(k)
        <5> SUFFICES ASSUME k < n PROVE Begun(k)
          OBVIOUS
        <5>1. k # n /\ k \in 1 .. n /\ k <= k + 1 /\ k <= k /\ k + 1 .. k = {}
          BY <1>1, <3>1
        <5>2. Later(text, from, k) = from[k]
          BY <5>1 DEF Later
        <5>3. Fields(o(k), Blank) \o Turned(from[j(k)]) = all
          BY <4>2, <4>4, <4>9, <5>2
        <5> QED BY <4>2, <5>1, <5>3
      <4>11. k = n => Whole(k)
        <5> SUFFICES ASSUME k = n PROVE Whole(k)
          OBVIOUS
        <5>1. r = <<>>
          BY <1>5 DEF Later
        <5> DEFINE y == Fields(p \o u, Blank)
        <5>2. y \in Seq(X) /\ y \o <<>> = all
          BY <4>5, <4>9, <5>1, FieldsTyped
        <5> HIDE DEF y
        <5>3. y = all
          BY <5>2, ConcatEmptySeq
        <5> QED BY <4>4, <5>3 DEF y
      <4>12. o(k) \in Seq(D) /\ Ended(o(k), Blank)
        BY <4>4, <4>5
      <4> HIDE DEF Begun, Whole, o
      <4> QED BY <3>1, <4>10, <4>11, <4>12
    <3>6. CASE ~(text[k] = Blank \/ k = n)
      <4>1. after[k] = after[k - 1]
        BY <3>3, <3>6 DEF ReverseStep
      <4>2. o(k) = p /\ j(k) = q
        BY <4>1 DEF p, q
      <4>3. \A m \in q + 1 .. k : text[m] # Blank
        <5>1. \A m \in q + 1 .. k : m \in q + 1 .. k - 1 \/ m = k
          BY <3>1, <3>4
        <5> QED BY <3>2, <3>6, <5>1
      <4>4. Begun(k)
        <5>1. q \in 1 .. n /\ q <= k + 1 /\ (k # 0 => q <= k)
          BY <3>1, <3>2, <3>4
        <5> QED BY <3>2, <4>2, <4>3, <5>1
      <4>5. o(k) \in Seq(D) /\ Ended(o(k), Blank)
        BY <3>2, <4>2
      <4> HIDE DEF Begun, Whole, o
      <4> QED BY <3>1, <3>6, <4>4, <4>5
    <3> HIDE DEF G
    <3> QED BY <3>5, <3>6
  <2>4. n \in G
    <3> HIDE DEF G
    <3>1. \A i \in 1 .. n : i - 1 \in G => i \in G
      BY <2>3
    <3> HIDE DEF n
    <3>2. 0 .. n \subseteq G
      BY <1>1, <2>2, <3>1, UpInduction
    <3>3. n \in 0 .. n
      BY <1>1
    <3> QED BY <3>2, <3>3
  <2>5. Whole(n)
    <3> HIDE DEF Begun, Whole
    <3> QED BY <2>4
  <2> QED BY <1>4, <1>8, <2>5 DEF all
<1> QED BY <1>9, <1>10

\* The services of the string utility agree on what the words of a string are,
\* for every string that fits and every BUFFER_SZ.
THEOREM AgreeingServices == Spec => []ServicesAgree
<1>1. InputTyped => ServicesAgree
  <2> SUFFICES ASSUME InputTyped, kind = "string", Len(input) <= BUFFER_SZ
               PROVE  LET setup == setup_buff(input)
                          words == WordsOf(input)
                      IN /\ NonEmpty(print_words_and_their_lengths(setup.buff, setup.rc).words)
                               = words
                         /\ SameBag(Fields(reverse_words(setup.buff, setup.rc).out, Blank),
                                    [k \in DOMAIN words |-> Reverse(words[k])])
                         /\ count_words(setup.buff, setup.rc, FALSE) = Len(words)
    BY DEF ServicesAgree
  <2> DEFINE C == Cells["string"]
             D == C \cup {Blank}
             buff == setup_buff(input).buff
             text == Blanked(input)
             words == WordsOf(input)
  <2>1. input \in Seq(C)
    BY DEF InputTyped
  <2> HIDE DEF C
  <2>2. /\ setup_buff(input).rc = Len(input)
        /\ \A k \in 1 .. Len(input) : buff[k] = text[k]
    BY <2>1, BufferRead
  <2>3. text \in Seq(D) /\ Len(text) = Len(input)
    BY <2>1, BlankedTyped
  <2>4. Blank \in D /\ words = Fields(text, Blank)
    BY DEF WordsOf
  <2> HIDE DEF D, buff, text, words
  <2>6. Len(text) <= BUFFER_SZ /\ \A k \in 1 .. Len(text) : buff[k] = text[k]
    BY <2>2, <2>3
  <2>7. NonEmpty(print_words_and_their_lengths(buff, Len(text)).words) = words
    BY <2>3, <2>4, <2>6, PrintedWords
  <2>8. Fields(reverse_words(buff, Len(text)).out, Blank)
           = [k \in DOMAIN words |-> Reverse(words[k])]
    <3>1. Fields(reverse_words(buff, Len(text)).out, Blank) = Turned(words)
      BY <2>3, <2>4, <2>6, ReversedWords
    <3> QED BY <3>1 DEF Turned
  <2>5. SameBag(Fields(reverse_words(buff, Len(text)).out, Blank),
                [k \in DOMAIN words |-> Reverse(words[k])])
    BY <2>8 DEF SameBag
  <2>9. count_words(buff, Len(text), FALSE) = Len(words)
    <3>1. words \in Seq(Seq(D))
      BY <2>3, <2>4, FieldsTyped
    <3>2. Len(words) \in Nat
      BY <3>1, LenProperties
    <3>3. count_words(buff, Len(text), FALSE)
             = Len(words) - IF FALSE /\ Len(text) # 0 /\ text[1] # Blank THEN 1 ELSE 0
      <4>1. FALSE \in BOOLEAN
        OBVIOUS
      <4> QED BY <2>3, <2>4, <2>6, <4>1, CountedWords
    <3> DEFINE l == Len(words)
    <3>4. l \in Nat /\ count_words(buff, Len(text), FALSE) = l - 0
      BY <3>2, <3>3
    <3> HIDE DEF l
    <3>5. l - 0 = l
      BY <3>4
    <3> QED BY <3>4, <3>5 DEF l
  <2> QED BY <2>2, <2>3, <2>5, <2>7, <2>9 DEF buff, text, words
<1> QED BY <1>1, InputsTyped, PTL

=============================================================================
