----------------------------- MODULE StringFun -----------------------------
(***************************************************************************)
(* stringfun (1-C-Refresher/stringfun.c): the string of the command line   *)
(* is put into a buffer of BUFFER_SZ bytes, and its words are counted,     *)
(* reversed or printed.  A character is a cell of a sequence.  A sequence  *)
(* longer than BUFFER_SZ stands for stores past the end of its buffer.     *)
(***************************************************************************)
EXTENDS SequencesExt, Integers

CONSTANT BUFFER_SZ

ASSUME BufferAssumption == BUFFER_SZ \in Nat \ {0}

Blank == " "
Tab   == "\t"
Dot   == "."
Hole  == "a byte that was never written"
TooLong == -1

-----------------------------------------------------------------------------
\* Mutant of SetupStep: is_valid_char is reset, the index still advances.
SetupStepReset(s, c) ==
    LET ch    == IF c = Tab THEN Blank ELSE c
        valid == ch # Blank \/ ~s.has_preceeding_space_char
    IN IF s.curr_buff_len > BUFFER_SZ \/ s.curr_buff_len = TooLong
       THEN [s EXCEPT !.curr_buff_len = TooLong]
       ELSE [buff |-> Append(s.buff, IF valid THEN ch ELSE Hole),
             curr_buff_len |-> s.curr_buff_len + (IF valid THEN 1 ELSE 0),
             has_preceeding_space_char |-> ch = Blank,
             is_valid_char |-> valid]

\* One turn of the loop of setup_buff.  is_valid_char is set and never
\* reset, so that a repeated blank is kept although the flag is there to
\* drop it; i, and with it the place in the buffer, advances every turn.
\* The check allows one character too many.
SetupStep(s, c) ==
    LET ch    == IF c = Tab THEN Blank ELSE c
        valid == \/ s.is_valid_char
                 \/ ch # Blank
                 \/ ~s.has_preceeding_space_char
    IN IF s.curr_buff_len > BUFFER_SZ \/ s.curr_buff_len = TooLong
       THEN [s EXCEPT !.curr_buff_len = TooLong]
       ELSE [buff |-> Append(s.buff, IF valid THEN ch ELSE Hole),
             curr_buff_len |-> s.curr_buff_len + (IF valid THEN 1 ELSE 0),
             has_preceeding_space_char |-> ch = Blank,
             is_valid_char |-> valid]

\* What the loop starts with.
Unfilled == [buff |-> <<>>, curr_buff_len |-> 0,
             has_preceeding_space_char |-> FALSE, is_valid_char |-> FALSE]

\* The buffer and what setup_buff returns.
setup_buff(user_str) ==
    LET after[n \in 0 .. Len(user_str)] ==
            IF n = 0 THEN Unfilled ELSE SetupStep(after[n - 1], user_str[n])
        end == after[Len(user_str)]
    IN [buff |-> end.buff \o [k \in 1 .. BUFFER_SZ - Len(user_str) |-> Dot],
        rc   |-> end.curr_buff_len]

CountStep(s, c) ==
    [in_word |-> c # Blank,
     count   |-> s.count + IF c # Blank /\ ~s.in_word THEN 1 ELSE 0]

\* in_word is read before anything was stored in it: started is what it
\* happens to hold.
count_words(buff, str_len, started) ==
    IF str_len > BUFFER_SZ THEN TooLong
    ELSE LET after[i \in 0 .. str_len] ==
                 IF i = 0 THEN [in_word |-> started, count |-> 0]
                 ELSE CountStep(after[i - 1], buff[i])
         IN after[str_len].count

\* Mutants of ReverseStep: the last word is not closed; j stays at the
\* beginning of the first word.
ReverseStepOpen(buff, str_len, s, i) ==
    IF buff[i] = Blank
    THEN [out |-> s.out \o Reverse(SubSeq(buff, s.j, i)) \o <<Blank>>, j |-> i]
    ELSE s

ReverseStepFromFirst(buff, str_len, s, i) ==
    IF buff[i] = Blank \/ i = str_len
    THEN [s EXCEPT !.out = @ \o Reverse(SubSeq(buff, 1, i)) \o <<Blank>>]
    ELSE s

\* Each blank, and the end, copies everything back to the last blank,
\* both blanks included, and adds one more.  Nothing ends the result.
ReverseStep(buff, str_len, s, i) ==
    IF buff[i] = Blank \/ i = str_len
    THEN [out |-> s.out \o Reverse(SubSeq(buff, s.j, i)) \o <<Blank>>, j |-> i]
    ELSE s

reverse_words(buff, str_len) ==
    IF str_len > BUFFER_SZ THEN [out |-> <<>>, rc |-> TooLong]
    ELSE LET after[i \in 0 .. str_len] ==
                 IF i = 0 THEN [out |-> <<>>, j |-> 1]
                 ELSE ReverseStep(buff, str_len, after[i - 1], i)
         IN [out |-> after[str_len].out, rc |-> 0]

\* The lines that are printed, each followed by its length: what lies
\* between two blanks, even if that is nothing.
PrintStep(buff, str_len, s, i) ==
    IF i > str_len \/ buff[i] = Blank
    THEN [words |-> Append(s.words, SubSeq(buff, s.j, i - 1)), j |-> i + 1]
    ELSE s

print_words_and_their_lengths(buff, str_len) ==
    IF str_len > BUFFER_SZ THEN [words |-> <<>>, rc |-> TooLong]
    ELSE LET after[i \in 0 .. str_len + 1] ==
                 IF i = 0 THEN [words |-> <<>>, j |-> 1]
                 ELSE PrintStep(buff, str_len, after[i - 1], i)
         IN [words |-> after[str_len + 1].words, rc |-> 0]

\* The statuses a service's answer leads to; Aborted is what the shell shows
\* of a program that glibc ends.
Aborted == 134
Status(rc) == IF rc < 0 THEN 2 ELSE 0

\* The result of reverse_words is a block of BUFFER_SZ bytes.  What is
\* written behind it belongs to malloc, which may notice, at the latest when
\* the block is given back, or not; the one byte of setup_buff's own fits
\* into what malloc rounds BUFFER_SZ up to.
Noticed(out) == IF Len(out) > BUFFER_SZ THEN {Aborted} ELSE {}

\* Mutant of ServiceResult: what printing the words returns is not looked at.
ServiceUnchecked(opt, buff, str_len) ==
    CASE opt = "c" -> {Status(count_words(buff, str_len, in_word)) : in_word \in BOOLEAN}
      [] opt = "r" -> LET reversed == reverse_words(buff, str_len)
                      IN {Status(reversed.rc)} \cup Noticed(reversed.out)
      [] opt = "w" -> {0}

\* What the option asks for, and the exit statuses it may end with.
ServiceResult(opt, buff, str_len) ==
    CASE opt = "c" -> {Status(count_words(buff, str_len, in_word)) : in_word \in BOOLEAN}
      [] opt = "r" -> LET reversed == reverse_words(buff, str_len)
                      IN {Status(reversed.rc)} \cup Noticed(reversed.out)
      [] opt = "w" -> {Status(print_words_and_their_lengths(buff, str_len).rc)}

\* The exit statuses there may be: args is what follows the name of the
\* program, its first element an option letter or "text", which does not begin
\* with a dash; blocks is how often malloc gives memory.
main(args, blocks) ==
    IF args = <<>> \/ args[1] = "text" THEN {1}
    ELSE IF args[1] = "h" THEN {0}
    ELSE IF Len(args) < 2 THEN {1}
    ELSE IF blocks = 0 THEN {99}
    ELSE LET setup == setup_buff(args[2])
         IN IF setup.rc < 0 THEN {2}
            ELSE IF args[1] \notin {"c", "r", "w"} THEN {1}
            ELSE IF args[1] = "r" /\ blocks = 1 THEN {99}
            ELSE ServiceResult(args[1], setup.buff, setup.rc)

=============================================================================
