------------------------------- MODULE MCText -------------------------------
(***************************************************************************)
(* Checks the pure parts of the programs (CmdParser, StringFun and         *)
(* DshOptions) on every input up to a bound: a behaviour picks what kind   *)
(* of input it is and grows it one cell at a time, and each property says  *)
(* something about the algorithm on the input reached.                     *)
(***************************************************************************)
EXTENDS CmdParser, StringFun, DshOptions

CONSTANTS
    MaxLine,   \* cells of a command line given to the parsers
    MaxLost,   \* blocks that malloc does not give while a line is parsed
    MaxString, \* characters of a string given to stringfun
    MaxOptions \* options given to dsh

VARIABLES kind, input

vars == <<kind, input>>

Cells == [line    |-> {"a", Space, Pipe} \cup Quotes,
          string  |-> {"a", "b", Blank, Tab},
          options |-> Options]
Bound == [line |-> MaxLine, string |-> MaxString, options |-> MaxOptions]

Init == kind \in DOMAIN Cells /\ input = <<>>

Next == /\ Len(input) < Bound[kind]
        /\ \E c \in Cells[kind] : input' = Append(input, c)
        /\ UNCHANGED kind

Spec == Init /\ [][Next]_vars

-----------------------------------------------------------------------------
(***************************************************************************)
(* The words of a command, defined without a scan: a position is inside    *)
(* quotes when an automaton that reads the text from the left says so; a   *)
(* word is a longest stretch of plain cells, or what two matching quotes   *)
(* enclose.                                                                *)
(***************************************************************************)
\* The quote that is open after cell i.
Open(seg) ==
    LET open[i \in 0 .. Len(seg)] ==
            IF i = 0 THEN "none"
            ELSE IF open[i - 1] = "none"
                 THEN IF seg[i] \in Quotes THEN seg[i] ELSE "none"
                 ELSE IF seg[i] = open[i - 1] THEN "none" ELSE open[i - 1]
    IN open

Plain(seg, i)  == i \in DOMAIN seg /\ Open(seg)[i] = "none" /\ Open(seg)[i - 1] = "none"
                  /\ seg[i] # Space
Opens(seg, i)  == Open(seg)[i - 1] = "none" /\ Open(seg)[i] # "none"
Closes(seg, i) == Open(seg)[i - 1] # "none" /\ Open(seg)[i] = "none"

\* The cells at which a word that begins at cell i ends: one or none.
SpanEnds(seg, i) ==
    {j \in DOMAIN seg :
        \/ /\ ~Plain(seg, i - 1) /\ ~Plain(seg, j + 1)
           /\ i <= j /\ \A k \in i .. j : Plain(seg, k)
        \/ /\ Opens(seg, i) /\ Closes(seg, j)
           /\ i < j /\ \A k \in i + 1 .. j - 1 : ~Closes(seg, k)}

Span(seg, i, j) == IF seg[i] \in Quotes THEN SubSeq(seg, i + 1, j - 1)
                   ELSE SubSeq(seg, i, j)

\* The words that do not start at a cell of lost.
RefWords(seg, lost) ==
    FlattenSeq([i \in DOMAIN seg |->
        IF SpanEnds(seg, i) = {} \/ i \in lost THEN <<>>
        ELSE <<Span(seg, i, CHOOSE j \in SpanEnds(seg, i) : TRUE)>>])

\* The commands of a line, by its pipes: a quote does not protect one.
Commands(text) == Fields(text, Pipe)

Shortages(text) == {short \in SUBSET Blocks(text) : Cardinality(short) <= MaxLost}

\* (parse_buffer_into_cmd) Every command of an accepted line has exactly the
\* words of the reference but for those malloc had no block for: nothing else
\* is lost, nothing is merged, split or taken from the next command, whatever
\* quotes touch each other or stay open; and no line is accepted one of whose
\* arrays is missing.
WordsFaithful ==
    kind = "line" =>
        \A short \in Shortages(input) :
            LET parsed == parse_buffer_into_cmd(input, short)
                cmds   == Commands(input)
            IN parsed.rc = OK =>
                   /\ parsed.cmds = [k \in DOMAIN cmds |-> RefWords(cmds[k], Lost(short, k))]
                   /\ \A k \in DOMAIN cmds : <<k, 0>> \notin short

\* (the limits of the two pipeline parsers) A line of at most CMD_MAX
\* commands of at most CMD_MAX words is accepted and stored within the
\* arrays; one of CMD_MAX + 2 commands is refused.  In between (one command
\* or one word too many) the code accepts and stores past an array.
LimitsKept ==
    kind = "line" =>
        LET cmds == Commands(input)
            small == /\ Len(cmds) <= CMD_MAX
                     /\ \A k \in DOMAIN cmds : Len(RefWords(cmds[k], {})) <= CMD_MAX
        IN \A parsed \in {parse_buffer_into_cmd(input, {}), ParseLine(input, {})} :
               /\ small => parsed.rc = OK /\ InBounds(parsed.cmds)
               /\ Len(cmds) >= CMD_MAX + 2 => parsed.rc # OK

\* (the four parsers) A line without quotes means the same to all of them:
\* the first shell's names and arguments are the words of the pipeline
\* shell, and the single-command shell has them all in one command.
ParsersAgree ==
    kind = "line" /\ ToSet(input) \cap Quotes = {} /\ ParseLine(input, {}).rc = OK =>
        LET cmds == ParseLine(input, {}).cmds
            list == build_cmd_list(input)
        IN /\ ParseWords(input, {}) = FlattenSeq(cmds)
           /\ list.rc = OK /\ DOMAIN list.cmds = DOMAIN cmds
           /\ \A k \in DOMAIN cmds :
                 IF cmds[k] = <<>> THEN list.cmds[k].exe = <<>>
                 ELSE /\ list.cmds[k].args = Tail(cmds[k])
                      /\ IsPrefix(list.cmds[k].exe, cmds[k][1])
                      /\ Len(list.cmds[k].exe)
                            = Min({Len(cmds[k][1]), EXE_MAX - 1})

-----------------------------------------------------------------------------
Blanked(str) == [i \in DOMAIN str |-> IF str[i] = Tab THEN Blank ELSE str[i]]
WordsOf(str) == Fields(Blanked(str), Blank)

\* The lines that are not empty.
NonEmpty(lines) ==
    Joined([k \in DOMAIN lines |-> IF lines[k] = <<>> THEN <<>> ELSE <<lines[k]>>])

\* (setup_buff) A string that fits is in the buffer with the words it has, in
\* cells that were all written, without a tab, and with dots from the length
\* returned on to the end.
BufferFilled ==
    kind = "string" /\ Len(input) <= BUFFER_SZ =>
        LET setup == setup_buff(input)
        IN /\ setup.rc \in 0 .. BUFFER_SZ /\ Len(setup.buff) = BUFFER_SZ
           /\ Fields(SubSeq(setup.buff, 1, setup.rc), Blank) = WordsOf(input)
           /\ \A k \in 1 .. BUFFER_SZ : /\ setup.buff[k] \notin {Hole, Tab}
                                        /\ k > setup.rc => setup.buff[k] = Dot

\* The same members, each as often, in whatever order.
SameBag(s, t) ==
    \A w \in ToSet(s) \cup ToSet(t) :
        Cardinality({k \in DOMAIN s : s[k] = w}) = Cardinality({k \in DOMAIN t : t[k] = w})

\* (count_words, reverse_words, print_words_and_their_lengths) The services
\* agree on what the words are: the printed lines that are not empty are the
\* words, the reversed text has each of them read backwards, and the count
\* is their number when the scan begins outside a word.
ServicesAgree ==
    kind = "string" /\ Len(input) <= BUFFER_SZ =>
        LET setup == setup_buff(input)
            words == WordsOf(input)
        IN /\ NonEmpty(print_words_and_their_lengths(setup.buff, setup.rc).words) = words
           /\ SameBag(Fields(reverse_words(setup.buff, setup.rc).out, Blank),
                      [k \in DOMAIN words |-> Reverse(words[k])])
           /\ count_words(setup.buff, setup.rc, FALSE) = Len(words)

\* (1-C-Refresher/.directions/readme.md:53, 1-C-Refresher/stringfun.c:108) The
\* count is the number of words, whatever the scan finds in its variables.
WordsCounted ==
    kind = "string" /\ Len(input) <= BUFFER_SZ =>
        LET setup == setup_buff(input)
        IN \A in_word \in BOOLEAN :
               count_words(setup.buff, setup.rc, in_word) = Len(WordsOf(input))

\* The places where reverse_words closes a stretch.
Breaks(str) == {i \in DOMAIN str : Blanked(str)[i] = Blank} \cup {Len(str)}

\* (reverse_words) How much it writes, and so exactly which strings overrun
\* the BUFFER_SZ bytes malloc'ed for the result, which nothing in the code
\* checks: each blank is copied twice and followed by one more.  No string
\* of up to a third of the buffer is among them.
ReverseOverruns ==
    kind = "string" /\ input # <<>> /\ Len(input) <= BUFFER_SZ =>
        LET setup  == setup_buff(input)
            out    == reverse_words(setup.buff, setup.rc).out
        IN /\ Len(out) > BUFFER_SZ
                 <=> Len(input) + 2 * Cardinality(Breaks(input)) > BUFFER_SZ + 1
           /\ 3 * Len(input) <= BUFFER_SZ + 1 => Len(out) <= BUFFER_SZ

\* (main) The status is 0 only for a string that fits, and may always be 0
\* for one when malloc gives the one or two blocks the service needs; then
\* nothing is reported, but -r may abort, and exactly for the strings with
\* which reverse_words leaves its block.
ServedOrReported ==
    kind = "string" =>
        \A opt \in {"c", "r", "w"}, blocks \in 0 .. 2 :
            LET status == main(<<opt, input>>, blocks)
                served == /\ Len(input) <= BUFFER_SZ
                          /\ blocks >= IF opt = "r" THEN 2 ELSE 1
            IN /\ 0 \in status <=> served
               /\ served => status \subseteq {0, Aborted}
               /\ Aborted \in status <=>
                     /\ served /\ opt = "r" /\ input # <<>>
                     /\ Len(input) + 2 * Cardinality(Breaks(input)) > BUFFER_SZ + 1

-----------------------------------------------------------------------------
\* Is one of some options given before option i?
Before(opts, i, some) == \E j \in 1 .. i - 1 : opts[j] \in some

Wrong(opts, i) == \/ opts[i] \in {"c", "s"} /\ Before(opts, i, {"c", "s"})
                  \/ opts[i] \in {"i", "p"} /\ ~Before(opts, i, {"c", "s"})
                  \/ opts[i] = "p0"
                  \/ opts[i] = "x" /\ ~Before(opts, i, {"s"})

Stops(opts) == {i \in DOMAIN opts : Wrong(opts, i) \/ opts[i] \in {"h", "?"}}

\* (parse_args, main) dsh runs exactly what the options, in their order, ask
\* for: -i and -p need -c or -s before them, -x needs -s before it, only one
\* of -c and -s may be given, the port must be positive, and nothing that
\* follows -h or an unknown option is looked at.
OptionsHonoured ==
    kind = "options" =>
        LET stops == Stops(input)
            asked == ToSet(input)
            loop  == LoopOf(input)
        IN /\ IF stops = {}
              THEN loop = IF "s" \in asked THEN "start_server"
                          ELSE IF "c" \in asked THEN "exec_remote_cmd_loop"
                          ELSE "exec_local_cmd_loop"
              ELSE loop = IF Wrong(input, Min(stops)) THEN "failure" ELSE "usage"
           /\ stops = {} =>
                 /\ parse_args(input).threaded_server = ("x" \in asked)
                 /\ (parse_args(input).port = "given") = ("p" \in asked)
                 /\ (parse_args(input).ip = "given") = ("i" \in asked)
=============================================================================
