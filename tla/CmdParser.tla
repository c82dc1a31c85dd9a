----------------------------- MODULE CmdParser -----------------------------
(***************************************************************************)
(* How a line of text becomes commands and words: parse_buffer_into_cmd of *)
(* 6-RShell/rsh_server.c, the loop in exec_local_cmd_loop of 5-ShellP3     *)
(* and 6-RShell/dshlib.c, the one of 4-ShellP2/dshlib.c, and               *)
(* build_cmd_list of 3-ShellP1/dshlib.c.                                   *)
(*                                                                         *)
(* A text is a sequence of cells.  A cell is a space, a pipe, a quote or   *)
(* something else that the parsers do not look at: one character, or, in a *)
(* model that needs names, a whole one ("ls").                             *)
(***************************************************************************)
EXTENDS SequencesExt, FiniteSetsExt, Integers

CONSTANTS
    CMD_MAX, \* the documented limit on the commands of a line
    ARG_MAX, \* the limit on the words of a command the parsers compare with
    EXE_MAX  \* the size of command_t.exe in 3-ShellP1

ASSUME CmdMaxAssumption == CMD_MAX \in Nat \ {0}
ASSUME ArgMaxAssumption == ARG_MAX \in Nat /\ ARG_MAX > CMD_MAX
ASSUME ExeMaxAssumption == EXE_MAX \in Nat \ {0}

Space  == " "
Pipe   == "|"
Quotes == {"\"", "'"}

CMD_ARGV_MAX == CMD_MAX + 1

OK                      == 0
ERR_MEMORY              == -5
ERR_TOO_MANY_COMMANDS   == -2
ERR_CMD_OR_ARGS_TOO_BIG == -3

\* Mutant of First: the search starts one cell late.
FirstBeyond(text, i, stops) ==
    Min({k \in i + 1 .. Len(text) : text[k] \in stops} \cup {Len(text) + 1})

\* The first position from i on that holds one of stops, or the one after
\* the text.
First(text, i, stops) ==
    Min({k \in i .. Len(text) : text[k] \in stops} \cup {Len(text) + 1})

\* What a scan that goes on from cell i at cell next[i] finds, where found[i]
\* is what it finds at cell i.
Scan(found, next) ==
    LET from[i \in Nat] ==
            IF i \in DOMAIN found THEN found[i] \o from[next[i]] ELSE <<>>
    IN from[1]

\* All members of a sequence of sequences, one after the other.
Joined(seqs) == Scan(seqs, [k \in DOMAIN seqs |-> k + 1])

\* strtok_r: the non-empty stretches between separators.
Fields(text, sep) ==
    Scan([i \in DOMAIN text |->
             IF text[i] = sep THEN <<>>
             ELSE <<SubSeq(text, i, First(text, i, {sep}) - 1)>>],
         [i \in DOMAIN text |->
             IF text[i] = sep THEN i + 1 ELSE First(text, i, {sep})])

-----------------------------------------------------------------------------
(***************************************************************************)
(* The words of one command, as the two later shells and the server find   *)
(* them: spaces separate, a quoted stretch is one word of its own (also    *)
(* when it touches another), and a quote that is never closed swallows the *)
(* rest.  With each word, the position where the scan goes on.             *)
(***************************************************************************)
Quoted(seg, i) == seg[i] \in Quotes

\* The cell behind the word that starts at cell i.
WordEnd(seg, i) == IF Quoted(seg, i) THEN First(seg, i + 1, {seg[i]})
                   ELSE First(seg, i, {Space} \cup Quotes)

\* Does a quote open at cell i that is never closed?
Unclosed(seg, i) == Quoted(seg, i) /\ WordEnd(seg, i) > Len(seg)

GoesOn(seg, i) == CASE seg[i] = Space -> i + 1
                    [] Unclosed(seg, i) -> Len(seg) + 1
                    [] Quoted(seg, i) /\ ~Unclosed(seg, i) -> WordEnd(seg, i) + 1
                    [] OTHER -> WordEnd(seg, i)

TokenAt(seg, i) ==
    [word |-> SubSeq(seg, IF Quoted(seg, i) THEN i + 1 ELSE i, WordEnd(seg, i) - 1),
     next |-> GoesOn(seg, i)]

\* A word is stored when malloc gives its block; the one that starts at a cell
\* of lost is skipped.
Tokens(seg, lost) ==
    Scan([i \in DOMAIN seg |->
             IF seg[i] = Space \/ Unclosed(seg, i) \/ i \in lost THEN <<>>
             ELSE <<TokenAt(seg, i)>>],
         [i \in DOMAIN seg |-> GoesOn(seg, i)])

\* argc > ARG_MAX is seen at the head of the loop, when something follows
\* the word that made it so.
TooBig(seg, lost) ==
    LET t == Tokens(seg, lost)
    IN Len(t) > ARG_MAX /\ t[ARG_MAX + 1].next <= Len(seg)

\* The words a command ends up with.
Words(seg, lost) ==
    LET t == Tokens(seg, lost)
    IN [k \in 1 .. IF TooBig(seg, lost) THEN ARG_MAX + 1 ELSE Len(t) |-> t[k].word]

-----------------------------------------------------------------------------
(***************************************************************************)
(* Whole lines.  short holds the blocks that malloc does not give: <<k, i>> *)
(* for the word at cell i of command k, <<k, 0>> for the array that is      *)
(* asked for behind command k.                                             *)
(***************************************************************************)
Blocks(text) ==
    LET segs == Fields(text, Pipe)
    IN UNION {{k} \X ({0} \cup {i \in DOMAIN segs[k] : segs[k][i] # Space}) :
                 k \in DOMAIN segs}

Lost(short, k) == {block[2] : block \in {b \in short : b[1] = k}}

\* The commands that are parsed before the check of num_commands stops it, or
\* an array that is not there.
Taken(text, short) ==
    LET segs == Fields(text, Pipe)
    IN SubSeq(segs, 1, Min({Len(segs), CMD_MAX + 1}
                           \cup {k \in DOMAIN segs : <<k, 0>> \in short}))

Starved(text, short) == \E k \in DOMAIN Taken(text, short) : <<k, 0>> \in short

\* Mutant of TooMany: the check of num_commands comes after the store.
TooManyLate(text) == Len(Fields(text, Pipe)) > CMD_MAX + 2

TooMany(text) == Len(Fields(text, Pipe)) > CMD_MAX + 1

SomeTooBig(text, short) ==
    \E k \in DOMAIN Taken(text, short) : TooBig(Taken(text, short)[k], Lost(short, k))

\* The server.  A command with too many words only sets rc: parsing goes on.
parse_buffer_into_cmd(text, short) ==
    [cmds |-> [k \in DOMAIN Taken(text, short) |->
                  Words(Taken(text, short)[k], Lost(short, k))],
     rc   |-> IF Starved(text, short) THEN ERR_MEMORY
              ELSE IF TooMany(text) THEN ERR_TOO_MANY_COMMANDS
              ELSE IF SomeTooBig(text, short) THEN ERR_CMD_OR_ARGS_TOO_BIG ELSE OK]

\* The local shell of 5-ShellP3: there the first error ends the loop.
ParseLine(text, short) ==
    [cmds |-> parse_buffer_into_cmd(text, short).cmds,
     rc   |-> IF SomeTooBig(text, short) THEN ERR_CMD_OR_ARGS_TOO_BIG
              ELSE IF Starved(text, short) THEN ERR_MEMORY
              ELSE IF TooMany(text) THEN ERR_TOO_MANY_COMMANDS ELSE OK]

WordsIn(tokens) == [k \in DOMAIN tokens |-> tokens[k].word]

\* Mutant of ParseWords: argc starts again at each stretch.
ParseLastWords(text, short) ==
    LET segs == Fields(text, Pipe)
    IN IF segs = <<>> THEN <<>>
       ELSE WordsIn(Tokens(Last(segs), Lost(short, Len(segs))))

\* 4-ShellP2: no pipes, no limit; the words of all the stretches are one
\* command.
ParseWords(text, short) ==
    LET segs == Fields(text, Pipe)
    IN Joined([k \in DOMAIN segs |-> WordsIn(Tokens(segs[k], Lost(short, k)))])

\* 3-ShellP1: quotes mean nothing, the name is cut to its field.
build_cmd_list(text) ==
    LET Command(seg) ==
            LET words == Fields(seg, Space)
            IN [exe  |-> IF words = <<>> THEN <<>>
                         ELSE SubSeq(words[1], 1, Min({Len(words[1]), EXE_MAX - 1})),
                args |-> IF words = <<>> THEN <<>> ELSE Tail(words)]
    IN [cmds |-> [k \in DOMAIN Taken(text, {}) |-> Command(Taken(text, {})[k])],
        rc   |-> IF TooMany(text) THEN ERR_TOO_MANY_COMMANDS ELSE OK]

\* The stores of a parsed line stay inside the arrays: argv has CMD_ARGV_MAX
\* entries and gets one per command and one more, and so does each argv[k].
InBounds(cmds) ==
    /\ Len(cmds) < CMD_ARGV_MAX
    /\ \A k \in DOMAIN cmds : Len(cmds[k]) < CMD_ARGV_MAX

=============================================================================
