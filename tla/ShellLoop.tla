----------------------------- MODULE ShellLoop -----------------------------
(***************************************************************************)
(* The loops that read lines from standard input: main of 3-ShellP1, and   *)
(* exec_local_cmd_loop of 4-ShellP2, 5-ShellP3 and (the same file again)   *)
(* 6-RShell.  The module follows a line from the input through stdio's     *)
(* buffer and the parser to what it does: to the loop, to the arrays it is *)
(* stored in, to the directory, and, through the children that share the   *)
(* standard input, to the lines that are still to come.                    *)
(*                                                                         *)
(* A line is a sequence of cells (see CmdParser) that fgets returns whole, *)
(* a name being one cell; all lines count as equally long for the offset.  *)
(* The pipeline itself is the module Pipeline; of its children only the    *)
(* first has the shell's standard input, and only that one is kept here.   *)
(***************************************************************************)
EXTENDS CmdParser

CONSTANTS
    Programs,  \* the shells to look at
    Devices,   \* what standard input may be: "tty", "pipe", "file"
    Inputs,    \* the inputs to look at, sequences of lines
    Chunk,     \* how many lines one read() of a file gets
    BlockSize, \* the cells that fit in a block made for something else
    Faults     \* may malloc, pipe and fork fail?

AllPrograms == {"3-ShellP1", "4-ShellP2", "5-ShellP3", "6-RShell"}

ASSUME ProgramsAssumption == Programs \subseteq AllPrograms
ASSUME DevicesAssumption  == Devices \subseteq {"tty", "pipe", "file"}
\* fgets(..., ARG_MAX, stdin) returns fewer characters than ARG_MAX.
ASSUME InputsAssumption ==
    \A i \in Inputs : /\ i \in Seq(Seq(STRING))
                      /\ \A l \in DOMAIN i : Len(i[l]) < ARG_MAX
ASSUME ChunkAssumption    == Chunk \in Nat \ {0}
ASSUME FaultsAssumption   == Faults \in BOOLEAN

VARIABLES
    program, device, lines, \* chosen once
    pc,      \* where the shell is
    rc,      \* what the loop returned
    offset,  \* the lines before the file offset, which parent and child share
    unread,  \* the numbers of the lines in stdio's buffer
    cur,     \* the number of the line being handled, 0 before the first
    taken,   \* the numbers of all lines handled so far
    now,     \* what the program makes of the line being handled, see Meaning
    cbuf,    \* what cmd._cmd_buffer points to: "own", a "small" block, "null"
    memory,  \* "spoilt" after a store past the end of a block or an array
    cwd,     \* the working directory
    kids,    \* the children that have the shell's standard input
    input    \* what they did to it: "own" (nothing), "eaten", "rewound"

choiceVars == <<program, device, lines>>
inputVars  == <<offset, unread, input>>
lineVars   == <<cur, taken, now>>
memVars    == <<cbuf, memory>>
vars == <<choiceVars, pc, rc, inputVars, lineVars, memVars, cwd, kids>>

ERR_EXEC_CMD == -6
NotYet       == 1

-----------------------------------------------------------------------------
Ended == pc \in {"returned", "killed"}

Line == lines[cur]

\* strcmp with the first word; there is one.
Names(words, name) == words[1] = <<name>>

Kinds == {"plain", "missing", "reader"}

\* What the program of a command does with its standard input; a command
\* without a word gives execvp a null pointer, and there is none without a
\* name.
KindOf(words) == IF words = <<>> \/ words[1] = <<>> \/ Names(words, "nocmd")
                 THEN "missing"
                 ELSE IF Names(words, "cat") THEN "reader" ELSE "plain"

(* What a parsed line means to each of the shells, when malloc does not give
   the blocks in short.                                                    *)

\* 3-ShellP1 looks for an exit, and stops advancing at a command without a
\* name.
PrintVerdict(line) ==
    LET cmds == build_cmd_list(line).cmds
        stop == {k \in DOMAIN cmds : cmds[k].exe \in {<<>>, <<"exit">>}}
    IN IF stop # {} THEN IF cmds[Min(stop)].exe = <<>> THEN "spin" ELSE "exit"
       ELSE IF cmds = <<>> THEN "none"
       ELSE IF Len(cmds) > CMD_MAX THEN "limit" ELSE "print"

\* Mutant of WordsVerdict: a line without a word ends the loop.
WordsVerdictStale(line, short) ==
    LET words == ParseWords(line, short)
    IN IF words = <<>> THEN "exit"
       ELSE IF Names(words, "exit") THEN "exit"
       ELSE IF Names(words, "cd") THEN "cd" ELSE "run"

WordsVerdict(line, short) ==
    LET Of(words) == IF words = <<>> THEN "none"
                     ELSE IF Names(words, "exit") THEN "exit"
                     ELSE IF Names(words, "cd") THEN "cd" ELSE "run"
    IN Of(ParseWords(line, short))

PipelineVerdict(line, short) ==
    LET Of(parsed) == IF parsed.rc # OK THEN "refuse"
                      ELSE IF parsed.cmds = <<>> THEN "none"
                      ELSE IF parsed.cmds[1] = <<>> THEN "crash"
                      ELSE IF Names(parsed.cmds[1], "exit") THEN "exit"
                      ELSE IF Names(parsed.cmds[1], "cd") THEN "cd" ELSE "run"
    IN Of(ParseLine(line, short))

VerdictOf(shell, line, short) ==
    CASE shell = "3-ShellP1" -> PrintVerdict(line)
      [] shell = "4-ShellP2" -> WordsVerdict(line, short)
      [] shell \in {"5-ShellP3", "6-RShell"} -> PipelineVerdict(line, short)

\* The words of the command that runs, or of the first of the pipeline.
CommandOf(shell, line, short) ==
    IF VerdictOf(shell, line, short) \notin {"cd", "run"} THEN <<>>
    ELSE IF shell = "4-ShellP2" THEN ParseWords(line, short)
    ELSE ParseLine(line, short).cmds[1]

(* Where the parsed line is stored: what becomes of _cmd_buffer ("own" for
   nothing), and whether something else is overwritten.                    *)

\* 3-ShellP1: clist, on the stack of main, has room for CMD_MAX commands.
ListStores(line) ==
    [cbuf |-> "own", spoils |-> Len(build_cmd_list(line).cmds) > CMD_MAX]

\* 4-ShellP2: behind the CMD_ARGV_MAX entries of cmd.argv lies _cmd_buffer,
\* behind that the stack.  A command that runs gets a null pointer as its
\* last entry.
WordStores(line, short) ==
    LET n     == Len(ParseWords(line, short))
        slots == n + IF WordsVerdict(line, short) = "run" THEN 1 ELSE 0
    IN [cbuf   |-> IF n > CMD_ARGV_MAX THEN "small"
                   ELSE IF slots > CMD_ARGV_MAX THEN "null" ELSE "own",
        spoils |-> slots > CMD_ARGV_MAX + 1]

\* Mutant of ArrayStores: the entry for the next command is one further.
ArrayStoresEarly(line, short) ==
    LET cmds == ParseLine(line, short).cmds
    IN [cbuf   |-> IF Len(cmds) >= CMD_MAX THEN "small" ELSE "own",
        spoils |-> \E k \in DOMAIN cmds : Len(cmds[k]) > CMD_MAX]

\* 5-ShellP3: cmd.argv, followed by _cmd_buffer, gets the block of one
\* command more than there are, or a null pointer; each block has
\* CMD_ARGV_MAX entries.
ArrayStores(line, short) ==
    LET cmds == ParseLine(line, short).cmds
    IN [cbuf   |-> IF Len(cmds) <= CMD_MAX THEN "own"
                   ELSE IF Starved(line, short) THEN "null" ELSE "small",
        spoils |-> \E k \in DOMAIN cmds : Len(cmds[k]) > CMD_MAX]

StoresOf(shell, line, short) ==
    CASE shell = "3-ShellP1" -> ListStores(line)
      [] shell = "4-ShellP2" -> WordStores(line, short)
      [] shell \in {"5-ShellP3", "6-RShell"} -> ArrayStores(line, short)

\* What the documents allow: CMD_MAX commands, and CMD_ARGV_MAX entries for
\* the words of one and the null pointer behind them.
WithinLimits(shell, line) ==
    LET segs == Fields(line, Pipe)
    IN CASE shell = "3-ShellP1" -> Len(segs) <= CMD_MAX
         [] shell = "4-ShellP2" -> Len(ParseWords(line, {})) <= CMD_MAX
         [] shell \in {"5-ShellP3", "6-RShell"} ->
                /\ Len(segs) <= CMD_MAX
                /\ \A k \in DOMAIN segs : Len(Words(segs[k], {})) <= CMD_MAX

\* The parser and the comparisons after it, which depend on the line and on
\* malloc alone.  A line is emptied when what was lost makes it crash.
Meaning(shell, line, short) ==
    LET Of(verdict, words) ==
            [verdict |-> verdict,
             rc      |-> ParseLine(line, short).rc,
             emptied |-> verdict = "crash" /\ VerdictOf(shell, line, {}) # "crash",
             kind    |-> KindOf(words),
             moves   |-> verdict = "cd" /\ Len(words) > 1 /\ words[2] = <<"dir">>,
             piped   |-> shell # "4-ShellP2" /\ Len(Fields(line, Pipe)) > 1,
             stores  |-> StoresOf(shell, line, short),
             long    |-> Len(line) > BlockSize,
             within  |-> WithinLimits(shell, line)]
    IN Of(VerdictOf(shell, line, short), CommandOf(shell, line, short))

\* What malloc may not give while a line is parsed.
Shortages(line) == IF Faults THEN SUBSET Blocks(line) ELSE {{}}

AllLines == UNION {ToSet(i) : i \in Inputs}

MeaningsOf ==
    [shell \in Programs |->
        [line \in AllLines |-> {Meaning(shell, line, short) : short \in Shortages(line)}]]

\* What line l may mean to the program.
Meanings(l) == MeaningsOf[program][lines[l]]

\* What there is before the first line.
NoMeaning == [verdict |-> "none", rc |-> OK, emptied |-> FALSE, kind |-> "missing",
              moves |-> FALSE, piped |-> FALSE,
              stores |-> [cbuf |-> "own", spoils |-> FALSE],
              long |-> FALSE, within |-> TRUE]

Verdict == now.verdict

-----------------------------------------------------------------------------
Init ==
    /\ program \in Programs /\ device \in Devices /\ lines \in Inputs
    /\ pc = "start" /\ rc = NotYet
    /\ offset = 0 /\ unread = <<>> /\ input = "own"
    /\ cur = 0 /\ taken = {} /\ now = NoMeaning
    /\ cbuf = "own" /\ memory = "sound"
    /\ cwd = "home" /\ kids = {}

Return(status) == pc' = "returned" /\ rc' = status

\* The buffers of the loop.
Start ==
    /\ pc = "start"
    /\ pc' = "read"
    /\ UNCHANGED <<choiceVars, rc, inputVars, lineVars, memVars, cwd, kids>>

\* Mutant of Fill: a read always gets a whole chunk.
FillWhole ==
    /\ pc = "read" /\ unread = <<>> /\ offset < Len(lines)
    /\ unread' = [k \in 1 .. Chunk |-> offset + k]
    /\ offset' = offset + Chunk
    /\ UNCHANGED <<choiceVars, pc, rc, input, lineVars, memVars, cwd, kids>>

\* fgets finds stdio's buffer empty: a terminal gives the line that was
\* typed, a pipe what is in it, a file all that fits.
Fill ==
    /\ pc = "read" /\ unread = <<>> /\ offset < Len(lines)
    /\ LET most == Min({Chunk, Len(lines) - offset})
       IN \E n \in CASE device = "tty"  -> {1}
                     [] device = "pipe" -> 1 .. most
                     [] device = "file" -> {most} :
             /\ unread' = [k \in 1 .. n |-> offset + k]
             /\ offset' = offset + n
    /\ UNCHANGED <<choiceVars, pc, rc, input, lineVars, memVars, cwd, kids>>

\* Mutant of EndOfInput: the loop tries again.
EndOfInputIgnored ==
    /\ pc = "read" /\ unread = <<>> /\ offset = Len(lines)
    /\ pc' = "start"
    /\ UNCHANGED <<choiceVars, rc, inputVars, lineVars, memVars, cwd, kids>>

\* fgets returns NULL.
EndOfInput ==
    /\ pc = "read" /\ unread = <<>> /\ offset = Len(lines)
    /\ Return(OK)
    /\ UNCHANGED <<choiceVars, inputVars, lineVars, memVars, cwd, kids>>

\* fgets has copied line l to _cmd_buffer, whatever that points to by now,
\* and the line is parsed and stored.
Parse(l) ==
    /\ cur' = l /\ taken' = taken \cup {l}
    /\ now' \in Meanings(l)
    /\ cbuf' = IF now'.stores.cbuf = "own" THEN cbuf ELSE now'.stores.cbuf
    /\ memory' = IF now'.stores.spoils \/ (cbuf = "small" /\ now'.long)
                 THEN "spoilt" ELSE memory
    /\ pc' = "parsed"

\* Mutant of TakeLine: the line is left in the buffer.
PeekLine ==
    /\ pc = "read" /\ unread # <<>> /\ cbuf # "null"
    /\ Parse(Head(unread))
    /\ UNCHANGED <<choiceVars, rc, inputVars, cwd, kids>>

TakeLine ==
    /\ pc = "read" /\ unread # <<>> /\ cbuf # "null"
    /\ Parse(Head(unread))
    /\ unread' = Tail(unread)
    /\ UNCHANGED <<choiceVars, rc, offset, input, cwd, kids>>

\* fgets(NULL, ...) with a line to copy.
NullRead ==
    /\ pc = "read" /\ unread # <<>> /\ cbuf = "null"
    /\ pc' = "killed"
    /\ UNCHANGED <<choiceVars, rc, inputVars, lineVars, memVars, cwd, kids>>

\* Nothing to do for the line but to print something.
Answer ==
    /\ pc = "parsed" /\ Verdict \in {"none", "print", "limit"}
    /\ pc' = "read"
    /\ UNCHANGED <<choiceVars, rc, inputVars, lineVars, memVars, cwd, kids>>

Leave ==
    /\ pc = "parsed" /\ Verdict = "exit"
    /\ Return(OK)
    /\ UNCHANGED <<choiceVars, inputVars, lineVars, memVars, cwd, kids>>

\* `continue` without i++ in a loop over i.
Spin ==
    /\ pc = "parsed" /\ Verdict = "spin"
    /\ pc' = "spin"
    /\ UNCHANGED <<choiceVars, rc, inputVars, lineVars, memVars, cwd, kids>>

\* chdir, to a directory that exists or with nothing done.
ChangeDirectory ==
    /\ pc = "parsed" /\ Verdict = "cd"
    /\ cwd' = IF now.moves THEN "dir" ELSE cwd
    /\ pc' = "read"
    /\ UNCHANGED <<choiceVars, rc, inputVars, lineVars, memVars, kids>>

Refuse ==
    /\ pc = "parsed" /\ Verdict = "refuse"
    /\ Return(now.rc)
    /\ UNCHANGED <<choiceVars, inputVars, lineVars, memVars, cwd, kids>>

\* strcmp(cmd.argv[0][0], ...) with a null pointer.
Dereference ==
    /\ pc = "parsed" /\ Verdict = "crash"
    /\ pc' = "killed"
    /\ UNCHANGED <<choiceVars, rc, inputVars, lineVars, memVars, cwd, kids>>

\* The child has the shell's standard input and a copy of stdio's buffer.
Kid(waited) == [kind |-> now.kind, copy |-> Len(unread),
                waited |-> waited]

Run ==
    /\ pc = "parsed" /\ Verdict = "run"
    /\ kids' = kids \cup {Kid(TRUE)}
    /\ pc' = "wait"
    /\ UNCHANGED <<choiceVars, rc, inputVars, lineVars, memVars, cwd>>

\* waitpid returns.
Wait ==
    /\ pc = "wait" /\ \A k \in kids : ~k.waited
    /\ pc' = "read"
    /\ UNCHANGED <<choiceVars, rc, inputVars, lineVars, memVars, cwd, kids>>

\* A fork() or pipe() fails.  4-ShellP2 returns; execute_pipeline does, and
\* the loop, which cannot see it, goes on; a child forked before runs on.
\* Bound: one such child at a time.
RunFails ==
    /\ Faults /\ pc = "parsed" /\ Verdict = "run"
    /\ IF program = "4-ShellP2" THEN Return(ERR_EXEC_CMD) /\ kids' = kids
       ELSE /\ pc' = "read" /\ rc' = rc
            /\ \/ kids' = kids
               \/ /\ kids = {} /\ now.piped
                  /\ kids' = {Kid(FALSE)}
    /\ UNCHANGED <<choiceVars, inputVars, lineVars, memVars, cwd>>

\* malloc fails before the loop.  3-ShellP1 does not check, and its fgets
\* gets the null pointer.
NoMemory ==
    /\ Faults /\ pc = "start"
    /\ IF program = "3-ShellP1" THEN pc' = "read" /\ cbuf' = "null" /\ rc' = rc
       ELSE Return(ERR_MEMORY) /\ cbuf' = cbuf
    /\ UNCHANGED <<choiceVars, inputVars, lineVars, memory, cwd, kids>>

\* After a store past the end of something the program may die anywhere.
Corrupted ==
    /\ memory = "spoilt" /\ ~Ended
    /\ pc' = "killed"
    /\ UNCHANGED <<choiceVars, rc, inputVars, lineVars, memVars, cwd, kids>>

-----------------------------------------------------------------------------
(* The children. *)

\* A command that reads its standard input takes what the shell has not read.
ChildReads ==
    /\ \E k \in kids : k.kind = "reader"
    /\ \E n \in offset + 1 .. Len(lines) : offset' = n
    /\ input' = IF input = "own" THEN "eaten" ELSE input
    /\ UNCHANGED <<choiceVars, pc, rc, unread, lineVars, memVars, cwd, kids>>

ChildEnds ==
    /\ \E k \in kids : k.kind # "missing" /\ kids' = kids \ {k}
    /\ UNCHANGED <<choiceVars, pc, rc, inputVars, lineVars, memVars, cwd>>

\* exec failed, and the child ends with exit(), which gives what its copy of
\* stdio's buffer still holds back to a file, by setting the offset back;
\* elsewhere that fails.
ExecFails ==
    /\ \E k \in kids :
          /\ k.kind = "missing"
          /\ kids' = kids \ {k}
          /\ IF device = "file" /\ k.copy \in 1 .. offset
             THEN offset' = offset - k.copy /\ input' = "rewound"
             ELSE UNCHANGED <<offset, input>>
    /\ UNCHANGED <<choiceVars, pc, rc, unread, lineVars, memVars, cwd>>

Child == ChildEnds \/ ExecFails

-----------------------------------------------------------------------------
(* The four loops. *)

ReadLine == Start \/ Fill \/ EndOfInput \/ TakeLine

FirstShell ==
    /\ program = "3-ShellP1"
    /\ ReadLine \/ NullRead \/ Answer \/ Leave \/ Spin

SingleCommandShell ==
    /\ program = "4-ShellP2"
    /\ \/ ReadLine \/ NullRead \/ Answer \/ Leave \/ ChangeDirectory
       \/ Run \/ Wait

PipelineShell ==
    /\ program = "5-ShellP3"
    /\ \/ ReadLine \/ Answer \/ Leave \/ ChangeDirectory \/ Refuse
       \/ Dereference \/ Run \/ Wait

LocalMode ==
    /\ program = "6-RShell"
    /\ \/ ReadLine \/ Answer \/ Leave \/ ChangeDirectory \/ Refuse
       \/ Dereference \/ Run \/ Wait

Shell == FirstShell \/ SingleCommandShell \/ PipelineShell \/ LocalMode

Next == Shell \/ RunFails \/ NoMemory \/ Corrupted \/ ChildReads \/ Child

Spec == Init /\ [][Next]_vars

\* The shell is scheduled and its input goes on or ends; commands end.
FairSpec == Spec /\ WF_vars(Shell) /\ WF_vars(Child)

-----------------------------------------------------------------------------
Numbers == 0 .. Len(lines)

TypeOK ==
    /\ program \in Programs /\ device \in Devices /\ lines \in Inputs
    /\ pc \in {"start", "read", "parsed", "wait", "spin", "returned", "killed"}
    /\ rc \in {NotYet, OK, ERR_MEMORY, ERR_EXEC_CMD,
               ERR_TOO_MANY_COMMANDS, ERR_CMD_OR_ARGS_TOO_BIG}
    /\ offset \in Numbers /\ unread \in Seq(Numbers \ {0})
    /\ input \in {"own", "eaten", "rewound"}
    /\ cur \in Numbers /\ taken \subseteq Numbers \ {0}
    /\ IF cur = 0 THEN now = NoMeaning ELSE now \in Meanings(cur)
    /\ cbuf \in {"own", "small", "null"} /\ memory \in {"sound", "spoilt"}
    /\ cwd \in {"home", "dir"}
    /\ kids \subseteq [kind : Kinds, copy : Nat, waited : BOOLEAN]

\* There was a line beyond the limits.
Harmed == \E l \in taken : \E m \in Meanings(l) : ~m.within

\* (the stores of the three parsers) Only a line beyond the documented limits
\* makes a shell write outside its arrays or lose its line buffer, however
\* many lines come before and after it; only the first shell can start
\* without a buffer, and then it takes no line.
MemorySound ==
    memory = "spoilt" \/ cbuf # "own" =>
        \/ Harmed
        \/ program = "3-ShellP1" /\ Faults /\ memory = "sound" /\ taken = {}

\* A command without a word: nothing but spaces, up to its end or to a quote
\* that is never closed.
Wordless(seg) ==
    \E j \in 1 .. Len(seg) + 1 :
        /\ \A k \in 1 .. j - 1 : seg[k] = Space
        /\ j <= Len(seg) => /\ seg[j] \in Quotes
                            /\ \A k \in j + 1 .. Len(seg) : seg[k] # seg[j]

\* (the ways out of the loops) A shell whose lines keep to the limits ends
\* only with the end of its input, with an exit, at a line of two commands
\* too many, or when the system fails it; and it dies only when malloc gave
\* no buffer or none of the words of the first command.  Not covered: a
\* pipeline shell dies of a first command without a word, where the
\* documents have a warning (5-ShellP3/dshlib.c:41).
EndHasCause ==
    /\ pc = "returned" =>
          \/ rc = OK /\ unread = <<>> /\ (offset = Len(lines) \/ input = "rewound")
          \/ rc = OK /\ Verdict = "exit" /\ \E i \in DOMAIN Line : Line[i] = "exit"
          \/ rc \in {ERR_MEMORY, ERR_EXEC_CMD} /\ Faults
          \/ rc = ERR_TOO_MANY_COMMANDS /\ Len(Fields(Line, Pipe)) > CMD_MAX + 1
    /\ pc = "killed" /\ ~Harmed =>
          \/ Faults /\ program = "3-ShellP1" /\ cur = 0
          \/ Faults /\ program # "3-ShellP1" /\ now.emptied
          \/ program \notin {"3-ShellP1", "4-ShellP2"}
             /\ Wordless(Fields(Line, Pipe)[1])

-----------------------------------------------------------------------------
\* What a line does, for LineLoop.
Outcomes(m) ==
    {ends \in BOOLEAN :
        IF ends THEN \/ m.verdict \in {"exit", "refuse", "crash"}
                     \/ Faults /\ m.verdict = "run" /\ program = "4-ShellP2"
        ELSE m.verdict \in {"none", "print", "limit", "cd", "run"}}

EffectOf(m) ==
    [input    |-> IF m.verdict # "run" \/ m.kind = "plain" THEN "own"
                  ELSE IF m.kind = "reader" THEN "eaten"
                  ELSE IF device = "file" THEN "rewound" ELSE "own",
     moves    |-> m.moves,
     outcomes |-> Outcomes(m),
     harms    |-> ~m.within]

Effects == [l \in DOMAIN lines |-> {EffectOf(m) : m \in Meanings(l)}]

Phase == CASE pc \in {"start", "read"} -> "idle"
           [] pc \in {"parsed", "wait", "spin"} -> "busy"
           [] Ended -> "ended"

\* (the loops as a whole) Every shell takes its lines as LineLoop says: each
\* once, in order, none before the last one is finished, except for what a
\* command does to a shared input, and for ends that a line explains.
LL == INSTANCE LineLoop WITH effects <- Effects, last <- cur, now <- EffectOf(now),
                             phase <- Phase, harmed <- Harmed, dir <- cwd

LineLoopSpec == LL!Spec

\* (the loops as a whole) A shell whose input no child has set back comes to
\* an end, or to the endless loop of a command without a name.
ShellEnds == <>(Ended \/ pc = "spin" \/ input = "rewound")

\* (3-ShellP1/dsh_cli.c:10, 5-ShellP3/dshlib.c:21) An input that ends ends
\* the shell.
InputEnds == <>(Ended \/ pc = "spin")
=============================================================================
