--------------------------- MODULE ShellLoopProofs ---------------------------
(***************************************************************************)
(* Proofs about the loops that read lines, for any programs, devices and   *)
(* inputs, any limits and any size of a chunk, and with or without failing *)
(* calls.                                                                  *)
(*                                                                         *)
(* The invariant ties together where a line is on its way from the input   *)
(* to its end: which numbers stdio's buffer holds, in what order, as long  *)
(* as no child has set the input back (OrderInv); which lines were taken   *)
(* (TakenInv); which of them a store past the end of an array, or a child  *)
(* that shares the input, comes from (MemoryInv, KidsInv).  What it needs  *)
(* of the parsers is in LineFacts, from the lemmas of ParserProofs.        *)
(***************************************************************************)
EXTENDS ShellLoop, ParserProofs

StartInv ==
    pc = "start" => /\ cur = 0 /\ taken = {} /\ cbuf = "own" /\ memory = "sound"
                    /\ unread = <<>>

TakenInv ==
    /\ cur = 0 <=> taken = {}
    /\ cur # 0 => cur \in taken
    /\ pc \in {"parsed", "wait", "spin"} => cur # 0
    /\ pc = "wait" => Verdict = "run"

\* A shell that has no buffer from the start.
Bufferless == /\ program = "3-ShellP1" /\ Faults
              /\ cbuf = "null" /\ memory = "sound" /\ taken = {}

MemoryInv == memory = "spoilt" \/ cbuf # "own" => Harmed \/ Bufferless

\* The lines in stdio's buffer come after the one being handled, in order, and
\* without a gap as long as nobody else reads.
OrderInv ==
    input # "rewound" =>
        /\ taken \subseteq 1 .. cur
        /\ cur <= offset
        /\ \A k \in 1 .. Len(unread) : cur < unread[k] /\ unread[k] <= offset
        /\ \A j, k \in 1 .. Len(unread) : j < k => unread[j] < unread[k]
        /\ input = "own" => /\ Len(unread) = offset - cur
                            /\ \A k \in 1 .. Len(unread) : unread[k] = cur + k

\* Every child was forked for a line that was taken.
KidsInv ==
    \A k \in kids :
        \E l \in taken : \E m \in Meanings(l) : m.verdict = "run" /\ m.kind = k.kind

IInv == /\ TypeOK /\ StartInv /\ TakenInv
        /\ MemoryInv /\ OrderInv /\ KidsInv /\ EndHasCause

-----------------------------------------------------------------------------
(* What the proofs need of the parsers. *)

Verdicts == {"spin", "exit", "none", "limit", "print", "cd", "run", "refuse", "crash"}

\* What a shell makes of a line: what it says of the line is true, and only a
\* line beyond the limits is stored past an array.
LineFacts(shell, line, m) ==
    /\ m.verdict \in Verdicts /\ m.kind \in Kinds
    /\ m.moves \in BOOLEAN /\ (m.moves => m.verdict = "cd")
    /\ m.within \in BOOLEAN /\ m.within = WithinLimits(shell, line)
    /\ m.stores.cbuf \in {"own", "small", "null"}
    /\ m.within => m.stores.cbuf = "own" /\ ~m.stores.spoils
    /\ m.verdict = "exit" => \E i \in DOMAIN line : line[i] = "exit"
    /\ m.verdict = "refuse" => \/ /\ m.rc = ERR_TOO_MANY_COMMANDS
                                  /\ Len(Fields(line, Pipe)) > CMD_MAX + 1
                               \/ m.rc = ERR_MEMORY /\ Faults
    /\ m.verdict = "crash" => /\ shell \notin {"3-ShellP1", "4-ShellP2"}
                              /\ \/ Wordless(Fields(line, Pipe)[1])
                                 \/ (m.emptied /\ Faults)

\* A name that is made of the cells of a line is one of them.
LEMMA NameInLine ==
    ASSUME NEW line, <<"exit">> \in Seq({line[i] : i \in DOMAIN line})
    PROVE  \E i \in DOMAIN line : line[i] = "exit"
<1> DEFINE C == {line[i] : i \in DOMAIN line}
           name == <<"exit">>
<1>1. name[1] = "exit" /\ 1 \in 1 .. Len(name)
  OBVIOUS
<1>2. name \in Seq(C)
  OBVIOUS
<1> HIDE DEF C, name
<1>3. name[1] \in C
  BY <1>1, <1>2, ElementOfSeq
<1> QED BY <1>1, <1>3 DEF C

\* A line is made of the cells that are in it.
LEMMA CellsOfLine ==
    ASSUME NEW line \in Seq(STRING)
    PROVE  line \in Seq({line[i] : i \in DOMAIN line})
<1> DEFINE C == {line[i] : i \in DOMAIN line}
<1>1. Len(line) \in Nat /\ DOMAIN line = 1 .. Len(line) /\ line \in [1 .. Len(line) -> STRING]
  BY LenProperties
<1>2. line \in [1 .. Len(line) -> C]
  BY <1>1
<1> HIDE DEF C
<1>3. line \in Seq(C)
  BY <1>1, <1>2, FunctionIsSeq
<1> QED BY <1>3 DEF C

\* The first shell.
LEMMA PrintFacts ==
    ASSUME NEW line \in Seq(STRING)
    PROVE  /\ PrintVerdict(line) \in Verdicts \ {"refuse", "crash", "cd", "run"}
           /\ PrintVerdict(line) = "exit" => \E i \in DOMAIN line : line[i] = "exit"
           /\ ListStores(line).cbuf = "own"
           /\ Len(Fields(line, Pipe)) <= CMD_MAX => ~ListStores(line).spoils
<1> DEFINE C == {line[i] : i \in DOMAIN line}
           cmds == build_cmd_list(line).cmds
           stop == {k \in DOMAIN cmds : cmds[k].exe \in {<<>>, <<"exit">>}}
<1>1. line \in Seq(C)
  BY CellsOfLine
<1> HIDE DEF C
<1>2. /\ DOMAIN cmds = 1 .. Len(Taken(line, {}))
      /\ Len(cmds) = Len(Taken(line, {}))
      /\ \A k \in DOMAIN cmds : cmds[k].exe \in Seq(C)
  BY <1>1, ListBuilt
<1>3. Len(Taken(line, {})) <= Len(Fields(line, Pipe))
      /\ Len(Taken(line, {})) \in Nat /\ Len(Fields(line, Pipe)) \in Nat
  BY <1>1, TakenFirst, LenProperties
<1>4. ListStores(line).cbuf = "own" /\ (ListStores(line).spoils <=> Len(cmds) > CMD_MAX)
  BY DEF ListStores
<1>5. PrintVerdict(line) = IF stop # {}
                           THEN IF cmds[Min(stop)].exe = <<>> THEN "spin" ELSE "exit"
                           ELSE IF cmds = <<>> THEN "none"
                           ELSE IF Len(cmds) > CMD_MAX THEN "limit" ELSE "print"
  BY DEF PrintVerdict
<1>6. ASSUME PrintVerdict(line) = "exit" PROVE \E i \in DOMAIN line : line[i] = "exit"
  <2>1. stop # {} /\ cmds[Min(stop)].exe # <<>>
    BY <1>5, <1>6
  <2>2. stop \subseteq Nat /\ \A k \in stop : cmds[k].exe \in {<<>>, <<"exit">>} /\ k \in DOMAIN cmds
    BY <1>2
  <2> HIDE DEF stop, cmds
  <2>3. Min(stop) \in stop
    BY <2>1, <2>2, MinIsLeast
  <2>4. cmds[Min(stop)].exe = <<"exit">> /\ cmds[Min(stop)].exe \in Seq(C)
    BY <1>2, <2>1, <2>2, <2>3
  <2> QED BY <2>4, NameInLine DEF C
<1>7. CMD_MAX \in Nat
  BY CmdMaxAssumption
<1>8. PrintVerdict(line) \in {"spin", "exit", "none", "limit", "print"}
  BY <1>5
<1> QED BY <1>2, <1>3, <1>4, <1>6, <1>7, <1>8 DEF Verdicts

\* The single-command shell.
LEMMA WordFacts ==
    ASSUME NEW line \in Seq(STRING), NEW short
    PROVE  /\ WordsVerdict(line, short) \in {"none", "exit", "cd", "run"}
           /\ WordsVerdict(line, short) = "exit" => \E i \in DOMAIN line : line[i] = "exit"
           /\ WordStores(line, short).cbuf \in {"own", "small", "null"}
           /\ Len(ParseWords(line, {})) <= CMD_MAX =>
                 WordStores(line, short).cbuf = "own" /\ ~WordStores(line, short).spoils
<1> DEFINE C == {line[i] : i \in DOMAIN line}
           words == ParseWords(line, short)
           all == ParseWords(line, {})
<1>1. line \in Seq(C)
  BY CellsOfLine
<1> HIDE DEF C
<1>2. words \in Seq(Seq(C)) /\ all \in Seq(Seq(C)) /\ Len(words) <= Len(all)
  BY <1>1, AllWordsTyped, AllWordsFewer
<1>3. Len(words) \in Nat /\ Len(all) \in Nat /\ CMD_MAX \in Nat
  BY <1>2, LenProperties, CmdMaxAssumption
<1>4. ASSUME WordsVerdict(line, short) = "exit" PROVE \E i \in DOMAIN line : line[i] = "exit"
  <2>1. words # <<>> /\ words[1] = <<"exit">>
    BY <1>4 DEF WordsVerdict, Names
  <2> HIDE DEF words
  <2>2. Len(words) \in Nat \ {0}
    BY <1>2, <2>1, EmptySeq
  <2>3. 1 \in 1 .. Len(words)
    BY <2>2
  <2>4. words[1] \in Seq(C)
    BY <1>2, <2>3, ElementOfSeq
  <2> QED BY <2>1, <2>4, NameInLine DEF C
<1>5. WordsVerdict(line, short) \in {"none", "exit", "cd", "run"}
  BY DEF WordsVerdict
<1> DEFINE extra == IF WordsVerdict(line, short) = "run" THEN 1 ELSE 0
<1>6. /\ WordStores(line, short).cbuf = IF Len(words) > CMD_ARGV_MAX THEN "small"
                                 ELSE IF Len(words) + extra > CMD_ARGV_MAX THEN "null"
                                 ELSE "own"
      /\ WordStores(line, short).spoils <=> Len(words) + extra > CMD_ARGV_MAX + 1
  BY DEF WordStores
<1>7. extra \in {0, 1}
  OBVIOUS
<1> HIDE DEF extra, words, all
<1>8. Len(all) <= CMD_MAX =>   /\ ~(Len(words) > CMD_ARGV_MAX)
                               /\ ~(Len(words) + extra > CMD_ARGV_MAX)
                               /\ ~(Len(words) + extra > CMD_ARGV_MAX + 1)
  BY <1>2, <1>3, <1>7 DEF CMD_ARGV_MAX
<1> QED BY <1>4, <1>5, <1>6, <1>8 DEF all

\* The pipeline shells.
LEMMA PipelineFacts ==
    ASSUME NEW line \in Seq(STRING), Len(line) < ARG_MAX, NEW short
    PROVE  /\ PipelineVerdict(line, short) \in {"refuse", "none", "crash", "exit", "cd", "run"}
           /\ PipelineVerdict(line, short) = "exit" => \E i \in DOMAIN line : line[i] = "exit"
           /\ PipelineVerdict(line, short) = "refuse" =>
                 \/ /\ ParseLine(line, short).rc = ERR_TOO_MANY_COMMANDS
                    /\ Len(Fields(line, Pipe)) > CMD_MAX + 1
                 \/ ParseLine(line, short).rc = ERR_MEMORY /\ short # {}
           /\ PipelineVerdict(line, short) = "crash" =>
                 Wordless(Fields(line, Pipe)[1]) \/ short # {}
           /\ ArrayStores(line, short).cbuf \in {"own", "small", "null"}
           /\ /\ Len(Fields(line, Pipe)) <= CMD_MAX
              /\ \A k \in DOMAIN Fields(line, Pipe) :
                    Len(Words(Fields(line, Pipe)[k], {})) <= CMD_MAX
              => ArrayStores(line, short).cbuf = "own" /\ ~ArrayStores(line, short).spoils
<1> DEFINE C == {line[i] : i \in DOMAIN line}
           segs == Fields(line, Pipe)
           parsed == ParseLine(line, short)
           cmds == parsed.cmds
           n == Len(Taken(line, short))
<1>1. line \in Seq(C)
  BY CellsOfLine
<1> HIDE DEF C
<1>2. /\ segs \in Seq(Seq(C)) /\ n <= Len(segs)
      /\ TooMany(line) <=> Len(segs) > CMD_MAX + 1
      /\ Taken(line, short) \in Seq(Seq(C))
  BY <1>1, TakenFirst
<1>3. /\ cmds \in Seq(Seq(Seq(C))) /\ Len(cmds) = n
      /\ \A k \in 1 .. n : cmds[k] = Words(segs[k], Lost(short, k))
      /\ parsed.rc \in {OK, ERR_MEMORY, ERR_TOO_MANY_COMMANDS, ERR_CMD_OR_ARGS_TOO_BIG}
      /\ parsed.rc = ERR_TOO_MANY_COMMANDS => TooMany(line)
      /\ parsed.rc = ERR_MEMORY => short # {}
      /\ parsed.rc = ERR_CMD_OR_ARGS_TOO_BIG => \E k \in 1 .. n : Len(segs[k]) > ARG_MAX
  BY <1>1, LineParsed
<1>4. \A k \in 1 .. Len(segs) : segs[k] \in Seq(C) /\ Len(segs[k]) <= Len(line)
  BY <1>1, <1>2, FieldsTyped, ElementOfSeq
<1>5. /\ n \in Nat /\ Len(segs) \in Nat /\ Len(line) \in Nat
      /\ ARG_MAX \in Nat /\ CMD_MAX \in Nat
      /\ DOMAIN cmds = 1 .. n /\ DOMAIN segs = 1 .. Len(segs)
  BY <1>1, <1>2, <1>3, LenProperties, ArgMaxAssumption, CmdMaxAssumption
<1>6. parsed.rc # ERR_CMD_OR_ARGS_TOO_BIG
  <2>1. ASSUME NEW k \in 1 .. n PROVE ~(Len(segs[k]) > ARG_MAX)
    <3>1. k \in 1 .. Len(segs)
      BY <1>2, <1>5
    <3>2. segs[k] \in Seq(C) /\ Len(segs[k]) <= Len(line)
      BY <1>4, <3>1
    <3>3. Len(segs[k]) \in Nat
      BY <3>2, LenProperties
    <3> QED BY <1>5, <3>2, <3>3
  <2> QED BY <1>3, <2>1
<1>7. PipelineVerdict(line, short) = IF parsed.rc # OK THEN "refuse"
                              ELSE IF cmds = <<>> THEN "none"
                              ELSE IF cmds[1] = <<>> THEN "crash"
                              ELSE IF Names(cmds[1], "exit") THEN "exit"
                              ELSE IF Names(cmds[1], "cd") THEN "cd" ELSE "run"
  BY DEF PipelineVerdict
<1>8. /\ ArrayStores(line, short).cbuf = 
            IF Len(cmds) <= CMD_MAX THEN "own"
            ELSE IF Starved(line, short) THEN "null" ELSE "small"
      /\ ArrayStores(line, short).spoils <=> \E k \in DOMAIN cmds : Len(cmds[k]) > CMD_MAX
  BY DEF ArrayStores
<1> HIDE DEF segs, parsed
<1>9. PipelineVerdict(line, short) \in {"refuse", "none", "crash", "exit", "cd", "run"}
  BY <1>7
<1>10. ASSUME cmds # <<>>
       PROVE  1 \in 1 .. n /\ cmds[1] \in Seq(Seq(C)) /\ cmds[1] = Words(segs[1], Lost(short, 1))
              /\ segs[1] \in Seq(C)
  <2>1. Len(cmds) # 0
    BY <1>3, <1>10, EmptySeq
  <2>2. 1 \in 1 .. n /\ 1 \in 1 .. Len(segs)
    BY <1>2, <1>3, <1>5, <2>1
  <2>3. cmds[1] \in Seq(Seq(C))
    BY <1>3, <2>2, ElementOfSeq
  <2> QED BY <1>3, <1>4, <2>2, <2>3
<1>11. ASSUME PipelineVerdict(line, short) = "exit" PROVE \E i \in DOMAIN line : line[i] = "exit"
  <2>1. cmds # <<>> /\ cmds[1] # <<>> /\ cmds[1][1] = <<"exit">>
    BY <1>7, <1>11 DEF Names
  <2> DEFINE words == cmds[1]
  <2>2. words \in Seq(Seq(C)) /\ words # <<>>
    BY <1>10, <2>1
  <2>3. words[1] = <<"exit">>
    BY <2>1
  <2> HIDE DEF words
  <2>4. Len(words) \in Nat \ {0}
    BY <2>2, EmptySeq
  <2>5. 1 \in 1 .. Len(words)
    BY <2>4
  <2>6. words[1] \in Seq(C)
    BY <2>2, <2>5, ElementOfSeq
  <2> QED BY <2>3, <2>6, NameInLine DEF C
<1>12. ASSUME PipelineVerdict(line, short) = "refuse"
       PROVE  \/ parsed.rc = ERR_TOO_MANY_COMMANDS /\ Len(segs) > CMD_MAX + 1
              \/ parsed.rc = ERR_MEMORY /\ short # {}
  BY <1>2, <1>3, <1>6, <1>7, <1>12
<1>13. ASSUME PipelineVerdict(line, short) = "crash", short = {} PROVE Wordless(segs[1])
  <2>1. cmds # <<>> /\ cmds[1] = <<>>
    BY <1>7, <1>13
  <2>2. Words(segs[1], {}) = <<>> /\ segs[1] \in Seq(C)
    BY <1>10, <1>13, <2>1 DEF Lost
  <2>3. WordlessFrom(segs[1], 1)
    BY <2>2, WordsFound
  <2> QED BY <2>3 DEF WordlessFrom, Wordless
<1>14. ASSUME Len(segs) <= CMD_MAX, \A k \in DOMAIN segs : Len(Words(segs[k], {})) <= CMD_MAX
       PROVE  ArrayStores(line, short).cbuf = "own" /\ ~ArrayStores(line, short).spoils
  <2>2. ASSUME NEW k \in DOMAIN cmds PROVE ~(Len(cmds[k]) > CMD_MAX)
    <3>1. k \in 1 .. n /\ k \in DOMAIN segs
      BY <1>2, <1>5
    <3> DEFINE seg == segs[k]
               lost == Lost(short, k)
    <3>2. /\ cmds[k] = Words(seg, lost) /\ seg \in Seq(C) /\ Len(seg) <= Len(line)
          /\ Len(Words(seg, {})) <= CMD_MAX
      BY <1>3, <1>4, <1>5, <1>14, <3>1
    <3> HIDE DEF seg, lost
    <3>3. Words(seg, lost) \in Seq(Seq(C)) /\ Words(seg, {}) \in Seq(Seq(C))
          /\ Len(seg) \in Nat
      BY <3>2, WordsFound, LenProperties
    <3>6. Len(seg) <= ARG_MAX
      BY <1>5, <3>2, <3>3
    <3>4. Len(Words(seg, lost)) <= Len(Words(seg, {}))
      BY <3>2, <3>6, WordsFewer
    <3>5. Len(cmds[k]) \in Nat /\ Len(cmds[k]) <= CMD_MAX
      <4> DEFINE u == Len(Words(seg, lost))
                 v == Len(Words(seg, {}))
      <4>1. u \in Nat /\ v \in Nat /\ u <= v /\ v <= CMD_MAX /\ Len(cmds[k]) = u
        BY <3>2, <3>3, <3>4, LenProperties
      <4> HIDE DEF u, v
      <4> QED BY <1>5, <4>1
    <3> QED BY <1>5, <3>5
  <2>3. Len(cmds) <= CMD_MAX
    BY <1>2, <1>3, <1>5, <1>14
  <2> QED BY <1>8, <2>2, <2>3
<1>15. ArrayStores(line, short).cbuf \in {"own", "small", "null"}
  BY <1>8
<1> QED BY <1>9, <1>11, <1>12, <1>13, <1>14, <1>15 DEF segs, parsed

\* What a shell makes of a line.
LEMMA MeaningFacts ==
    ASSUME NEW shell \in AllPrograms, NEW line \in Seq(STRING), Len(line) < ARG_MAX,
           NEW short \in Shortages(line)
    PROVE  LineFacts(shell, line, Meaning(shell, line, short))
<1> DEFINE m == Meaning(shell, line, short)
           words == CommandOf(shell, line, short)
           stores == StoresOf(shell, line, short)
           small == /\ Len(Fields(line, Pipe)) <= CMD_MAX
                    /\ \A k \in DOMAIN Fields(line, Pipe) :
                          Len(Words(Fields(line, Pipe)[k], {})) <= CMD_MAX
<1>0. short # {} => Faults
  BY DEF Shortages
<1>1. /\ m.verdict = VerdictOf(shell, line, short)
      /\ m.rc = ParseLine(line, short).rc
      /\ m.emptied <=> VerdictOf(shell, line, short) = "crash"
                      /\ VerdictOf(shell, line, {}) # "crash"
      /\ m.kind = KindOf(words)
      /\ m.moves <=> /\ VerdictOf(shell, line, short) = "cd" /\ Len(words) > 1
                     /\ words[2] = <<"dir">>
      /\ m.moves \in BOOLEAN
      /\ m.within = WithinLimits(shell, line)
      /\ m.stores = stores
  BY DEF Meaning
<1>2. KindOf(words) \in Kinds
  BY DEF KindOf, Kinds
<1> HIDE DEF m, words
<1>3. CASE shell = "3-ShellP1"
  <2>1. VerdictOf(shell, line, short) = PrintVerdict(line) /\ stores = ListStores(line)
        /\ (WithinLimits(shell, line) = (Len(Fields(line, Pipe)) <= CMD_MAX))
    BY <1>3 DEF VerdictOf, StoresOf, WithinLimits
  <2> HIDE DEF stores
  <2> QED BY <1>1, <1>2, <2>1, PrintFacts DEF LineFacts, m, Verdicts
<1>4. CASE shell = "4-ShellP2"
  <2>1. /\ VerdictOf(shell, line, short) = WordsVerdict(line, short)
        /\ stores = WordStores(line, short)
        /\ (WithinLimits(shell, line) = (Len(ParseWords(line, {})) <= CMD_MAX))
    BY <1>4 DEF VerdictOf, StoresOf, WithinLimits
  <2>2. m.within \in BOOLEAN
    BY <1>1, <2>1
  <2>3. /\ m.verdict \in {"none", "exit", "cd", "run"}
        /\ m.verdict = "exit" => \E i \in DOMAIN line : line[i] = "exit"
        /\ m.stores.cbuf \in {"own", "small", "null"}
        /\ m.within => m.stores.cbuf = "own" /\ ~m.stores.spoils
    BY <1>1, <2>1, WordFacts
  <2>4. m.moves => m.verdict = "cd"
    BY <1>1
  <2>5. LineFacts(shell, line, m)
    BY <1>1, <1>2, <2>2, <2>3, <2>4 DEF LineFacts, Verdicts
  <2> QED BY <2>5 DEF m
<1>5. CASE shell \in {"5-ShellP3", "6-RShell"}
  <2>1. /\ \A lost : VerdictOf(shell, line, lost) = PipelineVerdict(line, lost)
        /\ stores = ArrayStores(line, short)
        /\ WithinLimits(shell, line) = small
    BY <1>5 DEF VerdictOf, StoresOf, WithinLimits
  <2>2. shell \notin {"3-ShellP1", "4-ShellP2"}
    BY <1>5
  <2> HIDE DEF stores
  <2>3. /\ m.verdict \in {"refuse", "none", "crash", "exit", "cd", "run"}
        /\ m.verdict = "exit" => \E i \in DOMAIN line : line[i] = "exit"
        /\ m.stores.cbuf \in {"own", "small", "null"}
        /\ m.within => m.stores.cbuf = "own" /\ ~m.stores.spoils
        /\ m.within \in BOOLEAN
    BY <1>1, <2>1, PipelineFacts
  <2>4. m.verdict = "refuse" => \/ /\ m.rc = ERR_TOO_MANY_COMMANDS
                                   /\ Len(Fields(line, Pipe)) > CMD_MAX + 1
                                \/ m.rc = ERR_MEMORY /\ Faults
    BY <1>0, <1>1, <2>1, PipelineFacts
  <2>5. ASSUME m.verdict = "crash"
        PROVE  Wordless(Fields(line, Pipe)[1]) \/ (m.emptied /\ Faults)
    <3>1. CASE VerdictOf(shell, line, {}) = "crash"
      <4>1. PipelineVerdict(line, {}) = "crash"
        BY <2>1, <3>1
      <4>2. Wordless(Fields(line, Pipe)[1]) \/ {} # {}
        BY <4>1, PipelineFacts
      <4> QED BY <4>2
    <3>2. CASE VerdictOf(shell, line, {}) # "crash"
      <4>1. short # {}
        BY <1>1, <2>5, <3>2
      <4> QED BY <1>0, <1>1, <2>5, <3>2, <4>1
    <3> QED BY <3>1, <3>2
  <2>6. m.moves => m.verdict = "cd"
    BY <1>1
  <2>7. LineFacts(shell, line, m)
    BY <1>1, <1>2, <2>2, <2>3, <2>4, <2>5, <2>6 DEF LineFacts, Verdicts
  <2> QED BY <2>7 DEF m
<1> QED BY <1>3, <1>4, <1>5 DEF AllPrograms

-----------------------------------------------------------------------------
(* The invariant. *)

Codes == {NotYet, OK, ERR_MEMORY, ERR_EXEC_CMD,
          ERR_TOO_MANY_COMMANDS, ERR_CMD_OR_ARGS_TOO_BIG}

Places == {"start", "read", "parsed", "wait", "spin", "returned", "killed"}

\* What the inputs are.
LEMMA LinesKnown ==
    ASSUME TypeOK
    PROVE  /\ Len(lines) \in Nat /\ DOMAIN lines = 1 .. Len(lines)
           /\ Numbers \ {0} = 1 .. Len(lines)
           /\ program \in AllPrograms
           /\ \A l \in 1 .. Len(lines) : \A m \in Meanings(l) : LineFacts(program, lines[l], m)
           /\ \A l \in 1 .. Len(lines) : Meanings(l) # {}
<1>1. program \in AllPrograms /\ program \in Programs /\ lines \in Inputs
  BY ProgramsAssumption DEF TypeOK
<1>2. lines \in Seq(Seq(STRING)) /\ \A l \in DOMAIN lines : Len(lines[l]) < ARG_MAX
  BY <1>1, InputsAssumption
<1>3. Len(lines) \in Nat /\ DOMAIN lines = 1 .. Len(lines)
      /\ \A l \in 1 .. Len(lines) : lines[l] \in Seq(STRING)
  BY <1>2, LenProperties, ElementOfSeq
<1>4. ASSUME NEW l \in 1 .. Len(lines)
      PROVE  Meanings(l) = {Meaning(program, lines[l], short) : short \in Shortages(lines[l])}
  <2>1. lines[l] \in AllLines
    BY <1>1, <1>3 DEF AllLines, ToSet
  <2> QED BY <1>1, <2>1 DEF Meanings, MeaningsOf
<1>5. ASSUME NEW l \in 1 .. Len(lines), NEW m \in Meanings(l)
      PROVE  LineFacts(program, lines[l], m)
  <2>1. PICK short \in Shortages(lines[l]) : m = Meaning(program, lines[l], short)
    BY <1>4
  <2> QED BY <1>1, <1>2, <1>3, <2>1, MeaningFacts
<1>6. Numbers \ {0} = 1 .. Len(lines)
  BY <1>3 DEF Numbers
<1>7. \A line : {} \in Shortages(line)
  BY DEF Shortages
<1>8. ASSUME NEW l \in 1 .. Len(lines) PROVE Meanings(l) # {}
  <2>1. Meaning(program, lines[l], {}) \in Meanings(l)
    BY <1>4, <1>7
  <2> QED BY <2>1
<1> QED BY <1>1, <1>3, <1>5, <1>6, <1>8

\* What is known of the line being handled.
LEMMA LineKnown ==
    ASSUME IInv, pc \in {"parsed", "wait", "spin"}
    PROVE  /\ cur \in 1 .. Len(lines) /\ cur \in taken
           /\ now \in Meanings(cur)
           /\ LineFacts(program, Line, now)
<1>1. cur # 0 /\ cur \in taken
  BY DEF IInv, TakenInv
<1>2. cur \in 1 .. Len(lines)
  BY <1>1, LinesKnown DEF IInv, TypeOK
<1>3. now \in Meanings(cur)
  BY <1>1 DEF IInv, TypeOK
<1> QED BY <1>1, <1>2, <1>3, LinesKnown DEF IInv, Line

\* What lines may mean is settled at the start.
LEMMA MeaningsStay ==
    ASSUME UNCHANGED choiceVars
    PROVE  \A l : Meanings(l)' = Meanings(l)
BY DEF choiceVars, Meanings

USE DEF Meanings

\* The invariant holds before the first line.
LEMMA InitIInv == Init => IInv
<1> SUFFICES ASSUME Init PROVE IInv
  OBVIOUS
<1>1. lines \in Seq(Seq(STRING)) /\ Len(lines) \in Nat
  BY InputsAssumption, LenProperties DEF Init
<1>2. <<>> \in Seq(Numbers \ {0}) /\ Len(<<>>) = 0
  BY EmptySeq
<1>3. TypeOK
  BY <1>1, <1>2 DEF Init, TypeOK, Numbers
<1>4. StartInv /\ TakenInv /\ MemoryInv /\ KidsInv /\ EndHasCause
  BY DEF Init, StartInv, TakenInv, MemoryInv, KidsInv, EndHasCause
<1>5. OrderInv
  BY <1>1, <1>2 DEF Init, OrderInv
<1> QED BY <1>3, <1>4, <1>5 DEF IInv

\* A step that only moves the shell on.
Quiet == /\ UNCHANGED <<choiceVars, inputVars, lineVars, memVars, kids>>
         /\ pc' \in Places \ {"start"} /\ rc' \in Codes /\ cwd' \in {"home", "dir"}
         /\ pc' \in {"parsed", "wait", "spin"} => cur # 0
         /\ pc' = "wait" => Verdict = "run"

\* Such a step keeps the invariant if the way out, if it is one, has a cause.
LEMMA QuietIInv ==
    ASSUME IInv, Quiet, EndHasCause'
    PROVE  IInv'
<1> USE DEF IInv, Quiet, choiceVars, inputVars, lineVars, memVars
<1>1. TypeOK'
  BY DEF TypeOK, Numbers, Codes, Places
<1>2. StartInv' /\ MemoryInv' /\ OrderInv' /\ KidsInv'
  BY DEF StartInv, MemoryInv, Harmed, Bufferless, OrderInv, KidsInv, Places
<1>3. TakenInv'
  BY DEF TakenInv, Verdict
<1> QED BY <1>1, <1>2, <1>3

\* What the way out of a loop says of it, for a step of the shell that does not
\* touch the lines.
LEMMA StaysIn ==
    ASSUME pc' \notin {"returned", "killed"}
    PROVE  EndHasCause'
BY DEF EndHasCause

\* The steps of the loop that touch neither the lines nor the children.
LEMMA StartIInv == IInv /\ Start => IInv'
<1> SUFFICES ASSUME IInv, Start PROVE IInv'
  OBVIOUS
<1>1. Quiet
  BY DEF IInv, TypeOK, Start, Quiet, Places, Codes, choiceVars, inputVars, lineVars, memVars
<1> QED BY <1>1, QuietIInv, StaysIn DEF Start

LEMMA EndOfInputIInv == IInv /\ EndOfInput => IInv'
<1> SUFFICES ASSUME IInv, EndOfInput PROVE IInv'
  OBVIOUS
<1>1. Quiet
  BY DEF IInv, TypeOK, EndOfInput, Return, Quiet, Places, Codes, choiceVars, inputVars, lineVars, memVars
<1>2. EndHasCause'
  BY DEF EndOfInput, Return, EndHasCause, inputVars, lineVars, choiceVars
<1> QED BY <1>1, <1>2, QuietIInv

LEMMA NullReadIInv == IInv /\ NullRead => IInv'
<1> SUFFICES ASSUME IInv, NullRead PROVE IInv'
  OBVIOUS
<1>1. Quiet
  BY DEF IInv, TypeOK, NullRead, Quiet, Places, Codes, choiceVars, inputVars, lineVars, memVars
<1>2. Harmed \/ (program = "3-ShellP1" /\ Faults /\ cur = 0)
  BY DEF IInv, NullRead, MemoryInv, Bufferless, TakenInv
<1>3. EndHasCause'
  BY <1>2 DEF NullRead, EndHasCause, Harmed, inputVars, lineVars, choiceVars
<1> QED BY <1>1, <1>3, QuietIInv

LEMMA AnswerIInv == IInv /\ Answer => IInv'
<1> SUFFICES ASSUME IInv, Answer PROVE IInv'
  OBVIOUS
<1>1. Quiet
  BY DEF IInv, TypeOK, Answer, Quiet, Places, Codes, choiceVars, inputVars, lineVars, memVars
<1> QED BY <1>1, QuietIInv, StaysIn DEF Answer

LEMMA LeaveIInv == IInv /\ Leave => IInv'
<1> SUFFICES ASSUME IInv, Leave PROVE IInv'
  OBVIOUS
<1>1. Quiet
  BY DEF IInv, TypeOK, Leave, Return, Quiet, Places, Codes, choiceVars, inputVars, lineVars, memVars
<1>2. \E i \in DOMAIN Line : Line[i] = "exit"
  BY LineKnown DEF Leave, LineFacts, Verdict
<1>3. EndHasCause'
  BY <1>2 DEF Leave, Return, EndHasCause, Line, Verdict, inputVars, lineVars, choiceVars
<1> QED BY <1>1, <1>3, QuietIInv

LEMMA SpinIInv == IInv /\ Spin => IInv'
<1> SUFFICES ASSUME IInv, Spin PROVE IInv'
  OBVIOUS
<1>1. cur # 0
  BY DEF IInv, TakenInv, Spin
<1>2. Quiet
  BY <1>1 DEF IInv, TypeOK, Spin, Quiet, Places, Codes, choiceVars, inputVars, lineVars, memVars
<1> QED BY <1>2, QuietIInv, StaysIn DEF Spin

LEMMA ChangeDirectoryIInv == IInv /\ ChangeDirectory => IInv'
<1> SUFFICES ASSUME IInv, ChangeDirectory PROVE IInv'
  OBVIOUS
<1>1. Quiet
  BY DEF IInv, TypeOK, ChangeDirectory, Quiet, Places, Codes, choiceVars, inputVars, lineVars, memVars
<1> QED BY <1>1, QuietIInv, StaysIn DEF ChangeDirectory

LEMMA RefuseIInv == IInv /\ Refuse => IInv'
<1> SUFFICES ASSUME IInv, Refuse PROVE IInv'
  OBVIOUS
<1>1. \/ now.rc = ERR_TOO_MANY_COMMANDS /\ Len(Fields(Line, Pipe)) > CMD_MAX + 1
      \/ now.rc = ERR_MEMORY /\ Faults
  BY LineKnown DEF Refuse, LineFacts, Verdict
<1>2. Quiet
  BY <1>1 DEF IInv, TypeOK, Refuse, Return, Quiet, Places, Codes, choiceVars, inputVars, lineVars, memVars
<1>3. EndHasCause'
  BY <1>1 DEF Refuse, Return, EndHasCause, Line, Verdict, inputVars, lineVars, choiceVars
<1> QED BY <1>2, <1>3, QuietIInv

LEMMA DereferenceIInv == IInv /\ Dereference => IInv'
<1> SUFFICES ASSUME IInv, Dereference PROVE IInv'
  OBVIOUS
<1>1. /\ program \notin {"3-ShellP1", "4-ShellP2"}
      /\ Wordless(Fields(Line, Pipe)[1]) \/ (now.emptied /\ Faults)
  BY LineKnown DEF Dereference, LineFacts, Verdict
<1>2. Quiet
  BY DEF IInv, TypeOK, Dereference, Quiet, Places, Codes, choiceVars, inputVars, lineVars, memVars
<1>3. EndHasCause'
  BY <1>1 DEF Dereference, EndHasCause, Line, Verdict, inputVars, lineVars, choiceVars
<1> QED BY <1>2, <1>3, QuietIInv

LEMMA WaitIInv == IInv /\ Wait => IInv'
<1> SUFFICES ASSUME IInv, Wait PROVE IInv'
  OBVIOUS
<1>1. Quiet
  BY DEF IInv, TypeOK, Wait, Quiet, Places, Codes, choiceVars, inputVars, lineVars, memVars
<1> QED BY <1>1, QuietIInv, StaysIn DEF Wait

LEMMA CorruptedIInv == IInv /\ Corrupted => IInv'
<1> SUFFICES ASSUME IInv, Corrupted PROVE IInv'
  OBVIOUS
<1>1. Quiet
  BY DEF IInv, TypeOK, Corrupted, Quiet, Places, Codes, choiceVars, inputVars, lineVars, memVars
<1>2. Harmed
  BY DEF IInv, Corrupted, MemoryInv, Bufferless
<1>3. EndHasCause'
  BY <1>2 DEF Corrupted, EndHasCause, Harmed, inputVars, lineVars, choiceVars
<1> QED BY <1>1, <1>3, QuietIInv

\* A chunk of lines comes into stdio's buffer: the next ones, without a gap.
LEMMA FillIInv == IInv /\ Fill => IInv'
<1> SUFFICES ASSUME IInv, Fill PROVE IInv'
  OBVIOUS
<1> USE DEF choiceVars, lineVars, memVars
<1>0. Len(lines) \in Nat /\ Chunk \in Nat \ {0} /\ offset \in 0 .. Len(lines)
      /\ unread = <<>> /\ Len(unread) = 0 /\ pc = "read" /\ pc' = "read"
  BY LinesKnown, ChunkAssumption, EmptySeq DEF IInv, TypeOK, Numbers, Fill
<1>1. PICK n \in Nat : /\ n <= Len(lines) - offset
                       /\ unread' = [k \in 1 .. n |-> offset + k]
                       /\ offset' = offset + n
  <2> DEFINE most == Min({Chunk, Len(lines) - offset})
  <2>1. offset < Len(lines)
    BY DEF Fill
  <2>2. {Chunk, Len(lines) - offset} \subseteq Nat \ {0}
    BY <1>0, <2>1
  <2>3. most \in {Chunk, Len(lines) - offset} /\ most <= Len(lines) - offset
    BY <2>2, MinIsLeast
  <2>4. most \in Nat \ {0}
    BY <2>2, <2>3
  <2> HIDE DEF most
  <2>5. PICK n \in CASE device = "tty"  -> {1}
                     [] device = "pipe" -> 1 .. most
                     [] device = "file" -> {most} :
                /\ unread' = [k \in 1 .. n |-> offset + k]
                /\ offset' = offset + n
    BY DEF Fill, most
  <2>6. n \in 1 .. most
    <3>1. device \in {"tty", "pipe", "file"}
      BY DevicesAssumption DEF IInv, TypeOK
    <3>2. 1 \in 1 .. most /\ most \in 1 .. most
      BY <2>4
    <3>3. CASE device = "tty"
      BY <2>5, <3>2, <3>3
    <3>4. CASE device = "pipe"
      BY <2>5, <3>4
    <3>5. CASE device = "file"
      BY <2>5, <3>2, <3>5
    <3> QED BY <3>1, <3>3, <3>4, <3>5
  <2> QED BY <1>0, <2>3, <2>4, <2>5, <2>6
<1>2. /\ unread' \in [1 .. n -> Numbers \ {0}]
      /\ unread' \in Seq(Numbers \ {0}) /\ Len(unread') = n
      /\ \A k \in 1 .. n : unread'[k] = offset + k
  <2>1. unread' \in [1 .. n -> Numbers \ {0}]
    BY <1>0, <1>1 DEF Numbers
  <2>2. unread' \in Seq(Numbers \ {0}) /\ Len(unread') = n
    BY <2>1, FunctionIsSeq
  <2> QED BY <1>1, <2>1, <2>2
<1>3. TypeOK'
  BY <1>0, <1>1, <1>2 DEF IInv, TypeOK, Fill, Numbers
<1>4. StartInv' /\ TakenInv' /\ MemoryInv' /\ KidsInv' /\ EndHasCause'
  BY <1>0 DEF IInv, Fill, StartInv, TakenInv, MemoryInv, Harmed,
              Bufferless, KidsInv, EndHasCause, Verdict
<1>5. OrderInv'
  <2> SUFFICES ASSUME input # "rewound" PROVE OrderInv'
    BY DEF OrderInv, Fill
  <2>1. /\ taken \subseteq 1 .. cur /\ cur \in Nat /\ cur <= offset
        /\ input = "own" => offset = cur
    BY <1>0, LinesKnown DEF IInv, OrderInv, TypeOK, Numbers
  <2>2. taken' = taken /\ cur' = cur /\ input' = input
    BY DEF Fill
  <2>3. cur <= offset'
    BY <1>0, <1>1, <2>1
  <2>4. \A k \in 1 .. n : cur < unread'[k] /\ unread'[k] <= offset'
    BY <1>0, <1>1, <1>2, <2>1
  <2>5. \A j, k \in 1 .. n : j < k => unread'[j] < unread'[k]
    BY <1>0, <1>2
  <2>6. input = "own" => n = offset' - cur /\ \A k \in 1 .. n : unread'[k] = cur + k
    BY <1>0, <1>1, <1>2, <2>1
  <2> QED BY <1>2, <2>1, <2>2, <2>3, <2>4, <2>5, <2>6 DEF OrderInv
<1> QED BY <1>3, <1>4, <1>5 DEF IInv

\* The first line of the buffer is taken: it comes after every line taken before,
\* and if it is stored past an array it is beyond the limits.
LEMMA TakeLineIInv == IInv /\ TakeLine => IInv'
<1> SUFFICES ASSUME IInv, TakeLine PROVE IInv'
  OBVIOUS
<1> USE DEF choiceVars
<1> DEFINE l == Head(unread)
           n == Len(unread)
<1>0. /\ unread \in Seq(Numbers \ {0}) /\ unread # <<>> /\ offset \in 0 .. Len(lines)
      /\ cur \in 0 .. Len(lines) /\ Len(lines) \in Nat
      /\ taken \subseteq 1 .. Len(lines) /\ Numbers \ {0} = 1 .. Len(lines)
  BY LinesKnown DEF IInv, TypeOK, Numbers, TakeLine
<1>1. /\ n \in Nat \ {0} /\ l = unread[1] /\ l \in Numbers \ {0}
      /\ Tail(unread) \in Seq(Numbers \ {0}) /\ Len(Tail(unread)) = n - 1
      /\ \A k \in 1 .. n - 1 : Tail(unread)[k] = unread[k + 1]
  BY <1>0, HeadTailProperties, EmptySeq
<1>2. l \in 1 .. Len(lines) /\ now' \in Meanings(l)
      /\ LineFacts(program, lines[l], now')
  BY <1>0, <1>1, LinesKnown DEF IInv, TakeLine, Parse
<1>3. /\ cur' = l /\ taken' = taken \cup {l} /\ unread' = Tail(unread)
      /\ pc' = "parsed" /\ cbuf # "null"
      /\ UNCHANGED <<program, device, lines, rc, offset, input, cwd, kids>>
      /\ cbuf' = IF now'.stores.cbuf = "own" THEN cbuf ELSE now'.stores.cbuf
      /\ memory' = IF now'.stores.spoils \/ (cbuf = "small" /\ now'.long)
                   THEN "spoilt" ELSE memory
  BY DEF TakeLine, Parse
<1> HIDE DEF l, n
<1>4. /\ cbuf' \in {"own", "small", "null"} /\ memory' \in {"sound", "spoilt"}
      /\ cbuf' # "own" => now'.stores.cbuf # "own" \/ cbuf # "own"
      /\ memory' = "spoilt" => \/ now'.stores.spoils
                               \/ cbuf # "own" \/ memory = "spoilt"
  BY <1>2, <1>3 DEF LineFacts, IInv, TypeOK
<1>5. TypeOK'
  <2>1. cur' \in Numbers /\ taken' \subseteq Numbers \ {0} /\ unread' \in Seq(Numbers \ {0})
    BY <1>0, <1>1, <1>3 DEF Numbers
  <2>2. Numbers' = Numbers /\ l # 0
    BY <1>0, <1>2, <1>3 DEF Numbers
  <2>3. cur' # 0 /\ now' \in Meanings(cur)'
    BY <1>2, <1>3, <2>2
  <2> QED BY <1>3, <1>4, <2>1, <2>2, <2>3 DEF IInv, TypeOK
<1>6. StartInv' /\ KidsInv' /\ EndHasCause'
  <2>1. StartInv' /\ EndHasCause'
    BY <1>3 DEF IInv, StartInv, EndHasCause
  <2>2. KidsInv'
    BY <1>3 DEF IInv, KidsInv
  <2> QED BY <2>1, <2>2
<1>7. TakenInv'
  <2>1. l # 0
    BY <1>0, <1>2
  <2> QED BY <1>3, <2>1 DEF TakenInv
<1>8. MemoryInv'
  <2> SUFFICES ASSUME memory' = "spoilt" \/ cbuf' # "own" PROVE Harmed'
    BY DEF MemoryInv
  <2>1. CASE memory = "spoilt" \/ cbuf # "own"
    <3>1. Harmed
      BY <1>3, <2>1 DEF IInv, MemoryInv, Bufferless
    <3> QED BY <1>3, <3>1 DEF Harmed
  <2>2. CASE ~(memory = "spoilt" \/ cbuf # "own")
    <3>1. now'.stores.cbuf # "own" \/ now'.stores.spoils
      BY <1>4, <2>2
    <3>2. ~now'.within
      BY <1>2, <3>1 DEF LineFacts
    <3> QED BY <1>2, <1>3, <3>2 DEF Harmed
  <2> QED BY <2>1, <2>2
<1>9. OrderInv'
  <2> SUFFICES ASSUME input # "rewound" PROVE OrderInv'
    BY <1>3 DEF OrderInv
  <2>1. /\ taken \subseteq 1 .. cur /\ cur <= offset
        /\ \A k \in 1 .. n : cur < unread[k] /\ unread[k] <= offset
        /\ \A j, k \in 1 .. n : j < k => unread[j] < unread[k]
        /\ input = "own" => n = offset - cur /\ \A k \in 1 .. n : unread[k] = cur + k
    BY DEF IInv, OrderInv, n
  <2>2. cur < l /\ l <= offset
    BY <1>1, <2>1
  <2>3. taken' \subseteq 1 .. l
    <3>1. cur \in Nat /\ l \in Nat \ {0}
      BY <1>0, <1>2
    <3>2. 1 .. cur \subseteq 1 .. l /\ l \in 1 .. l
      BY <2>2, <3>1
    <3> QED BY <1>3, <2>1, <3>2
  <2>4. Len(unread') = n - 1 /\ \A k \in 1 .. n - 1 : unread'[k] = unread[k + 1] /\ k + 1 \in 1 .. n
    BY <1>1, <1>3
  <2>5. \A k \in 1 .. n - 1 : l < unread'[k] /\ unread'[k] <= offset
    BY <1>1, <2>1, <2>4
  <2>6. \A j, k \in 1 .. n - 1 : j < k => unread'[j] < unread'[k]
    BY <1>1, <2>1, <2>4
  <2>7. input = "own" => n - 1 = offset - l /\ \A k \in 1 .. n - 1 : unread'[k] = l + k
    <3> SUFFICES ASSUME input = "own"
                 PROVE  n - 1 = offset - l /\ \A k \in 1 .. n - 1 : unread'[k] = l + k
      OBVIOUS
    <3>1. n = offset - cur /\ \A k \in 1 .. n : unread[k] = cur + k
      BY <2>1
    <3>2. 1 \in 1 .. n
      BY <1>1
    <3>3. l = cur + 1 /\ cur \in Nat /\ offset \in Nat
      BY <1>0, <1>1, <3>1, <3>2
    <3>4. n - 1 = offset - l
      BY <1>1, <3>1, <3>3
    <3>5. ASSUME NEW k \in 1 .. n - 1 PROVE unread'[k] = l + k
      <4>1. unread'[k] = cur + (k + 1)
        BY <2>4, <3>1
      <4> QED BY <3>3, <4>1
    <3> QED BY <3>4, <3>5
  <2> QED BY <1>3, <2>2, <2>3, <2>4, <2>5, <2>6, <2>7 DEF OrderInv
<1> QED BY <1>5, <1>6, <1>7, <1>8, <1>9 DEF IInv

\* The child of the line being handled.
LEMMA KidKnown ==
    ASSUME IInv, pc = "parsed", Verdict = "run", NEW waited \in BOOLEAN
    PROVE  /\ Kid(waited) \in [kind : Kinds, copy : Nat, waited : BOOLEAN]
           /\ \E l \in taken : \E m \in Meanings(l) :
                 m.verdict = "run" /\ m.kind = Kid(waited).kind
<1>1. cur \in taken /\ LineFacts(program, Line, now) /\ now \in Meanings(cur)
  BY LineKnown
<1>2. Len(unread) \in Nat
  BY LenProperties DEF IInv, TypeOK
<1>3. Kid(waited).kind = now.kind /\ now.verdict = "run"
  BY DEF Kid, Verdict
<1> QED BY <1>1, <1>2, <1>3 DEF Kid, LineFacts

\* A step that changes the children and moves the shell on.
KidsStep == /\ UNCHANGED <<choiceVars, inputVars, lineVars, memVars, cwd>>
            /\ pc' \in Places \ {"start"} /\ rc' \in Codes
            /\ pc' \in {"parsed", "wait", "spin"} => cur # 0
            /\ pc' = "wait" => Verdict = "run"
            /\ kids' \subseteq [kind : Kinds, copy : Nat, waited : BOOLEAN]

\* Such a step keeps the invariant if the children come from lines taken.
LEMMA KidsStepIInv ==
    ASSUME IInv, KidsStep, KidsInv', EndHasCause'
    PROVE  IInv'
<1> USE DEF IInv, KidsStep, choiceVars, inputVars, lineVars, memVars
<1>1. TypeOK'
  BY DEF TypeOK, Numbers, Codes, Places
<1>2. StartInv' /\ MemoryInv' /\ OrderInv'
  BY DEF StartInv, MemoryInv, Harmed, Bufferless, OrderInv, Places
<1>3. TakenInv'
  BY DEF TakenInv, Verdict
<1> QED BY <1>1, <1>2, <1>3

\* A child is forked, or the fork fails.
LEMMA RunIInv == IInv /\ Run => IInv'
<1> SUFFICES ASSUME IInv, Run PROVE IInv'
  OBVIOUS
<1>1. pc = "parsed" /\ Verdict = "run" /\ pc' = "wait" /\ kids' = kids \cup {Kid(TRUE)}
      /\ UNCHANGED <<choiceVars, rc, inputVars, lineVars, memVars, cwd>>
  BY DEF Run
<1>2. /\ Kid(TRUE) \in [kind : Kinds, copy : Nat, waited : BOOLEAN]
      /\ \E l \in taken : \E m \in Meanings(l) :
            m.verdict = "run" /\ m.kind = Kid(TRUE).kind
  BY <1>1, KidKnown
<1> HIDE DEF Run
<1>3. cur # 0
  BY <1>1 DEF IInv, TakenInv
<1>4. KidsStep
  BY <1>1, <1>2, <1>3 DEF IInv, TypeOK, KidsStep, Places, Codes
<1>5. KidsInv'
  <2>1. taken' = taken /\ \A l : Meanings(l)' = Meanings(l)
    BY <1>1, MeaningsStay DEF lineVars
  <2>2. ASSUME NEW k \in kids'
        PROVE  \E l \in taken : \E m \in Meanings(l) : m.verdict = "run" /\ m.kind = k.kind
    <3>1. CASE k \in kids
      BY <3>1 DEF IInv, KidsInv
    <3>2. CASE k = Kid(TRUE)
      BY <1>2, <3>2
    <3> QED BY <1>1, <2>2, <3>1, <3>2
  <2> QED BY <2>1, <2>2 DEF KidsInv
<1> QED BY <1>1, <1>4, <1>5, KidsStepIInv, StaysIn

LEMMA RunFailsIInv == IInv /\ RunFails => IInv'
<1> SUFFICES ASSUME IInv, RunFails PROVE IInv'
  OBVIOUS
<1>1. /\ Faults /\ pc = "parsed" /\ Verdict = "run"
      /\ UNCHANGED <<choiceVars, inputVars, lineVars, memVars, cwd>>
      /\ \/ pc' = "returned" /\ rc' = ERR_EXEC_CMD
         \/ pc' = "read" /\ rc' = rc
      /\ kids' = kids \/ kids' = {Kid(FALSE)}
  BY DEF RunFails, Return
<1>2. /\ Kid(FALSE) \in [kind : Kinds, copy : Nat, waited : BOOLEAN]
      /\ \E l \in taken : \E m \in Meanings(l) :
            m.verdict = "run" /\ m.kind = Kid(FALSE).kind
  BY <1>1, KidKnown
<1>3. KidsStep
  BY <1>1, <1>2 DEF IInv, TypeOK, KidsStep, Places, Codes
<1>4. KidsInv'
  <2>1. taken' = taken /\ \A l : Meanings(l)' = Meanings(l)
    BY <1>1, MeaningsStay DEF lineVars
  <2>2. ASSUME NEW k \in kids'
        PROVE  \E l \in taken : \E m \in Meanings(l) : m.verdict = "run" /\ m.kind = k.kind
    <3>1. CASE k \in kids
      BY <3>1 DEF IInv, KidsInv
    <3>2. CASE k = Kid(FALSE)
      BY <1>2, <3>2
    <3> QED BY <1>1, <2>2, <3>1, <3>2
  <2> QED BY <2>1, <2>2 DEF KidsInv
<1>5. EndHasCause'
  BY <1>1 DEF EndHasCause
<1> QED BY <1>3, <1>4, <1>5, KidsStepIInv

\* Without memory the first shell goes on with a null pointer, the others end.
LEMMA NoMemoryIInv == IInv /\ NoMemory => IInv'
<1> SUFFICES ASSUME IInv, NoMemory PROVE IInv'
  OBVIOUS
<1>1. Faults /\ pc = "start" /\ UNCHANGED <<choiceVars, inputVars, lineVars, memory, cwd, kids>>
  BY DEF NoMemory
<1>2. CASE program = "3-ShellP1"
  <2>1. pc' = "read" /\ cbuf' = "null" /\ rc' = rc
    BY <1>2 DEF NoMemory
  <2>2. memory = "sound" /\ taken = {}
    BY <1>1 DEF IInv, StartInv
  <2> USE DEF IInv, choiceVars, inputVars, lineVars
  <2>3. TypeOK'
    BY <1>1, <2>1 DEF TypeOK, Numbers
  <2>4. StartInv' /\ TakenInv' /\ OrderInv' /\ KidsInv'
    BY <1>1, <2>1 DEF StartInv, TakenInv, OrderInv, KidsInv
  <2>5. MemoryInv'
    BY <1>1, <1>2, <2>1, <2>2 DEF MemoryInv, Bufferless
  <2> QED BY <2>1, <2>3, <2>4, <2>5, StaysIn
<1>3. CASE program # "3-ShellP1"
  <2>1. pc' = "returned" /\ rc' = ERR_MEMORY /\ cbuf' = cbuf
    BY <1>3 DEF NoMemory, Return
  <2>2. Quiet
    BY <1>1, <2>1 DEF IInv, TypeOK, Quiet, Places, Codes, memVars
  <2>3. EndHasCause'
    BY <1>1, <2>1 DEF EndHasCause
  <2> QED BY <2>2, <2>3, QuietIInv
<1> QED BY <1>2, <1>3

\* A child takes lines that stdio has not read, and later ones are still later.
LEMMA ChildReadsIInv == IInv /\ ChildReads => IInv'
<1> SUFFICES ASSUME IInv, ChildReads PROVE IInv'
  OBVIOUS
<1> USE DEF choiceVars, lineVars, memVars
<1>1. /\ offset' \in offset + 1 .. Len(lines)
      /\ input' = IF input = "own" THEN "eaten" ELSE input
      /\ UNCHANGED <<choiceVars, pc, rc, unread, lineVars, memVars, cwd, kids>>
  BY DEF ChildReads
<1>2. offset \in 0 .. Len(lines) /\ cur \in 0 .. Len(lines) /\ Len(lines) \in Nat
  BY LinesKnown DEF IInv, TypeOK, Numbers
<1>3. TypeOK'
  BY <1>1, <1>2 DEF IInv, TypeOK, Numbers
<1>4. StartInv' /\ TakenInv' /\ MemoryInv' /\ KidsInv'
  BY <1>1 DEF IInv, StartInv, TakenInv, MemoryInv, Harmed, Bufferless,
              KidsInv, Verdict
<1>5. OrderInv'
  <2> SUFFICES ASSUME input # "rewound" PROVE OrderInv'
    BY <1>1 DEF OrderInv
  <2>1. /\ taken \subseteq 1 .. cur /\ cur <= offset
        /\ \A k \in 1 .. Len(unread) : cur < unread[k] /\ unread[k] <= offset
        /\ \A j, k \in 1 .. Len(unread) : j < k => unread[j] < unread[k]
    BY DEF IInv, OrderInv
  <2>2. unread \in Seq(Numbers \ {0})
    BY DEF IInv, TypeOK
  <2>3. \A k \in 1 .. Len(unread) : unread[k] \in Nat
    BY <1>2, <2>2, ElementOfSeq DEF Numbers
  <2>4. cur <= offset' /\ \A k \in 1 .. Len(unread) : unread[k] <= offset'
    BY <1>1, <1>2, <2>1, <2>3
  <2>5. input' # "own"
    BY <1>1
  <2> QED BY <1>1, <2>1, <2>4, <2>5 DEF OrderInv
<1>6. EndHasCause'
  <2>1. offset # Len(lines)
    BY <1>1, <1>2
  <2>2. input = "rewound" => input' = "rewound"
    BY <1>1
  <2> QED BY <1>1, <2>1, <2>2 DEF IInv, EndHasCause, Harmed, Line, Verdict
<1> QED BY <1>3, <1>4, <1>5, <1>6 DEF IInv

\* A child ends, with what it had of the buffer given back or not.
LEMMA ChildEndsIInv == IInv /\ ChildEnds => IInv'
<1> SUFFICES ASSUME IInv, ChildEnds PROVE IInv'
  OBVIOUS
<1> USE DEF IInv, choiceVars, inputVars, lineVars, memVars
<1>1. /\ kids' \subseteq kids
      /\ UNCHANGED <<choiceVars, pc, rc, inputVars, lineVars, memVars, cwd>>
  BY DEF ChildEnds
<1>2. TypeOK'
  BY <1>1 DEF TypeOK, Numbers
<1>3. StartInv' /\ TakenInv' /\ MemoryInv' /\ OrderInv'
  BY <1>1 DEF StartInv, TakenInv, MemoryInv, Harmed, Bufferless,
              OrderInv, Verdict
<1>4. KidsInv'
  BY <1>1 DEF KidsInv
<1>5. EndHasCause'
  BY <1>1 DEF EndHasCause, Harmed, Line, Verdict
<1> QED BY <1>2, <1>3, <1>4, <1>5

LEMMA ExecFailsIInv == IInv /\ ExecFails => IInv'
<1> SUFFICES ASSUME IInv, ExecFails PROVE IInv'
  OBVIOUS
<1> USE DEF choiceVars, lineVars, memVars
<1>1. /\ kids' \subseteq kids
      /\ UNCHANGED <<choiceVars, pc, rc, unread, lineVars, memVars, cwd>>
      /\ \/ UNCHANGED <<offset, input>>
         \/ offset' \in 0 .. Len(lines) /\ input' = "rewound"
  <2>1. PICK k \in kids :
           /\ kids' = kids \ {k}
           /\ IF device = "file" /\ k.copy \in 1 .. offset
              THEN offset' = offset - k.copy /\ input' = "rewound"
              ELSE UNCHANGED <<offset, input>>
    BY DEF ExecFails
  <2>2. offset \in 0 .. Len(lines) /\ Len(lines) \in Nat
    BY LinesKnown DEF IInv, TypeOK, Numbers
  <2>3. k.copy \in 1 .. offset => offset - k.copy \in 0 .. Len(lines)
    BY <2>2
  <2> QED BY <2>1, <2>3 DEF ExecFails
<1> USE DEF IInv
<1>2. TypeOK'
  BY <1>1 DEF TypeOK, Numbers
<1>3. StartInv' /\ TakenInv' /\ MemoryInv'
  BY <1>1 DEF StartInv, TakenInv, MemoryInv, Harmed, Bufferless, Verdict
<1>4. OrderInv'
  BY <1>1 DEF OrderInv
<1>5. KidsInv'
  BY <1>1 DEF KidsInv
<1>6. EndHasCause'
  BY <1>1 DEF EndHasCause, Harmed, Line, Verdict
<1> QED BY <1>2, <1>3, <1>4, <1>5, <1>6


-----------------------------------------------------------------------------
\* The invariant is inductive: a step of the shell, of the system that fails
\* it, or of a child keeps it.
LEMMA NextIInv == IInv /\ [Next]_vars => IInv'
<1> SUFFICES ASSUME IInv, [Next]_vars PROVE IInv'
  OBVIOUS
<1>1. CASE Shell
  BY <1>1, StartIInv, FillIInv, EndOfInputIInv, TakeLineIInv, NullReadIInv,
     AnswerIInv, LeaveIInv, SpinIInv, ChangeDirectoryIInv, RefuseIInv,
     DereferenceIInv, RunIInv, WaitIInv
     DEF Shell, FirstShell, SingleCommandShell, PipelineShell, LocalMode, ReadLine
<1>2. CASE RunFails
  BY <1>2, RunFailsIInv
<1>3. CASE NoMemory
  BY <1>3, NoMemoryIInv
<1>4. CASE Corrupted
  BY <1>4, CorruptedIInv
<1>5. CASE ChildReads
  BY <1>5, ChildReadsIInv
<1>6. CASE Child
  BY <1>6, ChildEndsIInv, ExecFailsIInv DEF Child
<1>7. CASE UNCHANGED vars
  <2>1. UNCHANGED <<program, device, lines, pc, rc, offset, unread, input,
                    cur, taken, now, cbuf, memory, cwd, kids>>
    BY <1>7 DEF vars, choiceVars, inputVars, lineVars, memVars
  <2>2. TypeOK' /\ StartInv' /\ TakenInv'
    BY <2>1 DEF IInv, TypeOK, Numbers, StartInv, TakenInv, Verdict
  <2>3. MemoryInv' /\ OrderInv' /\ KidsInv'
    BY <2>1 DEF IInv, MemoryInv, Harmed, Bufferless, OrderInv, KidsInv
  <2>4. EndHasCause'
    BY <2>1 DEF IInv, EndHasCause, Harmed, Line, Verdict
  <2> QED BY <2>2, <2>3, <2>4 DEF IInv
<1> QED BY <1>1, <1>2, <1>3, <1>4, <1>5, <1>6, <1>7 DEF Next

\* The invariant holds in every state of every shell on every input.
THEOREM Invariance == Spec => []IInv
<1>1. Init => IInv
  BY InitIInv
<1>2. IInv /\ [Next]_vars => IInv'
  BY NextIInv
<1> QED BY <1>1, <1>2, PTL DEF Spec

\* (the loops' variables) Offsets, line numbers and return codes stay in their
\* ranges.
THEOREM TypeCorrect == Spec => []TypeOK
<1>1. IInv => TypeOK
  BY DEF IInv
<1> QED BY <1>1, Invariance, PTL

\* (the stores of the three parsers) Only a line beyond the documented limits
\* makes a shell write outside its arrays or lose its line buffer, for every
\* sequence of lines and every limit.
THEOREM MemoryIsSound == Spec => []MemorySound
<1>1. IInv => MemorySound
  BY DEF IInv, MemoryInv, Harmed, Bufferless, MemorySound
<1> QED BY <1>1, Invariance, PTL

\* (the ways out of the loops) A shell whose lines keep to the limits ends only
\* with the end of its input, an exit, two commands too many or a failing call,
\* whichever mallocs fail in the parser, and dies only for want of its buffer or
\* of the words of its first command, a first command without a word aside.
THEOREM EndsHaveCause == Spec => []EndHasCause
<1>1. IInv => EndHasCause
  BY DEF IInv
<1> QED BY <1>1, Invariance, PTL

-----------------------------------------------------------------------------
(* The shells as LineLoop. *)

\* The effect of what a line may mean is one.
LEMMA EffectTyped ==
    ASSUME NEW m, m.moves \in BOOLEAN, m.within \in BOOLEAN
    PROVE  EffectOf(m) \in LL!Effect
<1>1. Outcomes(m) \in SUBSET BOOLEAN
  BY DEF Outcomes
<1> QED BY <1>1 DEF EffectOf, LL!Effect

\* What a line may do, by the number it has.
LEMMA EffectsKnown ==
    ASSUME TypeOK
    PROVE  /\ Effects \in Seq(SUBSET LL!Effect) /\ Len(Effects) = Len(lines)
           /\ DOMAIN Effects = 1 .. Len(lines)
           /\ \A l \in 1 .. Len(lines) : Effects[l] = {EffectOf(m) : m \in Meanings(l)}
<1>1. /\ Len(lines) \in Nat /\ DOMAIN lines = 1 .. Len(lines)
      /\ \A l \in 1 .. Len(lines) : \A m \in Meanings(l) : LineFacts(program, lines[l], m)
  BY LinesKnown
<1>2. DOMAIN Effects = 1 .. Len(lines)
      /\ \A l \in 1 .. Len(lines) : Effects[l] = {EffectOf(m) : m \in Meanings(l)}
  BY <1>1 DEF Effects
<1>3. ASSUME NEW l \in 1 .. Len(lines), NEW m \in Meanings(l)
      PROVE  EffectOf(m) \in LL!Effect
  <2>1. m.moves \in BOOLEAN /\ m.within \in BOOLEAN
    BY <1>1 DEF LineFacts
  <2> QED BY <2>1, EffectTyped
<1>4. \A l \in 1 .. Len(lines) : Effects[l] \in SUBSET LL!Effect
  BY <1>2, <1>3
<1>5. Effects = [l \in 1 .. Len(lines) |-> Effects[l]]
  BY <1>1 DEF Effects
<1>6. Effects \in [1 .. Len(lines) -> SUBSET LL!Effect]
  <2> HIDE DEF Effects
  <2> QED BY <1>4, <1>5
<1> HIDE DEF Effects
<1> QED BY <1>1, <1>2, <1>6, FunctionIsSeq

\* The fields of an effect.
LEMMA EffectFields ==
    ASSUME NEW m
    PROVE  /\ EffectOf(m).moves = m.moves /\ EffectOf(m).harms = ~m.within
           /\ EffectOf(m).outcomes = Outcomes(m)
           /\ m.verdict = "run" /\ m.kind = "reader" => EffectOf(m).input = "eaten"
           /\ m.verdict = "run" /\ m.kind = "missing" /\ device = "file"
                 => EffectOf(m).input = "rewound"
BY DEF EffectOf

\* What the lines may do is settled at the start, and what one does when it is
\* taken.
LEMMA EffectsStay ==
    ASSUME UNCHANGED choiceVars
    PROVE  /\ UNCHANGED Effects
           /\ EffectOf(now)' = EffectOf(now')
           /\ now' = now => UNCHANGED EffectOf(now)
BY DEF choiceVars, Effects, EffectOf, Outcomes

\* The effect of the line being handled, as far as it ends the loop or not.
LEMMA LineEffect ==
    ASSUME IInv, pc \in {"parsed", "wait", "spin"}
    PROVE  /\ cur \in 1 .. Len(lines)
           /\ EffectOf(now).moves = now.moves
           /\ EffectOf(now).outcomes = Outcomes(now)
           /\ Verdict = now.verdict
           /\ now.moves \in BOOLEAN
           /\ now.moves => Verdict = "cd"
           /\ Phase = "busy"
<1>1. cur \in 1 .. Len(lines) /\ LineFacts(program, Line, now)
  BY LineKnown
<1>2. Phase = "busy"
  BY DEF Phase, Ended
<1> QED BY <1>1, <1>2, EffectFields DEF LineFacts, Verdict

\* The shell fills a buffer, runs a command or is caught in a loop: nothing that
\* LineLoop sees.
LEMMA LoopStutters ==
    ASSUME IInv, Start \/ Fill \/ Spin \/ Run \/ ChildEnds
    PROVE  UNCHANGED LL!vars
<1>1. UNCHANGED <<choiceVars, lineVars, cwd, input>>
  BY DEF Start, Fill, Spin, Run, ChildEnds, inputVars
<1>2. UNCHANGED <<Effects, EffectOf(now), Harmed>>
  BY <1>1, EffectsStay DEF choiceVars, lineVars, Harmed
<1>3. UNCHANGED Phase
  BY DEF Start, Fill, Spin, Run, ChildEnds, Phase, Ended
<1> QED BY <1>1, <1>2, <1>3 DEF LL!vars, lineVars

\* The next line is taken, in order.
LEMMA LoopTakes ==
    ASSUME IInv, TakeLine
    PROVE  LL!Next
<1> DEFINE l == Head(unread)
<1>1. /\ unread \in Seq(Numbers \ {0}) /\ unread # <<>> /\ Numbers \ {0} = 1 .. Len(lines)
      /\ cur \in Numbers /\ Len(lines) \in Nat
      /\ input \in {"own", "eaten", "rewound"}
  BY LinesKnown DEF IInv, TypeOK, TakeLine
<1>2. l = unread[1] /\ l \in Numbers \ {0} /\ 1 \in 1 .. Len(unread)
  BY <1>1, HeadTailProperties, EmptySeq
<1>3. l \in 1 .. Len(lines)
  BY <1>1, <1>2
<1>4. /\ cur' = l /\ taken' = taken \cup {l} /\ pc = "read" /\ pc' = "parsed"
      /\ now' \in Meanings(l)
      /\ UNCHANGED <<choiceVars, input, cwd>>
  BY DEF TakeLine, Parse
<1> HIDE DEF l
<1>5. (CASE input = "own"     -> l = cur + 1
         [] input = "eaten"   -> l > cur
         [] input = "rewound" -> TRUE)
  BY <1>1, <1>2 DEF IInv, OrderInv, Numbers
<1>6. Phase = "idle" /\ Phase' = "busy"
  BY <1>4 DEF Phase, Ended
<1>7. UNCHANGED Effects /\ EffectOf(now)' = EffectOf(now')
  BY <1>4, EffectsStay
<1>8. l \in DOMAIN Effects /\ EffectOf(now)' \in Effects[l]
      /\ EffectOf(now)'.harms = ~now'.within
  BY <1>3, <1>4, <1>7, EffectsKnown, EffectFields DEF IInv
<1>9. Harmed' = (Harmed \/ ~now'.within)
  <2>1. \A m \in Meanings(l) : m.within = now'.within
    BY <1>3, <1>4, LinesKnown DEF IInv, LineFacts
  <2>2. Harmed' <=> \E k \in taken \cup {l} : \E m \in Meanings(k) : ~m.within
    BY <1>4 DEF Harmed, choiceVars
  <2> QED BY <1>4, <2>1, <2>2 DEF Harmed
<1>10. LL!Take(l)
  BY <1>4, <1>5, <1>6, <1>8, <1>9 DEF LL!Take
<1> QED BY <1>7, <1>8, <1>10 DEF LL!Next

\* A line is finished, with nothing done or the directory changed.
LEMMA LoopFinishes ==
    ASSUME IInv, Answer \/ ChangeDirectory \/ Wait
    PROVE  LL!Next
<1>1. /\ pc \in {"parsed", "wait"} /\ pc' = "read"
      /\ UNCHANGED <<choiceVars, lineVars, input>>
      /\ Verdict \in {"none", "print", "limit", "cd", "run"}
      /\ cwd' = IF now.moves THEN "dir" ELSE cwd
  <2>1. CASE Answer
    BY <2>1, LineEffect DEF Answer, inputVars
  <2>2. CASE ChangeDirectory
    BY <2>2 DEF ChangeDirectory, inputVars
  <2>3. CASE Wait
    BY <2>3, LineEffect DEF Wait, inputVars, IInv, TakenInv
  <2> QED BY <2>1, <2>2, <2>3
<1>2. FALSE \in Outcomes(now)
  BY <1>1, LineEffect DEF Outcomes
<1>3. UNCHANGED <<Effects, EffectOf(now), Harmed>>
  BY <1>1, EffectsStay DEF Harmed, choiceVars, lineVars
<1>4. Phase' = "idle"
  BY <1>1 DEF Phase, Ended
<1>5. LL!Finish
  BY <1>1, <1>2, <1>3, <1>4, LineEffect DEF LL!Finish, lineVars
<1> QED BY <1>3, <1>5 DEF LL!Next

\* A line ends the loop.
LEMMA LoopLeaves ==
    ASSUME IInv, Leave \/ Refuse \/ Dereference
    PROVE  LL!Next
<1>1. /\ pc = "parsed" /\ pc' \in {"returned", "killed"}
      /\ UNCHANGED <<choiceVars, lineVars, input, cwd>>
      /\ Verdict \in {"exit", "refuse", "crash"}
  BY DEF Leave, Refuse, Dereference, Return, inputVars
<1>2. TRUE \in Outcomes(now)
  BY <1>1, LineEffect DEF Outcomes
<1>3. UNCHANGED <<Effects, EffectOf(now), Harmed>>
  BY <1>1, EffectsStay DEF Harmed, choiceVars, lineVars
<1>4. Phase' = "ended"
  BY <1>1 DEF Phase, Ended
<1>5. LL!Leave
  BY <1>1, <1>2, <1>3, <1>4, LineEffect DEF LL!Leave, lineVars
<1> QED BY <1>3, <1>5 DEF LL!Next

\* fork or pipe fails: the single-command shell ends, the others finish the line.
LEMMA LoopRunFails ==
    ASSUME IInv, RunFails
    PROVE  LL!Next
<1>1. /\ Faults /\ pc = "parsed" /\ Verdict = "run"
      /\ UNCHANGED <<choiceVars, lineVars, input, cwd>>
      /\ \/ program = "4-ShellP2" /\ pc' = "returned"
         \/ pc' = "read"
  BY DEF RunFails, Return, inputVars
<1>2. UNCHANGED <<Effects, EffectOf(now), Harmed>>
  BY <1>1, EffectsStay DEF Harmed, choiceVars, lineVars
<1>3. CASE program = "4-ShellP2" /\ pc' = "returned"
  <2>1. TRUE \in Outcomes(now)
    BY <1>1, <1>3, LineEffect DEF Outcomes
  <2>2. Phase' = "ended"
    BY <1>3 DEF Phase, Ended
  <2>3. LL!Leave
    BY <1>1, <1>2, <2>1, <2>2, LineEffect DEF LL!Leave, lineVars
  <2> QED BY <1>2, <2>3 DEF LL!Next
<1>4. CASE pc' = "read"
  <2>1. FALSE \in Outcomes(now)
    BY <1>1, LineEffect DEF Outcomes
  <2>2. Phase' = "idle"
    BY <1>4 DEF Phase, Ended
  <2>3. ~now.moves
    BY <1>1, LineEffect
  <2>4. LL!Finish
    BY <1>1, <1>2, <2>1, <2>2, <2>3, LineEffect DEF LL!Finish, lineVars
  <2> QED BY <1>2, <2>4 DEF LL!Next
<1> QED BY <1>1, <1>3, <1>4

\* malloc fails: the loop never begins.
LEMMA LoopNoMemory ==
    ASSUME IInv, NoMemory
    PROVE  [LL!Next]_LL!vars
<1>1. Faults /\ UNCHANGED <<choiceVars, lineVars, input, cwd>>
  BY DEF NoMemory, inputVars
<1>2. UNCHANGED <<Effects, EffectOf(now), Harmed>>
  BY <1>1, EffectsStay DEF Harmed, choiceVars, lineVars
<1>3. CASE program = "3-ShellP1"
  <2>1. pc = "start" /\ pc' = "read"
    BY <1>3 DEF NoMemory
  <2>2. UNCHANGED Phase
    BY <2>1 DEF Phase, Ended
  <2> QED BY <1>1, <1>2, <2>2 DEF LL!vars, lineVars
<1>4. CASE program # "3-ShellP1"
  <2>1. cur = 0 /\ pc = "start" /\ pc' = "returned"
    BY <1>4 DEF NoMemory, Return, IInv, StartInv
  <2>2. Phase = "idle" /\ Phase' = "ended"
    BY <2>1 DEF Phase, Ended
  <2>3. LL!Fail
    BY <1>1, <1>2, <2>1, <2>2 DEF LL!Fail, lineVars
  <2> QED BY <1>2, <2>3 DEF LL!Next
<1> QED BY <1>3, <1>4

\* The input ends, and was read to the end unless a child changed it.
LEMMA LoopEndOfInput ==
    ASSUME IInv, EndOfInput
    PROVE  LL!Next
<1>1. /\ pc = "read" /\ pc' = "returned" /\ unread = <<>> /\ offset = Len(lines)
      /\ UNCHANGED <<choiceVars, lineVars, input, cwd>>
  BY DEF EndOfInput, Return, inputVars
<1>2. UNCHANGED <<Effects, EffectOf(now), Harmed>>
  BY <1>1, EffectsStay DEF Harmed, choiceVars, lineVars
<1>3. Phase = "idle" /\ Phase' = "ended"
  BY <1>1 DEF Phase, Ended
<1>4. input = "own" => cur = Len(Effects)
  <2>1. Len(unread) = 0 /\ offset \in Int /\ cur \in Int
    BY <1>1, EmptySeq, LinesKnown DEF IInv, TypeOK, Numbers
  <2>2. Len(Effects) = Len(lines)
    BY EffectsKnown DEF IInv
  <2> QED BY <1>1, <2>1, <2>2 DEF IInv, OrderInv
<1>5. LL!EndOfInput
  BY <1>1, <1>2, <1>3, <1>4 DEF LL!EndOfInput, lineVars
<1> QED BY <1>2, <1>5 DEF LL!Next

\* The shell dies of the memory it spoilt, or of the buffer it lost or never had.
LEMMA LoopBreaks ==
    ASSUME IInv, NullRead \/ Corrupted
    PROVE  LL!Next
<1>1. /\ ~Ended /\ pc' = "killed"
      /\ UNCHANGED <<choiceVars, lineVars, input, cwd>>
  BY DEF NullRead, Corrupted, Ended, inputVars
<1>2. UNCHANGED <<Effects, EffectOf(now), Harmed>>
  BY <1>1, EffectsStay DEF Harmed, choiceVars, lineVars
<1>3. Phase # "ended" /\ Phase' = "ended"
  BY <1>1 DEF Phase, Ended, IInv, TypeOK
<1>4. CASE Harmed
  <2>1. LL!Break
    BY <1>1, <1>2, <1>3, <1>4 DEF LL!Break, lineVars
  <2> QED BY <1>2, <2>1 DEF LL!Next
<1>5. CASE ~Harmed
  <2>1. NullRead /\ cur = 0
    BY <1>5 DEF IInv, MemoryInv, Bufferless, TakenInv, NullRead, Corrupted
  <2>2. Phase = "idle"
    BY <2>1 DEF NullRead, Phase, Ended
  <2>3. LL!Fail
    BY <1>1, <1>2, <1>3, <2>1, <2>2 DEF LL!Fail, lineVars
  <2> QED BY <1>2, <2>3 DEF LL!Next
<1> QED BY <1>4, <1>5

\* A child's line was taken before: the shell was not yet set back, so it is one
\* of the lines up to the last.
LEMMA KidTaken ==
    ASSUME IInv, input # "rewound", NEW k \in kids
    PROVE  \E l \in 1 .. cur : \E m \in Meanings(l) :
              EffectOf(m) \in Effects[l] /\ m.verdict = "run" /\ m.kind = k.kind
<1>1. PICK l \in taken : \E m \in Meanings(l) : m.verdict = "run" /\ m.kind = k.kind
  BY DEF IInv, KidsInv
<1>2. l \in 1 .. cur /\ l \in 1 .. Len(lines)
  BY <1>1, LinesKnown DEF IInv, OrderInv, TypeOK
<1>3. Effects[l] = {EffectOf(m) : m \in Meanings(l)}
  BY <1>2, EffectsKnown DEF IInv
<1> QED BY <1>1, <1>2, <1>3

\* A command takes lines away from the shell.
LEMMA LoopChildReads ==
    ASSUME IInv, ChildReads
    PROVE  [LL!Next]_LL!vars
<1>1. /\ input' = IF input = "own" THEN "eaten" ELSE input
      /\ UNCHANGED <<choiceVars, pc, lineVars, cwd>>
  BY DEF ChildReads
<1>2. UNCHANGED <<Effects, EffectOf(now), Harmed, Phase>>
  BY <1>1, EffectsStay DEF Harmed, choiceVars, lineVars, Phase, Ended
<1>3. CASE input = "own"
  <2>1. PICK k \in kids : k.kind = "reader"
    BY DEF ChildReads
  <2>2. \E l \in 1 .. cur : \E e \in Effects[l] : e.input = "eaten"
    BY <1>3, <2>1, KidTaken, EffectFields
  <2>3. LL!Share("eaten")
    BY <1>1, <1>2, <1>3, <2>2 DEF LL!Share, lineVars
  <2> QED BY <1>2, <2>3 DEF LL!Next
<1>4. CASE input # "own"
  BY <1>1, <1>2, <1>4 DEF LL!vars, lineVars
<1> QED BY <1>3, <1>4

\* A command that cannot be executed sets the input back, or ends unnoticed.
LEMMA LoopExecFails ==
    ASSUME IInv, ExecFails
    PROVE  [LL!Next]_LL!vars
<1>1. UNCHANGED <<choiceVars, pc, lineVars, cwd>>
  BY DEF ExecFails
<1>2. UNCHANGED <<Effects, EffectOf(now), Harmed, Phase>>
  BY <1>1, EffectsStay DEF Harmed, choiceVars, lineVars, Phase, Ended
<1>3. PICK k \in kids :
         /\ k.kind = "missing"
         /\ \/ device = "file" /\ input' = "rewound"
            \/ UNCHANGED input
  BY DEF ExecFails
<1>4. CASE UNCHANGED input
  BY <1>1, <1>2, <1>4 DEF LL!vars, lineVars
<1>5. CASE input # "rewound" /\ device = "file" /\ input' = "rewound"
  <2>1. \E l \in 1 .. cur : \E e \in Effects[l] : e.input = "rewound"
    BY <1>3, <1>5, KidTaken, EffectFields
  <2>2. LL!Share("rewound")
    BY <1>1, <1>2, <1>5, <2>1 DEF LL!Share, lineVars
  <2> QED BY <1>2, <2>2 DEF LL!Next
<1> QED BY <1>3, <1>4, <1>5

\* Every step of a shell and its children is a step of LineLoop or none.
LEMMA LoopStep == IInv /\ [Next]_vars => [LL!Next]_LL!vars
<1> SUFFICES ASSUME IInv, [Next]_vars PROVE [LL!Next]_LL!vars
  OBVIOUS
<1>1. CASE Shell
  BY <1>1, LoopStutters, LoopTakes, LoopEndOfInput, LoopBreaks, LoopFinishes, LoopLeaves
     DEF Shell, FirstShell, SingleCommandShell, PipelineShell, LocalMode, ReadLine
<1>2. CASE RunFails
  BY <1>2, LoopRunFails
<1>3. CASE NoMemory
  BY <1>3, LoopNoMemory
<1>4. CASE Corrupted
  BY <1>4, LoopBreaks
<1>5. CASE ChildReads
  BY <1>5, LoopChildReads
<1>6. CASE Child
  BY <1>6, LoopStutters, LoopExecFails DEF Child
<1>7. CASE UNCHANGED vars
  <2>1. UNCHANGED <<choiceVars, pc, lineVars, cwd, input>>
    BY <1>7 DEF vars, inputVars
  <2> QED BY <2>1, EffectsStay DEF LL!vars, choiceVars, lineVars, Harmed, Phase, Ended
<1> QED BY <1>1, <1>2, <1>3, <1>4, <1>5, <1>6, <1>7 DEF Next

\* (the loops as a whole) Every shell takes its lines as LineLoop says, for every
\* input on every device: each once and in order, none before the last one is
\* finished, except for what a command does to the input it shares.
THEOREM ImplementsLineLoop == Spec => LineLoopSpec
<1>1. Init => LL!Init
  <2> SUFFICES ASSUME Init PROVE LL!Init
    OBVIOUS
  <2>1. Effects \in Seq(SUBSET LL!Effect)
    BY InitIInv, EffectsKnown DEF IInv
  <2>4. EffectOf(now) \in LL!Effect
    <3>1. now.moves \in BOOLEAN /\ now.within \in BOOLEAN
      BY DEF Init, NoMeaning
    <3> QED BY <3>1, EffectTyped
  <2>2. Phase = "idle"
    BY DEF Init, Phase, Ended
  <2>3. ~Harmed
    BY DEF Init, Harmed
  <2> QED BY <2>1, <2>2, <2>3, <2>4 DEF Init, LL!Init
<1>2. IInv /\ [Next]_vars => [LL!Next]_LL!vars
  BY LoopStep
<1> QED BY <1>1, <1>2, Invariance, PTL DEF Spec, LL!Spec, LineLoopSpec
=============================================================================
