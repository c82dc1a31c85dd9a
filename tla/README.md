# Verification of the CS283 system programs

The repository holds the programs of a systems programming course: a string
utility (`1-C-Refresher`), a student database in a sparse file that independent
processes read and write (`2-StudentDB`), and a shell in four steps, from one that
only parses (`3-ShellP1`) over one that runs single commands (`4-ShellP2`) and one
that runs pipelines (`5-ShellP3`) to one that serves them over TCP (`6-RShell`).
This directory models them in TLA+, checks the models with TLC on small
instances, and proves with TLAPS, for instances of any size, every safety property
and every refinement that holds on these instances. Liveness stays with TLC.

All paths below are relative to `src/assignments/`.

## Inventory

| component | source | state | operations | model |
|---|---|---|---|---|
| pipeline execution | `6-RShell/rsh_server.c` 467-543, `5-ShellP3/dshlib.c` 209-263 | pipes, descriptors of parent and children, child processes and their status | create pipes, fork, redirect, close, exec, wait | `Pipeline`, `StageChain`, `PipelineProofs` |
| remote shell server | `6-RShell/rsh_server.c` 49-392 | the listening socket, the client being served, the request in the buffer | boot, accept, receive, parse, execute, send the mark, stop | `RShell`, `RShellProofs` |
| remote shell client | `6-RShell/rsh_cli.c` | its socket, the line typed, the answer awaited | connect, type and send, receive, leave | `RShell`, `RShellProofs` |
| student database | `2-StudentDB/sdbsc.c` | the file | add, delete, find, count, print, zero, compress (a stub) | `StudentDB`, `StudentTable`, `StudentDBProofs` |
| command parser | `6-RShell/rsh_server.c` 620-692, the loops in `5-ShellP3/dshlib.c`, `6-RShell/dshlib.c` and `4-ShellP2/dshlib.c`, `build_cmd_list` of `3-ShellP1/dshlib.c` | the array of argument vectors, `argc`, `num_commands` | split at pipes, skip spaces, quotes, terminate | `CmdParser`, checked in `MCText`; `ParserProofs`, `TextProofs` |
| local shell loop | `5-ShellP3/dshlib.c` 57-207 (`6-RShell/dshlib.c` is identical) | the line buffer, the arrays, stdio's buffer and the file offset, the working directory | read, parse, `exit`, `cd`, run a pipeline | `ShellLoop`, `LineLoop`, `ShellLoopProofs` |
| single-command shell | `4-ShellP2/dshlib.c` 54-187 | the same, one argument vector | read, parse, `exit`, `cd`, fork and exec | `ShellLoop`, `LineLoop`, `ShellLoopProofs` |
| first shell | `3-ShellP1/dshlib.c`, `dsh_cli.c` | the command list | read, parse, print | `ShellLoop`, `LineLoop`, `ShellLoopProofs` |
| string utility | `1-C-Refresher/stringfun.c` | a fixed buffer | set up, count, reverse, print words | `StringFun`, checked in `MCText`; `StringProofs` |
| shell entry points | `*/dsh_cli.c` | the parsed options | argument parsing, choice of the loop | `DshOptions`, checked in `MCText`; `TextProofs` |
| demos, `intro`, `syscalls`, starters | `src/demos`, `src/intro`, ... | none | teaching examples and skeletons | not modelled |

How they interact: the entry point of the shell calls the local loop, the server
or the client. The local loop and the server parse a line and hand the result to
the pipeline code. In the server the first command of the pipeline reads from,
and the last one writes to, the client's socket; when the pipeline has ended the
server appends the byte 0x04, on which the client relies to know that the answer
is complete. `exit` and `stop-server` are answered by closing the socket. The
commands of the student database share nothing but the file.

What is hard in them, and the properties that make each correct:

- *Pipelines.* Parent and children run concurrently and every pipe end exists in
  many copies. One copy too many and a reader waits for ever for the end of its
  input; one too few and a writer is killed by SIGPIPE. `fork` and `pipe` may
  fail half way. Correct means: each command has the right streams and no others;
  end of input and broken pipe mean what they say; the call returns, after all
  its children, with the status of the last command; and nothing is lost.
- *Remote shell.* TCP has no message boundaries; client and server must stay in
  step; either may go away at any time; one client is served while others wait.
  Correct means: requests are handled once and in order; a client at its prompt
  has seen everything; the server stops only for a reason; every session ends.
- *Student database.* No lock, several system calls per command. Correct means:
  records stay in their slots; a scan is consistent with what was there; a
  command behaves as if it took effect at one moment.
- *Shell loops.* Standard input is shared: its offset with the children, its
  lines with stdio's buffer, of which a fork makes a second copy. What one line
  leaves behind in the arrays meets the next one. Correct means: lines are taken
  once, in order, each finished before the next; the loop ends, and for a reason;
  only a line beyond the documented limits does harm.
- *Parsers and texts.* Arrays of nine pointers filled from lines of up to 255
  bytes; a buffer of 50. Correct means: the words are the words of the line, in
  every copy of the parser, and the bounds are kept.

## Pipeline

`Pipeline.tla` models `rsh_execute_pipeline` with `Remote = TRUE` and
`execute_pipeline` with `Remote = FALSE` (the same code without the socket).
There are N commands, stage i of 0..N-1, and pipe i joins stages i and i + 1.

- The parent is the actions `CreatePipe`, `Fork`, `CloseInParent` (one pair of
  closes per step) and `Wait`, with `PipeFails` and `ForkFails` for the early
  returns. `ppc` is its place, `pi` the loop counter `i`, `rc` the value returned.
- A child is `Redirect` (its `dup2` calls and the closes next to them),
  `CloseInChild` (one turn of the close loop) and `Exec` or `ExecFails`. After
  that it is the external program: `Read`, `Write`, `BrokenPipe`, `Finish`,
  `Quit`. Programs are three: `cat` copies to the end of its input, `head` may
  stop earlier, `missing` does not exist.
- `rd[p]` and `wr[p]` are the pipe ends process p has open, in any descriptor;
  `fin` and `fout` what its standard streams are. A pipe has a reader (writer)
  as long as some process has its end open: that is how `EndOfInput` and
  `BrokenPipe` are defined, as in pipe(7). What is in pipe i is
  `put[i] - got[i + 1]`, at most `Cap`.
- Stage 0 is a source of `Items` items: what the first command reads from the
  client's socket or the terminal is not modelled. Output to the terminal, the
  socket and stderr is counted or left out, never read.

`StageChain.tla` is the abstract specification: N stages, N - 1 ideal bounded
channels, no descriptor, fork, dup2 or close. `Pipeline` implements it
(`ChainSpec`).

| property | what it says |
|---|---|
| `TypeOK` | the types of the variables |
| `StreamsWired` | an executed command has the streams of its place and no other pipe end |
| `EndOfInputSound` | a `cat` that ended at the end of its input had a predecessor that had ended and had left nothing unread |
| `BrokenPipeSound` | a command killed by SIGPIPE had a successor that had ended |
| `CleanReturn` | unless the setup failed, the call returns the last command's status, every child reaped and every end closed |
| `WholeOutput` | a pipeline of `cat`s delivers everything |
| `ChainSpec` | the pipeline implements the chain of stages |
| `PipelineReturns` | unless a `pipe` or `fork` fails, the call returns (liveness) |

*Run* `pipeline` (N = 3, three items, pipes of two, all mixes of programs,
failing calls; 47,148 states). Three stages have a first, a middle and a last
one, which are the three cases of the code; three items through pipes of two
make writers block. *Run* `pipeline_orphans` is a disagreement: after a failed
`fork` the function returns while earlier children run, although `questions.md`
says that the shell waits for all of them.

Fairness: weak fairness of the parent and of each child, the scheduler's. A
command that may run is not stopped for ever; a `cat` reads and writes when it
can. Nothing is assumed of `head` beyond its ending.

### Proofs

`PipelineProofs.tla` proves, for every N, Items and Cap and every mix of
programs, `TypeCorrect`, `Wiring`, `EndOfInputCorrect`, `BrokenPipeCorrect`,
`ReturnCorrect`, `Delivery` and `ImplementsChain`. Only the assumptions on the
constants that `Pipeline` names are used.

None of the properties is inductive. Why a `cat` may believe the end of its input
depends on which process may still hold a write end, and that on how far the
fork loop, every close loop and the parent's close loop have come. The inductive
invariant `IInv` says it for each place of each process: which ends it holds, by
its position in its loops; that a stage not forked yet holds none, and that the
parent holds all of them meanwhile; that `got` and `put` are ordered along the
chain; and how each ended stage ended. `WriterAlive` and `ReaderAlive` are the
lemmas that turn this into the statement about pipes: until the stage before has
ended, somebody has the write end open (and the same for the reader). There is
one lemma per action that the invariant is preserved, `NextIInv` puts them
together, and the properties follow from `IInv` state by state.
`ImplementsChain` takes each action under `IInv` to a step of `StageChain` or to a
stutter.

## Remote shell

`RShell.tla` models any number of clients, one server and their connections.

- Server: `srv` is its place (`down`, `accept`, `recv`, `parse`, `exec`, `mark`,
  `stopped`), `cur` the client behind `cli_socket`, `iobuff` what the last `recv`
  returned. One action per return value or branch: `Receive`, `ReceiveNothing`,
  `ReceiveFails`, then `Execute`, `ExitCommand`, `StopCommand`, `Reject` (the
  parser failed), `Crash` (`strcmp` of a null pointer, or an argv written past its
  end), then `SendEof` or `SendEofFails`. `Stop` is every way the server ends, up
  to the close of all of its sockets. After a store past an argv (`memory`) the
  server may also die later, when it next calls `malloc` or `free` (`Corrupted`).
- Client: `Connect`, `TypeLine` (fgets, strip the newline, send), `ReceiveResponse`
  (one `recv` and the look at its last byte), `NextLine`, `Leave`,
  `ServerExited`, and the error returns.
- Connection: `up` and `down` are byte streams; `cend` and `send` tell how each
  side finds the other's end: still open, FIN, reset. A reset comes of a close
  with unread bytes, or of bytes sent to a process that is gone (`ResetArrives`).
  Which of several errors a call reports after a reset depends on timing that is
  not modelled; the model allows all of them.
- A request is `Parts` cells. With 1, it arrives whole; with 2, `recv` may return
  a piece of it, and the server then takes the piece for a command.
- A user types a script (`Scripts`) and then Ctrl-D. A line is its kind: what the
  parser and the comparisons with `exit` and `stop-server` make of it. `rejected`
  stands for one with ten commands or more, `wide` for one with a command of nine
  words or more, `blank` for one whose first command has no word (spaces, or a
  quote that is never closed), `pipes` for one without a command (`NoCommand`).
- The parser's own `malloc` calls may fail (`MayFail`): without the array for the
  next command a line is rejected, without the block for a word the word is
  skipped and nobody notices. `Crippled` has the kinds a line may be taken for
  then, `exit` and `blank` among them. Bound: `Losses` such requests in a behaviour.
  `heard` records what each request was taken for.
- The pipeline that executes a command is what it writes to the socket. The first
  command's standard input is the client's socket: a `reader` takes what the
  client has sent (`CommandReads`) and ends only with the connection
  (`CommandInputEnds`). Children left behind by a failed `fork` that keep the
  socket open are not modelled here.

| property | what it says |
|---|---|
| `TypeOK` | the types, and which variables mean something where |
| `InSync` | at the prompt, no byte is under way and the server has handled everything |
| `OnceInOrder` | requests are handled one by one, once each, in order |
| `StopHasCause` | the server returns `OK_EXIT` only when told to stop; if every line is proper and reached it whole, no command makes it return an error and only a client that went away can kill it |
| `NoticeTrue` | "server appeared to terminate" is true, except after `exit`, or when the server lost words and found an `exit` in the rest |
| `SessionEnds` | every client comes to its end, unless a command waits for input from the client that waits for it (liveness) |

`InSync` and `OnceInOrder` are about sessions without output that contains the
mark (`Plain`): with it `InSync` does not hold, the client takes a 0x04 at the end of
what one `recv` returned for the end of the answer. The model includes such
commands in every run, so that the other properties are checked with them.

*Run* `rshell`: two clients, eight scripts each, a backlog of one, killed
clients, failing `malloc`, `listen` and `accept`, one request that the parser lost
words of (835,718 states). Two clients are enough for one to be served while the
other waits, and to be reset in the backlog when the server stops.

The exception in `SessionEnds` is a deadlock of the code: `cat` typed by a client
reads the client's socket, the client waits for the mark, the server for `cat`,
and everybody else for the server, until that client dies. `StuckOnInput` names
exactly this state, so that any other way to get stuck violates the property.

`StopHasCause` says nothing of a server that got an improper line (`Proper`): what
such a line does to it is the subject of run `rshell_bad_line`.

Fairness: weak fairness of the server (with the command it executes, which writes
what it has to write and ends) and of each client. A user who never types again
starves the others, in the code and without this fairness in the model.

Disagreements with what the repository says, each found by a run of its own:

- `rshell_empty_line`: an empty line sends nothing, and both sides wait for ever;
  `rsh_cli.c` says the command is sent null-terminated.
- `rshell_cut_request`: a request that arrives in pieces is executed piece by
  piece; `readme.md` says to collect up to the end-of-stream character.
- `rshell_bad_line`: a blank line or one the parser rejects ends the server, for
  all clients; the comment at `rsh_server.c` 238-247 has `exit` and `stop-server`
  as the only ways out of the loop, and only `stop-server` as one that stops the
  server.

### Proofs

`RShellProofs.tla` proves `TypeCorrect`, `HandledOnceInOrder`, `PromptInSync`,
`EndHasCause` and `ExitNoticeTrue` for any clients, any scripts, any backlog, any
number of pieces per request, any amount of output and any number of lines whose
words the parser lost, with and without faults.
It assumes what `RShell` names: `NoClient` is no client, scripts are sequences of
kinds of lines, a request has at least one cell and the backlog at least one
place.

Neither `OnceInOrder` nor `InSync` is inductive. That the next request is the one
expected depends on nothing being left of an earlier one: in the stream, in
`io_buff`, in the answer. The invariant `IInv` follows the request of each client:

- `BacklogInv`, `QueueInv`: a client is in the backlog once or is being served,
  not both; the server holds the socket of a live client that has not been closed;
- `ClientInv`, `CellsInv`: a line that ends a session is the last one sent; every
  cell under way belongs to a request that was sent;
- `RequestInv`, `TalkInv`, for sessions without output that contains the mark: at
  most the last request is unhandled, it is in one place only, and a client that
  waits is in one of four situations: its request is on the way (`Asked`), was
  executed and the mark is not sent (`Executed`), the mark is sent (`Marked`), or
  the connection is closed (`Closed`). A client at its prompt is `AtRest`;
- `NoticeInv`: a live client that finds its connection closed by a running server
  has said `exit`, or the parser lost words of one of its lines and took a line for
  `exit`;
- `MemoryInv`: the heap is spoilt only after a command with more words than the
  arrays of the server have room for.

`StopHasCause` and `NoticeTrue` hold for all sessions, also those in which the
output contains the mark.

## Student database

`StudentDB.tla` models each command as a process that opens the file and works on
it with system calls, one per step, interleaved with those of the others. A
record is two cells, its id and the rest. That is as much as is needed to tell a
short write from a whole one, and the comparison of 4 bytes that find, add and
print make from that of 64 that delete and count make. The offset `id * 64`
wraps around as an `int` (`Slot`, with the width scaled down to `Wrap` records).
`Faults` adds kills between any two steps, failing system calls and short writes.
A single read or write is atomic, as it is for 64 aligned bytes of one page.

`StudentTable.tla` is the abstract specification: a table of students to which
each command is applied at one moment. `StudentDB` implements it (`TableSpec`)
when users keep conflicting commands apart (`Exclusive`): two that write one
student, or a delete and a zero. Everything else may overlap. A delete or find
of a student who is not there may, in the abstract specification, end with an
error or a crash: that is what the code does past the end of the file.

| property | what it says |
|---|---|
| `TypeOK` | the types, and that nothing is stored past the end of the file |
| `Slotted` | a record is in the slot of its id, slot 0 is empty |
| `ScanSound` | count and print report everyone who was there all the time and nobody who never was |
| `TableSpec` | commands take effect as if each ran at one moment; a short write spoils its own record only |
| `CommandsEnd` | every command ends (liveness, under the fairness of the scheduler) |

*Run* `studentdb`: three processes, one that writes, one that does anything and
one that looks or adds; two ids, of which one is the end of the file; every
file that two ids can make at the start (693,405 states). *Run* `studentdb_adds`:
without `Exclusive`, two adds of one student both succeed.

Without a run of its own: deleting a student whose slot is past the end of the file
crashes (`DelShortRead`: `printf(ERR_DB_OP)` at `sdbsc.c:179`), where the comment at
`sdbsc.c:163` promises `M_STD_NOT_FND_MSG`.

Initialised bytes only: the bytes after the names' terminators, which
`add_student` leaves uninitialised, are written to the file and never looked at.

### Proofs

`StudentDBProofs.tla` proves `TypeCorrect`, `RecordsSlotted` and `ScansSound` for
any processes, any commands with any ids, any number of students, with and
without kills, failing calls and short writes, and whether or not users keep
conflicting commands apart. `SizesAssumption` says that the ids in range are fewer
than half of the offsets an `int` has, which holds of 100000 ids and 2^26 records.

The invariant `IInv` adds to these what a command may rely on between two of its
system calls: `FileInv`, half a record lies only at the end of the file and only
after a short write; `WriteInv`, the slot about to be written is inside the file's
range and, under `Exclusive`, still as the command read it; `ScanInv`, what a scan
has passed of the students that stayed it has reported, and nobody else; `Apart`,
commands that work at the same time do not conflict.

`ImplementsTable`: every step of the commands is a step of `StudentTable` or a
stutter. It has two hypotheses, and is false without either. `Exclusive`: run
`studentdb_adds` shows two adds that the table does not have. `NoAlias`: no id that
somebody deletes or looks up has an offset that wraps around to the slot of another
student (a `del 67108865` deletes student 1, in the code and in the model). Ids
from 0 to 2^26 satisfy it, and so do the commands of run `studentdb`, whose wrapped
offsets are negative for `find`.

## Parsers, strings, options

These parts are functions: text in, words or numbers out. They are operators over
sequences of cells, written with recursive functions, and `MCText`
checks them on every input up to a bound: a behaviour grows an input cell by
cell, and each invariant speaks about the input reached.

`CmdParser.tla`: `Tokens` is the scan of one command that three parsers share;
`parse_buffer_into_cmd` (server), `ParseLine` (5-ShellP3, 6-RShell), `ParseWords`
(4-ShellP2) and `build_cmd_list` (3-ShellP1) differ in what they do with
limits, pipes, quotes and errors. The server sets `rc` and goes on; the local
shell stops at the first error; the check of the number of commands comes before
the store and lets one too many in; that of the number of words looks only when
something follows. A word for which `malloc` has no block is skipped, and a line
without the array behind one of its commands is refused: `short` names the blocks
that are not there, and every parser is a function of the line and of `short`.
`StringFun.tla`: `setup_buff` character by character, with the
flag `is_valid_char` that is never reset and the check that is off by one, the
three services, and the exit statuses `main` may end with, which is a set: `-r` on a
string that overruns the block of its result may end with an abort of glibc
(`Aborted`, what the shell shows of SIGABRT), and either `malloc` with status 99. `DshOptions.tla`: `parse_args` option by option, and the loop that
`main` runs.

| property | what it says |
|---|---|
| `WordsFaithful` | the words of an accepted line are those of a definition without a scan (quoted spans found by an automaton), but for those malloc had no block for; no array is missing |
| `LimitsKept` | lines within the limits are accepted and stored within the arrays; two commands too many are refused |
| `ParsersAgree` | without quotes, all four parsers find the same words |
| `BufferFilled` | a string that fits is in the buffer with all of its words, every cell written, dots behind it |
| `ServicesAgree` | counting (from outside a word), reversing and printing agree on the words |
| `ReverseOverruns` | exactly which strings make `reverse_words` write past its buffer |
| `ServedOrReported` | status 0 only for a string that fits and with the blocks `malloc` is asked for; an abort only of `-r`, and for exactly the strings that overrun its block |
| `OptionsHonoured` | dsh runs exactly what the options, in their order, ask for |

*Run* `text`: lines of up to six cells of letter, space, pipe and two quotes,
strings of up to eight characters of two letters, space and tab, up to four
options (111,593 inputs). The arrays are scaled down with the inputs: `CMD_MAX` 1,
`ARG_MAX` 2, a buffer of six. A line of six cells has up to three commands or
words, one more than the arrays and the checks allow; a string of eight is two
longer than the buffer, past the off-by-one.

At most one block is missing at a time (`MaxLost`); each word is skipped on its own,
so that a second loss shows nothing new, and the proofs have any number.

*Run* `text_count`: `count_words` reads `in_word` before anything was stored in it
(`stringfun.c:98`), and with a `true` in it does not count the first word
(`WordsCounted`); `.directions/readme.md:53` asks for the number of words.

Where the code is not what its documents ask, as these definitions show it,
without a run of its own, and what the properties above therefore leave open:

- `setup_buff` keeps repeated blanks (`1-C-Refresher/.directions/readme.md:43`, and
  the comment at `stringfun.c:37`): `BufferFilled` compares words, not blanks;
- it lets one character more than `BUFFER_SZ` through before it returns -1 (`:51`),
  so that the services find the string too long: `BufferFilled` and `ServicesAgree`
  are about strings that fit;
- `-r` reverses the characters word by word and leaves the words in their order
  (`:14`, `:55`): `ServicesAgree` asks for each word backwards, in any order;
- a string that is too long ends with status 2, and a failed `malloc` with 99,
  where `:27` has 3 and 2: `ServedOrReported` only says that neither is 0;
- `build_cmd_list` cuts a name that is too long, where `3-ShellP1/dshlib.c:29`
  announces `ERR_CMD_OR_ARGS_TOO_BIG` (which it returns for null pointers only);
- a number of words beyond the array is stored, since the check compares with 256.

### Proofs

The eight properties are theorems for inputs of any length over the cells of the
run, for every `CMD_MAX`, every `ARG_MAX` above it, every `EXE_MAX` and every
`BUFFER_SZ`: the bounds of `MCText` are constants that no proof reads.

- `ParserProofs.tla` has what the scan does to any text: it goes forward and ends
  (`ScanUnfolds`), what its fields and tokens are made of, how many there can be,
  which text has no word (`WordsFound`), and what each parser returns.
- `TextProofs.tla` proves `FaithfulWords` (`WordsAreSpans`: the words of the scan
  are those of the reference, which decides for each position by itself whether it
  begins a word), `KeptLimits`, `AgreeingParsers` and `HonouredOptions`.
- `StringProofs.tla` proves `FilledBuffer`, `ServedStrings`, `OverrunsKnown` and
  `AgreeingServices`.

All of these are inductions over the text. They are made with sets: the positions
at which a claim fails have a least member (`LeastMember`), which contradicts the
step (`DownInduction`, `UpInduction`); so no fact with an operator as parameter is
needed. Each recursive definition has a lemma that unfolds it once. For the three
services the claim about a prefix says nothing of a word that is not over yet, so
its other half is about the rest of the text: what was found so far, together with
what the reference finds from here on, is what it finds in the whole
(`FieldsApart`, `ClosedStretch`).

## Shell loops

`ShellLoop.tla` models the four programs that read lines from standard input, one
of which a behaviour chooses with `program`, on a terminal, a pipe or a file
(`device`), with the lines it will find there (`lines`).

- A line goes from the input to stdio's buffer (`Fill`: one line of a terminal,
  some of a pipe, a chunk of a file) and from there to `_cmd_buffer` (`TakeLine`),
  the parser, and one of the actions `Answer`, `Leave`, `Spin` (3-ShellP1 continues
  without advancing), `ChangeDirectory`, `Refuse`, `Dereference` (a null pointer
  in `strcmp`), `Run`. `now` is what the parser and the comparisons make of the line
  at hand; that depends on the line and on the blocks `malloc` did not give
  (`Shortages`) only, and is computed once for each (`MeaningsOf`). A word that was
  lost can change the verdict, and without the words of its first command a
  pipeline shell crashes on any line (`emptied`).
- Stores: `cbuf` is what `_cmd_buffer` points to, since the entry of the arrays
  one past the end lies over it: the line buffer, a block too small for long
  lines, or a null pointer for the next `fgets` (`NullRead`). `memory` is `spoilt`
  after any other store past an end; from then on the program goes on or dies
  (`Corrupted`).
- Children: `kids` are those that have the shell's standard input, each with the
  lines that stdio had buffered when it was forked. A reader takes lines away
  (`ChildReads`). One whose `exec` failed ends with `exit()`, which sets the shared
  offset of a file back by its copy of the buffer (`ExecFails`). After a failed
  `fork` a child may run on beside the shell (`RunFails`; bound: one at a time).
  `NoMemory` is a failing `malloc` before the loop, those in the parser are in
  `Shortages`.
- All lines count as equally long for the offset, and a line is what one `fgets`
  returns: longer lines, which it returns in pieces, are not modelled.

`LineLoop.tla` is the abstract specification: lines taken in order, each once and
finished before the next, except for what a command that was run does to the
shared input; no buffer, offset, child or array in it.

| property | what it says |
|---|---|
| `TypeOK` | the types |
| `MemorySound` | only a line beyond the documented limits makes a shell write outside its arrays or lose its buffer |
| `EndHasCause` | a shell whose lines keep to the limits returns only with its input, an `exit`, a failing call or two commands too many, and dies only when `malloc` gave no buffer or none of the words of its first command |
| `LineLoopSpec` | the four loops implement `LineLoop` |
| `ShellEnds` | a shell ends or spins on a nameless command, unless a child set its input back (liveness) |

`EndHasCause` leaves out a first command without a word (`Wordless`: a blank line, a
blank before the first pipe, a quote that is never closed): there a pipeline shell
calls `strcmp` with a null pointer at `5-ShellP3/dshlib.c:178`, where `:33` and
`:41` have `WARN_NO_CMDS`. The same comparison in the server's copy of the loop is
part of run `rshell_bad_line`.

*Run* `shells`: all four programs and three devices; no line, one of 24 kinds of
lines, all pairs, and all triples of the five that leave something behind; chunks
of two lines, every set of blocks that `malloc` may not give (376,713 states).
`CMD_MAX` is 2, so that lines of three and four commands or words are one and two
too many; pairs show what the first line leaves for the second, triples a child
that outlives its line and a buffer lost before a long line. *Run* `shell_rerun`:
two commands that do not exist, read from a file, are executed again for ever;
`3-ShellP1/dsh_cli.c` and `5-ShellP3/dshlib.c` say that the end of the input ends the
loop.

Without a run of its own: `3-ShellP1/dshlib.c:81` compares with `>`, so that a ninth
command is stored past the list (`ListStores`), where `:27` and `3-ShellP1/readme.md:140`
promise a message; `MemorySound` allows it as a line beyond the limits.

Fairness: weak fairness of the shell, whose input goes on or ends, and of its
children, which end. A child that reads need not read anything.

### Proofs

`ShellLoopProofs.tla` proves `TypeCorrect`, `MemoryIsSound`, `EndsHaveCause` and
`ImplementsLineLoop` for any programs, devices and chunks, any limits that the
parsers allow, and any inputs of lines shorter than `ARG_MAX` (what `fgets` is
asked for), with and without failing calls.

The invariant `IInv` says where a line may be on its way from the input to its end.
`OrderInv`: unless a child has set the input back, the lines in stdio's buffer come
after the one at hand, in order, and without a gap as long as nobody else reads;
`TakenInv`: which lines were taken, and that a shell in the middle of a line has
one; `MemoryInv`: an array or buffer is spoilt only after a line beyond the limits
(or, in the first shell, by a failed `malloc` at the start); `KidsInv`: every child
was forked for a line that was taken. Of the parsers the proof uses `LineFacts`
only, which follows from `ParserProofs` for every set of lost blocks: a line within
the limits is stored within the arrays, and each verdict says something true of the
line.

The proof found that a pipeline shell dies not only of a line without a word, but
also of one whose first command is a quote that is never closed, since such a token
is not stored (`Wordless`). The lines of run `shells` include both since.

The refinement takes each step to a step of `LineLoop` or a stutter; reading ahead
into stdio's buffer and forking are stutters, and what a child does to the input is
`Share`, which needs that the child's line was taken (`KidsInv`).

## Proved, checked, neither

| | proved for all constants | model-checked only |
|---|---|---|
| pipeline | types, wiring, end of input, broken pipe, return, delivery, refinement | `PipelineReturns` |
| remote shell | types, order, being in step, causes of the end, the notice | `SessionEnds` |
| student database | types, slots, scans; refinement under `Exclusive` and `NoAlias` | `CommandsEnd` |
| shell loops | types, arrays, causes of the end, refinement | `ShellEnds` |
| parsers, strings, options | all eight properties | |

The four liveness properties rest on fairness and ENABLED, which are outside what
the prover handles here; TLC checks them on the instances of the runs. The seven
runs that show a disagreement are traces, and there is nothing to prove of them.
The refinements are proved of `Spec`, without fairness: the abstract
specifications promise safety only. A theorem says no more than its model does;
what each model leaves out is in its section and below.

Not modelled: stdio's output buffers (a child of the server whose `exec` fails
flushes what the server had buffered), stderr, the text of messages, the
addresses and options of sockets, requests of several lines in a full `io_buff`,
lines longer than `fgets` takes, memory that is never freed, and descriptors that
a failed call leaves open in the server. The multi-threaded server and
`rsh_built_in_cmd` are not implemented or never called; the starters are stubs
and the demos single `main` functions that print. `del` and `find` of ids past 2^26
are not among the inputs of run `studentdb`.

## Plan

Done, in this order: `Pipeline` with its abstract chain and its proofs, the most
important behaviour; `RShell`; `StudentDB` with its abstract table; `CmdParser`,
`StringFun` and `DshOptions`; `ShellLoop` with the abstract `LineLoop`; commands that
read the socket in `RShell`.

The proofs followed in the order of the models: `PipelineProofs`, `RShellProofs`,
`StudentDBProofs`, `ParserProofs`, `ShellLoopProofs`, `TextProofs`, `StringProofs`.

What could come next:

1. Lines longer than `fgets` takes, in `ShellLoop`: each piece is executed as a
   line of its own. `InputsAssumption` would then speak of pieces.
2. stdio's output buffer in the server, of which a child whose `exec` fails writes
   a second copy to the client.
3. Descriptors that stay open in the server after a `pipe` or `fork` that failed,
   and with them a server that runs out of descriptors.
4. More than one request in `io_buff`, and `io_buff[recv_size]` when it is full.
