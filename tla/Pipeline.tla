------------------------------ MODULE Pipeline ------------------------------
(***************************************************************************)
(* One call of rsh_execute_pipeline (6-RShell/rsh_server.c), and, with     *)
(* Remote = FALSE, of execute_pipeline (5-ShellP3 and 6-RShell/dshlib.c),  *)
(* at the level of the system calls that decide who holds which end of     *)
(* which pipe: the parent creates N-1 pipes, forks N children, closes its  *)
(* copies of the ends and waits for the children in order; child i wires   *)
(* its standard input and output to the pipes i-1 and i, closes the other  *)
(* ends and becomes the command of stage i.                                *)
(*                                                                         *)
(* What the kernel does with a pipe (a bounded FIFO, end of input when no  *)
(* process holds a write end, SIGPIPE when no process holds a read end)    *)
(* and what an executed command does with its standard streams are         *)
(* external: the last section models them from how the code uses them.     *)
(***************************************************************************)
EXTENDS Integers

CONSTANTS
    N,                \* cmd->num_commands
    Items,            \* how much data the first command produces
    Cap,              \* how much data a pipe holds (the kernel's 64 KiB)
    Programs,         \* what the executed commands may be, see Init
    FailuresPossible, \* may pipe() and fork() fail?
    Remote            \* cli_sock # -1 : rsh_execute_pipeline

ASSUME NAssumption == N \in Nat \ {0}
ASSUME ItemsAssumption == Items \in Nat
ASSUME CapAssumption == Cap \in Nat \ {0}
ASSUME ProgramsAssumption == Programs \subseteq {"cat", "head", "missing"}
ASSUME FailuresAssumption == FailuresPossible \in BOOLEAN
ASSUME RemoteAssumption == Remote \in BOOLEAN

VARIABLES
    ppc,      \* the phase the parent is in
    pi,       \* i, the index of the loop of that phase
    rc,       \* what the call returns
    rd, wr,   \* [process -> the pipes whose read (write) end it holds in pipes[][]]
    fin, fout,\* [process -> what its standard input (output) refers to]
    cpc,      \* [stage -> where its child process is]
    cj,       \* [stage -> j, the index of the child's closing loop]
    status,   \* [stage -> how its process ended]
    prog,     \* [stage -> the program that argv[i][0] names]
    got, put  \* [stage -> the number of items it has read (written)]

parentVars == <<ppc, pi, rc>>
fdVars == <<rd, wr, fin, fout>>
childVars == <<cpc, cj, status>>
dataVars == <<got, put>>
vars == <<parentVars, fdVars, childVars, prog, dataVars>>

-----------------------------------------------------------------------------
Stages == 0 .. N - 1
Pipes  == 0 .. N - 2
Parent == -1
Procs  == Stages \cup {Parent}

\* What a standard stream may refer to, besides a pipe.
Terminal == -1
Socket   == -2
Closed   == -3
Streams  == Pipes \cup {Terminal, Socket, Closed}

ERR_EXEC_CMD == -6
ERR_PIPE     == -8
ERR_FORK     == -9
SetupErrors  == {ERR_PIPE, ERR_FORK}

\* The statuses waitpid reports, Running as long as there is none.
Running   == -1
Signalled == -2
ExecFailed == ERR_EXEC_CMD % 256
Statuses  == {Running, Signalled, 0, ExecFailed}

\* What the standard streams of stage i are meant to be.
StdinOf(i)  == IF i > 0 THEN i - 1 ELSE IF Remote THEN Socket ELSE Terminal
StdoutOf(i) == IF i < N - 1 THEN i ELSE IF Remote THEN Socket ELSE Terminal

Dead(i) == cpc[i] \in {"zombie", "reaped"}

HasReader(k) == \E p \in Procs : k \in rd[p] \/ fin[p] = k
HasWriter(k) == \E p \in Procs : k \in wr[p] \/ fout[p] = k

Init ==
    /\ ppc = IF N = 1 THEN "fork" ELSE "pipe"
    /\ pi = 0
    /\ rc = 0
    /\ rd = [p \in Procs |-> {}]
    /\ wr = [p \in Procs |-> {}]
    /\ fin  = [p \in Procs |-> IF p = Parent THEN Terminal ELSE Closed]
    /\ fout = [p \in Procs |-> IF p = Parent THEN Terminal ELSE Closed]
    /\ cpc = [i \in Stages |-> "unborn"]
    /\ cj = [i \in Stages |-> 0]
    /\ status = [i \in Stages |-> Running]
    /\ prog \in [Stages -> Programs]
    /\ got = [i \in Stages |-> 0]
    /\ put = [i \in Stages |-> 0]

-----------------------------------------------------------------------------
(***************************************************************************)
(* The parent.                                                             *)
(***************************************************************************)

\* Mutant of NextRound: a loop written with <= makes one round too many.
NextRoundTooMany(here, last, next) ==
    /\ ppc' = IF pi = last + 1 THEN next ELSE here
    /\ pi'  = IF pi = last + 1 THEN 0 ELSE pi + 1

\* The end of one round of a loop that runs to `last`.
NextRound(here, last, next) ==
    /\ ppc' = IF pi = last THEN next ELSE here
    /\ pi'  = IF pi = last THEN 0 ELSE pi + 1

Return(result) ==
    /\ ppc' = "returned"
    /\ rc' = result
    /\ pi' = pi

CreatePipe ==
    /\ ppc = "pipe"
    /\ rd' = [rd EXCEPT ![Parent] = @ \cup {pi}]
    /\ wr' = [wr EXCEPT ![Parent] = @ \cup {pi}]
    /\ NextRound("pipe", N - 2, "fork")
    /\ UNCHANGED <<rc, fin, fout, childVars, prog, dataVars>>

\* The early return leaves the pipes made so far open in the parent.
PipeFails ==
    /\ FailuresPossible
    /\ ppc = "pipe"
    /\ Return(ERR_PIPE)
    /\ UNCHANGED <<fdVars, childVars, prog, dataVars>>

\* Mutant of Fork: the parent drops its ends of pipe pi as soon as child pi has
\* them, before child pi+1 is forked.
ForkAndClose ==
    /\ ppc = "fork"
    /\ cpc'  = [cpc EXCEPT ![pi] = "redirect"]
    /\ rd'   = [rd EXCEPT ![pi] = rd[Parent], ![Parent] = @ \ {pi}]
    /\ wr'   = [wr EXCEPT ![pi] = wr[Parent], ![Parent] = @ \ {pi}]
    /\ fin'  = [fin EXCEPT ![pi] = fin[Parent]]
    /\ fout' = [fout EXCEPT ![pi] = fout[Parent]]
    /\ NextRound("fork", N - 1, IF N = 1 THEN "wait" ELSE "close")
    /\ UNCHANGED <<rc, cj, status, prog, dataVars>>

\* The child starts with a copy of every descriptor of the parent.
Fork ==
    /\ ppc = "fork"
    /\ cpc'  = [cpc EXCEPT ![pi] = "redirect"]
    /\ rd'   = [rd EXCEPT ![pi] = rd[Parent]]
    /\ wr'   = [wr EXCEPT ![pi] = wr[Parent]]
    /\ fin'  = [fin EXCEPT ![pi] = fin[Parent]]
    /\ fout' = [fout EXCEPT ![pi] = fout[Parent]]
    /\ NextRound("fork", N - 1, IF N = 1 THEN "wait" ELSE "close")
    /\ UNCHANGED <<rc, cj, status, prog, dataVars>>

\* The early return leaves the pipes open and the children that exist unwaited.
ForkFails ==
    /\ FailuresPossible
    /\ ppc = "fork"
    /\ Return(ERR_FORK)
    /\ UNCHANGED <<fdVars, childVars, prog, dataVars>>

\* Mutant of CloseInParent: the write ends stay open.
CloseReadEndsOnly ==
    /\ ppc = "close"
    /\ rd' = [rd EXCEPT ![Parent] = @ \ {pi}]
    /\ NextRound("close", N - 2, "wait")
    /\ UNCHANGED <<rc, wr, fin, fout, childVars, prog, dataVars>>

CloseInParent ==
    /\ ppc = "close"
    /\ rd' = [rd EXCEPT ![Parent] = @ \ {pi}]
    /\ wr' = [wr EXCEPT ![Parent] = @ \ {pi}]
    /\ NextRound("close", N - 2, "wait")
    /\ UNCHANGED <<rc, fin, fout, childVars, prog, dataVars>>

\* WIFEXITED and WEXITSTATUS of the last status; execute_pipeline is void.
ResultOf(s) ==
    IF ~Remote THEN 0 ELSE IF s = Signalled THEN ERR_EXEC_CMD ELSE s

\* Mutant of Wait: wait for the last command only.
WaitForLast ==
    /\ ppc = "wait"
    /\ cpc[N - 1] = "zombie"
    /\ cpc' = [cpc EXCEPT ![N - 1] = "reaped"]
    /\ Return(ResultOf(status[N - 1]))
    /\ UNCHANGED <<fdVars, cj, status, prog, dataVars>>

Wait ==
    /\ ppc = "wait"
    /\ cpc[pi] = "zombie"
    /\ cpc' = [cpc EXCEPT ![pi] = "reaped"]
    /\ IF pi = N - 1
       THEN Return(ResultOf(status[pi]))
       ELSE ppc' = ppc /\ pi' = pi + 1 /\ rc' = rc
    /\ UNCHANGED <<fdVars, cj, status, prog, dataVars>>

-----------------------------------------------------------------------------
(***************************************************************************)
(* A child, up to and including execvp.                                    *)
(***************************************************************************)

\* Mutants of Redirect: one of the two dup2 calls is missing, its close is not.
RedirectInputOnly(i) ==
    /\ cpc[i] = "redirect"
    /\ fin' = [fin EXCEPT ![i] = StdinOf(i)]
    /\ rd'  = [rd EXCEPT ![i] = @ \ {i - 1}]
    /\ wr'  = [wr EXCEPT ![i] = @ \ {i}]
    /\ cpc' = [cpc EXCEPT ![i] = "close"]
    /\ UNCHANGED <<parentVars, fout, cj, status, prog, dataVars>>

RedirectOutputOnly(i) ==
    /\ cpc[i] = "redirect"
    /\ fout' = [fout EXCEPT ![i] = StdoutOf(i)]
    /\ rd'   = [rd EXCEPT ![i] = @ \ {i - 1}]
    /\ wr'   = [wr EXCEPT ![i] = @ \ {i}]
    /\ cpc'  = [cpc EXCEPT ![i] = "close"]
    /\ UNCHANGED <<parentVars, fin, cj, status, prog, dataVars>>

\* The dup2 calls and the close that follows each.  One step: a dup2 and the
\* close of its source leave the set of ends that the child holds as it was,
\* so no other process can tell them apart.
Redirect(i) ==
    /\ cpc[i] = "redirect"
    /\ fin'  = [fin EXCEPT ![i] = IF i > 0 THEN i - 1
                                  ELSE IF Remote THEN Socket ELSE @]
    /\ fout' = [fout EXCEPT ![i] = IF i < N - 1 THEN i
                                   ELSE IF Remote THEN Socket ELSE @]
    /\ rd' = [rd EXCEPT ![i] = @ \ {i - 1}]
    /\ wr' = [wr EXCEPT ![i] = @ \ {i}]
    /\ cpc' = [cpc EXCEPT ![i] = "close"]
    /\ UNCHANGED <<parentVars, cj, status, prog, dataVars>>

\* Mutant of CloseInChild: the write ends the child does not use stay open.
CloseReadEndInChild(i) ==
    /\ cpc[i] = "close"
    /\ cj[i] < N - 1
    /\ rd' = [rd EXCEPT ![i] = IF cj[i] # i - 1 THEN @ \ {cj[i]} ELSE @]
    /\ cj' = [cj EXCEPT ![i] = @ + 1]
    /\ UNCHANGED <<parentVars, wr, fin, fout, cpc, status, prog, dataVars>>

\* One round of the loop that closes the ends the child has not closed yet.
CloseInChild(i) ==
    /\ cpc[i] = "close"
    /\ cj[i] < N - 1
    /\ rd' = [rd EXCEPT ![i] = IF cj[i] # i - 1 THEN @ \ {cj[i]} ELSE @]
    /\ wr' = [wr EXCEPT ![i] = IF cj[i] # i THEN @ \ {cj[i]} ELSE @]
    /\ cj' = [cj EXCEPT ![i] = @ + 1]
    /\ UNCHANGED <<parentVars, fin, fout, cpc, status, prog, dataVars>>

\* The end of a process closes everything it holds.
Exits(i, s) ==
    /\ cpc'    = [cpc EXCEPT ![i] = "zombie"]
    /\ status' = [status EXCEPT ![i] = s]
    /\ rd'     = [rd EXCEPT ![i] = {}]
    /\ wr'     = [wr EXCEPT ![i] = {}]
    /\ fin'    = [fin EXCEPT ![i] = Closed]
    /\ fout'   = [fout EXCEPT ![i] = Closed]
    /\ UNCHANGED <<parentVars, cj, prog, dataVars>>

Exec(i) ==
    /\ cpc[i] = "close"
    /\ cj[i] = N - 1
    /\ prog[i] # "missing"
    /\ cpc' = [cpc EXCEPT ![i] = "running"]
    /\ UNCHANGED <<parentVars, fdVars, cj, status, prog, dataVars>>

\* execvp returned: exit(ERR_EXEC_CMD), of which the parent sees the low byte.
ExecFails(i) ==
    /\ cpc[i] = "close"
    /\ cj[i] = N - 1
    /\ prog[i] = "missing"
    /\ Exits(i, ExecFailed)

-----------------------------------------------------------------------------
(***************************************************************************)
(* External: the executed commands and the pipes between them.  Stage 0    *)
(* makes Items items; the others copy their standard input to their        *)
(* standard output.  A "cat" does so until the end of its input, a "head"  *)
(* may stop whenever it likes, even before it has read anything.  A pipe   *)
(* is a FIFO and a stage holds at most one item between its read and its   *)
(* write, so counting the items is enough: the pipe k holds the items      *)
(* got[k+1]+1 .. put[k].                                                   *)
(***************************************************************************)
EndOfInput(i) ==
    IF i = 0 THEN got[i] = Items
             ELSE got[i] = put[i - 1] /\ ~HasWriter(i - 1)

Read(i) ==
    /\ cpc[i] = "running"
    /\ got[i] = put[i]
    /\ got[i] < (IF i = 0 THEN Items ELSE put[i - 1])
    /\ got' = [got EXCEPT ![i] = @ + 1]
    /\ UNCHANGED <<parentVars, fdVars, childVars, prog, put>>

Write(i) ==
    /\ cpc[i] = "running"
    /\ put[i] < got[i]
    /\ i < N - 1 => HasReader(i) /\ put[i] - got[i + 1] < Cap
    /\ put' = [put EXCEPT ![i] = @ + 1]
    /\ UNCHANGED <<parentVars, fdVars, childVars, prog, got>>

\* A write to a pipe that nobody can read kills the writer.
BrokenPipe(i) ==
    /\ cpc[i] = "running"
    /\ put[i] < got[i]
    /\ i < N - 1
    /\ ~HasReader(i)
    /\ Exits(i, Signalled)

\* read() returned 0: the command has done its work.
Finish(i) ==
    /\ cpc[i] = "running"
    /\ put[i] = got[i]
    /\ EndOfInput(i)
    /\ Exits(i, 0)

Quit(i) ==
    /\ cpc[i] = "running"
    /\ prog[i] = "head"
    /\ Exits(i, 0)

-----------------------------------------------------------------------------
Call == CreatePipe \/ PipeFails \/ Fork \/ ForkFails \/ CloseInParent \/ Wait

Child(i) == Redirect(i) \/ CloseInChild(i) \/ Exec(i) \/ ExecFails(i)

Command(i) == Read(i) \/ Write(i) \/ BrokenPipe(i) \/ Finish(i) \/ Quit(i)

\* The call has returned and no process of it is left.
Over ==
    /\ ppc = "returned"
    /\ \A i \in Stages : cpc[i] \in {"unborn", "zombie", "reaped"}
    /\ UNCHANGED vars

Next == Call \/ (\E i \in Stages : Child(i) \/ Command(i)) \/ Over

Spec == Init /\ [][Next]_vars

\* Every process is scheduled, and a command goes on as long as it can: it
\* reads what is there, writes where there is room, ends at end of input.
Fairness ==
    /\ WF_vars(Call)
    /\ \A i \in Stages : WF_vars(Child(i)) /\ WF_vars(Command(i))

FairSpec == Spec /\ Fairness

-----------------------------------------------------------------------------
TypeOK ==
    /\ ppc \in {"pipe", "fork", "close", "wait", "returned"}
    /\ pi \in Stages
    /\ rc \in Statuses \cup SetupErrors \cup {ERR_EXEC_CMD}
    /\ rd \in [Procs -> SUBSET Pipes]
    /\ wr \in [Procs -> SUBSET Pipes]
    /\ fin \in [Procs -> Streams]
    /\ fout \in [Procs -> Streams]
    /\ cpc \in [Stages -> {"unborn", "redirect", "close", "running",
                           "zombie", "reaped"}]
    /\ cj \in [Stages -> 0 .. N - 1]
    /\ status \in [Stages -> Statuses]
    /\ prog \in [Stages -> Programs]
    /\ got \in [Stages -> 0 .. Items]
    /\ put \in [Stages -> 0 .. Items]
-----------------------------------------------------------------------------
(***************************************************************************)
(* Properties.                                                             *)
(***************************************************************************)

\* Wiring: a command starts with its standard streams on the two pipes next to
\* it and with no other end of any pipe; one write end too many and a later
\* stage waits for the end of its input for ever (the dup2 calls and the two
\* close loops, whatever the order the processes run in).
StreamsWired ==
    \A i \in Stages : cpc[i] = "running" =>
        /\ rd[i] = {} /\ wr[i] = {}
        /\ fin[i] = StdinOf(i) /\ fout[i] = StdoutOf(i)

\* A "cat" that ended well had read everything the stage before it ever wrote,
\* and that stage had ended: no stage takes a slow start of its neighbour for
\* the end of the input (every child is forked before the parent closes).
EndOfInputSound ==
    \A i \in Stages : status[i] = 0 /\ prog[i] = "cat" =>
        /\ put[i] = got[i]
        /\ IF i = 0 THEN got[i] = Items ELSE Dead(i - 1) /\ got[i] = put[i - 1]

\* A command dies of SIGPIPE only when the command after it has ended, never
\* because that one has not been forked or has not redirected its input yet.
BrokenPipeSound ==
    \A i \in Stages : status[i] = Signalled => i < N - 1 /\ Dead(i + 1)

\* A call that sets everything up returns the result of the last command, when
\* no child of it is left, not even as a zombie, and holds no end of a pipe.
CleanReturn ==
    ppc = "returned" /\ rc \notin SetupErrors =>
        /\ rc = ResultOf(status[N - 1])
        /\ \A i \in Stages : cpc[i] = "reaped"
        /\ rd[Parent] = {} /\ wr[Parent] = {}

\* When every command is a "cat", a call that sets everything up delivers all of
\* the first command's data before it returns: the end-of-output mark that the
\* server sends next comes after the last byte of the output.
WholeOutput ==
    ppc = "returned" /\ rc \notin SetupErrors
        /\ (\A i \in Stages : prog[i] = "cat")
        => put[N - 1] = Items

\* The pipeline is a chain of ideal channels between the stages.
Chain == INSTANCE StageChain
           WITH result <- IF ppc = "returned" THEN rc ELSE -100

ChainSpec == Chain!Spec

\* The call returns, whichever command stops reading first: nobody waits for an
\* end of input or for room in a pipe that cannot come.
PipelineReturns == <>(ppc = "returned")

\* questions.md of 5-ShellP3: the shell does not go on before every child of the
\* pipeline has terminated.
WaitsForAll ==
    ppc = "returned" => \A i \in Stages : cpc[i] \in {"unborn", "zombie", "reaped"}
=============================================================================
