--------------------------- MODULE PipelineProofs ---------------------------
(***************************************************************************)
(* Safety of Pipeline for every number of commands, every amount of data   *)
(* and every capacity.  The inductive invariant says exactly which process *)
(* holds which end of which pipe at each place of the parent and of each   *)
(* child; from it follow the facts the pipe's end of input and SIGPIPE     *)
(* depend on: a stage that is not dead keeps its two ends open, itself or, *)
(* as long as it is not forked, through the parent.                        *)
(***************************************************************************)
EXTENDS Pipeline, TLAPS

\* What the parent holds and which children exist, phase by phase.
ParentInv ==
    /\ fin[Parent] = Terminal /\ fout[Parent] = Terminal
    /\ ppc = "pipe" =>
         /\ pi < N - 1
         /\ \A i \in Stages : cpc[i] = "unborn"
         /\ \A k \in Pipes : (k \in rd[Parent] <=> k < pi) /\ (k \in wr[Parent] <=> k < pi)
    /\ ppc = "fork" =>
         /\ \A i \in Stages : cpc[i] = "unborn" <=> i >= pi
         /\ rd[Parent] = Pipes /\ wr[Parent] = Pipes
    /\ ppc = "close" =>
         /\ pi < N - 1
         /\ \A i \in Stages : cpc[i] # "unborn"
         /\ \A k \in Pipes : (k \in rd[Parent] <=> k >= pi) /\ (k \in wr[Parent] <=> k >= pi)
    /\ ppc = "wait" =>
         /\ \A i \in Stages : cpc[i] # "unborn"
         /\ \A i \in Stages : i < pi => cpc[i] = "reaped"
         /\ rd[Parent] = {} /\ wr[Parent] = {}
    /\ ppc = "returned" =>
         \/ rc = ERR_PIPE /\ \A i \in Stages : cpc[i] = "unborn"
         \/ rc = ERR_FORK /\ rd[Parent] = Pipes /\ wr[Parent] = Pipes
         \/ /\ rc = ResultOf(status[N - 1])
            /\ \A i \in Stages : cpc[i] = "reaped"
            /\ rd[Parent] = {} /\ wr[Parent] = {}

\* What child i holds at each place of its way to execvp and after it.
ChildInv(i) ==
    /\ cpc[i] \in {"unborn", "zombie", "reaped"} =>
         rd[i] = {} /\ wr[i] = {} /\ fin[i] = Closed /\ fout[i] = Closed
    /\ cpc[i] = "redirect" =>
         rd[i] = Pipes /\ wr[i] = Pipes /\ fin[i] = Terminal /\ fout[i] = Terminal
    /\ cpc[i] = "close" =>
         /\ fin[i] = StdinOf(i) /\ fout[i] = StdoutOf(i)
         /\ \A k \in Pipes : /\ k \in rd[i] <=> k >= cj[i] /\ k # i - 1
                             /\ k \in wr[i] <=> k >= cj[i] /\ k # i
    /\ cpc[i] = "running" =>
         rd[i] = {} /\ wr[i] = {} /\ fin[i] = StdinOf(i) /\ fout[i] = StdoutOf(i)
    /\ cpc[i] \in {"unborn", "redirect"} => cj[i] = 0
    /\ cpc[i] \in {"unborn", "redirect", "close"} => got[i] = 0 /\ put[i] = 0
    /\ status[i] = Running <=> ~Dead(i)

\* No stage is ahead of the one before it, and no pipe holds more than Cap.
FlowInv(i) ==
    /\ put[i] <= got[i] /\ got[i] <= put[i] + 1
    /\ i > 0 => got[i] <= put[i - 1] /\ put[i - 1] - got[i] <= Cap

IInv ==
    /\ TypeOK
    /\ ParentInv
    /\ \A i \in Stages : ChildInv(i)
    /\ \A i \in Stages : FlowInv(i)
    /\ EndOfInputSound
    /\ BrokenPipeSound

-----------------------------------------------------------------------------
\* Where stages, pipes and the parent lie among the integers.
LEMMA Ranges ==
    /\ Parent \in Procs
    /\ \A i \in Stages : i \in Procs /\ i # Parent /\ i \in Int
    /\ \A k \in Pipes : k \in Stages /\ k \in Int
BY NAssumption DEF Procs, Stages, Pipes, Parent

\* A stage that is not dead keeps the write end of its output pipe open (the
\* dup2 to standard output; before the fork, the parent's copy).
LEMMA WriterAlive ==
    ASSUME IInv, NEW i \in Stages, i < N - 1, ~Dead(i),
           NEW b \in Stages, cpc[b] # "unborn"
    PROVE  HasWriter(i)
<1> USE NAssumption
<1> DEFINE Holds(p) == i \in wr[p] \/ fout[p] = i
<1>0. i \in Pipes /\ i \in Procs /\ Parent \in Procs
  BY DEF Stages, Pipes, Procs
<1>1. SUFFICES Holds(i) \/ Holds(Parent)
  BY <1>0 DEF HasWriter
<1>2. TypeOK /\ ParentInv /\ ChildInv(i)
  BY DEF IInv
<1>3. CASE cpc[i] = "unborn"
  BY <1>0, <1>2, <1>3 DEF TypeOK, ParentInv, Stages, Pipes
<1>4. CASE cpc[i] = "redirect"
  BY <1>0, <1>2, <1>4 DEF ChildInv
<1>5. CASE cpc[i] \in {"close", "running"}
  BY <1>0, <1>2, <1>5 DEF ChildInv, StdoutOf
<1> QED
  BY <1>2, <1>3, <1>4, <1>5 DEF TypeOK, Dead

\* A stage that is not dead keeps the read end of its input pipe open.
LEMMA ReaderAlive ==
    ASSUME IInv, NEW i \in Stages, i > 0, ~Dead(i),
           NEW b \in Stages, cpc[b] # "unborn"
    PROVE  HasReader(i - 1)
<1> USE NAssumption
<1> DEFINE Holds(p) == i - 1 \in rd[p] \/ fin[p] = i - 1
<1>0. i - 1 \in Pipes /\ i \in Procs /\ Parent \in Procs
  BY DEF Stages, Pipes, Procs
<1>1. SUFFICES Holds(i) \/ Holds(Parent)
  BY <1>0 DEF HasReader
<1>2. TypeOK /\ ParentInv /\ ChildInv(i)
  BY DEF IInv
<1>3. CASE cpc[i] = "unborn"
  BY <1>0, <1>2, <1>3 DEF TypeOK, ParentInv, Stages, Pipes
<1>4. CASE cpc[i] = "redirect"
  BY <1>0, <1>2, <1>4 DEF ChildInv
<1>5. CASE cpc[i] \in {"close", "running"}
  BY <1>0, <1>2, <1>5 DEF ChildInv, StdinOf
<1> QED
  BY <1>2, <1>3, <1>4, <1>5 DEF TypeOK, Dead

LEMMA InitIInv == Init => IInv
<1> SUFFICES ASSUME Init PROVE IInv
  OBVIOUS
<1> USE NAssumption, ItemsAssumption, CapAssumption
<1>1. TypeOK
  BY DEF Init, TypeOK, Stages, Procs, Pipes, Parent, Streams, Terminal, Closed,
         Statuses, Running
<1>2. ParentInv
  BY DEF Init, ParentInv, Stages, Procs, Pipes, Parent
<1>3. \A i \in Stages : ChildInv(i) /\ FlowInv(i)
  BY DEF Init, ChildInv, FlowInv, Dead, Stages, Procs, Parent, Running
<1>4. EndOfInputSound /\ BrokenPipeSound
  BY DEF Init, EndOfInputSound, BrokenPipeSound, Running, Signalled
<1> QED
  BY <1>1, <1>2, <1>3, <1>4 DEF IInv
-----------------------------------------------------------------------------
(***************************************************************************)
(* Every step keeps the invariant: first the parent's steps, which touch   *)
(* no data, then a child's, then a command's.                              *)
(***************************************************************************)
LEMMA CreatePipeIInv == IInv /\ CreatePipe => IInv'
<1> SUFFICES ASSUME IInv, CreatePipe PROVE IInv'
  OBVIOUS
<1> USE NAssumption DEF IInv
<1>1. pi \in Pipes
  BY DEF TypeOK, ParentInv, CreatePipe, Pipes, Stages
<1>2. pi' \in Stages /\ ppc' \in {"pipe", "fork"}
  BY <1>1 DEF TypeOK, CreatePipe, NextRound, Stages, Pipes
<1>3. rd' \in [Procs -> SUBSET Pipes] /\ wr' \in [Procs -> SUBSET Pipes]
  BY <1>1 DEF TypeOK, CreatePipe
<1>4. TypeOK'
  BY <1>2, <1>3 DEF TypeOK, CreatePipe, childVars, dataVars
<1>5. ParentInv'
  <2>1. \A k \in Pipes : /\ k \in rd'[Parent] <=> k < pi + 1
                         /\ k \in wr'[Parent] <=> k < pi + 1
    BY <1>1, Ranges DEF TypeOK, ParentInv, CreatePipe, Pipes
  <2>2. ppc' = "fork" => pi = N - 2 /\ pi' = 0 /\ rd'[Parent] = Pipes /\ wr'[Parent] = Pipes
    BY <1>1, <1>3, <2>1, Ranges DEF CreatePipe, NextRound, Pipes
  <2>3. ppc' = "pipe" => pi' = pi + 1 /\ pi' < N - 1
    BY <1>1 DEF CreatePipe, NextRound, Pipes
  <2> QED
    BY <1>1, <1>2, <2>1, <2>2, <2>3
       DEF ParentInv, CreatePipe, childVars, Stages, Pipes
<1>6. \A i \in Stages : rd'[i] = rd[i] /\ wr'[i] = wr[i]
  BY Ranges DEF TypeOK, CreatePipe
<1>7. \A i \in Stages : ChildInv(i)' /\ FlowInv(i)'
  BY <1>6 DEF ChildInv, FlowInv, CreatePipe, Dead, childVars, dataVars
<1>8. EndOfInputSound' /\ BrokenPipeSound'
  BY DEF EndOfInputSound, BrokenPipeSound, CreatePipe, Dead, childVars, dataVars
<1> QED
  BY <1>4, <1>5, <1>7, <1>8

LEMMA SetupFailsIInv == IInv /\ (PipeFails \/ ForkFails) => IInv'
<1> SUFFICES ASSUME IInv, PipeFails \/ ForkFails PROVE IInv'
  OBVIOUS
<1> USE DEF IInv, PipeFails, ForkFails, Return, fdVars, childVars, dataVars
<1>1. ppc' = "returned" /\ rc' \in SetupErrors
  BY DEF SetupErrors
<1>2. TypeOK'
  BY <1>1 DEF TypeOK
<1>3. ParentInv'
  BY <1>1 DEF ParentInv
<1>4. \A i \in Stages : ChildInv(i)' /\ FlowInv(i)'
  BY DEF ChildInv, FlowInv, Dead
<1>5. EndOfInputSound' /\ BrokenPipeSound'
  BY DEF EndOfInputSound, BrokenPipeSound, Dead
<1> QED
  BY <1>2, <1>3, <1>4, <1>5

LEMMA ForkIInv == IInv /\ Fork => IInv'
<1> SUFFICES ASSUME IInv, Fork PROVE IInv'
  OBVIOUS
<1> USE NAssumption DEF IInv
<1>1. /\ pi \in Stages /\ cpc[pi] = "unborn"
      /\ cpc' = [cpc EXCEPT ![pi] = "redirect"]
  BY DEF TypeOK, ParentInv, Fork, Stages
<1>2. /\ rd'[pi] = Pipes /\ wr'[pi] = Pipes
      /\ fin'[pi] = Terminal /\ fout'[pi] = Terminal
  BY <1>1, Ranges DEF TypeOK, ParentInv, Fork
<1>3. \A p \in Procs \ {pi} : /\ rd'[p] = rd[p] /\ wr'[p] = wr[p]
                              /\ fin'[p] = fin[p] /\ fout'[p] = fout[p]
  BY DEF TypeOK, Fork
<1>4. pi' \in Stages /\ ppc' \in {"fork", "close", "wait"}
  BY <1>1 DEF TypeOK, Fork, NextRound, Stages
<1>5. TypeOK'
  <2>1. /\ rd' \in [Procs -> SUBSET Pipes] /\ wr' \in [Procs -> SUBSET Pipes]
        /\ fin' \in [Procs -> Streams] /\ fout' \in [Procs -> Streams]
    BY Ranges DEF TypeOK, Fork
  <2> QED
    BY <1>1, <1>4, <2>1 DEF TypeOK, Fork, dataVars
<1>6. ParentInv'
  <2>1. /\ fin'[Parent] = Terminal /\ fout'[Parent] = Terminal
        /\ rd'[Parent] = Pipes /\ wr'[Parent] = Pipes
    BY <1>1, <1>3, Ranges DEF ParentInv, Fork
  <2>0. \A i \in Stages : cpc'[i] = "unborn" <=> i >= pi + 1
    <3>1. \A i \in Stages : cpc'[i] = IF i = pi THEN "redirect" ELSE cpc[i]
      BY <1>1 DEF TypeOK
    <3>2. \A i \in Stages : cpc[i] = "unborn" <=> i >= pi
      BY DEF ParentInv, Fork
    <3> QED
      BY <1>1, <3>1, <3>2 DEF Stages
  <2>2. ppc' = "fork" => pi' = pi + 1
    BY DEF Fork, NextRound
  <2>3. ppc' \in {"close", "wait"} =>
          pi = N - 1 /\ pi' = 0 /\ \A i \in Stages : cpc'[i] # "unborn"
    BY <1>1, <2>0 DEF Fork, NextRound, Stages
  <2>4. ppc' = "close" => N > 1
    BY <1>1 DEF Fork, NextRound
  <2>5. ppc' = "wait" => Pipes = {}
    BY <1>1 DEF Fork, NextRound, Pipes
  <2> QED
    BY <1>4, <2>1, <2>0, <2>2, <2>3, <2>4, <2>5 DEF ParentInv, Pipes, Stages
<1>7. \A i \in Stages : Dead(i)' <=> Dead(i)
  BY <1>1 DEF TypeOK, Dead
<1>8. \A i \in Stages : ChildInv(i)' /\ FlowInv(i)'
  <2> SUFFICES ASSUME NEW i \in Stages PROVE ChildInv(i)' /\ FlowInv(i)'
    OBVIOUS
  <2>1. CASE i = pi
    BY <1>1, <1>2, <1>7, <2>1 DEF TypeOK, ChildInv, FlowInv, Fork, dataVars
  <2>2. CASE i # pi
    BY <1>1, <1>3, <1>7, <2>2, Ranges DEF TypeOK, ChildInv, FlowInv, Fork, dataVars
  <2> QED
    BY <2>1, <2>2
<1>9. EndOfInputSound' /\ BrokenPipeSound'
  BY <1>7, Ranges DEF EndOfInputSound, BrokenPipeSound, Fork, dataVars, Stages
<1> QED
  BY <1>5, <1>6, <1>8, <1>9

LEMMA CloseInParentIInv == IInv /\ CloseInParent => IInv'
<1> SUFFICES ASSUME IInv, CloseInParent PROVE IInv'
  OBVIOUS
<1> USE NAssumption DEF IInv
<1>1. pi \in Pipes
  BY DEF TypeOK, ParentInv, CloseInParent, Pipes, Stages
<1>2. pi' \in Stages /\ ppc' \in {"close", "wait"}
  BY <1>1 DEF TypeOK, CloseInParent, NextRound, Stages, Pipes
<1>3. rd' \in [Procs -> SUBSET Pipes] /\ wr' \in [Procs -> SUBSET Pipes]
  BY DEF TypeOK, CloseInParent
<1>4. TypeOK'
  BY <1>2, <1>3 DEF TypeOK, CloseInParent, childVars, dataVars
<1>5. ParentInv'
  <2>1. \A k \in Pipes : /\ k \in rd'[Parent] <=> k > pi
                         /\ k \in wr'[Parent] <=> k > pi
    BY <1>1, Ranges DEF TypeOK, ParentInv, CloseInParent, Pipes
  <2>2. ppc' = "wait" => pi = N - 2 /\ pi' = 0 /\ rd'[Parent] = {} /\ wr'[Parent] = {}
    BY <1>1, <1>3, <2>1, Ranges DEF CloseInParent, NextRound, Pipes
  <2>3. ppc' = "close" => pi' = pi + 1 /\ pi' < N - 1
    BY <1>1 DEF CloseInParent, NextRound, Pipes
  <2> QED
    BY <1>1, <1>2, <2>1, <2>2, <2>3
       DEF ParentInv, CloseInParent, childVars, Stages, Pipes
<1>6. \A i \in Stages : rd'[i] = rd[i] /\ wr'[i] = wr[i]
  BY Ranges DEF TypeOK, CloseInParent
<1>7. \A i \in Stages : ChildInv(i)' /\ FlowInv(i)'
  BY <1>6 DEF ChildInv, FlowInv, CloseInParent, Dead, childVars, dataVars
<1>8. EndOfInputSound' /\ BrokenPipeSound'
  BY DEF EndOfInputSound, BrokenPipeSound, CloseInParent, Dead, childVars, dataVars
<1> QED
  BY <1>4, <1>5, <1>7, <1>8

LEMMA WaitIInv == IInv /\ Wait => IInv'
<1> SUFFICES ASSUME IInv, Wait PROVE IInv'
  OBVIOUS
<1> USE NAssumption DEF IInv
<1>1. /\ pi \in Stages /\ cpc[pi] = "zombie" /\ ppc = "wait"
      /\ cpc' = [cpc EXCEPT ![pi] = "reaped"]
      /\ UNCHANGED <<fdVars, cj, status, prog, dataVars>>
  BY DEF TypeOK, Wait
<1>2. \/ ppc' = "wait" /\ pi < N - 1 /\ pi' = pi + 1 /\ rc' = rc
      \/ ppc' = "returned" /\ pi = N - 1 /\ pi' = pi /\ rc' = ResultOf(status[N - 1])
  BY <1>1 DEF Wait, Return, Stages
<1>3. TypeOK'
  <2>1. status[N - 1] \in Statuses
    BY DEF TypeOK, Stages
  <2>2. rc' \in Statuses \cup SetupErrors \cup {ERR_EXEC_CMD}
    BY <1>2, <2>1 DEF TypeOK, ResultOf, Statuses
  <2>3. pi' \in Stages /\ ppc' \in {"wait", "returned"}
    BY <1>1, <1>2 DEF Stages
  <2> QED
    BY <1>1, <2>2, <2>3 DEF TypeOK, fdVars, dataVars
<1>4. \A i \in Stages : /\ cpc'[i] = IF i = pi THEN "reaped" ELSE cpc[i]
                        /\ Dead(i)' <=> Dead(i)
  BY <1>1 DEF TypeOK, Dead
<1>5. ParentInv'
  BY <1>1, <1>2, <1>4 DEF ParentInv, fdVars, Stages
<1>6. \A i \in Stages : ChildInv(i)' /\ FlowInv(i)'
  BY <1>1, <1>4 DEF TypeOK, ChildInv, FlowInv, fdVars, dataVars
<1>7. EndOfInputSound' /\ BrokenPipeSound'
  BY <1>1, <1>4 DEF EndOfInputSound, BrokenPipeSound, Stages, dataVars
<1> QED
  BY <1>3, <1>5, <1>6, <1>7

-----------------------------------------------------------------------------
\* What a child does is of no concern to the parent's part of the invariant, as
\* long as the child exists, is not reaped and touches its own entries only.
LEMMA ParentInvKept ==
    ASSUME IInv, NEW i \in Stages, cpc[i] \notin {"unborn", "reaped"},
           UNCHANGED parentVars,
           cpc'[i] # "unborn",
           \A b \in Stages \ {i} : cpc'[b] = cpc[b] /\ status'[b] = status[b],
           rd'[Parent] = rd[Parent], wr'[Parent] = wr[Parent],
           fin'[Parent] = fin[Parent], fout'[Parent] = fout[Parent]
    PROVE  ParentInv'
<1> USE NAssumption
<1>1. ParentInv /\ TypeOK
  BY DEF IInv
<1>2. \A b \in Stages : /\ cpc'[b] = "unborn" <=> cpc[b] = "unborn"
                        /\ cpc[b] = "reaped" => cpc'[b] = "reaped" /\ status'[b] = status[b]
  OBVIOUS
<1>3. N - 1 \in Stages
  BY DEF Stages
<1>4. /\ fin'[Parent] = Terminal /\ fout'[Parent] = Terminal
      /\ ppc' = ppc /\ pi' = pi /\ rc' = rc
  BY <1>1 DEF ParentInv, parentVars
<1>5. CASE ppc \in {"pipe", "fork", "close"}
  BY <1>1, <1>2, <1>4, <1>5 DEF ParentInv
<1>6. CASE ppc = "wait"
  BY <1>1, <1>2, <1>4, <1>6 DEF ParentInv
<1>7. CASE ppc = "returned"
  BY <1>1, <1>2, <1>3, <1>4, <1>7 DEF ParentInv, ResultOf
<1> QED
  BY <1>1, <1>5, <1>6, <1>7 DEF TypeOK

\* The same for the other children.
LEMMA ChildInvKept ==
    ASSUME NEW i \in Stages, ChildInv(i),
           cpc'[i] = cpc[i], cj'[i] = cj[i], status'[i] = status[i],
           got'[i] = got[i], put'[i] = put[i],
           rd'[i] = rd[i], wr'[i] = wr[i], fin'[i] = fin[i], fout'[i] = fout[i]
    PROVE  ChildInv(i)'
BY DEF ChildInv, Dead, StdinOf, StdoutOf

LEMMA RedirectIInv ==
    ASSUME IInv, NEW i \in Stages, Redirect(i)
    PROVE  IInv'
<1> USE NAssumption DEF IInv
<1>1. i \in Procs /\ i # Parent /\ Parent \in Procs /\ cpc[i] = "redirect" /\ i \in Int
  BY Ranges DEF Redirect
<1>2. /\ rd'[i] = Pipes \ {i - 1} /\ wr'[i] = Pipes \ {i}
      /\ fin'[i] = StdinOf(i) /\ fout'[i] = StdoutOf(i)
  BY <1>1 DEF TypeOK, ChildInv, Redirect, StdinOf, StdoutOf
<1>3. /\ \A p \in Procs \ {i} : /\ rd'[p] = rd[p] /\ wr'[p] = wr[p]
                                /\ fin'[p] = fin[p] /\ fout'[p] = fout[p]
      /\ cpc'[i] = "close"
      /\ \A b \in Stages \ {i} : cpc'[b] = cpc[b]
      /\ UNCHANGED <<ppc, pi, rc, cj, status, prog, got, put>>
  BY DEF TypeOK, Redirect, parentVars, dataVars
<1>4. TypeOK'
  <2>1. StdinOf(i) \in Streams /\ StdoutOf(i) \in Streams
    BY <1>1 DEF StdinOf, StdoutOf, Streams, Pipes, Stages
  <2>2. /\ fin' = [fin EXCEPT ![i] = StdinOf(i)]
        /\ fout' = [fout EXCEPT ![i] = StdoutOf(i)]
    BY <1>1 DEF TypeOK, ChildInv, Redirect, StdinOf, StdoutOf
  <2>3. /\ fin' \in [Procs -> Streams] /\ fout' \in [Procs -> Streams]
        /\ rd' \in [Procs -> SUBSET Pipes] /\ wr' \in [Procs -> SUBSET Pipes]
    BY <1>1, <2>1, <2>2 DEF TypeOK, Redirect
  <2> QED
    BY <1>3, <2>3 DEF TypeOK, Redirect
<1>5. ParentInv'
  BY <1>1, <1>3, ParentInvKept DEF parentVars
<1>6. \A b \in Stages : Dead(b)' <=> Dead(b)
  BY <1>1, <1>3 DEF Dead
<1>7. ASSUME NEW b \in Stages PROVE ChildInv(b)'
  <2>1. CASE b = i
    <3>1. \A k \in Pipes : k >= 0
      BY DEF Pipes
    <3> QED
      BY <1>1, <1>2, <1>3, <1>6, <2>1, <3>1 DEF ChildInv
  <2>2. CASE b # i
    BY <1>3, <2>2, Ranges, ChildInvKept
  <2> QED
    BY <2>1, <2>2
<1>8. \A b \in Stages : FlowInv(b)'
  BY <1>3 DEF FlowInv
<1>9. EndOfInputSound' /\ BrokenPipeSound'
  BY <1>3, <1>6 DEF EndOfInputSound, BrokenPipeSound, Stages
<1> QED
  BY <1>4, <1>5, <1>7, <1>8, <1>9

LEMMA CloseInChildIInv ==
    ASSUME IInv, NEW i \in Stages, CloseInChild(i)
    PROVE  IInv'
<1> USE NAssumption DEF IInv
<1>1. i \in Procs /\ i # Parent /\ Parent \in Procs /\ cpc[i] = "close" /\ i \in Int
  BY Ranges DEF CloseInChild
<1>2. cj[i] \in Pipes /\ cj'[i] = cj[i] + 1 /\ cj' \in [Stages -> 0 .. N - 1]
  BY DEF TypeOK, CloseInChild, Pipes
<1>3. \A k \in Pipes : /\ k \in rd'[i] <=> k >= cj'[i] /\ k # i - 1
                       /\ k \in wr'[i] <=> k >= cj'[i] /\ k # i
  <2>1. \A k \in Pipes : /\ k \in rd[i] <=> k >= cj[i] /\ k # i - 1
                         /\ k \in wr[i] <=> k >= cj[i] /\ k # i
    BY <1>1 DEF ChildInv
  <2>2. /\ rd'[i] = IF cj[i] # i - 1 THEN rd[i] \ {cj[i]} ELSE rd[i]
        /\ wr'[i] = IF cj[i] # i THEN wr[i] \ {cj[i]} ELSE wr[i]
    BY <1>1 DEF TypeOK, CloseInChild
  <2> QED
    BY <1>1, <1>2, <2>1, <2>2, Ranges
<1>4. /\ \A p \in Procs \ {i} : rd'[p] = rd[p] /\ wr'[p] = wr[p]
      /\ \A b \in Stages \ {i} : cj'[b] = cj[b]
      /\ UNCHANGED <<ppc, pi, rc, fin, fout, cpc, status, prog, got, put>>
  BY DEF TypeOK, CloseInChild, parentVars, dataVars
<1>5. TypeOK'
  <2>1. rd' \in [Procs -> SUBSET Pipes] /\ wr' \in [Procs -> SUBSET Pipes]
    BY <1>1 DEF TypeOK, CloseInChild
  <2> QED
    BY <1>2, <1>4, <2>1 DEF TypeOK
<1>6. ParentInv'
  BY <1>1, <1>4, ParentInvKept DEF parentVars
<1>7. \A b \in Stages : Dead(b)' <=> Dead(b)
  BY <1>4 DEF Dead
<1>8. ASSUME NEW b \in Stages PROVE ChildInv(b)'
  <2>1. CASE b = i
    BY <1>1, <1>3, <1>4, <1>7, <2>1 DEF ChildInv
  <2>2. CASE b # i
    BY <1>4, <2>2, Ranges, ChildInvKept
  <2> QED
    BY <2>1, <2>2
<1>9. /\ \A b \in Stages : FlowInv(b)'
      /\ EndOfInputSound' /\ BrokenPipeSound'
  BY <1>4, <1>7 DEF FlowInv, EndOfInputSound, BrokenPipeSound, Stages
<1> QED
  BY <1>5, <1>6, <1>8, <1>9
LEMMA ExecIInv ==
    ASSUME IInv, NEW i \in Stages, Exec(i)
    PROVE  IInv'
<1> USE NAssumption DEF IInv
<1>1. /\ cpc[i] = "close" /\ cj[i] = N - 1 /\ cpc'[i] = "running"
      /\ \A b \in Stages \ {i} : cpc'[b] = cpc[b]
      /\ UNCHANGED <<ppc, pi, rc, rd, wr, fin, fout, cj, status, prog, got, put>>
  BY DEF TypeOK, Exec, parentVars, fdVars, dataVars
<1>2. rd[i] = {} /\ wr[i] = {}
  BY <1>1, Ranges DEF TypeOK, ChildInv, Pipes
<1>3. TypeOK'
  BY <1>1 DEF TypeOK, Exec
<1>4. ParentInv'
  BY <1>1, ParentInvKept DEF parentVars
<1>5. \A b \in Stages : Dead(b)' <=> Dead(b)
  BY <1>1 DEF Dead
<1>6. ASSUME NEW b \in Stages PROVE ChildInv(b)'
  <2>1. CASE b = i
    BY <1>1, <1>2, <1>5, <2>1 DEF ChildInv, StdinOf, StdoutOf
  <2>2. CASE b # i
    BY <1>1, <2>2, ChildInvKept
  <2> QED
    BY <2>1, <2>2
<1>7. /\ \A b \in Stages : FlowInv(b)'
      /\ EndOfInputSound' /\ BrokenPipeSound'
  BY <1>1, <1>5 DEF FlowInv, EndOfInputSound, BrokenPipeSound, Stages
<1> QED
  BY <1>3, <1>4, <1>6, <1>7

\* A process that ends, in whichever way, keeps the invariant if its status says
\* what EndOfInputSound and BrokenPipeSound ask of it.
LEMMA ExitsIInv ==
    ASSUME IInv, NEW i \in Stages, NEW s \in Statuses, s # Running, Exits(i, s),
           cpc[i] \in {"close", "running"},
           s = 0 /\ prog[i] = "cat" =>
             /\ put[i] = got[i]
             /\ IF i = 0 THEN got[i] = Items ELSE Dead(i - 1) /\ got[i] = put[i - 1],
           s = Signalled => i < N - 1 /\ Dead(i + 1)
    PROVE  IInv'
<1> USE NAssumption DEF IInv
<1>1. i \in Procs /\ i # Parent /\ Parent \in Procs /\ i \in Int
  BY Ranges
<1>2. /\ cpc'[i] = "zombie" /\ status'[i] = s
      /\ rd'[i] = {} /\ wr'[i] = {} /\ fin'[i] = Closed /\ fout'[i] = Closed
      /\ \A b \in Stages \ {i} : cpc'[b] = cpc[b] /\ status'[b] = status[b]
      /\ \A p \in Procs \ {i} : /\ rd'[p] = rd[p] /\ wr'[p] = wr[p]
                                /\ fin'[p] = fin[p] /\ fout'[p] = fout[p]
      /\ UNCHANGED <<ppc, pi, rc, cj, prog, got, put>>
  BY <1>1 DEF TypeOK, Exits, parentVars, dataVars
<1>3. TypeOK'
  <2>1. /\ rd' \in [Procs -> SUBSET Pipes] /\ wr' \in [Procs -> SUBSET Pipes]
        /\ fin' \in [Procs -> Streams] /\ fout' \in [Procs -> Streams]
    BY <1>1 DEF TypeOK, Exits, Streams
  <2> QED
    BY <1>2, <2>1 DEF TypeOK, Exits
<1>4. ParentInv'
  BY <1>1, <1>2, ParentInvKept DEF parentVars
<1>5. \A b \in Stages : Dead(b) => Dead(b)'
  BY <1>2 DEF Dead
<1>6. Dead(i)'
  BY <1>2 DEF Dead
<1>7. ASSUME NEW b \in Stages PROVE ChildInv(b)'
  <2>1. CASE b = i
    BY <1>2, <1>6, <2>1 DEF ChildInv
  <2>2. CASE b # i
    BY <1>2, <2>2, Ranges, ChildInvKept
  <2> QED
    BY <2>1, <2>2
<1>8. \A b \in Stages : FlowInv(b)'
  BY <1>2 DEF FlowInv
<1>9. EndOfInputSound'
  BY <1>1, <1>2, <1>5 DEF EndOfInputSound, Stages
<1>10. BrokenPipeSound'
  BY <1>1, <1>2, <1>5 DEF BrokenPipeSound, Stages
<1> QED
  BY <1>3, <1>4, <1>7, <1>8, <1>9, <1>10

LEMMA EndsIInv ==
    ASSUME IInv, NEW i \in Stages,
           ExecFails(i) \/ BrokenPipe(i) \/ Finish(i) \/ Quit(i)
    PROVE  IInv'
<1> USE NAssumption
<1>1. /\ Signalled \in Statuses /\ 0 \in Statuses /\ ExecFailed \in Statuses
      /\ Running \notin {Signalled, 0, ExecFailed}
      /\ 0 \notin {Signalled, ExecFailed} /\ Signalled # ExecFailed
  BY DEF Statuses, Signalled, Running, ExecFailed, ERR_EXEC_CMD
<1>2. CASE ExecFails(i)
  BY <1>1, <1>2, ExitsIInv DEF ExecFails
<1>3. CASE BrokenPipe(i)
  <2>1. i < N - 1 /\ cpc[i] = "running" /\ ~HasReader(i) /\ i + 1 \in Stages
    BY <1>3 DEF BrokenPipe, Stages
  <2>2. Dead(i + 1)
    <3>1. SUFFICES ASSUME ~Dead(i + 1) PROVE FALSE
      OBVIOUS
    <3>2. i + 1 > 0 /\ (i + 1) - 1 = i
      BY Ranges DEF Stages
    <3>3. HasReader((i + 1) - 1)
      BY <2>1, <3>1, <3>2, ReaderAlive
    <3> QED
      BY <2>1, <3>2, <3>3
  <2> QED
    BY <1>1, <1>3, <2>1, <2>2, ExitsIInv DEF BrokenPipe
<1>4. CASE Finish(i)
  <2>1. cpc[i] = "running" /\ put[i] = got[i] /\ EndOfInput(i)
    BY <1>4 DEF Finish
  <2>2. i # 0 => Dead(i - 1) /\ got[i] = put[i - 1]
    <3>1. SUFFICES ASSUME i # 0 PROVE Dead(i - 1) /\ got[i] = put[i - 1]
      OBVIOUS
    <3>2. i - 1 \in Stages /\ i - 1 < N - 1
      BY <3>1 DEF Stages
    <3>3. ~HasWriter(i - 1) /\ got[i] = put[i - 1]
      BY <2>1, <3>1 DEF EndOfInput
    <3> QED
      BY <2>1, <3>2, <3>3, WriterAlive
  <2>3. i = 0 => got[i] = Items
    BY <2>1 DEF EndOfInput
  <2> QED
    BY <1>1, <1>4, <2>1, <2>2, <2>3, ExitsIInv DEF Finish
<1>5. CASE Quit(i)
  BY <1>1, <1>5, ExitsIInv DEF Quit
<1> QED
  BY <1>2, <1>3, <1>4, <1>5

\* A command that reads or writes is running: only the flow can change.
LEMMA MovesIInv ==
    ASSUME IInv, NEW i \in Stages, Read(i) \/ Write(i)
    PROVE  IInv'
<1> USE NAssumption, ItemsAssumption, CapAssumption DEF IInv
<1>1. /\ cpc[i] = "running" /\ status[i] = Running
      /\ UNCHANGED <<ppc, pi, rc, rd, wr, fin, fout, cpc, cj, status, prog>>
  BY DEF Read, Write, ChildInv, Dead, parentVars, fdVars, childVars
<1>2. \A b \in Stages : /\ got[b] \in 0 .. Items /\ put[b] \in 0 .. Items
                        /\ put[b] <= got[b] /\ got[b] <= put[b] + 1
                        /\ b \in Int
                        /\ b > 0 => /\ b - 1 \in Stages
                                    /\ got[b] <= put[b - 1] /\ put[b - 1] - got[b] <= Cap
  <2>1. \A b \in Stages : got[b] \in 0 .. Items /\ put[b] \in 0 .. Items
    BY DEF TypeOK
  <2>2. \A b \in Stages : b \in Int /\ (b > 0 => b - 1 \in Stages)
    BY DEF Stages
  <2> QED
    BY <2>1, <2>2 DEF FlowInv
<1>3. \/ /\ got'[i] = got[i] + 1 /\ put' = put /\ got[i] = put[i]
         /\ got' \in [Stages -> 0 .. Items]
         /\ got[i] < (IF i = 0 THEN Items ELSE put[i - 1])
         /\ \A b \in Stages \ {i} : got'[b] = got[b]
      \/ /\ put'[i] = put[i] + 1 /\ got' = got /\ put[i] < got[i]
         /\ put' \in [Stages -> 0 .. Items]
         /\ i < N - 1 => put[i] - got[i + 1] < Cap
         /\ \A b \in Stages \ {i} : put'[b] = put[b]
  <2>1. CASE Read(i)
    <3>1. got[i] + 1 \in 0 .. Items
      BY <1>2, <2>1 DEF Read, Stages
    <3> QED
      BY <2>1, <3>1 DEF TypeOK, Read
  <2>2. CASE Write(i)
    <3>1. put[i] + 1 \in 0 .. Items
      BY <1>2, <2>2 DEF Write
    <3> QED
      BY <2>2, <3>1 DEF TypeOK, Write
  <2> QED
    BY <2>1, <2>2
<1>4. TypeOK'
  BY <1>1, <1>3 DEF TypeOK
<1>5. ParentInv'
  BY <1>1 DEF ParentInv, ResultOf
<1>6. \A b \in Stages : ChildInv(b)'
  BY <1>1, <1>3 DEF ChildInv, Dead, StdinOf, StdoutOf
<1>7. ASSUME NEW b \in Stages PROVE FlowInv(b)'
  <2>1. put'[b] <= got'[b] /\ got'[b] <= put'[b] + 1
    BY <1>2, <1>3
  <2>2. b > 0 => got'[b] <= put'[b - 1] /\ put'[b - 1] - got'[b] <= Cap
    <3>1. SUFFICES ASSUME b > 0
                   PROVE  got'[b] <= put'[b - 1] /\ put'[b - 1] - got'[b] <= Cap
      OBVIOUS
    <3>2. b - 1 \in Stages /\ b - 1 # b /\ b # 0
      BY <1>2, <3>1
    <3>3. CASE b = i
      BY <1>2, <1>3, <3>1, <3>2, <3>3
    <3>4. CASE b - 1 = i
      <4>1. i < N - 1 /\ i + 1 = b
        BY <1>2, <3>4 DEF Stages
      <4> QED
        BY <1>2, <1>3, <3>1, <3>2, <3>4, <4>1
    <3>5. CASE b # i /\ b - 1 # i
      BY <1>2, <1>3, <3>1, <3>2, <3>5
    <3> QED
      BY <3>3, <3>4, <3>5
  <2> QED
    BY <2>1, <2>2 DEF FlowInv
<1>8. EndOfInputSound'
  <2> SUFFICES ASSUME NEW b \in Stages, status[b] = 0, prog[b] = "cat"
               PROVE  /\ put'[b] = got'[b]
                      /\ IF b = 0 THEN got'[b] = Items
                                  ELSE Dead(b - 1)' /\ got'[b] = put'[b - 1]
    BY <1>1 DEF EndOfInputSound
  <2>1. b # i /\ put'[b] = put[b] /\ got'[b] = got[b]
    BY <1>1, <1>3 DEF Running
  <2>2. put[b] = got[b] /\ (b = 0 => got[b] = Items)
    BY DEF EndOfInputSound
  <2>3. b # 0 => Dead(b - 1)' /\ got'[b] = put'[b - 1]
    <3>1. SUFFICES ASSUME b # 0 PROVE Dead(b - 1)' /\ got'[b] = put'[b - 1]
      OBVIOUS
    <3>2. Dead(b - 1) /\ got[b] = put[b - 1] /\ b - 1 \in Stages
      BY <3>1 DEF EndOfInputSound, Stages
    <3>3. b - 1 # i
      BY <1>1, <3>2 DEF Dead
    <3> QED
      BY <1>1, <1>3, <2>1, <3>2, <3>3 DEF Dead
  <2> QED
    BY <2>1, <2>2, <2>3
<1>9. BrokenPipeSound'
  BY <1>1 DEF BrokenPipeSound, Dead
<1> QED
  BY <1>4, <1>5, <1>6, <1>7, <1>8, <1>9

-----------------------------------------------------------------------------
LEMMA NextIInv == IInv /\ [Next]_vars => IInv'
<1> SUFFICES ASSUME IInv, [Next]_vars PROVE IInv'
  OBVIOUS
<1>1. CASE Call
  BY <1>1, CreatePipeIInv, SetupFailsIInv, ForkIInv, CloseInParentIInv, WaitIInv DEF Call
<1>2. ASSUME NEW i \in Stages, Child(i) PROVE IInv'
  BY <1>2, RedirectIInv, CloseInChildIInv, ExecIInv, EndsIInv DEF Child
<1>3. ASSUME NEW i \in Stages, Command(i) PROVE IInv'
  BY <1>3, MovesIInv, EndsIInv DEF Command
<1>4. CASE UNCHANGED vars
  BY <1>4 DEF IInv, TypeOK, ParentInv, ChildInv, FlowInv, EndOfInputSound,
              BrokenPipeSound, Dead, StdinOf, StdoutOf, ResultOf, vars, parentVars,
              fdVars, childVars, dataVars
<1> QED
  BY <1>1, <1>2, <1>3, <1>4 DEF Next, Over

\* The inductive invariant holds of every reachable state of every pipeline.
THEOREM Invariance == Spec => []IInv
BY InitIInv, NextIInv, PTL DEF Spec

\* Every variable keeps its type, whatever N, Items, Cap and the programs.
THEOREM TypeCorrect == Spec => []TypeOK
<1>1. IInv => TypeOK
  BY DEF IInv
<1> QED
  BY <1>1, Invariance, PTL

\* Every command, in a pipeline of any length, starts with its standard streams
\* on its two pipes and with no other end (the dup2 calls and the close loops).
THEOREM Wiring == Spec => []StreamsWired
<1>1. IInv => StreamsWired
  BY DEF IInv, ChildInv, StreamsWired
<1> QED
  BY <1>1, Invariance, PTL

\* No "cat" of a pipeline of any length takes anything but the end of the command
\* before it for the end of its input.
THEOREM EndOfInputCorrect == Spec => []EndOfInputSound
<1>1. IInv => EndOfInputSound
  BY DEF IInv
<1> QED
  BY <1>1, Invariance, PTL

\* No command of a pipeline of any length dies of SIGPIPE before the command
\* after it has ended.
THEOREM BrokenPipeCorrect == Spec => []BrokenPipeSound
<1>1. IInv => BrokenPipeSound
  BY DEF IInv
<1> QED
  BY <1>1, Invariance, PTL

\* A call that sets everything up returns the last command's result, every child
\* reaped and every pipe end closed.
THEOREM ReturnCorrect == Spec => []CleanReturn
<1>1. IInv => CleanReturn
  BY DEF IInv, ParentInv, CleanReturn, SetupErrors
<1> QED
  BY <1>1, Invariance, PTL
-----------------------------------------------------------------------------
(***************************************************************************)
(* Delivery.  In a pipeline of "cat"s no command is ever killed and each   *)
(* that has ended had passed on everything; the induction along the chain  *)
(* is that of the steps, since a stage ends after the one before it.       *)
(***************************************************************************)
DeliveryInv ==
    (\A i \in Stages : prog[i] = "cat") =>
        \A i \in Stages : /\ status[i] \in {Running, 0}
                          /\ status[i] = 0 => got[i] = Items /\ put[i] = Items

LEMMA DeliveryStep == IInv /\ DeliveryInv /\ [Next]_vars => DeliveryInv'
<1> SUFFICES ASSUME IInv, DeliveryInv, [Next]_vars, \A i \in Stages : prog'[i] = "cat",
                    NEW i \in Stages
             PROVE  /\ status'[i] \in {Running, 0}
                    /\ status'[i] = 0 => got'[i] = Items /\ put'[i] = Items
  BY DEF DeliveryInv
<1> USE NAssumption, ItemsAssumption
<1>1. prog' = prog
  BY DEF Next, Over, Call, Child, Command, CreatePipe, PipeFails, Fork, ForkFails,
         CloseInParent, Wait, Redirect, CloseInChild, Exec, ExecFails, Read, Write,
         BrokenPipe, Finish, Quit, Exits, vars
<1>2. \A b \in Stages : /\ prog[b] = "cat" /\ status[b] \in {Running, 0}
                        /\ status[b] = 0 => got[b] = Items /\ put[b] = Items
  BY <1>1 DEF DeliveryInv
<1>3. \A b \in Stages : got[b] \in 0 .. Items /\ put[b] \in 0 .. Items
  BY DEF IInv, TypeOK
<1>4. CASE /\ UNCHANGED status
           /\ \/ UNCHANGED dataVars
              \/ \E b \in Stages : Read(b) \/ Write(b)
  <2>1. CASE UNCHANGED dataVars
    BY <1>2, <1>4, <2>1 DEF dataVars
  <2>2. ASSUME NEW b \in Stages, Read(b) \/ Write(b)
        PROVE  status[i] = 0 => got'[i] = got[i] /\ put'[i] = put[i]
    <3>1. status[b] = Running
      BY <2>2 DEF IInv, ChildInv, Dead, Read, Write
    <3> QED
      BY <2>2, <3>1 DEF IInv, TypeOK, Read, Write, Running
  <2> QED
    BY <1>2, <1>4, <2>1, <2>2
<1>5. ASSUME NEW b \in Stages, ExecFails(b) \/ Quit(b) PROVE FALSE
  BY <1>2, <1>5 DEF ExecFails, Quit
<1>6. ASSUME NEW b \in Stages, BrokenPipe(b) PROVE FALSE
  <2>1. /\ cpc[b] = "running" /\ put[b] < got[b] /\ ~HasReader(b)
        /\ b + 1 \in Stages /\ b + 1 > 0 /\ (b + 1) - 1 = b
    BY <1>6 DEF BrokenPipe, Stages
  <2>2. Dead(b + 1)
    <3>1. HasReader((b + 1) - 1) => HasReader(b)
      BY <2>1
    <3> QED
      BY <2>1, <3>1, ReaderAlive
  <2>3. got[b + 1] = Items
    BY <1>2, <2>1, <2>2 DEF IInv, ChildInv
  <2>4. got[b + 1] <= put[b]
    BY <2>1 DEF IInv, FlowInv
  <2> QED
    BY <1>3, <2>1, <2>3, <2>4
<1>7. ASSUME NEW b \in Stages, Finish(b)
      PROVE  /\ status'[i] \in {Running, 0}
             /\ status'[i] = 0 => got'[i] = Items /\ put'[i] = Items
  <2>1. /\ cpc[b] = "running" /\ put[b] = got[b] /\ EndOfInput(b)
        /\ status' = [status EXCEPT ![b] = 0] /\ got' = got /\ put' = put
    BY <1>7 DEF Finish, Exits, dataVars
  <2>2. got[b] = Items
    <3>1. CASE b = 0
      BY <2>1, <3>1 DEF EndOfInput
    <3>2. CASE b # 0
      <4>1. b - 1 \in Stages /\ b - 1 < N - 1
        BY <3>2 DEF Stages
      <4>2. ~HasWriter(b - 1) /\ got[b] = put[b - 1]
        BY <2>1, <3>2 DEF EndOfInput
      <4>3. Dead(b - 1)
        BY <2>1, <4>1, <4>2, WriterAlive
      <4>4. status[b - 1] # Running
        BY <4>1, <4>3 DEF IInv, ChildInv
      <4> QED
        BY <1>2, <4>1, <4>2, <4>4
    <3> QED
      BY <3>1, <3>2
  <2> QED
    BY <1>2, <2>1, <2>2 DEF IInv, TypeOK
<1>8. \/ UNCHANGED status /\ UNCHANGED dataVars
      \/ \E b \in Stages : UNCHANGED status /\ (Read(b) \/ Write(b))
      \/ \E b \in Stages : ExecFails(b) \/ Quit(b) \/ BrokenPipe(b) \/ Finish(b)
  BY DEF Next, Over, Call, Child, Command, CreatePipe, PipeFails, Fork, ForkFails,
         CloseInParent, Wait, Redirect, CloseInChild, Exec, Read, Write,
         vars, childVars, dataVars
<1> QED
  BY <1>4, <1>5, <1>6, <1>7, <1>8

\* A pipeline of "cat"s of any length delivers all of the first command's data
\* before the call returns, however small the pipes are.
THEOREM Delivery == Spec => []WholeOutput
<1>1. Init => DeliveryInv
  BY DEF Init, DeliveryInv, Running
<1>2. IInv /\ DeliveryInv => WholeOutput
  <2> SUFFICES ASSUME IInv, DeliveryInv, ppc = "returned", rc \notin SetupErrors,
                      \A i \in Stages : prog[i] = "cat"
               PROVE  put[N - 1] = Items
    BY DEF WholeOutput
  <2>1. N - 1 \in Stages
    BY NAssumption DEF Stages
  <2>2. Dead(N - 1)
    BY <2>1 DEF IInv, ParentInv, SetupErrors, Dead
  <2>3. status[N - 1] # Running
    BY <2>1, <2>2 DEF IInv, ChildInv
  <2> QED
    BY <2>1, <2>3 DEF DeliveryInv
<1> QED
  BY <1>1, <1>2, DeliveryStep, Invariance, PTL DEF Spec

-----------------------------------------------------------------------------
(***************************************************************************)
(* Refinement.  The parent's loops and the wiring of the children are      *)
(* invisible to the chain of stages; the rest maps action by action.       *)
(***************************************************************************)
LEMMA ChainInit == Init => Chain!Init
BY DEF Init, Chain!Init, Chain!Stages, Stages, Chain!Up, Running, Chain!Pending

LEMMA ChainStep == IInv /\ [Next]_vars => [Chain!Next]_Chain!vars
<1> SUFFICES ASSUME IInv, [Next]_vars PROVE Chain!Next \/ UNCHANGED Chain!vars
  OBVIOUS
<1> USE NAssumption DEF Chain!Stages, Chain!vars, parentVars, fdVars, childVars, dataVars
<1>0. Chain!Up = Running /\ Chain!Broken = Signalled /\ Chain!NotFound = ExecFailed
  BY DEF Chain!Up, Running, Chain!Broken, Signalled, Chain!NotFound, ExecFailed,
         Chain!NotExited, ERR_EXEC_CMD
<1>1. CASE CreatePipe \/ Fork \/ CloseInParent
  BY <1>1 DEF CreatePipe, Fork, CloseInParent, NextRound
<1>2. CASE PipeFails \/ ForkFails
  <2>1. Chain!GiveUp
    BY <1>2 DEF PipeFails, ForkFails, Return, Chain!GiveUp, Chain!Pending,
                Chain!Failures, ERR_PIPE, ERR_FORK
  <2> QED
    BY <2>1 DEF Chain!Next
<1>3. CASE Wait
  <2>1. CASE pi = N - 1
    <3>1. \A i \in Stages : Dead(i)
      BY <1>3, <2>1 DEF IInv, ParentInv, Wait, Dead, Stages
    <3>2. \A i \in Stages : status[i] # Running
      BY <3>1 DEF IInv, ChildInv
    <3>3. Chain!Return
      BY <1>0, <1>3, <2>1, <3>2 DEF Wait, Return, ResultOf, Stages, Chain!Return,
         Chain!Pending, Chain!NotExited, ERR_EXEC_CMD
    <3> QED
      BY <3>3 DEF Chain!Next
  <2>2. CASE pi # N - 1
    BY <1>3, <2>2 DEF Wait
  <2> QED
    BY <2>1, <2>2
<1>4. ASSUME NEW i \in Stages, Redirect(i) \/ CloseInChild(i) \/ Exec(i)
      PROVE  UNCHANGED Chain!vars
  BY <1>4 DEF Redirect, CloseInChild, Exec
<1>5. ASSUME NEW i \in Stages,
             \/ ExecFails(i) \/ Read(i) \/ Write(i) \/ BrokenPipe(i) \/ Finish(i) \/ Quit(i)
      PROVE  Chain!Stage(i)
  <2>1. status[i] = Running
    BY <1>5 DEF IInv, ChildInv, Dead, ExecFails, Read, Write, BrokenPipe, Finish, Quit
  <2>2. CASE ExecFails(i)
    <3>1. got[i] = 0
      BY <2>2 DEF IInv, ChildInv, ExecFails
    <3>2. Chain!Absent(i)
      BY <1>0, <2>1, <2>2, <3>1 DEF ExecFails, Exits, Chain!Absent, Chain!Ends
    <3> QED
      BY <3>2 DEF Chain!Stage
  <2>3. CASE Read(i)
    BY <1>0, <2>1, <2>3 DEF Read, Chain!Take, Chain!Stage
  <2>4. CASE Write(i)
    BY <1>0, <2>1, <2>4 DEF Write, Chain!Give, Chain!Stage
  <2>5. CASE BrokenPipe(i)
    <3>1. /\ i < N - 1 /\ cpc[i] = "running" /\ ~HasReader(i)
          /\ i + 1 \in Stages /\ i + 1 > 0 /\ (i + 1) - 1 = i
      BY <2>5 DEF BrokenPipe, Stages
    <3>2. Dead(i + 1)
      <4>1. HasReader((i + 1) - 1) => HasReader(i)
        BY <3>1
      <4> QED
        BY <3>1, <4>1, ReaderAlive
    <3>3. status[i + 1] # Running
      BY <3>1, <3>2 DEF IInv, ChildInv
    <3>4. Chain!Break(i)
      BY <1>0, <2>1, <2>5, <3>1, <3>3 DEF BrokenPipe, Exits, Chain!Break, Chain!Ends
    <3> QED
      BY <3>4 DEF Chain!Stage
  <2>6. CASE Finish(i)
    <3>1. cpc[i] = "running" /\ EndOfInput(i) /\ put[i] = got[i]
      BY <2>6 DEF Finish
    <3>2. i # 0 => got[i] = put[i - 1] /\ status[i - 1] # Running
      <4>1. SUFFICES ASSUME i # 0 PROVE got[i] = put[i - 1] /\ status[i - 1] # Running
        OBVIOUS
      <4>2. i - 1 \in Stages /\ i - 1 < N - 1
        BY <4>1 DEF Stages
      <4>3. ~HasWriter(i - 1) /\ got[i] = put[i - 1]
        BY <3>1, <4>1 DEF EndOfInput
      <4>4. Dead(i - 1)
        BY <3>1, <4>2, <4>3, WriterAlive
      <4> QED
        BY <4>2, <4>3, <4>4 DEF IInv, ChildInv
    <3>3. i = 0 => got[i] = Items
      BY <3>1 DEF EndOfInput
    <3>4. Chain!Finish(i)
      BY <1>0, <2>1, <2>6, <3>1, <3>2, <3>3 DEF Finish, Exits, Chain!Finish, Chain!Ends
    <3> QED
      BY <3>4 DEF Chain!Stage
  <2>7. CASE Quit(i)
    BY <1>0, <2>1, <2>7 DEF Quit, Exits, Chain!Leave, Chain!Ends, Chain!Stage
  <2> QED
    BY <1>5, <2>2, <2>3, <2>4, <2>5, <2>6, <2>7
<1>6. CASE UNCHANGED vars
  BY <1>6 DEF vars
<1> QED
  BY <1>1, <1>2, <1>3, <1>4, <1>5, <1>6
     DEF Next, Call, Child, Command, Over, Stages, Chain!Next

\* The pipeline, at the level of its system calls, implements a chain of ideal
\* bounded channels, for every number of commands, data and capacity.
THEOREM ImplementsChain == Spec => ChainSpec
BY ChainInit, ChainStep, Invariance, PTL DEF Spec, ChainSpec, Chain!Spec
=============================================================================
