----------------------------- MODULE StageChain -----------------------------
(***************************************************************************)
(* What a pipeline promises, with no descriptor, fork, dup2 or close in    *)
(* it: N stages joined by ideal bounded channels.  A stage meets the end   *)
(* of its input only when the stage before it has ended and everything     *)
(* that one wrote has been read; its output breaks only when the stage     *)
(* after it has ended; and the call returns once, with the result of the   *)
(* last stage, when no stage is left.  Setting up may fail, in which case  *)
(* the call returns an error and promises nothing about the stages.        *)
(***************************************************************************)
EXTENDS Integers

CONSTANTS N, Items, Cap, Programs, Remote

VARIABLES
    prog,     \* [stage -> its program]
    status,   \* [stage -> how it ended, Up while it has not]
    got, put, \* [stage -> the number of items it has taken (given)]
    result    \* what the call returned, Pending while it has not

vars == <<prog, status, got, put, result>>

Stages    == 0 .. N - 1
Up        == -1
Broken    == -2
NotExited == -6              \* the last stage did not exit normally
NotFound  == NotExited % 256 \* its program does not exist
Pending   == -100
Failures  == {-8, -9}

Init ==
    /\ prog \in [Stages -> Programs]
    /\ status = [i \in Stages |-> Up]
    /\ got = [i \in Stages |-> 0]
    /\ put = [i \in Stages |-> 0]
    /\ result = Pending

Ends(i, s) ==
    /\ status[i] = Up
    /\ status' = [status EXCEPT ![i] = s]
    /\ UNCHANGED <<prog, got, put, result>>

Take(i) ==
    /\ status[i] = Up
    /\ got[i] = put[i]
    /\ got[i] < (IF i = 0 THEN Items ELSE put[i - 1])
    /\ got' = [got EXCEPT ![i] = @ + 1]
    /\ UNCHANGED <<prog, status, put, result>>

Give(i) ==
    /\ status[i] = Up
    /\ put[i] < got[i]
    /\ i < N - 1 => put[i] - got[i + 1] < Cap
    /\ put' = [put EXCEPT ![i] = @ + 1]
    /\ UNCHANGED <<prog, status, got, result>>

\* The end of the input: nothing is left and nothing can come.
Finish(i) ==
    /\ put[i] = got[i]
    /\ IF i = 0 THEN got[i] = Items
                ELSE got[i] = put[i - 1] /\ status[i - 1] # Up
    /\ Ends(i, 0)

Leave(i)  == prog[i] = "head" /\ Ends(i, 0)
Absent(i) == prog[i] = "missing" /\ got[i] = 0 /\ Ends(i, NotFound)
Break(i)  == i < N - 1 /\ put[i] < got[i] /\ status[i + 1] # Up /\ Ends(i, Broken)

Return ==
    /\ result = Pending
    /\ \A i \in Stages : status[i] # Up
    /\ result' = IF ~Remote THEN 0
                 ELSE IF status[N - 1] = Broken THEN NotExited ELSE status[N - 1]
    /\ UNCHANGED <<prog, status, got, put>>

GiveUp ==
    /\ result = Pending
    /\ result' \in Failures
    /\ UNCHANGED <<prog, status, got, put>>

Stage(i) == Take(i) \/ Give(i) \/ Finish(i) \/ Leave(i) \/ Absent(i) \/ Break(i)

Next == Return \/ GiveUp \/ \E i \in Stages : Stage(i)

Spec == Init /\ [][Next]_vars
=============================================================================
