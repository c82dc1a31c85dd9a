------------------------------ MODULE LineLoop ------------------------------
(***************************************************************************)
(* What a shell that reads lines promises, with no buffer, offset, child   *)
(* or array in it: the lines are taken one by one, in order, each once,    *)
(* and each is finished before the next one is taken; the loop ends with a *)
(* line that ends it or when there is no further line.  A command that     *)
(* shares the shell's input may take lines away from it (then the shell    *)
(* skips some), or set it back (then it may see any line again).  After a  *)
(* line that breaks the shell's limits, the shell may die at any time.     *)
(***************************************************************************)
EXTENDS Naturals, Sequences

VARIABLES
    effects, \* [line -> what it may do], chosen once
    last,    \* the line taken last, 0 before the first
    now,     \* what that one does
    phase,   \* "idle", "busy" with the line, or "ended"
    input,   \* what commands did to the input: "own", "eaten" or "rewound"
    harmed,  \* was there a line that breaks the limits?
    dir      \* the working directory

vars == <<effects, last, now, phase, input, harmed, dir>>

\* outcomes holds TRUE when the line may end the loop, FALSE when the loop
\* may go on after it; a line with neither is never finished.
Effect == [input : {"own", "eaten", "rewound"},
           moves : BOOLEAN, outcomes : SUBSET BOOLEAN, harms : BOOLEAN]

Init == /\ effects \in Seq(SUBSET Effect)
        /\ last = 0 /\ now \in Effect /\ phase = "idle" /\ input = "own"
        /\ harmed = FALSE /\ dir = "home"

Take(l) ==
    /\ phase = "idle"
    /\ CASE input = "own"     -> l = last + 1
         [] input = "eaten"   -> l > last
         [] input = "rewound" -> TRUE
    /\ last' = l
    /\ phase' = "busy"
    /\ now' \in effects[l]
    /\ harmed' = (harmed \/ now'.harms)
    /\ UNCHANGED <<input, dir>>

Finish ==
    /\ phase = "busy"
    /\ FALSE \in now.outcomes
    /\ phase' = "idle"
    /\ dir' = IF now.moves THEN "dir" ELSE dir
    /\ UNCHANGED <<last, now, input, harmed>>

Leave ==
    /\ phase = "busy"
    /\ TRUE \in now.outcomes
    /\ phase' = "ended"
    /\ UNCHANGED <<last, now, input, harmed, dir>>

EndOfInput ==
    /\ phase = "idle"
    /\ input = "own" => last = Len(effects)
    /\ phase' = "ended"
    /\ UNCHANGED <<last, now, input, harmed, dir>>

Break ==
    /\ phase # "ended" /\ harmed
    /\ phase' = "ended"
    /\ UNCHANGED <<last, now, input, harmed, dir>>

\* Only a line that was taken can do this to the input.
Share(how) ==
    /\ input # how /\ input # "rewound"
    /\ \E l \in 1 .. last : \E e \in effects[l] : e.input = how
    /\ input' = how
    /\ UNCHANGED <<last, now, phase, harmed, dir>>

\* The loop gets no memory to start with.
Fail ==
    /\ phase = "idle" /\ last = 0
    /\ phase' = "ended"
    /\ UNCHANGED <<last, now, input, harmed, dir>>

Next == /\ \/ \E l \in DOMAIN effects : Take(l)
           \/ Finish \/ Leave \/ EndOfInput \/ Break \/ Fail
           \/ \E how \in {"eaten", "rewound"} : Share(how)
        /\ UNCHANGED effects

Spec == Init /\ [][Next]_vars
=============================================================================
