---------------------------- MODULE MCStudentDB ----------------------------
(* Three processes and the commands that matter to one student and to his  *)
(* neighbour.  With Wrap = 8, the offset of id 5 is negative and that of   *)
(* id 9 is the offset of id 1; 3 is the id after the last.                 *)
EXTENDS StudentDB, TLC

CONSTANTS p1, p2, p3

MCProcs == {p1, p2, p3}
MCTwo   == {p1, p2}

Command(op, ids) == [op : {op}, id : ids]
Whatever(ops)    == [op : ops, id : {0}]

\* One writes, one does anything, one looks or adds.
MCCommands ==
    p1 :> (Command("add", {1, 2}) \cup Command("del", {1}) \cup Whatever({"zero"}))
    @@ p2 :> (Command("add", {1, 9}) \cup Command("del", {1, 3}) \cup Command("find", {5})
                \cup Whatever({"count", "print", "compress"}))
    @@ p3 :> (Command("add", {1}) \cup Command("find", {1}) \cup Whatever({"count", "print"}))

\* The commands of the run that shows a violation.
MCAdd == [p \in MCTwo |-> Command("add", {1, 2})]
=============================================================================
