---------------------------- MODULE StudentTable ----------------------------
(***************************************************************************)
(* What the student database promises to commands that run at the same     *)
(* time, with no file, offset or system call in it: one table, to which    *)
(* every command is applied in one step, or not at all.  A write that is   *)
(* cut short spoils the record it was for and no other.                    *)
(***************************************************************************)
EXTENDS Integers

CONSTANTS Procs, MAX_STD_ID, Old, NoStudent, Faults

VARIABLES
    cmd,    \* [process -> its command], never changes
    table,  \* [id -> the student of that id]
    result, \* [process -> how its command ended, "none" while it has not]
    got     \* [process -> the student it found]

vars == <<cmd, table, result, got>>

Ids      == 1 .. MAX_STD_ID
Students == Procs \cup {Old}
Spoilt   == "spoilt"
Entries  == Students \cup {NoStudent, Spoilt}

At(id) == IF id \in Ids THEN table[id] ELSE NoStudent

Init ==
    /\ table \in [Ids -> {Old, NoStudent}]
    /\ result = [p \in Procs |-> "none"]
    /\ got = [p \in Procs |-> NoStudent]

Says(p, op, r) ==
    /\ cmd[p].op = op
    /\ result[p] = "none"
    /\ result' = [result EXCEPT ![p] = r]
    /\ UNCHANGED cmd

\* An effective write is reported, unless the process is killed before it can.
Written(p, op) == Says(p, op, "NO_ERROR") \/ (Faults /\ Says(p, op, "killed"))

\* A short write spoils the record, or puts one together with what an earlier
\* short write has left of another.
Store(id, student) ==
    \E e \in Entries :
        /\ \/ e = student
           \/ Faults /\ e = Spoilt
           \/ Faults /\ table[id] = Spoilt
        /\ table' = [table EXCEPT ![id] = e]

Add(p) ==
    LET id == cmd[p].id IN
    /\ At(id) \in {NoStudent, Spoilt}
    /\ id \in Ids
    /\ Written(p, "add")
    /\ Store(id, p)
    /\ UNCHANGED got

AddDuplicate(p) ==
    /\ At(cmd[p].id) # NoStudent
    /\ Says(p, "add", "ERR_DB_OP")
    /\ UNCHANGED <<table, got>>

AddRefused(p) ==
    /\ cmd[p].id \notin Ids
    /\ Says(p, "add", "EXIT_FAIL_ARGS")
    /\ UNCHANGED <<table, got>>

Delete(p) ==
    LET id == cmd[p].id IN
    /\ At(id) # NoStudent
    /\ Written(p, "del")
    /\ Store(id, NoStudent)
    /\ UNCHANGED got

DeleteAbsent(p) ==
    /\ At(cmd[p].id) \in {NoStudent, Spoilt}
    /\ \E r \in {"ERR_DB_OP", "ERR_DB_FILE", "crash"} : Says(p, "del", r)
    /\ UNCHANGED <<table, got>>

Find(p) ==
    LET s == At(cmd[p].id) IN
    /\ s # NoStudent
    /\ Says(p, "find", "NO_ERROR")
    /\ \E g \in Students \cup {NoStudent} :
          /\ s # Spoilt => g = s
          /\ got' = [got EXCEPT ![p] = g]
    /\ UNCHANGED table

FindAbsent(p) ==
    /\ At(cmd[p].id) \in {NoStudent, Spoilt}
    /\ \E r \in {"SRCH_NOT_FOUND", "ERR_DB_FILE"} : Says(p, "find", r)
    /\ UNCHANGED <<table, got>>

Zero(p) ==
    /\ Written(p, "zero")
    /\ table' = [id \in Ids |-> NoStudent]
    /\ UNCHANGED got

\* What they report is not a matter of one moment.
Survey(p) ==
    /\ \E op \in {"count", "print", "compress"} : Says(p, op, "NO_ERROR")
    /\ UNCHANGED <<table, got>>

\* The file ends in the middle of a record.
SurveySpoilt(p) ==
    /\ Faults
    /\ \E op \in {"count", "print"} : Says(p, op, "ERR_DB_FILE")
    /\ UNCHANGED <<table, got>>

\* A command that fails has changed nothing.
Fail(p) ==
    /\ Faults
    /\ \E r \in {"failed", "killed", "crash"} : Says(p, cmd[p].op, r)
    /\ UNCHANGED <<table, got>>

Next ==
    \E p \in Procs :
        \/ Add(p) \/ AddDuplicate(p) \/ AddRefused(p)
        \/ Delete(p) \/ DeleteAbsent(p)
        \/ Find(p) \/ FindAbsent(p)
        \/ Zero(p) \/ Survey(p) \/ SurveySpoilt(p) \/ Fail(p)

Spec == Init /\ [][Next]_vars
=============================================================================
