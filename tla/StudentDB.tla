----------------------------- MODULE StudentDB -----------------------------
(***************************************************************************)
(* The student database of 2-StudentDB (sdbsc.c).  The records are in a    *)
(* sparse file, the record of student id at offset id * 64; every command  *)
(* is a process of its own that opens the file, works on it with lseek,    *)
(* read and write, and exits.  Nothing locks the file, so the system calls *)
(* of commands that run at the same time interleave.                       *)
(*                                                                         *)
(* A record is two cells, its id and the rest, so that a short write and   *)
(* the two ways the code compares a record with an empty one (4 bytes or   *)
(* 64) can be told apart.  A system call is one step; the lseek before a   *)
(* read or write moves a private offset and is part of it.                 *)
(***************************************************************************)
EXTENDS Integers

CONSTANTS
    Procs,      \* the processes, each runs one command
    Commands,   \* [process -> what it may run: records [op, id]]
    Old,        \* who wrote the records that are there at the start
    NoStudent,  \* the rest of a record all of zeros
    MAX_STD_ID,
    Wrap,       \* the number of records in 2^32 bytes
    Exclusive,  \* do users keep conflicting commands apart?
    Faults      \* may processes be killed, system calls fail, writes be short?

Ops == {"add", "del", "find", "count", "print", "zero", "compress"}
ScanOps == {"count", "print"}

ASSUME ProcsAssumption == Old \notin Procs /\ NoStudent \notin Procs \cup {Old, "spoilt"}
ASSUME CommandsAssumption == \A p \in Procs : Commands[p] \subseteq [op : Ops, id : Int]
ASSUME SizesAssumption ==
    MAX_STD_ID \in Nat \ {0} /\ Wrap \in Nat /\ Wrap > 2 * MAX_STD_ID + 1
ASSUME FlagsAssumption == Exclusive \in BOOLEAN /\ Faults \in BOOLEAN

VARIABLES
    db,     \* [slot -> its record]; zeros where nothing was written
    size,   \* the length of the file in cells
    cmd,    \* [process -> its command]
    pc,     \* [process -> where it is]
    offset, \* [process -> the slot at which a count or print reads next]
    tally,  \* [process -> the slots a count has counted, a print has printed]
    result, \* [process -> how the command ended]
    got,    \* [process -> the student that find has found]
    stay,   \* [process -> history: the ids that had a record all through its scan]
    ever    \* [process -> history: the ids that had one at some time of it]

fileVars == <<db, size>>
procVars == <<cmd, pc, offset, tally, result, got>>
vars == <<fileVars, procVars, stay, ever>>

-----------------------------------------------------------------------------
Ids      == 1 .. MAX_STD_ID
Slots    == 0 .. MAX_STD_ID
Students == Procs \cup {Old}

Record(id, rest)     == [id |-> id, rest |-> rest]
EMPTY_STUDENT_RECORD == Record(0, NoStudent)

\* id * STUDENT_RECORD_SIZE in an int, counted in records.
Slot(id) == ((id + Wrap \div 2) % Wrap) - Wrap \div 2

\* How many cells of the record at slot s a read returns, and what it puts into a
\* buffer of zeros.
Available(s) == IF size <= 2 * s THEN 0 ELSE IF size = 2 * s + 1 THEN 1 ELSE 2
ReadRecord(s) == IF Available(s) = 0 THEN EMPTY_STUDENT_RECORD ELSE db[s]

\* validate_range; of the two ranges, that of the id.
InRange(id) == 1 <= id /\ id <= MAX_STD_ID

\* The ids with a record of which nothing (something) is missing.
Whole   == {k \in Ids : db[k].id # 0 /\ db[k].rest # NoStudent}
Touched == {k \in Ids : db[k] # EMPTY_STUDENT_RECORD}

\* Files that commands leave: records of a slot's own student up to some slot,
\* the last of which may have been deleted.
Init ==
    /\ db \in [Slots -> {EMPTY_STUDENT_RECORD} \cup {Record(k, Old) : k \in Ids}]
    /\ \A s \in Slots : db[s].id \in {0, s}
    /\ size \in {0} \cup {2 * (k + 1) : k \in Ids}
    /\ \A s \in Slots : db[s] # EMPTY_STUDENT_RECORD => 2 * s < size
    /\ cmd \in [Procs -> UNION {Commands[p] : p \in Procs}]
    /\ \A p \in Procs : cmd[p] \in Commands[p]
    /\ pc = [p \in Procs |-> "start"]
    /\ offset = [p \in Procs |-> 0]
    /\ tally = [p \in Procs |-> {}]
    /\ result = [p \in Procs |-> "none"]
    /\ got = [p \in Procs |-> NoStudent]
    /\ stay = [p \in Procs |-> {}]
    /\ ever = [p \in Procs |-> {}]

-----------------------------------------------------------------------------
(***************************************************************************)
(* Steps that every command has.                                           *)
(***************************************************************************)

\* The command reports r and exits; the file stays as it is.
Done(p, r) ==
    /\ pc' = [pc EXCEPT ![p] = "done"]
    /\ result' = [result EXCEPT ![p] = r]
    /\ UNCHANGED <<cmd, offset, tally>>

In(p, op) == pc[p] = "main" /\ cmd[p].op = op
Scans(p)  == pc[p] = "main" /\ cmd[p].op \in ScanOps

\* The file becomes d, n cells long.  Scans that are under way see it.
SetFile(d, n) ==
    /\ db' = d
    /\ size' = n
    /\ stay' = [q \in Procs |-> IF Scans(q) THEN stay[q] \cap Whole' ELSE stay[q]]
    /\ ever' = [q \in Procs |-> IF Scans(q) THEN ever[q] \cup Touched' ELSE ever[q]]

\* Mutant of WriteAt: without the second lseek, after what has been read.
WriteAtNext(s, rec) ==
    SetFile([k \in Slots |-> IF k = s + 1 THEN rec ELSE db[k]],
            IF size < 2 * s + 4 THEN 2 * s + 4 ELSE size)

\* write() at slot s: of the whole record or, short, of its first cell, which
\* counts as a success.
WriteAt(s, rec) ==
    \/ SetFile([db EXCEPT ![s] = rec], IF size < 2 * s + 2 THEN 2 * s + 2 ELSE size)
    \/ /\ Faults
       /\ SetFile([db EXCEPT ![s].id = rec.id], IF size < 2 * s + 1 THEN 2 * s + 1 ELSE size)

\* Commands that must not overlap, if users take care: two that write the same
\* record, and a delete and a zero.
Conflict(p, q) ==
    \/ /\ {cmd[p].op, cmd[q].op} \subseteq {"add", "del"}
       /\ Slot(cmd[p].id) = Slot(cmd[q].id)
    \/ {cmd[p].op, cmd[q].op} = {"del", "zero"}

\* main opens the file, creating it if it is not there.
Open(p) ==
    /\ pc[p] = "start"
    /\ Exclusive => \A q \in Procs \ {p} : pc[q] \in {"main", "write"} => ~Conflict(p, q)
    /\ pc' = [pc EXCEPT ![p] = "main"]
    /\ stay' = [stay EXCEPT ![p] = IF cmd[p].op \in ScanOps THEN Whole ELSE {}]
    /\ ever' = [ever EXCEPT ![p] = IF cmd[p].op \in ScanOps THEN Touched ELSE {}]
    /\ UNCHANGED <<fileVars, cmd, offset, tally, result, got>>

OpenFails(p) ==
    /\ Faults
    /\ pc[p] = "start"
    /\ Done(p, "failed")
    /\ UNCHANGED <<fileVars, got, stay, ever>>

\* A system call fails on the way to the effect of the command, which then
\* reports ERR_DB_FILE.  When it is the read of a delete, printf gets the error
\* code for a format and the process crashes.
SyscallFails(p) ==
    /\ Faults
    /\ pc[p] \in {"main", "write"}
    /\ cmd[p].op # "compress"
    /\ cmd[p].op = "add" => InRange(cmd[p].id)
    /\ \/ Done(p, "failed")
       \/ In(p, "del") /\ Done(p, "crash")
    /\ UNCHANGED <<fileVars, got, stay, ever>>

Killed(p) ==
    /\ Faults
    /\ pc[p] # "done"
    /\ Done(p, "killed")
    /\ UNCHANGED <<fileVars, got, stay, ever>>

\* The effect has been written: it is reported, unless the process is killed.
Written(p) == Done(p, "NO_ERROR") \/ (Faults /\ Done(p, "killed"))

\* The command has read what it has to and goes on to write.
GoOn(p) ==
    /\ pc' = [pc EXCEPT ![p] = "write"]
    /\ UNCHANGED <<cmd, offset, tally, result>>


-----------------------------------------------------------------------------
(***************************************************************************)
(* add_student                                                             *)
(***************************************************************************)
AddRefused(p) ==
    /\ In(p, "add")
    /\ ~InRange(cmd[p].id)
    /\ Done(p, "EXIT_FAIL_ARGS")
    /\ UNCHANGED <<fileVars, got, stay, ever>>

\* Mutant of AddRead: the record goes where the id leads, in range or not.
AddReadAnyId(p) ==
    /\ In(p, "add")
    /\ ReadRecord(Slot(cmd[p].id)).id = 0
    /\ GoOn(p)
    /\ UNCHANGED <<fileVars, got, stay, ever>>

\* The slot looks empty: the id of its record is 0, or the file ends before it.
AddRead(p) ==
    /\ In(p, "add")
    /\ InRange(cmd[p].id)
    /\ ReadRecord(Slot(cmd[p].id)).id = 0
    /\ GoOn(p)
    /\ UNCHANGED <<fileVars, got, stay, ever>>

AddDuplicate(p) ==
    /\ In(p, "add")
    /\ InRange(cmd[p].id)
    /\ ReadRecord(Slot(cmd[p].id)).id # 0
    /\ Done(p, "ERR_DB_OP")
    /\ UNCHANGED <<fileVars, got, stay, ever>>

AddWrite(p) ==
    /\ pc[p] = "write"
    /\ cmd[p].op = "add"
    /\ WriteAt(Slot(cmd[p].id), Record(cmd[p].id, p))
    /\ Written(p)
    /\ UNCHANGED got

-----------------------------------------------------------------------------
(***************************************************************************)
(* del_student, which does not look at the range of the id                 *)
(***************************************************************************)
SeekFails(p) ==
    /\ In(p, "del") \/ In(p, "find")
    /\ Slot(cmd[p].id) < 0
    /\ Done(p, "ERR_DB_FILE")
    /\ UNCHANGED <<fileVars, got, stay, ever>>

\* A read that does not return a whole record: printf(ERR_DB_OP) takes -2 for the
\* address of its format.
DelShortRead(p) ==
    /\ In(p, "del")
    /\ Slot(cmd[p].id) >= 0
    /\ Available(Slot(cmd[p].id)) < 2
    /\ Done(p, "crash")
    /\ UNCHANGED <<fileVars, got, stay, ever>>

DelNotFound(p) ==
    /\ In(p, "del")
    /\ Slot(cmd[p].id) >= 0
    /\ Available(Slot(cmd[p].id)) = 2
    /\ db[Slot(cmd[p].id)] = EMPTY_STUDENT_RECORD
    /\ Done(p, "ERR_DB_OP")
    /\ UNCHANGED <<fileVars, got, stay, ever>>

\* Mutant of DelRead: whatever the read returned is deleted.
DelReadUnchecked(p) ==
    /\ In(p, "del")
    /\ Slot(cmd[p].id) >= 0
    /\ Available(Slot(cmd[p].id)) = 2
    /\ GoOn(p)
    /\ UNCHANGED <<fileVars, got, stay, ever>>

DelRead(p) ==
    /\ In(p, "del")
    /\ Slot(cmd[p].id) >= 0
    /\ Available(Slot(cmd[p].id)) = 2
    /\ db[Slot(cmd[p].id)] # EMPTY_STUDENT_RECORD
    /\ GoOn(p)
    /\ UNCHANGED <<fileVars, got, stay, ever>>

DelWrite(p) ==
    /\ pc[p] = "write"
    /\ cmd[p].op = "del"
    /\ WriteAt(Slot(cmd[p].id), EMPTY_STUDENT_RECORD)
    /\ Written(p)
    /\ UNCHANGED got

-----------------------------------------------------------------------------
(***************************************************************************)
(* get_student                                                             *)
(***************************************************************************)
FindShortRead(p) ==
    /\ In(p, "find")
    /\ Slot(cmd[p].id) >= 0
    /\ Available(Slot(cmd[p].id)) < 2
    /\ Done(p, "ERR_DB_FILE")
    /\ UNCHANGED <<fileVars, got, stay, ever>>

FindNotFound(p) ==
    /\ In(p, "find")
    /\ Slot(cmd[p].id) >= 0
    /\ Available(Slot(cmd[p].id)) = 2
    /\ db[Slot(cmd[p].id)].id = 0
    /\ Done(p, "SRCH_NOT_FOUND")
    /\ UNCHANGED <<fileVars, got, stay, ever>>

Find(p) ==
    /\ In(p, "find")
    /\ Slot(cmd[p].id) >= 0
    /\ Available(Slot(cmd[p].id)) = 2
    /\ db[Slot(cmd[p].id)].id # 0
    /\ got' = [got EXCEPT ![p] = db[Slot(cmd[p].id)].rest]
    /\ Done(p, "NO_ERROR")
    /\ UNCHANGED <<fileVars, stay, ever>>

-----------------------------------------------------------------------------
(***************************************************************************)
(* count_db_records and print_db: one read per step, from slot 0 to the    *)
(* end of the file, wherever that is by then.                              *)
(***************************************************************************)
Tallied(p, is) ==
    /\ offset' = [offset EXCEPT ![p] = @ + 1]
    /\ tally' = [tally EXCEPT ![p] = IF is THEN @ \cup {offset[p]} ELSE @]
    /\ UNCHANGED <<fileVars, cmd, pc, result, got, stay, ever>>

\* Mutant of CountRead: deleted records count.
CountReadDeleted(p) ==
    /\ In(p, "count")
    /\ Available(offset[p]) = 2
    /\ Tallied(p, TRUE)

CountRead(p) ==
    /\ In(p, "count")
    /\ Available(offset[p]) = 2
    /\ Tallied(p, db[offset[p]] # EMPTY_STUDENT_RECORD)

\* Mutant of PrintRead: curr_offset stays.
PrintReadAgain(p) ==
    /\ In(p, "print")
    /\ Available(offset[p]) = 2
    /\ tally' = [tally EXCEPT ![p] = @ \cup {offset[p]}]
    /\ UNCHANGED <<fileVars, cmd, pc, offset, result, got, stay, ever>>

PrintRead(p) ==
    /\ In(p, "print")
    /\ Available(offset[p]) = 2
    /\ Tallied(p, db[offset[p]].id # 0)

ScanShortRead(p) ==
    /\ Scans(p)
    /\ Available(offset[p]) = 1
    /\ Done(p, "ERR_DB_FILE")
    /\ UNCHANGED <<fileVars, got, stay, ever>>

ScanEnd(p) ==
    /\ Scans(p)
    /\ Available(offset[p]) = 0
    /\ Done(p, "NO_ERROR")
    /\ UNCHANGED <<fileVars, got, stay, ever>>

-----------------------------------------------------------------------------
\* -z: close the file and open it again with O_TRUNC.
Zero(p) ==
    /\ In(p, "zero")
    /\ SetFile([s \in Slots |-> EMPTY_STUDENT_RECORD], 0)
    /\ Written(p)
    /\ UNCHANGED got

\* -x: compress_db is not implemented.
Compress(p) ==
    /\ In(p, "compress")
    /\ Done(p, "NO_ERROR")
    /\ UNCHANGED <<fileVars, got, stay, ever>>

Main(p) ==
    \/ Open(p)
    \/ AddRefused(p) \/ AddRead(p) \/ AddDuplicate(p) \/ AddWrite(p)
    \/ SeekFails(p) \/ DelShortRead(p) \/ DelNotFound(p) \/ DelRead(p) \/ DelWrite(p)
    \/ FindShortRead(p) \/ FindNotFound(p) \/ Find(p)
    \/ CountRead(p) \/ PrintRead(p) \/ ScanShortRead(p) \/ ScanEnd(p)
    \/ Zero(p) \/ Compress(p)

\* Every command has come to its end.
Over ==
    /\ \A p \in Procs : pc[p] = "done"
    /\ UNCHANGED vars

Next ==
    \/ \E p \in Procs : Main(p) \/ OpenFails(p) \/ SyscallFails(p) \/ Killed(p)
    \/ Over

Spec == Init /\ [][Next]_vars

\* The processes are scheduled.
FairSpec == Spec /\ \A p \in Procs : WF_vars(Main(p))

-----------------------------------------------------------------------------
(***************************************************************************)
(* Properties.                                                             *)
(***************************************************************************)
TypeOK ==
    /\ db \in [Slots -> [id : Int, rest : Students \cup {NoStudent}]]
    /\ size \in 0 .. 2 * (MAX_STD_ID + 1)
    /\ \A s \in Slots : db[s] # EMPTY_STUDENT_RECORD => 2 * s < size
    /\ \A p \in Procs : cmd[p] \in Commands[p]
    /\ pc \in [Procs -> {"start", "main", "write", "done"}]
    /\ \A p \in Procs : pc[p] = "write" => cmd[p].op \in {"add", "del"}
    /\ offset \in [Procs -> 0 .. MAX_STD_ID + 1]
    /\ tally \in [Procs -> SUBSET Slots]
    /\ result \in [Procs -> {"none", "NO_ERROR", "ERR_DB_FILE", "ERR_DB_OP", "failed",
                             "SRCH_NOT_FOUND", "EXIT_FAIL_ARGS", "crash", "killed"}]
    /\ \A p \in Procs : result[p] = "none" <=> pc[p] # "done"
    /\ got \in [Procs -> Students \cup {NoStudent}]
    /\ stay \in [Procs -> SUBSET Ids]
    /\ ever \in [Procs -> SUBSET Ids]

\* A record is in the slot of its own id, and slot 0, where every deleted id
\* would lead, stays empty.  get_student, del_student and print_db rely on it:
\* none of them looks whether the record it reads is the one it wants.
Slotted == \A s \in Slots : db[s].id \in {0, s}

\* count and print, which read while others write, report every student that was
\* there all the time and none that was never there.
ScanSound ==
    \A p \in Procs :
        cmd[p].op \in ScanOps /\ result[p] = "NO_ERROR" =>
            stay[p] \subseteq tally[p] /\ tally[p] \subseteq ever[p]

\* A command takes effect at one moment, or fails without one, and reports what
\* the table was at that moment (see StudentTable).
Table ==
    [k \in Ids |-> IF db[k] = EMPTY_STUDENT_RECORD THEN NoStudent
                   ELSE IF k \in Whole THEN db[k].rest ELSE "spoilt"]
AsTable == INSTANCE StudentTable WITH table <- Table
TableSpec == AsTable!Spec

\* Every command ends, whatever the others do to the file that it reads.
CommandsEnd == \A p \in Procs : <>(pc[p] = "done")

-----------------------------------------------------------------------------
(***************************************************************************)
(* What the repository says and the code does not do.                      *)
(***************************************************************************)

\* test.sh, "Make sure adding duplicate student fails": of two adds of a student
\* whom nothing deletes one is told that he is there already.
AddedOnce ==
    \A p, q \in Procs :
        /\ cmd[p] = cmd[q] /\ cmd[p].op = "add"
        /\ result[p] = "NO_ERROR" /\ result[q] = "NO_ERROR"
        => p = q
=============================================================================
