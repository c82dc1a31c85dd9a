-------------------------- MODULE StudentDBProofs --------------------------
(***************************************************************************)
(* Safety of StudentDB for any number of processes, any commands and any   *)
(* size of the table: what the file may look like after writes that were   *)
(* cut short, what a command that has read may rely on when it writes,     *)
(* what a scan has seen; and that the commands, if their users keep those  *)
(* apart that conflict, act on StudentTable each in one step.              *)
(***************************************************************************)
EXTENDS StudentDB, TLAPS

\* A record is in its own slot, none is in slot 0, and the part of a record that
\* the file does not reach is empty.  Only a short write leaves half a record at
\* the end of the file.
FileInv ==
    /\ Slotted
    /\ db[0] = EMPTY_STUDENT_RECORD
    /\ \A s \in Slots : db[s].rest # NoStudent => 2 * s + 1 < size
    /\ ~Faults => size % 2 = 0

\* The slot that a command is about to write; if conflicting commands are kept
\* apart, it still is what the command has read.
WriteInv(p) ==
    pc[p] = "write" =>
        /\ Slot(cmd[p].id) \in Slots
        /\ cmd[p].op = "add" => InRange(cmd[p].id)
        /\ Exclusive =>
             IF cmd[p].op = "add" THEN db[Slot(cmd[p].id)].id = 0
             ELSE db[Slot(cmd[p].id)] # EMPTY_STUDENT_RECORD

\* A scan has reported what it has passed of the students that were there all
\* the time, and nobody who was never there.
ScanInv(p) ==
    /\ pc[p] = "start" => offset[p] = 0 /\ tally[p] = {}
    /\ Scans(p) =>
          /\ stay[p] \subseteq Whole
          /\ Touched \subseteq ever[p]
          /\ \A k \in stay[p] : k < offset[p] => k \in tally[p]
          /\ tally[p] \subseteq ever[p]
    /\ cmd[p].op \in ScanOps /\ result[p] = "NO_ERROR" =>
          stay[p] \subseteq tally[p] /\ tally[p] \subseteq ever[p]

Apart ==
    Exclusive => \A p, q \in Procs :
        p # q /\ {pc[p], pc[q]} \subseteq {"main", "write"} => ~Conflict(p, q)

IInv ==
    /\ TypeOK
    /\ FileInv
    /\ Apart
    /\ \A p \in Procs : WriteInv(p) /\ ScanInv(p)

-----------------------------------------------------------------------------
(***************************************************************************)
(* Slots and records.                                                      *)
(***************************************************************************)
\* The offset of an id in range is its own, whatever Wrap is.
LEMMA SlotProperties ==
    ASSUME NEW id \in Int
    PROVE  Slot(id) \in Int /\ (InRange(id) => Slot(id) = id /\ id \in Ids)
<1> DEFINE half == Wrap \div 2
<1>1. Wrap \in Nat /\ Wrap > 2 * MAX_STD_ID + 1 /\ MAX_STD_ID \in Nat
      /\ half \in Nat /\ 2 * half <= Wrap /\ Wrap <= 2 * half + 1
  BY SizesAssumption
<1> HIDE DEF half
<1>2. (id + half) % Wrap \in Int
  BY <1>1
<1>3. Slot(id) = ((id + half) % Wrap) - half
  BY DEF Slot, half
<1>4. ASSUME InRange(id) PROVE Slot(id) = id /\ id \in Ids
  <2>1. 0 <= id + half /\ id + half < Wrap /\ id \in Ids
    BY <1>1, <1>4 DEF InRange, Ids
  <2>2. (id + half) % Wrap = id + half
    BY <1>1, <2>1
  <2> QED
    BY <1>1, <1>3, <2>1, <2>2
<1> QED
  BY <1>1, <1>2, <1>3, <1>4

\* A record is empty if both cells are.
LEMMA RecordProperties ==
    ASSUME TypeOK, NEW s \in Slots
    PROVE  /\ db[s] = EMPTY_STUDENT_RECORD <=> db[s].id = 0 /\ db[s].rest = NoStudent
           /\ db[s].id \in Int /\ db[s].rest \in Students \cup {NoStudent}
BY DEF TypeOK, EMPTY_STUDENT_RECORD, Record

\* What a read of a slot finds: past the end of the file there is nothing, and
\* what a read that is short leaves out is empty.
LEMMA ReadProperties ==
    ASSUME TypeOK, FileInv, NEW s \in Int, s >= 0
    PROVE  /\ Available(s) \in {0, 1, 2}
           /\ Available(s) > 0 => s \in Slots
           /\ Available(s) < 2 => s \notin Slots \/ db[s].rest = NoStudent
           /\ Available(s) = 0 => s \notin Slots \/ db[s] = EMPTY_STUDENT_RECORD
           /\ s \in Slots => ReadRecord(s) = db[s]
<1>1. size \in Int /\ size <= 2 * (MAX_STD_ID + 1) /\ MAX_STD_ID \in Nat
  BY SizesAssumption DEF TypeOK
<1>2. Available(s) \in {0, 1, 2} /\ (Available(s) > 0 => s \in Slots)
  BY <1>1 DEF Available, Slots
<1>3. Available(s) < 2 => s \notin Slots \/ db[s].rest = NoStudent
  BY <1>1 DEF Available, FileInv
<1>4. Available(s) = 0 => s \notin Slots \/ db[s] = EMPTY_STUDENT_RECORD
  BY <1>1 DEF Available, TypeOK
<1> QED
  BY <1>2, <1>3, <1>4 DEF ReadRecord

\* The slots that are not empty are those of students.
LEMMA TouchedProperties ==
    ASSUME TypeOK, FileInv
    PROVE  /\ Whole \subseteq Touched /\ Touched \subseteq Ids
           /\ \A s \in Slots : db[s] # EMPTY_STUDENT_RECORD => s \in Touched
           /\ Ids \subseteq Slots /\ 0 \in Slots
<1>1. Ids \subseteq Slots /\ 0 \in Slots /\ \A s \in Slots : s = 0 \/ s \in Ids
  BY SizesAssumption DEF Ids, Slots
<1>2. Whole \subseteq Touched
  BY <1>1, RecordProperties DEF Whole, Touched
<1> QED
  BY <1>1, <1>2 DEF Touched, FileInv

-----------------------------------------------------------------------------
(***************************************************************************)
(* Steps that leave the file alone.                                        *)
(***************************************************************************)
Results == {"NO_ERROR", "ERR_DB_FILE", "ERR_DB_OP", "failed", "SRCH_NOT_FOUND",
            "EXIT_FAIL_ARGS", "crash", "killed"}

LEMMA CommandType ==
    ASSUME TypeOK, NEW p \in Procs
    PROVE  cmd[p].op \in Ops /\ cmd[p].id \in Int
BY CommandsAssumption DEF TypeOK

\* A process that does nothing while the file stays as it is.
LEMMA ProcessFrame ==
    ASSUME NEW q \in Procs, WriteInv(q), ScanInv(q), UNCHANGED fileVars,
           cmd' = cmd, pc'[q] = pc[q], offset'[q] = offset[q], tally'[q] = tally[q],
           result'[q] = result[q], stay'[q] = stay[q], ever'[q] = ever[q]
    PROVE  WriteInv(q)' /\ ScanInv(q)'
<1>1. Whole' = Whole /\ Touched' = Touched /\ Scans(q)' = Scans(q)
  BY DEF fileVars, Whole, Touched, Scans
<1>2. WriteInv(q)'
  BY DEF WriteInv, fileVars
<1> QED
  BY <1>1, <1>2 DEF ScanInv

\* A process that does not go on to work with the file keeps apart from others.
LEMMA ApartFrame ==
    ASSUME Apart, NEW p \in Procs, cmd' = cmd,
           \A q \in Procs : q # p => pc'[q] = pc[q],
           pc'[p] \in {"main", "write"} => pc[p] \in {"main", "write"}
    PROVE  Apart'
BY DEF Apart, Conflict

\* A command reports and exits; the file stays as it is.
LEMMA ReportStep ==
    ASSUME IInv, NEW p \in Procs, NEW r \in Results, pc[p] # "done", Done(p, r),
           UNCHANGED <<fileVars, stay, ever>>,
           got' \in [Procs -> Students \cup {NoStudent}],
           cmd[p].op \in ScanOps /\ r = "NO_ERROR" =>
              stay[p] \subseteq tally[p] /\ tally[p] \subseteq ever[p]
    PROVE  IInv'
<1>1. /\ pc'[p] = "done" /\ result'[p] = r /\ cmd' = cmd /\ offset' = offset
      /\ tally' = tally /\ stay' = stay /\ ever' = ever /\ db' = db /\ size' = size
      /\ \A q \in Procs : q # p => pc'[q] = pc[q] /\ result'[q] = result[q]
  BY DEF Done, IInv, TypeOK, fileVars
<1>2. TypeOK'
  BY DEF IInv, TypeOK, Done, Results, fileVars
<1>3. FileInv'
  BY <1>1 DEF IInv, FileInv, Slotted
<1>4. Apart'
  BY <1>1, ApartFrame DEF IInv
<1>5. ASSUME NEW q \in Procs PROVE WriteInv(q)' /\ ScanInv(q)'
  <2>1. CASE q = p
    BY <1>1, <2>1 DEF WriteInv, ScanInv, Scans, IInv
  <2>2. CASE q # p
    BY <1>1, <2>2, ProcessFrame DEF IInv
  <2> QED
    BY <2>1, <2>2
<1> QED
  BY <1>2, <1>3, <1>4, <1>5 DEF IInv

LEMMA OpenStep ==
    ASSUME IInv, NEW p \in Procs, Open(p)
    PROVE  IInv'
<1>1. /\ pc[p] = "start" /\ pc'[p] = "main" /\ cmd' = cmd /\ offset' = offset
      /\ tally' = tally /\ result' = result /\ db' = db /\ size' = size
      /\ cmd[p].op \in ScanOps => stay'[p] = Whole /\ ever'[p] = Touched
      /\ \A q \in Procs : q # p => /\ pc'[q] = pc[q] /\ stay'[q] = stay[q]
                                   /\ ever'[q] = ever[q]
  BY DEF Open, IInv, TypeOK, fileVars
<1>2. TypeOK'
  <2>1. Whole \in SUBSET Ids /\ Touched \in SUBSET Ids
    BY DEF Whole, Touched
  <2> QED
    BY <2>1 DEF IInv, TypeOK, Open, fileVars
<1>3. FileInv'
  BY <1>1 DEF IInv, FileInv, Slotted
<1>4. Apart'
  <2> SUFFICES ASSUME Exclusive, NEW q \in Procs, NEW r \in Procs, q # r,
                      {pc'[q], pc'[r]} \subseteq {"main", "write"}
               PROVE  ~Conflict(q, r)'
    BY DEF Apart
  <2>1. \A x, y \in Procs : Conflict(x, y)' = Conflict(x, y) /\ Conflict(x, y) = Conflict(y, x)
    BY <1>1 DEF Conflict
  <2>2. CASE q = p
    BY <1>1, <2>1, <2>2 DEF Open
  <2>3. CASE r = p
    BY <1>1, <2>1, <2>3 DEF Open
  <2>4. CASE q # p /\ r # p
    BY <1>1, <2>1, <2>4 DEF IInv, Apart
  <2> QED
    BY <2>2, <2>3, <2>4
<1>5. ASSUME NEW q \in Procs PROVE WriteInv(q)' /\ ScanInv(q)'
  <2>1. CASE q = p
    <3>1. WriteInv(q)'
      BY <1>1, <2>1 DEF WriteInv
    <3>2. Whole' = Whole /\ Touched' = Touched /\ Whole \subseteq Touched
      BY <1>1, TouchedProperties DEF Whole, Touched, IInv
    <3>3. result[q] = "none" /\ offset[q] = 0 /\ tally[q] = {}
      BY <1>1, <2>1 DEF IInv, TypeOK, ScanInv
    <3>4. \A k \in Whole : ~(k < 0)
      BY SizesAssumption DEF Whole, Ids
    <3> QED
      BY <1>1, <2>1, <3>1, <3>2, <3>3, <3>4 DEF ScanInv, Scans
  <2>2. CASE q # p
    BY <1>1, <2>2, ProcessFrame DEF IInv, fileVars
  <2> QED
    BY <2>1, <2>2
<1> QED
  BY <1>2, <1>3, <1>4, <1>5 DEF IInv

\* add_student and del_student have found what they want to write over.
LEMMA ReadStep ==
    ASSUME IInv, NEW p \in Procs, AddRead(p) \/ DelRead(p)
    PROVE  IInv'
<1>1. /\ pc[p] = "main" /\ pc'[p] = "write" /\ cmd' = cmd /\ offset' = offset
      /\ tally' = tally /\ result' = result /\ got' = got /\ db' = db /\ size' = size
      /\ stay' = stay /\ ever' = ever /\ cmd[p].op \in {"add", "del"}
      /\ \A q \in Procs : q # p => pc'[q] = pc[q]
  BY DEF AddRead, DelRead, In, GoOn, IInv, TypeOK, fileVars
<1>2. TypeOK'
  BY <1>1 DEF AddRead, DelRead, In, GoOn, IInv, TypeOK, fileVars
<1>3. FileInv'
  BY <1>1 DEF IInv, FileInv, Slotted
<1>4. Apart'
  BY <1>1, ApartFrame DEF IInv
<1>5. WriteInv(p)'
  <2>1. CASE AddRead(p)
    <3>1. InRange(cmd[p].id) /\ Slot(cmd[p].id) \in Slots /\ cmd[p].op = "add"
      BY <2>1, SlotProperties, CommandType, TouchedProperties DEF AddRead, In, IInv
    <3>2. Slot(cmd[p].id) \in Int /\ Slot(cmd[p].id) >= 0
      BY <3>1 DEF Slots
    <3>3. db[Slot(cmd[p].id)].id = 0
      BY <2>1, <3>1, <3>2, ReadProperties DEF AddRead, IInv
    <3> QED
      BY <1>1, <3>1, <3>3 DEF WriteInv
  <2>2. CASE DelRead(p)
    <3>1. /\ Slot(cmd[p].id) \in Int /\ Slot(cmd[p].id) >= 0 /\ cmd[p].op = "del"
          /\ Available(Slot(cmd[p].id)) = 2
      BY <2>2, SlotProperties, CommandType DEF DelRead, In, IInv
    <3>2. Slot(cmd[p].id) \in Slots
      BY <3>1, ReadProperties DEF IInv
    <3> QED
      BY <1>1, <2>2, <3>1, <3>2 DEF WriteInv, DelRead
  <2> QED
    BY <2>1, <2>2
<1>6. ScanInv(p)'
  BY <1>1 DEF ScanInv, Scans, ScanOps
<1>7. ASSUME NEW q \in Procs, q # p PROVE WriteInv(q)' /\ ScanInv(q)'
  BY <1>1, <1>7, ProcessFrame DEF IInv, fileVars
<1> QED
  BY <1>2, <1>3, <1>4, <1>5, <1>6, <1>7 DEF IInv

\* count and print read one record: for a record that is neither whole nor empty
\* either may hold.
LEMMA TalliedStep ==
    ASSUME IInv, NEW p \in Procs, CountRead(p) \/ PrintRead(p)
    PROVE  IInv'
<1> DEFINE at == offset[p]
<1>1. PICK is \in BOOLEAN :
         /\ is = (db[at] # EMPTY_STUDENT_RECORD) \/ is = (db[at].id # 0)
         /\ Tallied(p, is)
  BY DEF CountRead, PrintRead
<1>2. Scans(p) /\ pc[p] = "main" /\ cmd[p].op \in ScanOps /\ Available(at) = 2
  BY DEF CountRead, PrintRead, In, Scans, ScanOps
<1>3. at \in Slots /\ at \in Int
  <2>1. at \in Int /\ at >= 0
    BY SizesAssumption DEF IInv, TypeOK
  <2> QED
    BY <1>2, <2>1, ReadProperties DEF IInv
<1>4. /\ offset'[p] = at + 1 /\ tally'[p] = (IF is THEN tally[p] \cup {at} ELSE tally[p])
      /\ cmd' = cmd /\ pc' = pc /\ result' = result /\ got' = got /\ db' = db
      /\ size' = size /\ stay' = stay /\ ever' = ever
      /\ \A q \in Procs : q # p => offset'[q] = offset[q] /\ tally'[q] = tally[q]
  BY <1>1 DEF Tallied, IInv, TypeOK, fileVars
<1>5. TypeOK'
  <2>1. at + 1 \in 0 .. MAX_STD_ID + 1
    BY <1>3, SizesAssumption DEF Slots
  <2>2. offset' \in [Procs -> 0 .. MAX_STD_ID + 1] /\ tally' \in [Procs -> SUBSET Slots]
    BY <1>1, <1>3, <2>1 DEF Tallied, IInv, TypeOK
  <2> QED
    BY <1>4, <2>2 DEF IInv, TypeOK
<1>6. FileInv'
  BY <1>4 DEF IInv, FileInv, Slotted
<1>7. Apart'
  BY <1>4, ApartFrame DEF IInv
<1>8. WriteInv(p)'
  BY <1>2, <1>4 DEF WriteInv
<1>9. ScanInv(p)'
  <2>1. is => at \in Touched
    BY <1>1, <1>3, RecordProperties, TouchedProperties DEF IInv
  <2>2. at \in Whole => is
    BY <1>1, <1>3, RecordProperties DEF Whole, IInv
  <2>3. Whole' = Whole /\ Touched' = Touched /\ Scans(p)' = Scans(p)
    BY <1>4 DEF Whole, Touched, Scans
  <2>4. result[p] = "none"
    BY <1>2 DEF IInv, TypeOK
  <2>5. ASSUME NEW k \in stay[p], k < at + 1 PROVE k \in tally'[p]
    <3>1. k \in Int /\ k \in Whole
      BY <1>2 DEF IInv, TypeOK, ScanInv, Ids
    <3> QED
      BY <1>2, <1>3, <1>4, <2>2, <2>5, <3>1 DEF IInv, ScanInv
  <2>6. tally'[p] \subseteq ever[p]
    BY <1>2, <1>4, <2>1 DEF IInv, ScanInv
  <2> QED
    BY <1>2, <1>4, <2>3, <2>4, <2>5, <2>6 DEF ScanInv, IInv
<1>10. ASSUME NEW q \in Procs, q # p PROVE WriteInv(q)' /\ ScanInv(q)'
  BY <1>4, <1>10, ProcessFrame DEF IInv, fileVars
<1> QED
  BY <1>5, <1>6, <1>7, <1>8, <1>9, <1>10 DEF IInv

-----------------------------------------------------------------------------
(***************************************************************************)
(* Steps that write the file.                                              *)
(***************************************************************************)
\* The scans that are under way see the new file.
ScansSee ==
    /\ stay' = [q \in Procs |-> IF Scans(q) THEN stay[q] \cap Whole' ELSE stay[q]]
    /\ ever' = [q \in Procs |-> IF Scans(q) THEN ever[q] \cup Touched' ELSE ever[q]]

FileType ==
    /\ db \in [Slots -> [id : Int, rest : Students \cup {NoStudent}]]
    /\ size \in 0 .. 2 * (MAX_STD_ID + 1)
    /\ \A s \in Slots : db[s] # EMPTY_STUDENT_RECORD => 2 * s < size

\* What a write, whole or short, does to the file.
LEMMA WriteProperties ==
    ASSUME IInv, NEW s \in Slots, NEW id \in {0, s}, NEW rest \in Students \cup {NoStudent},
           s = 0 => id = 0 /\ rest = NoStudent, WriteAt(s, Record(id, rest))
    PROVE  /\ FileType' /\ FileInv' /\ ScansSee
           /\ \A k \in Slots : k # s => db'[k] = db[k]
           /\ db'[s].id = id
           /\ db'[s].rest = rest \/ (Faults /\ db'[s].rest = db[s].rest)
<1>1. /\ s \in Int /\ s >= 0 /\ s <= MAX_STD_ID /\ MAX_STD_ID \in Nat
      /\ size \in Int /\ 0 <= size /\ size <= 2 * (MAX_STD_ID + 1)
  BY SizesAssumption DEF IInv, TypeOK, Slots
<1>2. /\ db \in [Slots -> [id : Int, rest : Students \cup {NoStudent}]]
      /\ EMPTY_STUDENT_RECORD \in [id : Int, rest : Students \cup {NoStudent}]
      /\ EMPTY_STUDENT_RECORD.id = 0 /\ EMPTY_STUDENT_RECORD.rest = NoStudent
      /\ \A k \in Slots : k \in Int
  BY DEF IInv, TypeOK, EMPTY_STUDENT_RECORD, Record, Slots
<1>3. ScansSee
  BY DEF WriteAt, SetFile, ScansSee
<1>4. CASE /\ db' = [db EXCEPT ![s] = Record(id, rest)]
           /\ size' = IF size < 2 * s + 2 THEN 2 * s + 2 ELSE size
  <2>1. /\ db'[s] = Record(id, rest) /\ db'[s].id = id /\ db'[s].rest = rest
        /\ \A k \in Slots : k # s => db'[k] = db[k]
        /\ db' \in [Slots -> [id : Int, rest : Students \cup {NoStudent}]]
    BY <1>1, <1>2, <1>4 DEF Record
  <2>2. /\ size' \in 0 .. 2 * (MAX_STD_ID + 1) /\ size <= size' /\ 2 * s + 1 < size'
        /\ size % 2 = 0 => size' % 2 = 0
    BY <1>1, <1>4
  <2>3. FileType'
    BY <1>1, <1>2, <2>1, <2>2 DEF FileType, IInv, TypeOK
  <2>4. FileInv'
    <3>1. Slotted'
      BY <2>1 DEF IInv, FileInv, Slotted
    <3>2. db'[0] = EMPTY_STUDENT_RECORD
      <4>1. CASE s = 0
        BY <2>1, <4>1 DEF EMPTY_STUDENT_RECORD
      <4>2. CASE s # 0
        BY <1>1, <2>1, <4>2 DEF IInv, FileInv, Slots, EMPTY_STUDENT_RECORD, Record
      <4> QED
        BY <4>1, <4>2
    <3>3. \A k \in Slots : db'[k].rest # NoStudent => 2 * k + 1 < size'
      BY <1>1, <1>2, <2>1, <2>2 DEF IInv, FileInv
    <3> QED
      BY <2>2, <3>1, <3>2, <3>3 DEF IInv, FileInv
  <2> QED
    BY <1>3, <2>1, <2>3, <2>4
<1>5. CASE /\ Faults
           /\ db' = [db EXCEPT ![s].id = id]
           /\ size' = IF size < 2 * s + 1 THEN 2 * s + 1 ELSE size
  <2>1. /\ db'[s] = [db[s] EXCEPT !.id = id] /\ db'[s].id = id /\ db'[s].rest = db[s].rest
        /\ \A k \in Slots : k # s => db'[k] = db[k]
        /\ db' \in [Slots -> [id : Int, rest : Students \cup {NoStudent}]]
    BY <1>1, <1>2, <1>5
  <2>2. size' \in 0 .. 2 * (MAX_STD_ID + 1) /\ size <= size' /\ 2 * s < size'
    BY <1>1, <1>5
  <2>3. FileType'
    BY <1>1, <1>2, <2>1, <2>2 DEF FileType, IInv, TypeOK
  <2>4. FileInv'
    <3>1. Slotted'
      BY <2>1 DEF IInv, FileInv, Slotted
    <3>2. db'[0] = EMPTY_STUDENT_RECORD
      <4>1. CASE s = 0
        <5>1. db'[0].id = 0 /\ db'[0].rest = NoStudent /\ 0 \in Slots
          BY <1>2, <2>1, <4>1 DEF IInv, FileInv
        <5> QED
          BY <2>1, <5>1 DEF EMPTY_STUDENT_RECORD, Record
      <4>2. CASE s # 0
        BY <1>1, <2>1, <4>2 DEF IInv, FileInv, Slots, EMPTY_STUDENT_RECORD, Record
      <4> QED
        BY <4>1, <4>2
    <3>3. \A k \in Slots : db'[k].rest # NoStudent => 2 * k + 1 < size'
      BY <1>1, <1>2, <2>1, <2>2 DEF IInv, FileInv
    <3> QED
      BY <1>5, <3>1, <3>2, <3>3 DEF FileInv
  <2> QED
    BY <1>3, <1>5, <2>1, <2>3, <2>4
<1>6. Record(id, rest).id = id
  BY DEF Record
<1> QED
  BY <1>4, <1>5, <1>6 DEF WriteAt, SetFile

\* A command takes effect on the file and exits.
LEMMA EffectStep ==
    ASSUME IInv, NEW p \in Procs, pc[p] # "done", cmd[p].op \notin ScanOps,
           Written(p), got' = got, FileType', FileInv', ScansSee,
           \A q \in Procs : q # p => WriteInv(q)'
    PROVE  IInv'
<1>1. /\ pc'[p] = "done" /\ cmd' = cmd /\ offset' = offset /\ tally' = tally
      /\ \A q \in Procs : q # p => pc'[q] = pc[q] /\ result'[q] = result[q]
  BY DEF Written, Done, IInv, TypeOK
<1>2. TypeOK'
  <2>1. /\ stay' \in [Procs -> SUBSET Ids] /\ ever' \in [Procs -> SUBSET Ids]
    <3>1. Touched' \in SUBSET Ids
      BY DEF Touched
    <3> QED
      BY <3>1 DEF ScansSee, IInv, TypeOK
  <2>2. /\ pc' \in [Procs -> {"start", "main", "write", "done"}]
        /\ result' \in [Procs -> {"none"} \cup Results]
        /\ \A q \in Procs : result'[q] = "none" <=> pc'[q] # "done"
        /\ \A q \in Procs : pc'[q] = "write" => cmd'[q].op \in {"add", "del"}
    BY DEF Written, Done, IInv, TypeOK, Results
  <2> QED
    BY <1>1, <2>1, <2>2 DEF IInv, TypeOK, FileType, Results
<1>3. Apart'
  BY <1>1, ApartFrame DEF IInv
<1>4. WriteInv(p)' /\ ScanInv(p)'
  BY <1>1 DEF WriteInv, ScanInv, Scans
<1>5. ASSUME NEW q \in Procs, q # p PROVE ScanInv(q)'
  <2>1. Scans(q)' = Scans(q) /\ result'[q] = result[q] /\ ScanInv(q)
    BY <1>1, <1>5 DEF Scans, IInv
  <2>2. Scans(q) => result[q] = "none"
    BY DEF Scans, IInv, TypeOK
  <2>3. ASSUME Scans(q) PROVE stay'[q] = stay[q] \cap Whole' /\ ever'[q] = ever[q] \cup Touched'
    BY <2>3 DEF ScansSee
  <2>4. ASSUME ~Scans(q) PROVE stay'[q] = stay[q] /\ ever'[q] = ever[q]
    BY <2>4 DEF ScansSee
  <2> QED
    BY <1>1, <1>5, <2>1, <2>2, <2>3, <2>4 DEF ScanInv
<1> QED
  BY <1>2, <1>3, <1>4, <1>5 DEF IInv

LEMMA WriteStep ==
    ASSUME IInv, NEW p \in Procs, AddWrite(p) \/ DelWrite(p)
    PROVE  IInv'
<1> DEFINE s == Slot(cmd[p].id)
<1>1. pc[p] = "write" /\ cmd[p].op \in {"add", "del"} /\ Written(p) /\ got' = got /\ cmd' = cmd
  BY DEF AddWrite, DelWrite, Written, Done
<1>2. s \in Slots
  BY <1>1 DEF IInv, WriteInv
<1>3. PICK id \in {0, s}, rest \in Students \cup {NoStudent} :
         /\ WriteAt(s, Record(id, rest)) /\ (s = 0 => id = 0 /\ rest = NoStudent)
  <2>1. CASE AddWrite(p)
    <3>1. s = cmd[p].id /\ s # 0
      BY <2>1, SlotProperties, CommandType, SizesAssumption
         DEF AddWrite, IInv, WriteInv, InRange
    <3> QED
      BY <2>1, <3>1 DEF AddWrite, Students
  <2>2. CASE DelWrite(p)
    BY <2>2 DEF DelWrite, EMPTY_STUDENT_RECORD
  <2> QED
    BY <2>1, <2>2
<1> HIDE DEF s
<1>4. /\ FileType' /\ FileInv' /\ ScansSee
      /\ \A k \in Slots : k # s => db'[k] = db[k]
  BY <1>2, <1>3, WriteProperties
\* Nobody else is about to write the same slot, if users take care.
<1>5. ASSUME NEW q \in Procs, q # p PROVE WriteInv(q)'
  <2>1. pc'[q] = pc[q] /\ WriteInv(q)
    BY <1>1, <1>5 DEF Written, Done, IInv, TypeOK
  <2>2. ASSUME pc[q] = "write", Exclusive PROVE Slot(cmd[q].id) # s
    <3>1. cmd[q].op \in {"add", "del"}
      BY <2>2 DEF IInv, TypeOK
    <3>2. ~Conflict(p, q)
      BY <1>1, <1>5, <2>2 DEF IInv, Apart
    <3> QED
      BY <1>1, <3>1, <3>2 DEF Conflict, s
  <2> QED
    BY <1>1, <1>4, <2>1, <2>2 DEF WriteInv
<1> QED
  BY <1>1, <1>4, <1>5, EffectStep DEF ScanOps

LEMMA ZeroStep ==
    ASSUME IInv, NEW p \in Procs, Zero(p)
    PROVE  IInv'
<1>1. /\ pc[p] = "main" /\ cmd[p].op = "zero" /\ Written(p) /\ got' = got /\ cmd' = cmd
      /\ db' = [k \in Slots |-> EMPTY_STUDENT_RECORD] /\ size' = 0 /\ ScansSee
  BY DEF Zero, In, Written, Done, SetFile, ScansSee
<1>2. FileType' /\ FileInv'
  BY <1>1, SizesAssumption
     DEF FileType, FileInv, Slotted, EMPTY_STUDENT_RECORD, Record, Slots
<1>3. ASSUME NEW q \in Procs, q # p PROVE WriteInv(q)'
  <2>1. pc'[q] = pc[q] /\ WriteInv(q)
    BY <1>1, <1>3 DEF Written, Done, IInv, TypeOK
  <2>2. ASSUME pc[q] = "write", Exclusive PROVE cmd[q].op = "add"
    <3>1. ~Conflict(p, q)
      BY <1>1, <1>3, <2>2 DEF IInv, Apart
    <3> QED
      BY <1>1, <2>2, <3>1 DEF Conflict, IInv, TypeOK
  <2> QED
    BY <1>1, <2>1, <2>2 DEF WriteInv, EMPTY_STUDENT_RECORD, Record
<1> QED
  BY <1>1, <1>2, <1>3, EffectStep DEF ScanOps

-----------------------------------------------------------------------------
(***************************************************************************)
(* The theorems.                                                           *)
(***************************************************************************)
\* Every other step of a command is a report.
LEMMA OtherStep ==
    ASSUME IInv, NEW p \in Procs,
           \/ AddRefused(p) \/ AddDuplicate(p) \/ SeekFails(p) \/ DelShortRead(p)
           \/ DelNotFound(p) \/ FindShortRead(p) \/ FindNotFound(p) \/ Find(p)
           \/ ScanShortRead(p) \/ ScanEnd(p) \/ Compress(p)
           \/ OpenFails(p) \/ SyscallFails(p) \/ Killed(p)
    PROVE  IInv'
<1>1. CASE \/ AddRefused(p) \/ AddDuplicate(p) \/ SeekFails(p) \/ DelShortRead(p)
           \/ DelNotFound(p) \/ FindShortRead(p) \/ FindNotFound(p)
  BY <1>1, ReportStep
     DEF AddRefused, AddDuplicate, SeekFails, DelShortRead, DelNotFound,
         FindShortRead, FindNotFound, In, Results, IInv, TypeOK
<1>2. CASE ScanShortRead(p) \/ Compress(p) \/ OpenFails(p) \/ SyscallFails(p) \/ Killed(p)
  BY <1>2, ReportStep
     DEF ScanShortRead, Compress, OpenFails, SyscallFails, Killed, In, Scans, ScanOps,
         Results, IInv, TypeOK
<1>3. CASE Find(p)
  <2>1. Slot(cmd[p].id) \in Int /\ Slot(cmd[p].id) >= 0 /\ Slot(cmd[p].id) \in Slots
    BY <1>3, SlotProperties, CommandType, ReadProperties DEF Find, IInv
  <2>2. got' \in [Procs -> Students \cup {NoStudent}]
    BY <1>3, <2>1, RecordProperties DEF Find, IInv, TypeOK
  <2> QED
    BY <1>3, <2>2, ReportStep DEF Find, In, ScanOps, Results
\* The scan has come to the end of the file: every student who was there all the
\* time lies before it.
<1>4. CASE ScanEnd(p)
  <2>1. Scans(p) /\ pc[p] = "main" /\ Available(offset[p]) = 0 /\ Done(p, "NO_ERROR")
    BY <1>4 DEF ScanEnd, Scans
  <2>2. size <= 2 * offset[p] /\ offset[p] \in Int /\ size \in Int
    BY <2>1 DEF Available, IInv, TypeOK
  <2>3. ASSUME NEW k \in stay[p] PROVE k \in tally[p]
    <3>1. k \in Whole /\ k \in Touched /\ k \in Slots /\ k \in Int
      BY <2>1, <2>3, TouchedProperties DEF IInv, ScanInv, Ids
    <3>2. 2 * k < size
      BY <3>1 DEF Touched, IInv, TypeOK
    <3> QED
      BY <2>1, <2>2, <2>3, <3>1, <3>2 DEF IInv, ScanInv
  <2>4. tally[p] \subseteq ever[p]
    BY <2>1 DEF IInv, ScanInv
  <2> QED
    BY <1>4, <2>1, <2>3, <2>4, ReportStep DEF ScanEnd, Results, IInv, TypeOK
<1> QED
  BY <1>1, <1>2, <1>3, <1>4

LEMMA InitIInv == Init => IInv
<1> SUFFICES ASSUME Init PROVE IInv
  OBVIOUS
<1> USE DEF Init
<1>1. /\ db \in [Slots -> [id : Int, rest : Students \cup {NoStudent}]]
      /\ \A s \in Slots : db[s] = EMPTY_STUDENT_RECORD \/ db[s].rest = Old
      /\ EMPTY_STUDENT_RECORD.rest = NoStudent
  <2>1. \A k \in Ids : /\ Record(k, Old) \in [id : Int, rest : Students \cup {NoStudent}]
                       /\ Record(k, Old).rest = Old
    BY DEF Record, Students, Ids
  <2>2. /\ EMPTY_STUDENT_RECORD \in [id : Int, rest : Students \cup {NoStudent}]
        /\ EMPTY_STUDENT_RECORD.rest = NoStudent
    BY DEF Record, EMPTY_STUDENT_RECORD
  <2> QED
    BY <2>1, <2>2
<1>2. size \in 0 .. 2 * (MAX_STD_ID + 1) /\ size % 2 = 0
  <2>1. CASE size = 0
    BY <2>1, SizesAssumption
  <2>2. ASSUME NEW k \in Ids, size = 2 * (k + 1)
        PROVE  size \in 0 .. 2 * (MAX_STD_ID + 1) /\ size % 2 = 0
    BY <2>2, SizesAssumption DEF Ids
  <2> QED
    BY <2>1, <2>2
<1>3. TypeOK
  <2>1. offset \in [Procs -> 0 .. MAX_STD_ID + 1]
    BY SizesAssumption
  <2> QED
    BY <1>1, <1>2, <2>1 DEF TypeOK
<1>4. FileInv
  <2>1. db[0] = EMPTY_STUDENT_RECORD
    <3>1. 0 \in Slots /\ \A k \in Ids : k # 0
      BY SizesAssumption DEF Slots, Ids
    <3>2. \A k \in Ids : Record(k, Old).id = k
      BY DEF Record
    <3> QED
      BY <3>1, <3>2
  <2>2. ASSUME NEW s \in Slots, db[s].rest # NoStudent PROVE 2 * s + 1 < size
    <3>1. 2 * s < size
      BY <1>1, <2>2
    <3> QED
      BY <1>2, <3>1 DEF Slots
  <2> QED
    BY <1>2, <2>1, <2>2 DEF FileInv, Slotted
<1>5. ASSUME NEW p \in Procs PROVE WriteInv(p) /\ ScanInv(p)
  BY <1>5 DEF WriteInv, ScanInv, Scans
<1>6. Apart
  BY DEF Apart
<1> QED
  BY <1>3, <1>4, <1>5, <1>6 DEF IInv

LEMMA NextIInv == IInv /\ [Next]_vars => IInv'
<1> SUFFICES ASSUME IInv, [Next]_vars PROVE IInv'
  OBVIOUS
<1>1. ASSUME NEW p \in Procs, Main(p) \/ OpenFails(p) \/ SyscallFails(p) \/ Killed(p)
      PROVE  IInv'
  BY <1>1, OpenStep, ReadStep, TalliedStep, WriteStep, ZeroStep, OtherStep DEF Main
<1>2. CASE UNCHANGED vars
  <2>1. UNCHANGED <<db, size, cmd, pc, offset, tally, result, got, stay, ever>>
    BY <1>2 DEF vars, fileVars, procVars
  <2>2. TypeOK' /\ FileInv' /\ Apart'
    <3>1. TypeOK'
      BY <2>1 DEF IInv, TypeOK
    <3>2. FileInv'
      BY <2>1 DEF IInv, FileInv, Slotted
    <3>3. Apart'
      BY <2>1 DEF IInv, Apart, Conflict
    <3> QED BY <3>1, <3>2, <3>3
  <2>3. ASSUME NEW p \in Procs PROVE WriteInv(p)' /\ ScanInv(p)'
    BY <2>1, ProcessFrame DEF IInv, fileVars
  <2> QED
    BY <2>2, <2>3 DEF IInv
<1> QED
  BY <1>1, <1>2 DEF Next, Over

\* Whatever commands run, however their system calls interleave and wherever they
\* are cut off, the file, the commands and the scans are as IInv says.
THEOREM Invariance == Spec => []IInv
BY InitIInv, NextIInv, PTL DEF Spec

\* The file and the variables of the processes keep their types: no record beyond
\* the last slot, none that the length of the file leaves out.
THEOREM TypeCorrect == Spec => []TypeOK
<1>1. IInv => TypeOK
  BY DEF IInv
<1> QED
  BY <1>1, Invariance, PTL

\* Every record is in the slot of its id, though del_student never compares the
\* two and no write is whole for certain.
THEOREM RecordsSlotted == Spec => []Slotted
<1>1. IInv => Slotted
  BY DEF IInv, FileInv
<1> QED
  BY <1>1, Invariance, PTL

\* count_db_records and print_db report, while others write, every student who
\* was there all the time and none who never was.
THEOREM ScansSound == Spec => []ScanSound
<1>1. IInv => ScanSound
  BY DEF IInv, ScanInv, ScanSound
<1> QED
  BY <1>1, Invariance, PTL

-----------------------------------------------------------------------------
(***************************************************************************)
(* Refinement: the table of StudentTable.  Reads and opens are invisible;  *)
(* a command takes effect when it writes, or reports what its last read    *)
(* has found.                                                              *)
(***************************************************************************)
\* Offsets that do not wrap around to another student's.
NoAlias ==
    \A p \in Procs : \A c \in Commands[p] :
        c.op \in {"del", "find"} /\ Slot(c.id) \in Ids => Slot(c.id) = c.id

Entry(rec) == IF rec = EMPTY_STUDENT_RECORD THEN NoStudent
              ELSE IF rec.id # 0 /\ rec.rest # NoStudent THEN rec.rest ELSE "spoilt"

LEMMA TableEntry == Table = [k \in Ids |-> Entry(db[k])]
BY DEF Table, Entry, Whole

\* What a command can tell of an entry from the record.
LEMMA EntryProperties ==
    ASSUME TypeOK, FileInv, NEW k \in Ids
    PROVE  /\ Table[k] = Entry(db[k]) /\ Table[k] \in AsTable!Entries
           /\ Table[k] = NoStudent <=> db[k] = EMPTY_STUDENT_RECORD
           /\ db[k].id = 0 => Table[k] \in {NoStudent, "spoilt"}
           /\ db[k].rest = NoStudent => Table[k] \in {NoStudent, "spoilt"}
           /\ db[k].id # 0 => /\ Table[k] # NoStudent
                              /\ Table[k] # "spoilt" => Table[k] = db[k].rest
<1>1. Table[k] = Entry(db[k])
  BY TableEntry
<1>2. k \in Slots
  BY TouchedProperties
<1>3. /\ db[k] = EMPTY_STUDENT_RECORD <=> db[k].id = 0 /\ db[k].rest = NoStudent
      /\ db[k].rest \in Students \cup {NoStudent} /\ NoStudent # "spoilt"
  BY <1>2, RecordProperties, ProcsAssumption
<1> QED
  BY <1>1, <1>3 DEF Entry, AsTable!Entries, AsTable!Students, Students, AsTable!Spoilt

\* What the table says of the id of a command, and where the command looks.
LEMMA AtProperties ==
    ASSUME TypeOK, FileInv, NoAlias, NEW p \in Procs,
           NEW id, id = cmd[p].id, NEW s, s = Slot(id)
    PROVE  /\ id \in Int /\ s \in Int
           /\ id \in Ids <=> InRange(id)
           /\ id \in Ids => s = id /\ s \in Slots /\ s >= 0 /\ AsTable!At(id) = Table[id]
           /\ id \notin Ids => AsTable!At(id) = NoStudent
           /\ cmd[p].op \in {"del", "find"} /\ s \in Ids => id = s
           /\ s \in Slots => s = 0 \/ s \in Ids
<1>1. id \in Int /\ s \in Int /\ (id \in Ids <=> InRange(id))
  BY CommandType, SlotProperties, SizesAssumption DEF Ids, InRange
<1>2. id \in Ids => s = id /\ s \in Slots /\ s >= 0
  BY <1>1, SlotProperties, TouchedProperties DEF Ids
<1>3. AsTable!At(id) = IF id \in Ids THEN Table[id] ELSE NoStudent
  BY DEF AsTable!At, AsTable!Ids, Ids
<1>4. cmd[p].op \in {"del", "find"} /\ s \in Ids => id = s
  BY DEF NoAlias, TypeOK
<1>5. s \in Slots => s = 0 \/ s \in Ids
  BY SizesAssumption DEF Slots, Ids
<1> QED
  BY <1>1, <1>2, <1>3, <1>4, <1>5

LEMMA SaysProperties ==
    ASSUME TypeOK, NEW p \in Procs, pc[p] # "done", NEW r, Done(p, r)
    PROVE  AsTable!Says(p, cmd[p].op, r)
BY DEF Done, AsTable!Says, TypeOK

\* A write at the slot of id stores the student, or spoils the record.
LEMMA StoreProperties ==
    ASSUME IInv, NEW k \in Ids, NEW id \in {0, k}, NEW rest \in Students \cup {NoStudent},
           WriteAt(k, Record(id, rest)),
           id = 0 <=> rest = NoStudent, id # 0 => db[k].id = 0
    PROVE  AsTable!Store(k, rest)
<1>1. k \in Slots /\ k # 0 /\ k \in Int
  BY TouchedProperties, SizesAssumption DEF IInv, Ids
<1>2. /\ FileType' /\ FileInv' /\ db'[k].id = id
      /\ \A j \in Slots : j # k => db'[j] = db[j]
      /\ db'[k].rest = rest \/ (Faults /\ db'[k].rest = db[k].rest)
  BY <1>1, WriteProperties
<1> DEFINE e == Entry(db'[k])
<1>3. Table' = [Table EXCEPT ![k] = e]
  <2>1. Table' = [j \in Ids |-> Entry(db'[j])]
    BY DEF Table, Entry, Whole
  <2>2. \A j \in Ids : j # k => db'[j] = db[j]
    BY <1>2, TouchedProperties DEF IInv
  <2> QED
    BY <2>1, <2>2, TableEntry
<1>4. /\ db'[k] = EMPTY_STUDENT_RECORD <=> db'[k].id = 0 /\ db'[k].rest = NoStudent
      /\ db'[k].rest \in Students \cup {NoStudent}
  BY <1>1, <1>2 DEF FileType, EMPTY_STUDENT_RECORD, Record
<1>5. e \in AsTable!Entries
  BY <1>4 DEF Entry, AsTable!Entries, AsTable!Students, Students, AsTable!Spoilt
<1>6. \/ e = rest
      \/ Faults /\ e = "spoilt"
      \/ Faults /\ Table[k] = "spoilt"
  <2>1. CASE db'[k].rest = rest
    BY <1>2, <1>4, <2>1 DEF Entry
  <2>2. CASE Faults /\ db'[k].rest = db[k].rest
    <3>1. CASE id = 0
      BY <1>2, <1>4, <2>2, <3>1 DEF Entry
    <3>2. CASE id # 0 /\ db[k].rest = NoStudent
      BY <1>2, <1>4, <2>2, <3>2 DEF Entry
    <3>3. CASE id # 0 /\ db[k].rest # NoStudent
      <4>1. db[k].id = 0 /\ db[k] # EMPTY_STUDENT_RECORD
        BY <1>1, <3>3, RecordProperties DEF IInv
      <4> QED
        BY <2>2, <4>1, EntryProperties DEF Entry, IInv
    <3> QED
      BY <3>1, <3>2, <3>3
  <2> QED
    BY <1>2, <2>1, <2>2
<1> QED
  BY <1>3, <1>5, <1>6 DEF AsTable!Store, AsTable!Spoilt

LEMMA TableInit == Init => AsTable!Init
<1> SUFFICES ASSUME Init PROVE AsTable!Init
  OBVIOUS
<1>1. ASSUME NEW k \in Ids PROVE Table[k] \in {Old, NoStudent}
  <2>1. k \in Slots
    BY SizesAssumption DEF Slots, Ids
  <2>2. db[k] = EMPTY_STUDENT_RECORD \/ \E j \in Ids : db[k] = Record(j, Old)
    BY <2>1 DEF Init
  <2>3. \A j \in Ids : Record(j, Old).id # 0 /\ Record(j, Old).rest = Old
    BY DEF Record, Ids
  <2> QED
    BY <2>2, <2>3, TableEntry, ProcsAssumption DEF Entry
<1>2. Table \in [Ids -> {Old, NoStudent}]
  BY <1>1, TableEntry
<1> QED
  BY <1>2 DEF Init, AsTable!Init, AsTable!Ids, Ids

\* The steps that report, in a table that stays as it is.
LEMMA TableReport ==
    ASSUME IInv, NoAlias, NEW p \in Procs,
           \/ AddRefused(p) \/ AddDuplicate(p) \/ SeekFails(p) \/ DelShortRead(p)
           \/ DelNotFound(p) \/ FindShortRead(p) \/ FindNotFound(p) \/ Find(p)
           \/ ScanShortRead(p) \/ ScanEnd(p) \/ Compress(p)
           \/ OpenFails(p) \/ SyscallFails(p) \/ Killed(p)
    PROVE  AsTable!Next
<1> DEFINE id == cmd[p].id
           s  == Slot(id)
<1>1. /\ pc[p] # "done" /\ UNCHANGED Table /\ UNCHANGED cmd
      /\ Find(p) \/ got' = got
  <2>1. UNCHANGED fileVars /\ UNCHANGED cmd
    BY DEF AddRefused, AddDuplicate, SeekFails, DelShortRead, DelNotFound, FindShortRead,
           FindNotFound, Find, ScanShortRead, ScanEnd, Compress, OpenFails, SyscallFails,
           Killed, Done
  <2>2. UNCHANGED Table
    BY <2>1 DEF Table, Whole, fileVars
  <2> QED
    BY <2>1, <2>2
       DEF AddRefused, AddDuplicate, SeekFails, DelShortRead, DelNotFound, FindShortRead,
           FindNotFound, Find, ScanShortRead, ScanEnd, Compress, OpenFails, SyscallFails,
           Killed, In, Scans
<1>2. \A r : Done(p, r) => AsTable!Says(p, cmd[p].op, r)
  BY <1>1, SaysProperties DEF IInv
<1>3. /\ id \in Int /\ s \in Int
      /\ id \in Ids <=> InRange(id)
      /\ id \in Ids => s = id /\ s \in Slots /\ s >= 0 /\ AsTable!At(id) = Table[id]
      /\ id \notin Ids => AsTable!At(id) = NoStudent
      /\ cmd[p].op \in {"del", "find"} /\ s \in Ids => id = s
      /\ s \in Slots => s = 0 \/ s \in Ids
  BY AtProperties DEF IInv
<1> HIDE DEF id, s
<1> USE DEF AsTable!Spoilt
<1>4. CASE AddRefused(p)
  <2>1. AsTable!AddRefused(p)
    BY <1>1, <1>2, <1>3, <1>4 DEF AddRefused, In, AsTable!AddRefused, AsTable!Ids, Ids, id
  <2> QED
    BY <2>1 DEF AsTable!Next
<1>5. CASE AddDuplicate(p)
  <2>1. id \in Ids /\ ReadRecord(s).id # 0
    BY <1>3, <1>5 DEF AddDuplicate, id, s
  <2>2. Table[id] # NoStudent
    BY <1>3, <2>1, ReadProperties, EntryProperties DEF IInv
  <2>3. AsTable!AddDuplicate(p)
    BY <1>1, <1>2, <1>3, <1>5, <2>1, <2>2 DEF AddDuplicate, In, AsTable!AddDuplicate, id
  <2> QED
    BY <2>3 DEF AsTable!Next
\* del_student and get_student find nothing, or half a record.
<1>6. CASE SeekFails(p) \/ DelShortRead(p) \/ DelNotFound(p) \/ FindShortRead(p) \/ FindNotFound(p)
  <2>1. AsTable!At(id) \in {NoStudent, "spoilt"}
    <3>1. CASE id \in Ids
      <4>1. \/ Available(s) < 2
            \/ db[s] = EMPTY_STUDENT_RECORD
            \/ db[s].id = 0
        BY <1>3, <1>6, <3>1 DEF SeekFails, DelShortRead, DelNotFound, FindShortRead,
                                FindNotFound, id, s
      <4>2. db[s].rest = NoStudent \/ db[s].id = 0
        BY <1>3, <3>1, <4>1, ReadProperties, RecordProperties DEF IInv
      <4> QED
        BY <1>3, <3>1, <4>2, EntryProperties DEF IInv
    <3>2. CASE id \notin Ids
      BY <1>3, <3>2
    <3> QED
      BY <3>1, <3>2
  <2>2. AsTable!DeleteAbsent(p) \/ AsTable!FindAbsent(p)
    <3>1. CASE cmd[p].op = "del"
      <4>1. \E r \in {"ERR_DB_OP", "ERR_DB_FILE", "crash"} : AsTable!Says(p, "del", r)
        BY <1>2, <1>6, <3>1 DEF SeekFails, DelShortRead, DelNotFound, FindShortRead,
                                FindNotFound, In
      <4> QED
        BY <1>1, <1>6, <2>1, <3>1, <4>1
           DEF AsTable!DeleteAbsent, id, Find, SeekFails, DelShortRead, DelNotFound,
               FindShortRead, FindNotFound, In
    <3>2. CASE cmd[p].op = "find"
      <4>1. \E r \in {"SRCH_NOT_FOUND", "ERR_DB_FILE"} : AsTable!Says(p, "find", r)
        BY <1>2, <1>6, <3>2 DEF SeekFails, DelShortRead, DelNotFound, FindShortRead,
                                FindNotFound, In
      <4> QED
        BY <1>1, <1>6, <2>1, <3>2, <4>1
           DEF AsTable!FindAbsent, id, Find, SeekFails, DelShortRead, DelNotFound,
               FindShortRead, FindNotFound, In
    <3> QED
      BY <1>6, <3>1, <3>2 DEF SeekFails, DelShortRead, DelNotFound, FindShortRead,
                              FindNotFound, In
  <2> QED
    BY <2>2 DEF AsTable!Next
<1>7. CASE Find(p)
  <2>1. /\ cmd[p].op = "find" /\ s >= 0 /\ Available(s) = 2 /\ db[s].id # 0
        /\ got' = [got EXCEPT ![p] = db[s].rest] /\ Done(p, "NO_ERROR")
    BY <1>7 DEF Find, In, id, s
  <2>2. s \in Slots
    BY <1>3, <2>1, ReadProperties DEF IInv
  <2>3. s \in Ids /\ id = s
    BY <1>3, <2>1, <2>2, RecordProperties DEF IInv, FileInv
  <2>4. /\ AsTable!At(id) # NoStudent
        /\ AsTable!At(id) # "spoilt" => db[s].rest = AsTable!At(id)
    BY <1>3, <2>1, <2>3, EntryProperties DEF IInv
  <2>5. db[s].rest \in AsTable!Students \cup {NoStudent}
    BY <2>2, RecordProperties DEF IInv, AsTable!Students, Students
  <2>6. AsTable!Find(p)
    BY <1>1, <1>2, <2>1, <2>4, <2>5 DEF AsTable!Find, id
  <2> QED
    BY <2>6 DEF AsTable!Next
<1>8. CASE ScanEnd(p) \/ Compress(p)
  <2>1. AsTable!Survey(p)
    BY <1>1, <1>2, <1>8 DEF ScanEnd, Compress, Scans, ScanOps, In, Find, AsTable!Survey
  <2> QED
    BY <2>1 DEF AsTable!Next
\* Half a record at the end of the file is the mark of a short write.
<1>9. CASE ScanShortRead(p)
  <2>1. Faults
    <3>1. Available(offset[p]) = 1 /\ offset[p] \in Int /\ size \in Int
      BY <1>9 DEF ScanShortRead, IInv, TypeOK
    <3>2. size = 2 * offset[p] + 1
      BY <3>1 DEF Available
    <3> QED
      BY <3>1, <3>2 DEF IInv, FileInv
  <2>2. AsTable!SurveySpoilt(p)
    BY <1>1, <1>2, <1>9, <2>1 DEF ScanShortRead, Scans, ScanOps, In, Find, AsTable!SurveySpoilt
  <2> QED
    BY <2>2 DEF AsTable!Next
<1>10. CASE OpenFails(p) \/ SyscallFails(p) \/ Killed(p)
  <2>1. AsTable!Fail(p)
    BY <1>1, <1>2, <1>10 DEF OpenFails, SyscallFails, Killed, AsTable!Fail
  <2> QED
    BY <2>1 DEF AsTable!Next
<1> QED
  BY <1>4, <1>5, <1>6, <1>7, <1>8, <1>9, <1>10

\* A command takes effect, and is killed or not before it can say so.
LEMMA TableEffect ==
    ASSUME IInv, Exclusive, NoAlias, NEW p \in Procs, AddWrite(p) \/ DelWrite(p) \/ Zero(p)
    PROVE  AsTable!Next
<1> DEFINE id == cmd[p].id
           s  == Slot(id)
<1>1. pc[p] # "done" /\ got' = got /\ Written(p)
  BY DEF AddWrite, DelWrite, Zero, In
<1>2. AsTable!Written(p, cmd[p].op)
  BY <1>1, SaysProperties DEF Written, AsTable!Written, IInv
<1>3. CASE AddWrite(p)
  <2>1. /\ id \in Ids /\ s = id /\ db[s].id = 0 /\ AsTable!At(id) = Table[id]
        /\ cmd[p].op = "add" /\ WriteAt(s, Record(id, p))
    BY <1>3, AtProperties DEF AddWrite, IInv, WriteInv
  <2>2. AsTable!At(id) \in {NoStudent, "spoilt"}
    BY <2>1, EntryProperties DEF IInv
  <2>3. p \in Students /\ p # NoStudent /\ id # 0
    BY <2>1, ProcsAssumption DEF Students, Ids
  <2>4. AsTable!Store(id, p)
    BY <2>1, <2>3, StoreProperties
  <2>5. AsTable!Add(p)
    BY <1>1, <1>2, <2>1, <2>2, <2>4 DEF AsTable!Add, AsTable!Ids, AsTable!Spoilt, Ids
  <2> QED
    BY <2>5 DEF AsTable!Next
<1>4. CASE DelWrite(p)
  <2>1. /\ s \in Slots /\ db[s] # EMPTY_STUDENT_RECORD /\ cmd[p].op = "del"
        /\ WriteAt(s, Record(0, NoStudent))
    BY <1>4 DEF DelWrite, IInv, WriteInv, EMPTY_STUDENT_RECORD
  <2>2. s \in Ids
    BY <2>1, TouchedProperties DEF IInv
  <2>3. id = s /\ AsTable!At(id) = Table[id]
    BY <2>1, <2>2, AtProperties DEF IInv
  <2>4. AsTable!At(id) # NoStudent
    BY <2>1, <2>2, <2>3, EntryProperties DEF IInv
  <2>5. AsTable!Store(id, NoStudent)
    BY <2>1, <2>2, <2>3, StoreProperties
  <2>6. AsTable!Delete(p)
    BY <1>1, <1>2, <2>1, <2>4, <2>5 DEF AsTable!Delete
  <2> QED
    BY <2>6 DEF AsTable!Next
<1>5. CASE Zero(p)
  <2>1. db' = [k \in Slots |-> EMPTY_STUDENT_RECORD] /\ cmd[p].op = "zero"
    BY <1>5 DEF Zero, In, SetFile
  <2>2. \A k \in Ids : db'[k] = EMPTY_STUDENT_RECORD
    BY <2>1, TouchedProperties DEF IInv
  <2>3. Table' = [k \in Ids |-> NoStudent]
    BY <2>2 DEF Table, EMPTY_STUDENT_RECORD, Record
  <2>4. AsTable!Zero(p)
    BY <1>1, <1>2, <2>1, <2>3 DEF AsTable!Zero, AsTable!Ids, Ids
  <2> QED
    BY <2>4 DEF AsTable!Next
<1> QED
  BY <1>3, <1>4, <1>5

LEMMA TableStep ==
    ASSUME Exclusive, NoAlias
    PROVE  IInv /\ [Next]_vars => [AsTable!Next]_AsTable!vars
<1> SUFFICES ASSUME IInv, [Next]_vars PROVE AsTable!Next \/ UNCHANGED AsTable!vars
  OBVIOUS
<1>1. ASSUME NEW p \in Procs,
             Open(p) \/ AddRead(p) \/ DelRead(p) \/ CountRead(p) \/ PrintRead(p)
      PROVE  UNCHANGED AsTable!vars
  <2>1. UNCHANGED fileVars /\ UNCHANGED <<cmd, result, got>>
    BY <1>1 DEF Open, AddRead, DelRead, CountRead, PrintRead, GoOn, Tallied
  <2>2. UNCHANGED Table
    BY <2>1 DEF Table, Whole, fileVars
  <2> QED
    BY <2>1, <2>2 DEF AsTable!vars
<1>2. CASE UNCHANGED vars
  BY <1>2 DEF vars, fileVars, procVars, AsTable!vars, Table, Whole
<1> QED
  BY <1>1, <1>2, TableReport, TableEffect DEF Next, Main, Over

\* If users keep conflicting commands apart and no offset wraps around to another
\* student's, the commands of sdbsc, however their system calls interleave and
\* whether or not they are cut off, act on one table each in one step.
THEOREM ImplementsTable ==
    ASSUME Exclusive, NoAlias
    PROVE  Spec => TableSpec
BY TableInit, TableStep, Invariance, PTL DEF Spec, TableSpec, AsTable!Spec
=============================================================================
