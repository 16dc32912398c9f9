---------------------------- MODULE StudentRecords ----------------------------
(***************************************************************************)
(* The student records of src/student.c.  students() fills a record of the *)
(* table in place and marks the field it refused (-1, or the name "x");    *)
(* its callers look at the marks and use the slot again.  What an attempt  *)
(* leaves in a slot is there in the next one.  The table comes from fresh  *)
(* memory, so untouched fields are 0 (the heap has freed nothing before;   *)
(* export, which allocates and frees, is left out).  avg is always sum/3   *)
(* and is left out, as are end of input and names that do not fit.         *)
(***************************************************************************)
EXTENDS Integers, FiniteSetsExt, Functions

CONSTANTS
    Rolls, Names,   \* what users enter
    Marks,          \* the marks of three subjects, as a set of sequences
    BadRoll,        \* stand for everything the range checks refuse
    BadMark,
    MaxStudents     \* bound on the size of the table

VARIABLES
    p,                  \* the slots of the table
    numberOfstudents,
    i,                  \* of the loop that fills the table
    running             \* in that loop, in the menu, or left

vars == <<p, numberOfstudents, i, running>>

Slots   == 0..MaxStudents
Blank   == [roll |-> 0, name |-> "", subject |-> [n \in 1..3 |-> 0], sum |-> 0]
Refused == -1

Init ==
    /\ p = [s \in Slots |-> Blank]
    /\ numberOfstudents \in 1..MaxStudents
    /\ i = 0
    /\ running = "filling"

Total(subject) == subject[1] + subject[2] + subject[3]

\* The marks up to the first one that is refused; the others stay as they are.
Entered(old, subject) ==
    LET bad == {n \in 1..3 : subject[n] = BadMark}
        upTo == IF bad = {} THEN 3 ELSE Min(bad)
    IN  [n \in 1..3 |-> IF n > upTo THEN old[n] ELSE IF n \in bad THEN Refused ELSE subject[n]]

\* students(&p[s], p, s) when the user enters r, then n, then marks.
students(s, r, n, subject) ==
    LET old == p[s]
        entered == Entered(old.subject, subject)
    IN  IF r = BadRoll \/ \E t \in 0..(s - 1) : p[t].roll = r
          THEN [old EXCEPT !.roll = Refused]
        ELSE IF \E t \in 0..(s - 1) : p[t].name = n
          THEN [old EXCEPT !.roll = r, !.name = "x"]
        ELSE [roll |-> r, name |-> n, subject |-> entered,
              sum |-> IF BadMark \in Range(subject) THEN old.sum ELSE Total(subject)]

\* The five tests behind students() in the first loop.  Each may step back,
\* and the next one then looks at the record before, which has passed all of
\* them; p[-1] is the zeros in front of the table.  The fifth test repeats
\* the fourth, so a bad third mark is not seen.
SeesMarks(rec) == \E n \in 1..2 : rec.subject[n] = Refused
IsRefused(rec) == rec.roll = Refused \/ rec.name = "x" \/ SeesMarks(rec)

FillRecord(r, n, subject) ==
    /\ running = "filling" /\ i < numberOfstudents
    /\ p' = [p EXCEPT ![i] = students(i, r, n, subject)]
    /\ i' = IF IsRefused(p'[i]) THEN i ELSE i + 1
    /\ running' = IF i' = numberOfstudents THEN "menu" ELSE running
    /\ UNCHANGED numberOfstudents

\* Menu entry 2: the table grows by one and shrinks again if the roll or the
\* name was refused; the marks are not looked at.  The mutant looks only at
\* the roll.
RollRefused(rec)  == rec.roll = Refused
NotAdded(rec)     == rec.roll = Refused \/ rec.name = "x"

AddStudent(r, n, subject) ==
    /\ running = "menu" /\ numberOfstudents <= MaxStudents
    /\ p' = [p EXCEPT ![numberOfstudents] = students(numberOfstudents, r, n, subject)]
    /\ numberOfstudents' = IF NotAdded(p'[numberOfstudents])
                             THEN numberOfstudents ELSE numberOfstudents + 1
    /\ UNCHANGED <<i, running>>

ExitMenu ==
    /\ running = "menu"
    /\ running' = "left"
    /\ UNCHANGED <<p, numberOfstudents, i>>

Next ==
    \/ \E r \in Rolls \cup {BadRoll}, n \in Names, subject \in Marks :
          FillRecord(r, n, subject) \/ AddStudent(r, n, subject)
    \/ ExitMenu
-----------------------------------------------------------------------------
TypeOK ==
    /\ DOMAIN p = Slots
    /\ numberOfstudents \in 1..(MaxStudents + 1)
    /\ i \in Slots
    /\ running \in {"filling", "menu", "left"}

\* The menu entries that only read the table.
Records == 0..((IF running = "filling" THEN i ELSE numberOfstudents) - 1)

findStudentByRoll(roll) == Min({s \in Records : p[s].roll = roll})
findStudentByName(name) == Min({s \in Records : p[s].name = name})
classaverage            == SumFunctionOnSet([s \in Slots |-> p[s].sum], Records) \div (3 * Cardinality(Records))
numberOfStudentsPassed  == Cardinality({s \in Records : p[s].sum > 150})

Complete(s) == \A n \in 1..3 : p[s].subject[n] \notin {0, Refused}
TotalOf(s)  == Total(p[s].subject)

\* However often an attempt is refused and its slot used again (lines 16-84,
\* 200-215, 244-258): every student is found by roll and by name, the first
\* loop lets no bad first or second mark through, the sum of a complete
\* record is that of its own marks, and the reports are right for a class
\* of complete records.
TableSound ==
    /\ \A s \in Records :
         /\ p[s].roll \in Rolls /\ findStudentByRoll(p[s].roll) = s
         /\ p[s].name \in Names \ {"x"} /\ findStudentByName(p[s].name) = s
         /\ Complete(s) => p[s].sum = TotalOf(s)
         /\ s < i => Refused \notin {p[s].subject[1], p[s].subject[2]}
    /\ Records # {} /\ (\A s \in Records : Complete(s)) =>
         /\ numberOfStudentsPassed = Cardinality({s \in Records : TotalOf(s) > 150})
         /\ classaverage = SumFunctionOnSet([s \in Slots |-> TotalOf(s)], Records) \div (3 * Cardinality(Records))
=============================================================================
