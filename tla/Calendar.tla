------------------------------ MODULE Calendar ------------------------------
(***************************************************************************)
(* The production calendar of a project: its start date and its tasks, the *)
(* standard workflow every new project gets, and copies of projects with   *)
(* their dates shifted.                                                    *)
(*                                                                         *)
(* Creating and duplicating a project are transactions. A task is edited   *)
(* in two statements, and handleSeedProject inserts task by task.          *)
(***************************************************************************)
EXTENDS Integers, Sequences, FiniteSets

CONSTANTS
    Calendars, \* projects
    TaskIds,   \* ids of the tasks table
    Workflow,  \* standardWorkflowSeedTasks, in order
    Starts,    \* start dates a body may carry
    Bodies,    \* tasks a body may carry: two dates, each its own field, and a status
    Editors,   \* PUT /api/tasks/{id} requests
    Copies     \* bound on the number of duplicates

NoDate == [form |-> "none", day |-> 0]
Date == [form: {"none", "date", "time", "junk"}, day: Int]
TaskBody == [orig: Date, curr: Date, done: BOOLEAN]

ASSUME CalendarAssumption ==
    /\ Workflow \in Seq(TaskBody) /\ Starts \subseteq Date /\ Bodies \subseteq TaskBody
    /\ Copies \in Nat
    /\ TaskIds \subseteq Nat \ {0} /\ IsFiniteSet(TaskIds)  \* AUTOINCREMENT ids
    /\ Calendars \cap {"none", "deleted"} = {}

VARIABLES
    start,  \* projects.start_date; "absent" before the project is created
    task,   \* tasks: the row of each id
    made,   \* history: projects made by handleDuplicateProject
    typing, \* where each edit is and the id it has read
    seeding \* the tasks handleSeedProject has still to insert, per project

calendarVars == <<start, task, made, typing, seeding>>

NoProject == [form |-> "absent", day |-> 0]
NoTask == [project |-> "none", orig |-> NoDate, curr |-> NoDate, done |-> FALSE,
           typed |-> NoDate, batch |-> "none"]
GoneTask == [NoTask EXCEPT !.project = "deleted"]
Live(i) == task[i] \notin {NoTask, GoneTask}
Created == {p \in Calendars : start[p] # NoProject}
TasksOf(p) == {i \in TaskIds : task[i].project = p}
FreeIds == {i \in TaskIds : task[i] = NoTask}

CalendarTypeOK ==
    /\ start \in [Calendars -> Date \cup {NoProject}]
    /\ \A i \in TaskIds : Live(i) => /\ task[i].project \in Created
                                     /\ task[i].orig \in Date /\ task[i].curr \in Date
    /\ made \subseteq Created
    /\ typing \in [Editors -> [pc: {"idle", "read", "done"}, id: TaskIds \cup {0}]]
    /\ seeding \in [Calendars -> 0..Len(Workflow)]

CalendarInit ==
    /\ start = [p \in Calendars |-> NoProject]
    /\ task = [i \in TaskIds |-> NoTask]
    /\ made = {}
    /\ typing = [e \in Editors |-> [pc |-> "idle", id |-> 0]]
    /\ seeding = [p \in Calendars |-> 0]

(***************************************************************************)
(* Dates. time.Parse reads "2006-01-02" and, for tasks, a time of day too; *)
(* what it cannot read is copied as it is.                                 *)
(***************************************************************************)
ShiftDate_DaysOnly(d, delta) ==
    IF d.form = "date" THEN [form |-> "date", day |-> d.day + delta] ELSE d

ShiftDate(d, delta) ==
    IF d.form \in {"date", "time"} THEN [form |-> "date", day |-> d.day + delta] ELSE d

\* delta of handleDuplicateProject: 0 unless both starts are plain dates.
Delta(old, new) == IF old.form = "date" /\ new.form = "date" THEN new.day - old.day ELSE 0

\* The planned and the current date are the body's, each as it came. typed and
\* batch are history: the planned date as it was typed last, and for which
\* project; copies keep both.
NewTask(p, b) ==
    [project |-> p, orig |-> b.orig, curr |-> b.curr, done |-> b.done, typed |-> b.orig, batch |-> p]

\* Rows are inserted with the next ids; an id is never used again.
Insert(rows) ==
    LET ids == CHOOSE s \in [1..Len(rows) -> FreeIds] : \A a, b \in 1..Len(rows) : a < b => s[a] < s[b]
    IN [i \in TaskIds |-> IF \E a \in 1..Len(rows) : ids[a] = i
                          THEN rows[CHOOSE a \in 1..Len(rows) : ids[a] = i] ELSE task[i]]

(***************************************************************************)
(* Projects.                                                               *)
(***************************************************************************)
CreateCalendar(p, d) ==
    /\ p \notin Created /\ Len(Workflow) <= Cardinality(FreeIds)
    /\ start' = [start EXCEPT ![p] = d]
    /\ task' = Insert([a \in 1..Len(Workflow) |-> NewTask(p, Workflow[a])])
    /\ UNCHANGED <<made, typing, seeding>>

CopyTask_FromCurr(t, q, delta) ==
    [t EXCEPT !.project = q, !.orig = ShiftDate(@, delta), !.curr = ShiftDate(@, delta), !.done = FALSE]

\* Both dates are shifted from the original plan, the one the source has come to
\* is not copied; progress is cleared.
CopyTask(t, q, delta) ==
    [t EXCEPT !.project = q, !.orig = ShiftDate(@, delta), !.curr = ShiftDate(t.orig, delta), !.done = FALSE]

InOrder(S) == CHOOSE s \in [1..Cardinality(S) -> S] :
                  \A a, b \in 1..Cardinality(S) : a < b => s[a] < s[b]

\* All or nothing: if a row cannot be inserted no project is made.
DuplicateCalendar(src, q, d) ==
    LET rows == InOrder(TasksOf(src))
        delta == IF d.form = "none" THEN 0 ELSE Delta(start[src], d)
    IN /\ src \in Created /\ q \notin Created /\ Cardinality(made) < Copies
       /\ Len(rows) <= Cardinality(FreeIds)
       /\ start' = [start EXCEPT ![q] = IF d.form = "none" THEN start[src] ELSE d]
       /\ task' = Insert([a \in DOMAIN rows |-> CopyTask(task[rows[a]], q, delta)])
       /\ made' = made \cup {q}
       /\ UNCHANGED <<typing, seeding>>

\* PUT /api/projects/{id} and the end of handleSeedProject: tasks stay as they are.
MoveStart(p, d) ==
    /\ p \in Created /\ d.form # "none"
    /\ start' = [start EXCEPT ![p] = d]
    /\ UNCHANGED <<task, made, typing, seeding>>

(***************************************************************************)
(* Tasks.                                                                  *)
(***************************************************************************)
CreateTask(p, b) ==
    /\ p \in Created /\ FreeIds # {}
    /\ task' = Insert(<<NewTask(p, b)>>)
    /\ UNCHANGED <<start, made, typing, seeding>>

\* handleUpdateTask and handleDeleteTask look the task up for its project.
ReadTask(e, i) ==
    /\ typing[e].pc = "idle" /\ Live(i)
    /\ typing' = [typing EXCEPT ![e] = [pc |-> "read", id |-> i]]
    /\ UNCHANGED <<start, task, made, seeding>>

Overwritten(i, b) == [task EXCEPT ![i] = NewTask(task[i].project, b)]

\* Every column but the project is the body's; a row gone since is no error.
UpdateTask(e, b) ==
    /\ typing[e].pc = "read"
    /\ typing' = [typing EXCEPT ![e] = [pc |-> "done", id |-> 0]]
    /\ task' = IF Live(typing[e].id) THEN Overwritten(typing[e].id, b) ELSE task
    /\ UNCHANGED <<start, made, seeding>>

DeleteTask(e) ==
    /\ typing[e].pc = "read"
    /\ typing' = [typing EXCEPT ![e] = [pc |-> "done", id |-> 0]]
    /\ task' = [task EXCEPT ![typing[e].id] = GoneTask]
    /\ UNCHANGED <<start, made, seeding>>

\* handleSeedProject: the tasks of the body, one INSERT each; one that fails is
\* logged and the next is tried. A body here has as many as the workflow.
StartSeed(p) ==
    /\ p \in Created /\ seeding[p] = 0
    /\ seeding' = [seeding EXCEPT ![p] = Len(Workflow)]
    /\ UNCHANGED <<start, task, made, typing>>

SeedTask(p, b) ==
    /\ seeding[p] > 0
    /\ \/ FreeIds # {} /\ task' = Insert(<<NewTask(p, b)>>)
       \/ UNCHANGED task
    /\ seeding' = [seeding EXCEPT ![p] = @ - 1]
    /\ UNCHANGED <<start, made, typing>>

CalendarNext ==
    \/ \E p \in Calendars, d \in Starts : CreateCalendar(p, d) \/ MoveStart(p, d)
    \/ \E p, q \in Calendars, d \in Starts : DuplicateCalendar(p, q, d)
    \/ \E p \in Calendars, b \in Bodies : CreateTask(p, b) \/ SeedTask(p, b)
    \/ \E p \in Calendars : StartSeed(p)
    \/ \E e \in Editors : \/ \E i \in TaskIds : ReadTask(e, i)
                          \/ \E b \in Bodies : UpdateTask(e, b)
                          \/ DeleteTask(e)

CalendarSpec == CalendarInit /\ [][CalendarNext]_calendarVars

-----------------------------------------------------------------------------
Dated(i) == Live(i) /\ task[i].typed.form \in {"date", "time"}

\* Copies keep the shape of the planned schedule: two tasks typed
\* into the same project are as many days apart in every project that has them,
\* wherever it starts and whatever other tasks were edited since.
ShapeKept ==
    \A i, j \in TaskIds :
        Dated(i) /\ Dated(j) /\ task[i].project = task[j].project /\ task[i].batch = task[j].batch
          => task[i].orig.day - task[j].orig.day = task[i].typed.day - task[j].typed.day

\* A task nobody has touched since its project was copied is due on its planned
\* date and not done, however late the task it was copied from had become and
\* whatever has become of it since.
CopyStartsAfresh ==
    \A i \in TaskIds : Live(i) /\ task[i].batch # task[i].project
                         => task[i].curr = task[i].orig /\ ~ task[i].done

\* A duplicated calendar is the same schedule, begun afresh
\* (handleDuplicateProject), however both were edited since.
CalendarSafe ==
    /\ CalendarTypeOK
    /\ ShapeKept
    /\ CopyStartsAfresh
=============================================================================
