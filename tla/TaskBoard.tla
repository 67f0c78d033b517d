----------------------------- MODULE TaskBoard -----------------------------
(***************************************************************************)
(* The task boards of the projects: tasks.service.ts on top of             *)
(* prisma8-task.repository.ts.  A column is a project's tasks of one       *)
(* status.                                                                 *)
(*                                                                         *)
(* A move is one READ COMMITTED transaction of many statements: it reads   *)
(* the task, reads the target column, writes the task's status, renumbers  *)
(* the target column row by row, and does the same with the column the     *)
(* task came from.  Each statement reads what is committed when it runs    *)
(* and what its own transaction wrote; a written row stays locked until    *)
(* the transaction ends, and writers of a locked row wait.  Two that wait  *)
(* for each other are told apart by PostgreSQL, which aborts one.  The     *)
(* other operations write with a single statement.                         *)
(*                                                                         *)
(* Of a task the model keeps what places it; an edit may give it another   *)
(* project.  The entries of the activity feed are left out.                *)
(***************************************************************************)
EXTENDS Integers, Sequences, FiniteSets, SequencesExt

CONSTANTS
    Tasks,       \* bound: task ids, handed out in increasing order
    Projects,
    Statuses,    \* TaskStatus
    CreatedIn,   \* bound: the columns users create tasks in
    EditedTo,    \* bound: the columns users edit tasks into
    Positions,   \* the positions users drop a task at
    Orders,      \* the sortOrder values users edit a task to
    MaxChanges,  \* bound: moves, updates and deletions in a behaviour
    Requests,    \* request slots
    None

VARIABLES
    task,      \* the committed rows
    lock,      \* the transaction that wrote each row and has not ended
    request,   \* what each move in flight remembers
    changes    \* bound: how many operations other than create there were

vars == <<task, lock, request, changes>>

Columns == Projects \X Statuses

ASSUME BoardAssumption ==
    /\ CreatedIn \subseteq Columns /\ EditedTo \subseteq Columns
    /\ Tasks \subseteq Nat /\ IsFiniteSet(Tasks)
    /\ Positions \subseteq Int /\ Orders \subseteq Int
    /\ MaxChanges \in Nat
\* An id is used once: a row that is gone is not one that was never inserted.
Row == [at : {"there"}, column : Columns, sortOrder : Int]

Unborn == [at |-> "unborn"]

Gone == [at |-> "gone"]

ASSUME NoneAssumption == None \notin Requests \cup Row

There(column, sortOrder) == [at |-> "there", column |-> column, sortOrder |-> sortOrder]

\* The column of a project for a status.
WithStatus(column, status) == <<column[1], status>>

Exists(t) == task[t].at = "there"

Ops == {"readTarget", "writeStatus", "renumber"}

Move == [op        : Ops,
         task      : Tasks,
         from      : Columns,           \* where it was, until that column is read
         column    : Columns,           \* where the user drops it
         position  : Positions,
         queue     : Seq(Tasks),        \* the tasks still to renumber
         next      : Nat,               \* the sortOrder the first of them gets
         written   : [Tasks -> Row \cup {None}],
         overtaken : BOOLEAN]           \* history: the board changed meanwhile

Moving(r) == request[r].op \in Ops

Idle == [op |-> "idle"]

TypeOK ==
    /\ task \in [Tasks -> Row \cup {Unborn, Gone}]
    /\ lock \in [Tasks -> Requests \cup {None}]
    /\ request \in [Requests -> Move \cup {Idle}]
    /\ changes \in 0..MaxChanges
    /\ \A r \in Requests, t \in Tasks :
         lock[t] = r <=> Moving(r) /\ request[r].written[t] # None
    /\ \A t \in Tasks : lock[t] # None => Exists(t)

Init ==
    /\ task = [t \in Tasks |-> Unborn]
    /\ lock = [t \in Tasks |-> None]
    /\ request = [r \in Requests |-> Idle]
    /\ changes = 0

-----------------------------------------------------------------------------
(* Reading a column *)

Above(rows, t, u) ==
    \/ rows[t].sortOrder < rows[u].sortOrder
    \/ rows[t].sortOrder = rows[u].sortOrder /\ t < u

\* A set of tasks by (sortOrder, id).
Sorted(rows, S) ==
    CHOOSE s \in [1..Cardinality(S) -> S] :
        \A i, j \in DOMAIN s : i < j => Above(rows, s[i], s[j])

Standing(rows, c) == {t \in Tasks : rows[t].at = "there" /\ rows[t].column = c}

Column(rows, c) == Sorted(rows, Standing(rows, c))

\* What a statement of transaction r reads: the committed rows under those r wrote.
View(r) ==
    [t \in Tasks |-> IF request[r].written[t] = None THEN task[t]
                     ELSE request[r].written[t]]

\* Mutant: the rows are read in the order of their ids.
Others_ById(r, c) ==
    Sorted([t \in Tasks |-> There(c, 0)], Standing(View(r), c) \ {request[r].task})

Others(r, c) == Sorted(View(r), Standing(View(r), c) \ {request[r].task})

-----------------------------------------------------------------------------
(* Operations of one statement *)

\* Whoever is in the middle of a move has read a board that changes now.
Overtake ==
    request' = [s \in Requests |->
        IF Moving(s) THEN [request[s] EXCEPT !.overtaken = TRUE] ELSE request[s]]

Another == changes < MaxChanges /\ changes' = changes + 1

\* Ids are handed out in increasing order, and sortOrder is left to its default.
Create(t, column) ==
    /\ task[t].at = "unborn"
    /\ \A u \in Tasks : u < t => task[u].at # "unborn"
    /\ task' = [task EXCEPT ![t] = There(column, 0)]
    /\ Overtake
    /\ UNCHANGED <<lock, changes>>

\* Mutant: a null status is written, not taken for one that is not given.
Update_NullStatus(t) ==
    /\ Exists(t)
    /\ lock[t] = None
    /\ Another
    /\ \E column \in EditedTo \cup {WithStatus(task[t].column, None)},
          sortOrder \in Orders \cup {task[t].sortOrder} :
          task' = [task EXCEPT ![t] = There(column, sortOrder)]
    /\ Overtake
    /\ UNCHANGED lock

\* Project, status and sortOrder as they were, or as the input says.
Update(t) ==
    /\ Exists(t)
    /\ lock[t] = None
    /\ Another
    /\ \E column \in EditedTo \cup {task[t].column},
          sortOrder \in Orders \cup {task[t].sortOrder} :
          task' = [task EXCEPT ![t] = There(column, sortOrder)]
    /\ Overtake
    /\ UNCHANGED lock

Delete(t) ==
    /\ Exists(t)
    /\ lock[t] = None
    /\ Another
    /\ task' = [task EXCEPT ![t] = Gone]
    /\ Overtake
    /\ UNCHANGED lock

-----------------------------------------------------------------------------
(* move *)

Remember(r, memory) == request' = [request EXCEPT ![r] = memory]

Clamp(position, length) ==
    IF position < 0 THEN 0 ELSE IF position > length THEN length ELSE position

MoveBegins(r, t, status, position) ==
    /\ ~Moving(r)
    /\ Exists(t)
    /\ Another
    /\ Remember(r, [op |-> "readTarget", task |-> t, from |-> task[t].column,
                    column |-> WithStatus(task[t].column, status), position |-> position,
                    queue |-> <<>>, next |-> 0,
                    written |-> [u \in Tasks |-> None], overtaken |-> FALSE])
    /\ UNCHANGED <<task, lock>>

\* Mutant: the drop position is that among all tasks of the column, one too low.
MoveReadsTarget_OneBelow(r) ==
    /\ request[r].op = "readTarget"
    /\ LET m == request[r]
           target == Others(r, m.column)
       IN Remember(r, [m EXCEPT !.op = "writeStatus",
                                !.queue = InsertAt(target,
                                    Clamp(m.position + 1, Len(target)) + 1, m.task)])
    /\ UNCHANGED <<task, lock, changes>>

MoveReadsTarget(r) ==
    /\ request[r].op = "readTarget"
    /\ LET m == request[r]
           target == Others(r, m.column)
       IN Remember(r, [m EXCEPT !.op = "writeStatus",
                                !.queue = InsertAt(target,
                                    Clamp(m.position, Len(target)) + 1, m.task)])
    /\ UNCHANGED <<task, lock, changes>>

\* An update of a row by id: it waits while another transaction has the row, and
\* touches nothing when the row is gone.
Write(r, t, row, memory) ==
    /\ lock[t] \in {None, r}
    /\ IF Exists(t)
       THEN /\ lock' = [lock EXCEPT ![t] = r]
            /\ Remember(r, [memory EXCEPT !.written[t] = row])
       ELSE Remember(r, memory) /\ UNCHANGED lock

MoveWritesStatus(r) ==
    /\ request[r].op = "writeStatus"
    /\ LET m == request[r] IN
       Write(r, m.task, [View(r)[m.task] EXCEPT !.column = WithStatus(@, m.column[2])],
             [m EXCEPT !.op = "renumber"])
    /\ UNCHANGED <<task, changes>>

MoveRenumbers(r) ==
    /\ request[r].op = "renumber"
    /\ request[r].queue # <<>>
    /\ LET m == request[r]
           t == Head(m.queue)
       IN Write(r, t, [View(r)[t] EXCEPT !.sortOrder = m.next],
                [m EXCEPT !.queue = Tail(@), !.next = @ + 1])
    /\ UNCHANGED <<task, changes>>

\* Mutant: the column the task came from is not told apart from one still to read.
MoveReadsSource_Again(r) ==
    /\ request[r].op = "renumber"
    /\ request[r].queue = <<>>
    /\ request[r].from # request[r].column
    /\ LET m == request[r] IN
       Remember(r, [m EXCEPT !.queue = Others(r, m.from), !.next = 0])
    /\ UNCHANGED <<task, lock, changes>>

\* After the target column the one the task came from, if it is another one.
MoveReadsSource(r) ==
    /\ request[r].op = "renumber"
    /\ request[r].queue = <<>>
    /\ request[r].from # request[r].column
    /\ LET m == request[r] IN
       Remember(r, [m EXCEPT !.queue = Others(r, m.from), !.next = 0,
                             !.from = m.column])
    /\ UNCHANGED <<task, lock, changes>>

Release(r) == lock' = [t \in Tasks |-> IF lock[t] = r THEN None ELSE lock[t]]

Commits(r) ==
    /\ request[r].op = "renumber"
    /\ request[r].queue = <<>>
    /\ request[r].from = request[r].column

MoveCommits(r) ==
    /\ Commits(r)
    /\ task' = View(r)
    /\ Release(r)
    /\ request' = [s \in Requests |->
           IF s = r THEN Idle
           ELSE IF Moving(s) THEN [request[s] EXCEPT !.overtaken = TRUE]
           ELSE request[s]]
    /\ UNCHANGED changes

\* The row r wants to write next.
Wanted(r) ==
    IF request[r].op = "writeStatus" THEN {request[r].task}
    ELSE IF request[r].op = "renumber" /\ request[r].queue # <<>>
    THEN {Head(request[r].queue)} ELSE {}

WaitsFor(r, s) == r # s /\ \E t \in Wanted(r) : lock[t] = s

\* A statement fails or the connection is lost: the transaction is rolled back.
MoveFails(r) ==
    /\ Moving(r)
    /\ Release(r)
    /\ Remember(r, Idle)
    /\ UNCHANGED <<task, changes>>

\* Transactions that wait in circles: each for one of them, and one of them for each.
Deadlocked(D) ==
    \A r \in D : (\E s \in D : WaitsFor(r, s)) /\ (\E s \in D : WaitsFor(s, r))

\* PostgreSQL aborts a transaction that waits for itself.
MoveAborts(r) ==
    /\ \E D \in SUBSET Requests : r \in D /\ Deadlocked(D)
    /\ MoveFails(r)

-----------------------------------------------------------------------------

MoveStep(r) ==
    \/ MoveReadsTarget(r)
    \/ MoveWritesStatus(r)
    \/ MoveRenumbers(r)
    \/ MoveReadsSource(r)
    \/ MoveCommits(r)
    \/ MoveAborts(r)

Next ==
    \/ \E t \in Tasks :
        \/ \E column \in CreatedIn : Create(t, column)
        \/ Update(t)
        \/ Delete(t)
    \/ \E r \in Requests :
        \/ MoveStep(r)
        \/ MoveFails(r)
        \/ \E t \in Tasks, status \in Statuses, position \in Positions :
              MoveBegins(r, t, status, position)

\* A transaction goes on while it need not wait for ever.
Fairness == \A r \in Requests : SF_vars(MoveStep(r))

Spec == Init /\ [][Next]_vars /\ Fairness

-----------------------------------------------------------------------------
(* Properties *)

\* The board as its users see it.
BoardView == [c \in Columns |-> Column(task, c)]

Overtaken == {request[r].task : r \in {s \in Requests : Moving(s) /\ request[s].overtaken}}

B == INSTANCE Board WITH board <- BoardView, overtaken <- Overtaken

\* The rows implement the board: whatever the transactions interleave, an
\* operation changes the place of its own task only, except for the order that a
\* move leaves behind when another change came between its reads and its commit.
ImplementsBoard == B!Spec

\* The task stands where the user dropped it: below as many tasks as the position
\* says, or at the end ("0-based place in the column; clamped to the column's
\* bounds").
DroppedInPlace(m, column) ==
    LET place == Clamp(m.position, Len(column) - 1) + 1
    IN  place \in DOMAIN column /\ column[place] = m.task

\* Whatever overtook it, a move puts its task, unless it was deleted, into a column
\* of the status to which the user dragged it, that of the project it has by then,
\* and if nothing did, into the place where the user dropped it.
MovedToPosition ==
    [][\A r \in Requests : Commits(r) /\ MoveCommits(r) =>
          LET m == request[r]
          IN /\ Exists(m.task) =>
                   m.task \in ToSet(BoardView'[WithStatus(task[m.task].column, m.column[2])])
             /\ ~m.overtaken => DroppedInPlace(m, BoardView'[m.column])]_vars

\* Every move ends, although two of them may lock the same rows in opposite
\* orders.
MovesEnd == \A r \in Requests : Moving(r) ~> ~Moving(r)

=============================================================================
