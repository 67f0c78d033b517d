------------------------------- MODULE Board -------------------------------
(***************************************************************************)
(* What the projects' task boards promise: tasks stand in columns, one     *)
(* below the other, and a user who creates, drags, edits or deletes a task *)
(* changes the place of that task and of no other.  The others keep their  *)
(* column and their order.                                                 *)
(*                                                                         *)
(* A drag that was overtaken by another change may mix up the order within *)
(* columns, but takes no other task out of its column.                     *)
(***************************************************************************)
EXTENDS Naturals, Sequences, SequencesExt

CONSTANTS Tasks, Columns

VARIABLES
    board,     \* the tasks of each column, from top to bottom
    overtaken  \* the tasks whose drag was overtaken; changes at any time

\* A column, in which a task stands once, and the same column without t.
Less(column, t) ==
    IF t \in ToSet(column)
    THEN RemoveAt(column, CHOOSE i \in DOMAIN column : column[i] = t)
    ELSE column

Without(t) == [c \in Columns |-> Less(board[c], t)]

Init == board = [c \in Columns |-> <<>>]

\* A new task, or one that stands somewhere else.
Put(t) ==
    \E c \in Columns : \E i \in 1..Len(Without(t)[c]) + 1 :
        board' = [Without(t) EXCEPT ![c] = InsertAt(@, i, t)]

Take(t) == board' = Without(t)

Muddle(t) ==
    /\ t \in overtaken
    /\ \A c \in Columns :
        /\ ToSet(board'[c]) \ {t} = ToSet(board[c]) \ {t}
        /\ IsInjective(board'[c])

Next == \E t \in Tasks : Put(t) \/ Take(t) \/ Muddle(t)

Spec == Init /\ [][Next]_board

=============================================================================
