----------------------------- MODULE MCTaskBoard -----------------------------
(* A small instance of TaskBoard for TLC. *)
EXTENDS TaskBoard

CONSTANTS p1, p2, TODO, DONE

MCTasks == 1..3
MCCreatedIn == {<<p1, TODO>>, <<p1, DONE>>}
MCEditedTo == {<<p1, DONE>>, <<p2, TODO>>}
MCPositions == {-1, 1}
MCOrders == {1}

=============================================================================
