\* Three tasks created in the two columns of a project and edited into another
\* project too; behaviours with two changes besides creating the tasks, two
\* overlapping moves among them.  Then the bound stops them.
CONSTANTS
    Tasks <- MCTasks
    p1 = p1  p2 = p2  TODO = TODO  DONE = DONE
    Projects = {p1, p2}
    Statuses = {TODO, DONE}
    CreatedIn <- MCCreatedIn
    EditedTo <- MCEditedTo
    Positions <- MCPositions
    Orders <- MCOrders
    MaxChanges = 2
    Requests = {r1, r2}
    None = None
SPECIFICATION Spec
INVARIANTS
    TypeOK
PROPERTIES
    ImplementsBoard
    MovedToPosition
    MovesEnd
CHECK_DEADLOCK FALSE
