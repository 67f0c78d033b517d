------------------------------- MODULE Timers -------------------------------
(***************************************************************************)
(* The timer of one user: time-entries.resolver.ts and                     *)
(* time-entries.service.ts on top of prisma8-time-entry.repository.ts, and *)
(* what the user's browsers show of it.                                    *)
(*                                                                         *)
(* A running timer is an entry without an end.  An edit may also take the  *)
(* end of an entry away (an explicit null): that entry runs from then on   *)
(* beside any other and keeps its duration; reopened tells it apart.       *)
(*                                                                         *)
(* As in Invoicing, a handler that reads, decides and then writes is two   *)
(* actions or more, and req is what it remembers in between; a transaction *)
(* is one action.  The events of a user reach his browsers in the order in *)
(* which they were published (RealtimeChannel): shown is the last of them.  *)
(*                                                                         *)
(* Times count half seconds, so that the rounding of a duration to whole   *)
(* seconds can be seen.  Bounds: clients edit times that have passed and   *)
(* keep the start before the end.                                          *)
(***************************************************************************)
EXTENDS Integers

CONSTANTS
    Requests,   \* request slots: how many handlers may be in flight at once
    Entries,    \* ids of time entries
    MaxTime,    \* bound: the last instant
    MaxBack,    \* bound: how far before instant 0 a resumed entry may start
    None,       \* null: no entry, no end, no duration
    Absent      \* a field that the input of an edit does not have

ASSUME BoundAssumption == MaxTime \in Nat /\ MaxBack \in Nat

VARIABLES
    now,        \* the clock
    entry,      \* the rows
    req,        \* what each handler in flight remembers
    shown,      \* the timer in the last event published: an entry, or None
    missed,     \* history: what runs is not what the last event told
    reopened    \* history: running entries whose end an edit took away

vars == <<now, entry, req, shown, missed, reopened>>

Time == Int

Row == [start : Time, end : Time \cup {None}, seconds : Int \cup {None}]

ASSUME NoneAssumption == None \notin Int \cup Entries \cup Row

ASSUME AbsentAssumption == Absent \notin Int \cup {None}

RowOf(start, end, duration) == [start |-> start, end |-> end, seconds |-> duration]

Op == {"idle", "start", "resume", "resuming", "stop", "update", "delete",
       "started", "stopped"}

Request == [op      : Op,
            entry   : Entries \cup {None},
            start   : Time \cup {None, Absent},   \* the start to write
            end     : Time \cup {None, Absent},   \* the end to write
            seconds : Int \cup {None}]            \* the duration to write

Memory(op, e, start, end, duration) ==
    [op |-> op, entry |-> e, start |-> start, end |-> end, seconds |-> duration]

Idle == Memory("idle", None, None, None, None)

TypeOK ==
    /\ now \in 0..MaxTime
    /\ entry \in [Entries -> Row \cup {None}]
    /\ req \in [Requests -> Request]
    /\ shown \in Entries \cup {None}
    /\ missed \in BOOLEAN
    /\ reopened \subseteq Entries

Init ==
    /\ now = 0
    /\ entry = [e \in Entries |-> None]
    /\ req = [r \in Requests |-> Idle]
    /\ shown = None
    /\ missed = FALSE
    /\ reopened = {}

-----------------------------------------------------------------------------

TicksPerSecond == 2

\* Math.round of the difference in seconds: halves go up.
Seconds(start, end) == (end - start + TicksPerSecond \div 2) \div TicksPerSecond

Stored == {e \in Entries : entry[e] # None}

Running == {e \in Stored : entry[e].end = None}

\* What startTimer and resumeEntry set running.
Timed == Running \ reopened

\* The ids a create may hand out: serial numbers are not used again.
Fresh == {e \in Entries \ Stored : shown # e /\ \A r \in Requests : req[r].entry # e}

Remember(r, memory) == req' = [req EXCEPT ![r] = memory]

Put(e, row) == entry' = [entry EXCEPT ![e] = row]

\* value ?? default
Given(value, default) == IF value \in {None, Absent} THEN default ELSE value

\* What an update leaves in a column: a null is written, undefined is not.
Written(value, stored) == IF value = Absent THEN stored ELSE value

-----------------------------------------------------------------------------
(* Starting, resuming and stopping *)

\* Mutant: a running timer is not looked for.
FindNone_Any(r) ==
    /\ req[r].op = "idle"
    /\ \E op \in {"start", "resume"} : Remember(r, Memory(op, None, None, None, None))
    /\ UNCHANGED <<now, entry, shown, missed, reopened>>

\* Both startTimer and resumeEntry first look for a running timer.
FindNone(r) ==
    /\ req[r].op = "idle"
    /\ Running = {}
    /\ \E op \in {"start", "resume"} : Remember(r, Memory(op, None, None, None, None))
    /\ UNCHANGED <<now, entry, shown, missed, reopened>>

CommitStart(r) ==
    /\ req[r].op = "start"
    /\ \E e \in Fresh :
         /\ Put(e, RowOf(now, None, None))
         /\ Remember(r, Memory("started", e, None, None, None))
    /\ UNCHANGED <<now, shown, missed, reopened>>

\* Mutant: seconds taken for instants.
ReadResumed_Units(r) ==
    /\ req[r].op = "resume"
    /\ \E e \in Stored :
         LET start == now - Given(entry[e].seconds, 0)
         IN  /\ start >= -MaxBack
             /\ Remember(r, Memory("resuming", e, start, None, None))
    /\ UNCHANGED <<now, entry, shown, missed, reopened>>

\* The entry is read and its new start computed so that the time it already
\* has counts.
ReadResumed(r) ==
    /\ req[r].op = "resume"
    /\ \E e \in Stored :
         LET start == now - TicksPerSecond * Given(entry[e].seconds, 0)
         IN  /\ start >= -MaxBack
             /\ Remember(r, Memory("resuming", e, start, None, None))
    /\ UNCHANGED <<now, entry, shown, missed, reopened>>

CommitResume(r) ==
    LET e == req[r].entry
    IN  /\ req[r].op = "resuming"
        /\ e \in Stored
        /\ Put(e, RowOf(req[r].start, None, None))
        /\ Remember(r, Memory("started", e, None, None, None))
        /\ reopened' = reopened \ {e}
        /\ UNCHANGED <<now, shown, missed>>

\* findActive: any running entry, there is no order.
FindActive(r) ==
    /\ req[r].op = "idle"
    /\ \E e \in Running :
         Remember(r, Memory("stop", e, None, now, Seconds(entry[e].start, now)))
    /\ UNCHANGED <<now, entry, shown, missed, reopened>>

CommitStop(r) ==
    LET e == req[r].entry
    IN  /\ req[r].op = "stop"
        /\ e \in Stored
        /\ Put(e, RowOf(entry[e].start, req[r].end, req[r].seconds))
        /\ Remember(r, Memory("stopped", e, None, None, None))
        /\ reopened' = reopened \ {e}
        /\ UNCHANGED <<now, shown, missed>>

\* Mutant: stopping publishes the entry as starting does.
LogAndPublish_Entry(r) ==
    /\ req[r].op \in {"started", "stopped"}
    /\ req[r].entry \in Stored
    /\ shown' = req[r].entry
    /\ missed' = (Running \ {req[r].entry} # {})
    /\ Remember(r, Idle)
    /\ UNCHANGED <<now, entry, reopened>>

\* The activity is logged, which needs the entry to exist, and then the event
\* is published: the entry that was started, or null.  It says nothing of
\* another entry that runs.
LogAndPublish(r) ==
    /\ req[r].op \in {"started", "stopped"}
    /\ req[r].entry \in Stored
    /\ shown' = IF req[r].op = "started" THEN req[r].entry ELSE None
    /\ missed' = (Running \ {req[r].entry} # {})
    /\ Remember(r, Idle)
    /\ UNCHANGED <<now, entry, reopened>>

-----------------------------------------------------------------------------
(* Editing *)

CreateEntry(e, start, end) ==
    /\ start <= end
    /\ Put(e, RowOf(start, end, Seconds(start, end)))
    /\ UNCHANGED <<now, req, shown, missed, reopened>>

\* The inputs of an edit: a start or no word of it (a null start cannot be
\* written and fails), an end, null or no word of it.
Starts == 0..now \cup {Absent}
Ends == 0..now \cup {None, Absent}

\* Mutant: the duration is computed only when an end is given.
ReadEdited_Kept(r) ==
    /\ req[r].op = "idle"
    /\ \E e \in Stored, start \in Starts, end \in Ends :
         LET newStart == Given(start, entry[e].start)
             newEnd == Given(end, entry[e].end)
         IN  /\ newEnd # None => newStart <= newEnd
             /\ Remember(r, Memory("update", e, start, end,
                    IF Given(end, None) # None THEN Seconds(newStart, end)
                                               ELSE entry[e].seconds))
    /\ UNCHANGED <<now, entry, shown, missed, reopened>>

\* The duration is computed from the times given and, for those that are null
\* or not given, from the entry as it was read.
ReadEdited(r) ==
    /\ req[r].op = "idle"
    /\ \E e \in Stored, start \in Starts, end \in Ends :
         LET newStart == Given(start, entry[e].start)
             newEnd == Given(end, entry[e].end)
         IN  /\ newEnd # None => newStart <= newEnd
             /\ Remember(r, Memory("update", e, start, end,
                    IF newEnd # None THEN Seconds(newStart, newEnd)
                                     ELSE entry[e].seconds))
    /\ UNCHANGED <<now, entry, shown, missed, reopened>>

\* The entries reopened once an edit has written the end.
Reopened(e, end) ==
    IF end # None THEN reopened \ {e}
    ELSE IF e \in Running THEN reopened ELSE reopened \cup {e}

\* Mutant: a start that was not given is written all the same.
CommitUpdate_Unset(r) ==
    LET e == req[r].entry
        end == Written(req[r].end, entry[e].end)
    IN  /\ req[r].op = "update"
        /\ e \in Stored
        /\ Put(e, RowOf(req[r].start, end, req[r].seconds))
        /\ reopened' = Reopened(e, end)
        /\ missed' = (missed \/ Running' # Running)
        /\ Remember(r, Idle)
        /\ UNCHANGED <<now, shown>>

\* Writes the times that were given, a null end too, and the duration;
\* publishes nothing.
CommitUpdate(r) ==
    LET e == req[r].entry
        end == Written(req[r].end, entry[e].end)
    IN  /\ req[r].op = "update"
        /\ e \in Stored
        /\ Put(e, RowOf(Written(req[r].start, entry[e].start), end, req[r].seconds))
        /\ reopened' = Reopened(e, end)
        /\ missed' = (missed \/ Running' # Running)
        /\ Remember(r, Idle)
        /\ UNCHANGED <<now, shown>>

\* The entry is read and its deletion logged.
LogDeletion(r) ==
    /\ req[r].op = "idle"
    /\ \E e \in Stored : Remember(r, Memory("delete", e, None, None, None))
    /\ UNCHANGED <<now, entry, shown, missed, reopened>>

\* Publishes nothing either.
CommitDelete(r) ==
    LET e == req[r].entry
    IN  /\ req[r].op = "delete"
        /\ e \in Stored
        /\ Put(e, None)
        /\ reopened' = reopened \ {e}
        /\ missed' = (missed \/ Running' # Running)
        /\ Remember(r, Idle)
        /\ UNCHANGED <<now, shown>>

\* A handler fails on the way, or its event is lost (publish only logs that).
Abort(r) ==
    /\ req[r].op # "idle"
    /\ missed' = (missed \/ req[r].op \in {"started", "stopped"})
    /\ Remember(r, Idle)
    /\ UNCHANGED <<now, entry, shown, reopened>>

Tick ==
    /\ now < MaxTime
    /\ now' = now + 1
    /\ UNCHANGED <<entry, req, shown, missed, reopened>>

\* All that a handler does but write an edit.
HandlerStep(r) ==
    \/ FindNone(r) \/ CommitStart(r) \/ ReadResumed(r) \/ CommitResume(r)
    \/ FindActive(r) \/ CommitStop(r) \/ LogAndPublish(r)
    \/ ReadEdited(r)
    \/ LogDeletion(r) \/ CommitDelete(r)
    \/ Abort(r)

RequestStep(r) == HandlerStep(r) \/ CommitUpdate(r)

Next ==
    \/ \E r \in Requests : RequestStep(r)
    \/ \E e \in Fresh, start, end \in 0..now : CreateEntry(e, start, end)
    \/ Tick

Spec == Init /\ [][Next]_vars

-----------------------------------------------------------------------------
(* When handlers get in each other's way *)

TimerOps == {"start", "resume", "resuming", "stop", "started", "stopped"}

Conflict(a, b) ==
    \/ a.op \in TimerOps /\ b.op \in TimerOps
    \/ a.entry # None /\ a.entry = b.entry

\* One handler at a time is about the timer, and about an entry.
NoContention ==
    \A r, s \in Requests : r # s => ~Conflict(req[r], req[s])

ApartSpec == Init /\ [][Next /\ NoContention']_vars

-----------------------------------------------------------------------------
(* Properties *)

\* At most one timer runs, though any number of entries may be edited to run
\* beside it: startTimer and resumeEntry refuse a second one, and edits that
\* give, move or clear times never turn a reopened entry into a timed one.
OneTimer == \A d, e \in Timed : d = e

\* The stored duration is that of the stored times, and a running entry has
\* none, though update and stop compute it from what they read earlier.  The
\* exception is an entry whose end an edit took away: it runs and keeps one,
\* until it is stopped, resumed or given an end.
DurationMatches ==
    \A e \in Stored \ reopened :
        entry[e].seconds = IF entry[e].end = None THEN None
                           ELSE Seconds(entry[e].start, entry[e].end)

\* Once the handlers are done, the browsers show the one entry that runs, or
\* none, unless what runs was changed by a handler that publishes nothing, an
\* event was lost, or the last one left out another entry that runs; the next
\* start or stop puts that right.
ShownIsStored ==
    (~missed /\ \A r \in Requests : req[r].op \notin {"started", "stopped"})
        => Running = {shown} \ {None}

\* A resumed entry starts with at least the time it had, whatever time passes
\* between reading it and writing it (resumeEntry).
ResumeKeepsTime ==
    [][\A e \in Stored :
        (e \notin Timed /\ e \in Timed')
            => Seconds(entry'[e].start, now') >= entry[e].seconds]_vars

=============================================================================
