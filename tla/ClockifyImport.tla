--------------------------- MODULE ClockifyImport ---------------------------
(***************************************************************************)
(* The import of Clockify entries beside the timer of Timers: the          *)
(* importEntries of clockify.service.ts and of time-entries.service.ts.    *)
(*                                                                         *)
(* An import asks for each finished Clockify entry whether one of the      *)
(* user's entries has its id, and creates one if none has.  What it        *)
(* remembers between the two is the Clockify entry it is at.  Everything   *)
(* that Timers describes happens meanwhile.                                *)
(*                                                                         *)
(* Clients may write that id too, when they create or edit an entry; typed *)
(* and raced tell where the id came from.                                  *)
(***************************************************************************)
EXTENDS Timers

CONSTANTS
    Imports,           \* imports in flight
    ClockifyEntries    \* finished entries in Clockify

ASSUME ImportAssumption == {None, Absent} \cap ClockifyEntries = {}

VARIABLES
    clockifyEntryId,   \* that column of the rows
    importing,         \* the Clockify entry each import is about to create
    typed,             \* history: the entries whose id a client wrote
    raced              \* history: the Clockify entries two imports were at at once

importVars == <<clockifyEntryId, importing, typed, raced>>

ImportTypeOK ==
    /\ TypeOK
    /\ clockifyEntryId \in [Entries -> ClockifyEntries \cup {None}]
    /\ importing \in [Imports -> ClockifyEntries \cup {None}]
    /\ typed \subseteq Entries
    /\ raced \subseteq ClockifyEntries

ImportInit ==
    /\ Init
    /\ clockifyEntryId = [e \in Entries |-> None]
    /\ importing = [i \in Imports |-> None]
    /\ typed = {}
    /\ raced = {}

-----------------------------------------------------------------------------

(* Imports *)

\* Import i turns to Clockify entry k, perhaps beside another.
TurnTo(i, k) ==
    /\ importing' = [importing EXCEPT ![i] = k]
    /\ raced' = IF \E j \in Imports : importing[j] = k THEN raced \cup {k} ELSE raced

\* Mutant: Clockify entries are not looked for.
FindNoImported_Blind(i, k) ==
    /\ importing[i] = None
    /\ TurnTo(i, k)
    /\ UNCHANGED <<vars, clockifyEntryId, typed>>

\* An entry that exists is skipped, whoever wrote its id.
FindNoImported(i, k) ==
    /\ importing[i] = None
    /\ \A e \in Stored : clockifyEntryId[e] # k
    /\ TurnTo(i, k)
    /\ UNCHANGED <<vars, clockifyEntryId, typed>>

CreateImported(i) ==
    /\ importing[i] # None
    /\ \E e \in Fresh, start, end \in 0..now :
         /\ Seconds(start, end) > 0
         /\ CreateEntry(e, start, end)
         /\ clockifyEntryId' = [clockifyEntryId EXCEPT ![e] = importing[i]]
    /\ importing' = [importing EXCEPT ![i] = None]
    /\ UNCHANGED <<typed, raced>>

\* An entry of no duration is skipped, and one that cannot be written ends the
\* import; what was created before stays.
LeaveOut(i) ==
    /\ importing[i] # None
    /\ importing' = [importing EXCEPT ![i] = None]
    /\ UNCHANGED <<vars, clockifyEntryId, typed, raced>>

ImportStep(i) ==
    \/ \E k \in ClockifyEntries : FindNoImported(i, k)
    \/ CreateImported(i)
    \/ LeaveOut(i)

-----------------------------------------------------------------------------
(* The handlers of Timers *)

\* A client's input has an id for entry e, or null, or does not mention it.
TypeId(e) ==
    \E k \in ClockifyEntries \cup {None, Absent} :
        /\ clockifyEntryId' = [clockifyEntryId EXCEPT ![e] = Written(k, @)]
        /\ typed' = IF k = Absent THEN typed ELSE typed \cup {e}

\* create and update write the id of their input.
EditStep ==
    /\ \/ \E e \in Fresh, start, end \in 0..now :
            CreateEntry(e, start, end) /\ TypeId(e)
       \/ \E r \in Requests : CommitUpdate(r) /\ TypeId(req[r].entry)
    /\ UNCHANGED <<importing, raced>>

\* The other handlers set no Clockify id; a row that goes takes its own along.
OtherStep ==
    /\ Tick \/ \E r \in Requests : HandlerStep(r)
    /\ clockifyEntryId' = [e \in Entries |-> IF e \in Stored' THEN clockifyEntryId[e] ELSE None]
    /\ typed' = typed \cap Stored'
    /\ UNCHANGED <<importing, raced>>

ImportNext == EditStep \/ OtherStep \/ \E i \in Imports : ImportStep(i)

ImportSpec == ImportInit /\ [][ImportNext /\ NoContention']_<<vars, importVars>>

-----------------------------------------------------------------------------
(* Properties *)

\* However often imports are repeated or fail halfway, and whatever ids clients
\* type, change or remove, or entries they delete, meanwhile, an import adds no
\* second entry for a Clockify entry ("dedup by clockifyEntryId"), unless another
\* was at it at the same time.
OneEntryPerClockifyId ==
    \A d, e \in Stored \ typed :
        (clockifyEntryId[d] = clockifyEntryId[e] /\ clockifyEntryId[d] \notin raced \cup {None})
            => d = e

=============================================================================
