------------------------ MODULE ClockifyImportProofs ------------------------
(***************************************************************************)
(* Proofs about ClockifyImport: an import does to the timer only what any  *)
(* create does, so that what is proved of Timers holds beside imports, and *)
(* imports leave one entry per Clockify entry.                             *)
(***************************************************************************)
EXTENDS ClockifyImport, TimersProofs

(* Creating is all that an import does to the entries, and an id is all that a
   client's input adds to what Timers has of it. *)
LEMMA ImportIsTimerStep == [ImportNext]_<<vars, importVars>> => [Next]_vars
<1> SUFFICES ASSUME ImportNext PROVE [Next]_vars
  BY DEF vars
<1>1. CASE EditStep
  BY <1>1 DEF EditStep, Next, RequestStep
<1>2. CASE OtherStep
  BY <1>2 DEF OtherStep, Next, RequestStep
<1>3. ASSUME NEW i \in Imports, NEW k \in ClockifyEntries, FindNoImported(i, k)
      PROVE  UNCHANGED vars
  BY <1>3 DEF FindNoImported
<1>4. ASSUME NEW i \in Imports, CreateImported(i) PROVE Next
  BY <1>4 DEF CreateImported, Next
<1>5. ASSUME NEW i \in Imports, LeaveOut(i) PROVE UNCHANGED vars
  BY <1>5 DEF LeaveOut
<1> QED
  BY <1>1, <1>2, <1>3, <1>4, <1>5 DEF ImportNext, ImportStep

(* Beside imports the timer is what Timers says: with this the theorems about
   ApartSpec hold of ImportSpec. *)
THEOREM ImportKeepsTimer == ImportSpec => ApartSpec
<1>1. ImportInit => Init
  BY DEF ImportInit
<1>2. [ImportNext /\ NoContention']_<<vars, importVars>> => [Next /\ NoContention']_vars
  BY ImportIsTimerStep DEF vars
<1> QED
  BY <1>1, <1>2, PTL DEF ImportSpec, ApartSpec

(* Beside imports, too, startTimer and resumeEntry set at most one timer running. *)
THEOREM TimerIsOneBesideImports == ImportSpec => []OneTimer
  BY ImportKeepsTimer, TimerIsOne, PTL

-----------------------------------------------------------------------------
ColumnType ==
    /\ clockifyEntryId \in [Entries -> ClockifyEntries \cup {None}]
    /\ importing \in [Imports -> ClockifyEntries \cup {None}]
    /\ raced \subseteq ClockifyEntries

(* Only entries have ids, and only those that are stored were typed one. *)
NoRowNoId ==
    /\ \A e \in Entries \ Stored : clockifyEntryId[e] = None
    /\ typed \subseteq Stored

(* Two imports that are at one Clockify entry have raced for it. *)
RacesKnown ==
    \A i, j \in Imports :
        (importing[i] = importing[j] /\ importing[i] # None) => i = j \/ importing[i] \in raced

(* What an import looked for, alone, no import has made meanwhile. *)
StillMissing ==
    \A i \in Imports, e \in Stored \ typed :
        importing[i] \notin raced \cup {None} => clockifyEntryId[e] # importing[i]

ImportInv ==
    /\ ColumnType
    /\ NoRowNoId
    /\ RacesKnown
    /\ StillMissing
    /\ OneEntryPerClockifyId

(* A new row takes the place of none: the others stay. *)
LEMMA CreatedRow ==
  ASSUME TypeOK, NEW e \in Entries, NEW start \in 0..now, NEW end \in 0..now,
         CreateEntry(e, start, end)
  PROVE  Stored' = Stored \cup {e}
<1>1. now \in Nat
  BY BoundAssumption DEF TypeOK
<1>2. start \in Int /\ end \in Int
  BY <1>1
<1>3. Seconds(start, end) \in Int
  BY <1>2, SecondsType
<1>4. /\ RowOf(start, end, Seconds(start, end)) \in Row
      /\ RowOf(start, end, Seconds(start, end)) # None
  BY <1>2, <1>3, RowType DEF Time
<1>5. Put(e, RowOf(start, end, Seconds(start, end)))
  BY DEF CreateEntry
<1>6. /\ e \in Stored'
      /\ \A d \in Entries \ {e} : d \in Stored' <=> d \in Stored
  BY <1>4, <1>5, PutEffect
<1> QED
  BY <1>6 DEF Stored

(* An edit takes no row away and adds none. *)
LEMMA UpdateKeepsStored ==
  ASSUME TypeOK, TimesKnown, NEW r \in Requests, CommitUpdate(r)
  PROVE  Stored' = Stored
<1> DEFINE e == req[r].entry
           row == RowOf(Written(req[r].start, entry[e].start),
                        Written(req[r].end, entry[e].end), req[r].seconds)
<1>1. e \in Entries /\ e \in Stored /\ Put(e, row)
  BY DEF CommitUpdate, Stored
<1>2. row \in Row /\ row # None
  <2>1. entry[e].start \in Time /\ entry[e].end \in Time \cup {None}
    BY <1>1, StoredRow DEF Time
  <2>2. /\ req[r].start \in Time \cup {Absent}
        /\ req[r].end \in (Time \cup {None}) \cup {Absent}
        /\ req[r].seconds \in Int \cup {None}
    BY DEF CommitUpdate, TimesKnown, TypeOK, Request
  <2>3. /\ Written(req[r].start, entry[e].start) \in Time
        /\ Written(req[r].end, entry[e].end) \in Time \cup {None}
    BY <2>1, <2>2, WrittenType
  <2> QED
    BY <2>2, <2>3, RowType
<1> HIDE DEF e, row
<1>3. /\ e \in Stored'
      /\ \A d \in Entries \ {e} : d \in Stored' <=> d \in Stored
  BY <1>1, <1>2, PutEffect
<1> QED
  BY <1>1, <1>3 DEF Stored

(* A step that leaves the imports alone, and the ids of all the entries which no
   client wrote: a new one has none. *)
LEMMA IdsKept ==
  ASSUME ImportInv, UNCHANGED <<importing, raced>>,
         ColumnType', NoRowNoId',
         \A e \in Stored' \ typed' :
            \/ e \in Stored \ typed /\ clockifyEntryId'[e] = clockifyEntryId[e]
            \/ clockifyEntryId'[e] = None
  PROVE  ImportInv'
<1>1. RacesKnown'
  BY DEF ImportInv, RacesKnown
<1>2. StillMissing'
  BY DEF ImportInv, StillMissing
<1>3. OneEntryPerClockifyId'
  BY DEF ImportInv, OneEntryPerClockifyId
<1> QED
  BY <1>1, <1>2, <1>3 DEF ImportInv

(* What a client types. *)
LEMMA TypedId ==
  ASSUME ImportInv, NEW e \in Entries, TypeId(e)
  PROVE  /\ clockifyEntryId' \in [Entries -> ClockifyEntries \cup {None}]
         /\ \A d \in Entries \ {e} : clockifyEntryId'[d] = clockifyEntryId[d]
         /\ \/ typed' = typed /\ clockifyEntryId'[e] = clockifyEntryId[e]
            \/ typed' = typed \cup {e}
<1>1. PICK k \in ClockifyEntries \cup {None, Absent} :
        /\ clockifyEntryId' = [clockifyEntryId EXCEPT ![e] = Written(k, clockifyEntryId[e])]
        /\ typed' = IF k = Absent THEN typed ELSE typed \cup {e}
  BY DEF TypeId
<1>2. clockifyEntryId \in [Entries -> ClockifyEntries \cup {None}]
  BY DEF ImportInv, ColumnType
<1>3. Written(k, clockifyEntryId[e]) \in ClockifyEntries \cup {None}
  BY <1>2 DEF Written
<1>4. k = Absent => Written(k, clockifyEntryId[e]) = clockifyEntryId[e]
  BY DEF Written
<1> QED
  BY <1>1, <1>2, <1>3, <1>4

LEMMA EditKeepsImports == TypeOK /\ TimesKnown /\ ImportInv /\ EditStep => ImportInv'
<1> SUFFICES ASSUME TypeOK, TimesKnown, ImportInv, EditStep PROVE ImportInv'
  OBVIOUS
<1>1. importing' = importing /\ raced' = raced /\ ColumnType /\ NoRowNoId
  BY DEF EditStep, ImportInv
<1>2. ASSUME NEW e \in Entries, TypeId(e), Stored' = Stored \cup {e} PROVE ImportInv'
  <2>1. /\ clockifyEntryId' \in [Entries -> ClockifyEntries \cup {None}]
        /\ \A d \in Entries \ {e} : clockifyEntryId'[d] = clockifyEntryId[d]
        /\ \/ typed' = typed /\ clockifyEntryId'[e] = clockifyEntryId[e]
           \/ typed' = typed \cup {e}
    BY <1>2, TypedId
  <2>2. ColumnType'
    BY <1>1, <2>1 DEF ColumnType
  <2>3. NoRowNoId'
    BY <1>1, <1>2, <2>1 DEF NoRowNoId
  <2>4. ASSUME NEW d \in Stored' \ typed'
        PROVE  \/ d \in Stored \ typed /\ clockifyEntryId'[d] = clockifyEntryId[d]
               \/ clockifyEntryId'[d] = None
    BY <1>1, <1>2, <2>1 DEF NoRowNoId, Stored
  <2> QED
    BY <1>1, <2>2, <2>3, <2>4, IdsKept
<1>3. ASSUME NEW e \in Fresh, NEW start \in 0..now, NEW end \in 0..now,
             CreateEntry(e, start, end), TypeId(e)
      PROVE  ImportInv'
  <2>1. e \in Entries
    BY DEF Fresh
  <2>2. Stored' = Stored \cup {e}
    BY <1>3, <2>1, CreatedRow
  <2> QED
    BY <1>2, <1>3, <2>1, <2>2
<1>4. ASSUME NEW r \in Requests, CommitUpdate(r), TypeId(req[r].entry) PROVE ImportInv'
  <2>1. req[r].entry \in Stored /\ req[r].entry \in Entries
    BY <1>4 DEF CommitUpdate, Stored
  <2>2. Stored' = Stored
    BY <1>4, UpdateKeepsStored
  <2> QED
    BY <1>2, <1>4, <2>1, <2>2
<1> QED
  BY <1>3, <1>4 DEF EditStep

(* The steps that write no Clockify id. *)
LEMMA OthersKeepImports == ImportInv /\ OtherStep => ImportInv'
<1> SUFFICES ASSUME ImportInv, OtherStep PROVE ImportInv'
  OBVIOUS
<1>1. /\ clockifyEntryId' = [e \in Entries |-> IF e \in Stored' THEN clockifyEntryId[e] ELSE None]
      /\ typed' = typed \cap Stored'
      /\ importing' = importing /\ raced' = raced
      /\ ColumnType /\ NoRowNoId
  BY DEF OtherStep, ImportInv
<1>2. ColumnType'
  BY <1>1 DEF ColumnType
<1>3. NoRowNoId'
  BY <1>1 DEF NoRowNoId
<1>4. ASSUME NEW e \in Stored' \ typed'
      PROVE  \/ e \in Stored \ typed /\ clockifyEntryId'[e] = clockifyEntryId[e]
             \/ clockifyEntryId'[e] = None
  <2>1. e \in Entries /\ e \notin typed /\ clockifyEntryId'[e] = clockifyEntryId[e]
    BY <1>1 DEF Stored
  <2> QED
    BY <1>1, <2>1 DEF NoRowNoId
<1> QED
  BY <1>1, <1>2, <1>3, <1>4, IdsKept

LEMMA ImportStepKeeps ==
  TypeOK /\ TimesKnown /\ ImportInv /\ [ImportNext]_<<vars, importVars>> => ImportInv'
<1> SUFFICES ASSUME TypeOK, TimesKnown, ImportInv, [ImportNext]_<<vars, importVars>>
             PROVE  ImportInv'
  OBVIOUS
<1> USE DEF ImportInv
<1>1. CASE EditStep \/ OtherStep
  BY <1>1, EditKeepsImports, OthersKeepImports
<1>2. ASSUME NEW i \in Imports, NEW k \in ClockifyEntries, FindNoImported(i, k)
      PROVE  ImportInv'
  <2>1. /\ importing' = [importing EXCEPT ![i] = k]
        /\ raced' = IF \E j \in Imports : importing[j] = k THEN raced \cup {k} ELSE raced
        /\ clockifyEntryId' = clockifyEntryId /\ typed' = typed
        /\ Stored' = Stored
        /\ \A e \in Stored : clockifyEntryId[e] # k
    BY <1>2 DEF FindNoImported, TurnTo, vars, Stored
  <2>2. raced \subseteq raced' /\ k # None
    BY <2>1, ImportAssumption
  <2>3. /\ importing'[i] = k
        /\ \A j \in Imports \ {i} : importing'[j] = importing[j]
        /\ \A j \in Imports : importing[j] = k => k \in raced'
    BY <2>1 DEF ColumnType
  <2>4. ColumnType' /\ NoRowNoId' /\ OneEntryPerClockifyId'
    BY <2>1, <2>2 DEF ColumnType, NoRowNoId, OneEntryPerClockifyId
  <2>5. RacesKnown'
    BY <2>2, <2>3 DEF RacesKnown
  <2>6. StillMissing'
    BY <2>1, <2>2, <2>3 DEF StillMissing
  <2> QED
    BY <2>4, <2>5, <2>6
<1>3. ASSUME NEW i \in Imports, CreateImported(i) PROVE ImportInv'
  <2>1. PICK e \in Fresh, start \in 0..now, end \in 0..now :
          /\ CreateEntry(e, start, end)
          /\ clockifyEntryId' = [clockifyEntryId EXCEPT ![e] = importing[i]]
    BY <1>3 DEF CreateImported
  <2>2. /\ importing' = [importing EXCEPT ![i] = None] /\ importing[i] # None
        /\ typed' = typed /\ raced' = raced
    BY <1>3 DEF CreateImported
  <2>3. e \in Entries /\ e \notin Stored
    BY DEF Fresh
  <2>4. Stored' = Stored \cup {e}
    BY <2>1, <2>3, CreatedRow
  <2>5. /\ clockifyEntryId'[e] = importing[i]
        /\ \A d \in Stored : clockifyEntryId'[d] = clockifyEntryId[d]
    BY <2>1, <2>3 DEF ColumnType, Stored
  <2>6. \A j \in Imports : importing'[j] # None => j # i /\ importing'[j] = importing[j]
    BY <2>2 DEF ColumnType
  <2>7. ColumnType'
    BY <2>1, <2>2, <2>3 DEF ColumnType
  <2>8. NoRowNoId'
    BY <2>1, <2>2, <2>3, <2>4 DEF NoRowNoId, ColumnType
  <2>9. RacesKnown'
    BY <2>2, <2>6 DEF RacesKnown
  <2>10. StillMissing'
    BY <2>2, <2>4, <2>5, <2>6 DEF StillMissing, RacesKnown
  <2>11. OneEntryPerClockifyId'
    BY <2>2, <2>4, <2>5 DEF StillMissing, OneEntryPerClockifyId
  <2> QED
    BY <2>7, <2>8, <2>9, <2>10, <2>11
<1>4. ASSUME NEW i \in Imports, LeaveOut(i) PROVE ImportInv'
  <2>1. /\ importing' = [importing EXCEPT ![i] = None]
        /\ UNCHANGED <<clockifyEntryId, typed, raced>>
        /\ Stored' = Stored
    BY <1>4 DEF LeaveOut, vars, Stored
  <2>2. \A j \in Imports : importing'[j] # None => importing'[j] = importing[j]
    BY <2>1 DEF ColumnType
  <2> QED
    BY <2>1, <2>2
       DEF ColumnType, NoRowNoId, RacesKnown, StillMissing, OneEntryPerClockifyId
<1>5. CASE UNCHANGED <<vars, importVars>>
  BY <1>5 DEF vars, importVars, ColumnType, NoRowNoId, RacesKnown, StillMissing,
              OneEntryPerClockifyId, Stored
<1> QED
  BY <1>1, <1>2, <1>3, <1>4, <1>5 DEF ImportNext, ImportStep

LEMMA ImportInvHolds == ImportSpec => []ImportInv
<1>1. ImportInit => ImportInv
  <2> SUFFICES ASSUME ImportInit PROVE ImportInv
    OBVIOUS
  <2>1. Stored = {}
    BY DEF ImportInit, Init, Stored
  <2>2. /\ clockifyEntryId = [e \in Entries |-> None]
        /\ importing = [i \in Imports |-> None]
        /\ typed = {} /\ raced = {}
    BY DEF ImportInit
  <2> QED
    BY <2>1, <2>2 DEF ImportInv, ColumnType, NoRowNoId, RacesKnown, StillMissing,
                      OneEntryPerClockifyId
<1>2. ApartInv => TypeOK /\ TimesKnown
  BY DEF ApartInv, TimesKnown, MemoryHolds
<1>3. ImportInv /\ ApartInv /\ [ImportNext /\ NoContention']_<<vars, importVars>>
        => ImportInv'
  BY <1>2, ImportStepKeeps
<1> QED
  BY <1>1, <1>3, ImportKeepsTimer, ApartAlways, PTL DEF ImportSpec

(* Every reachable state of the timer and the imports beside it is well typed,
   however often an import stops halfway. *)
THEOREM ImportTypes == ImportSpec => []ImportTypeOK
<1>1. ApartInv => TypeOK
  BY DEF ApartInv
<1>2. TypeOK /\ ImportInv => ImportTypeOK
  BY DEF ImportInv, ColumnType, NoRowNoId, Stored, ImportTypeOK
<1> QED
  BY <1>1, <1>2, ImportInvHolds, ImportKeepsTimer, ApartAlways, PTL

(* Imports leave at most one entry per Clockify entry, but for those that two were
   at together and the entries whose id a client typed, whatever clients and the
   handlers of the timer do meanwhile. *)
THEOREM EntryImportedOnce == ImportSpec => []OneEntryPerClockifyId
<1>1. ImportInv => OneEntryPerClockifyId
  BY DEF ImportInv
<1> QED
  BY <1>1, ImportInvHolds, PTL

=============================================================================
