---------------------------- MODULE TimersProofs ----------------------------
(***************************************************************************)
(* Proofs about Timers: types in every interleaving, and, while no two     *)
(* handlers are about the timer or an entry together, the single timer,    *)
(* the durations, what the browsers show and what a resumed entry keeps.   *)
(***************************************************************************)
EXTENDS Timers, TLAPS

LEMMA IdleType == Idle \in Request
  BY DEF Idle, Memory, Request, Op

(* What Seconds returns, and that it grows with the end. *)
LEMMA SecondsType ==
  \A a, b \in Int : Seconds(a, b) \in Int
  BY DEF Seconds, TicksPerSecond

LEMMA SecondsGrow ==
  \A a, b, c \in Int : b <= c => Seconds(a, b) <= Seconds(a, c)
  BY DEF Seconds, TicksPerSecond

(* A start moved back by a number of seconds counts that number. *)
LEMMA SecondsKept ==
  \A b, n \in Int : Seconds(b - TicksPerSecond * n, b) = n
  BY DEF Seconds, TicksPerSecond

LEMMA RowType ==
  \A s \in Time, t \in Time \cup {None}, n \in Int \cup {None} :
     /\ RowOf(s, t, n) \in Row
     /\ RowOf(s, t, n) # None
     /\ RowOf(s, t, n).start = s
     /\ RowOf(s, t, n).end = t
     /\ RowOf(s, t, n).seconds = n
  BY NoneAssumption DEF RowOf, Row

(* The same, for the values that an edit or a create writes. *)
LEMMA WrittenRow ==
  ASSUME NEW s, NEW t, NEW n, s \in Time, t \in Time \cup {None}, n \in Int \cup {None}
  PROVE  /\ RowOf(s, t, n) \in Row
         /\ RowOf(s, t, n).start = s
         /\ RowOf(s, t, n).end = t
         /\ RowOf(s, t, n).seconds = n
  BY RowType

(* What a handler's memory holds. *)
LEMMA MemoryType ==
  \A op \in Op, e \in Entries \cup {None}, s, t \in Time \cup {None, Absent},
     n \in Int \cup {None} :
     /\ Memory(op, e, s, t, n) \in Request
     /\ Memory(op, e, s, t, n).op = op
     /\ Memory(op, e, s, t, n).entry = e
     /\ Memory(op, e, s, t, n).start = s
     /\ Memory(op, e, s, t, n).end = t
     /\ Memory(op, e, s, t, n).seconds = n
  BY DEF Memory, Request

(* The same, for an edit. *)
LEMMA UpdateMemory ==
  ASSUME NEW e \in Entries, NEW s \in Time \cup {None, Absent},
         NEW t \in Time \cup {None, Absent}, NEW n \in Int \cup {None}
  PROVE  Memory("update", e, s, t, n) \in Request
  BY DEF Memory, Request, Op

(* What a row holds, for an entry that is stored. *)
LEMMA StoredRow ==
  ASSUME TypeOK, NEW e \in Stored
  PROVE  /\ e \in Entries
         /\ entry[e] \in Row
         /\ entry[e].start \in Int
         /\ entry[e].end \in Int \cup {None}
         /\ entry[e].seconds \in Int \cup {None}
  BY DEF TypeOK, Stored, Row, Time

(* What Given and Written return. *)
LEMMA GivenType ==
  ASSUME NEW S, NEW v \in S \cup {None, Absent}, NEW w \in S \cup {None}
  PROVE  Given(v, w) \in S \cup {None} /\ (w \in S => Given(v, w) \in S)
  BY DEF Given

LEMMA WrittenType ==
  ASSUME NEW S, NEW v \in S \cup {Absent}, NEW w \in S
  PROVE  Written(v, w) \in S
  BY DEF Written

(* TypeOK is not inductive: a time is written as the handler remembers it, so
   what it remembers has to be one. *)
TimesKnown ==
    \A r \in Requests :
        /\ req[r].op = "resuming" => req[r].start \in Time
        /\ req[r].op = "stop" => req[r].end \in Time
        /\ req[r].op = "update" => req[r].start \in Time \cup {Absent}

LEMMA ReopenedStep == TypeOK /\ [Next]_vars => reopened' \subseteq Entries
<1> SUFFICES ASSUME TypeOK, [Next]_vars PROVE reopened' \subseteq Entries
  OBVIOUS
<1>1. reopened \subseteq Entries
  BY DEF TypeOK
<1>2. ASSUME NEW r \in Requests, RequestStep(r) PROVE reopened' \subseteq Entries
  <2>1. CASE CommitUpdate(r)
    BY <2>1, <1>1 DEF CommitUpdate, Reopened, Stored
  <2> QED
    BY <1>1, <1>2, <2>1
       DEF RequestStep, HandlerStep, FindNone, CommitStart, ReadResumed, CommitResume,
           FindActive, CommitStop, LogAndPublish, ReadEdited, LogDeletion, CommitDelete, Abort
<1> QED
  BY <1>1, <1>2 DEF Next, CreateEntry, Tick, vars

LEMMA TypeStep == TypeOK /\ TimesKnown /\ [Next]_vars => TypeOK'
<1>o. ASSUME TypeOK, [Next]_vars PROVE reopened' \subseteq Entries
  BY <1>o, ReopenedStep
<1> DEFINE RestOK == /\ now \in 0..MaxTime
                     /\ entry \in [Entries -> Row \cup {None}]
                     /\ req \in [Requests -> Request]
                     /\ shown \in Entries \cup {None}
                     /\ missed \in BOOLEAN
<1> SUFFICES ASSUME TypeOK, TimesKnown, [Next]_vars PROVE RestOK'
  BY <1>o DEF TypeOK
<1> USE DEF TypeOK
<1>i. \A t \in 0..now : t \in Time
  BY DEF Time
<1>r. ASSUME NEW r \in Requests PROVE req[r] \in Request
  BY <1>r
<1>m. ASSUME NEW r \in Requests, NEW q \in Request, Remember(r, q)
      PROVE  req' \in [Requests -> Request]
  BY <1>m DEF Remember
<1>d. ASSUME NEW r \in Requests, Remember(r, Idle) PROVE req' \in [Requests -> Request]
  BY <1>d, <1>m, IdleType
<1>p. ASSUME NEW e \in Entries, NEW row \in Row \cup {None}, Put(e, row)
      PROVE  entry' \in [Entries -> Row \cup {None}]
  BY <1>p DEF Put
<1>1. CASE UNCHANGED vars
  BY <1>1 DEF vars
<1>2. ASSUME NEW r \in Requests, RequestStep(r) PROVE RestOK'
  <2>1. CASE FindNone(r)
    <3>1. PICK op \in {"start", "resume"} : Remember(r, Memory(op, None, None, None, None))
      BY <2>1 DEF FindNone
    <3>2. op \in Op /\ None \in Entries \cup {None}
      BY DEF Op
    <3>3. Memory(op, None, None, None, None) \in Request
      BY <3>2, MemoryType
    <3> QED
      BY <3>1, <3>3, <1>m, <2>1 DEF FindNone
  <2>2. CASE CommitStart(r)
    <3>1. PICK e \in Fresh : /\ Put(e, RowOf(now, None, None))
                             /\ Remember(r, Memory("started", e, None, None, None))
      BY <2>2 DEF CommitStart
    <3>2. e \in Entries /\ RowOf(now, None, None) \in Row
      <4>1. e \in Entries /\ now \in Int
        BY DEF Fresh
      <4> QED
        BY <4>1, RowType DEF Time
    <3>3. Memory("started", e, None, None, None) \in Request
      BY <3>2, MemoryType DEF Op
    <3> QED
      BY <3>1, <3>2, <3>3, <1>m, <1>p, <2>2 DEF CommitStart
  <2>3. CASE ReadResumed(r)
    <3>1. PICK e \in Stored :
             Remember(r, Memory("resuming", e, now - TicksPerSecond * Given(entry[e].seconds, 0),
                                None, None))
      BY <2>3 DEF ReadResumed
    <3>2. e \in Entries /\ now - TicksPerSecond * Given(entry[e].seconds, 0) \in Time
      <4>1. e \in Entries /\ now \in Int /\ Given(entry[e].seconds, 0) \in Int
        BY StoredRow DEF Given
      <4> QED
        BY <4>1 DEF TicksPerSecond, Time
    <3>3. Memory("resuming", e, now - TicksPerSecond * Given(entry[e].seconds, 0),
                 None, None) \in Request
      BY <3>2, MemoryType DEF Op
    <3> QED
      BY <3>1, <3>3, <1>m, <2>3 DEF ReadResumed
  <2>4. CASE CommitResume(r)
    <3> DEFINE e == req[r].entry
    <3>1. e \in Entries /\ req[r].start \in Time
      BY <2>4 DEF CommitResume, Stored, TimesKnown
    <3>2. RowOf(req[r].start, None, None) \in Row
      BY <3>1, RowType
    <3>3. Memory("started", e, None, None, None) \in Request
      BY <3>1, MemoryType DEF Op
    <3> QED
      BY <2>4, <3>1, <3>2, <3>3, <1>m, <1>p DEF CommitResume
  <2>5. CASE FindActive(r)
    <3>1. PICK e \in Running :
             Remember(r, Memory("stop", e, None, now, Seconds(entry[e].start, now)))
      BY <2>5 DEF FindActive
    <3>2. e \in Entries /\ now \in Time /\ Seconds(entry[e].start, now) \in Int
      <4>1. e \in Stored /\ now \in Int
        BY DEF Running
      <4> QED
        BY <4>1, StoredRow, SecondsType DEF Time
    <3>3. Memory("stop", e, None, now, Seconds(entry[e].start, now)) \in Request
      <4>1. /\ "stop" \in Op /\ None \in Time \cup {None, Absent}
            /\ now \in Time \cup {None, Absent}
            /\ Seconds(entry[e].start, now) \in Int \cup {None}
        BY <3>2 DEF Op
      <4> QED
        BY <3>2, <4>1, MemoryType
    <3> QED
      BY <3>1, <3>3, <1>m, <2>5 DEF FindActive
  <2>6. CASE CommitStop(r)
    <3> DEFINE e == req[r].entry
    <3>1. e \in Entries /\ entry[e].start \in Time
      BY <2>6, StoredRow DEF CommitStop, Time
    <3>2. req[r].end \in Time \cup {None} /\ req[r].seconds \in Int \cup {None}
      BY <2>6 DEF CommitStop, TimesKnown, Request
    <3>3. RowOf(entry[e].start, req[r].end, req[r].seconds) \in Row
      BY <3>1, <3>2, RowType
    <3>4. Memory("stopped", e, None, None, None) \in Request
      BY <3>1, MemoryType DEF Op
    <3> QED
      BY <2>6, <3>1, <3>3, <3>4, <1>m, <1>p DEF CommitStop
  <2>7. CASE LogAndPublish(r)
    BY <2>7, <1>d DEF LogAndPublish, Stored
  <2>8. CASE ReadEdited(r)
    <3>1. PICK e \in Stored, start \in Starts, end \in Ends :
             Remember(r, Memory("update", e, start, end,
               IF Given(end, entry[e].end) # None
                 THEN Seconds(Given(start, entry[e].start), Given(end, entry[e].end))
                 ELSE entry[e].seconds))
      BY <2>8 DEF ReadEdited
    <3>2. start \in Time \cup {None, Absent} /\ end \in Time \cup {None, Absent}
      BY <1>i DEF Starts, Ends
    <3>3. (IF Given(end, entry[e].end) # None
             THEN Seconds(Given(start, entry[e].start), Given(end, entry[e].end))
             ELSE entry[e].seconds) \in Int \cup {None}
      <4>1. /\ entry[e].start \in Time
            /\ entry[e].end \in Time \cup {None}
            /\ entry[e].seconds \in Int \cup {None}
        BY StoredRow DEF Time
      <4>2. /\ Given(start, entry[e].start) \in Time
            /\ Given(end, entry[e].end) \in Time \cup {None}
        BY <3>2, <4>1, GivenType
      <4> QED
        BY <4>1, <4>2, SecondsType DEF Time
    <3>4. Memory("update", e, start, end,
               IF Given(end, entry[e].end) # None
                 THEN Seconds(Given(start, entry[e].start), Given(end, entry[e].end))
                 ELSE entry[e].seconds) \in Request
      <4>1. e \in Entries
        BY StoredRow
      <4> QED
        BY <3>2, <3>3, <4>1, UpdateMemory
    <3> QED
      BY <3>1, <3>4, <1>m, <2>8 DEF ReadEdited
  <2>9. CASE CommitUpdate(r)
    <3> DEFINE e == req[r].entry
    <3>1. e \in Stored /\ e \in Entries
      BY <2>9 DEF CommitUpdate, Stored
    <3>2. /\ Written(req[r].start, entry[e].start) \in Time
          /\ Written(req[r].end, entry[e].end) \in Time \cup {None}
          /\ req[r].seconds \in Int \cup {None}
      <4>1. entry[e].start \in Time /\ entry[e].end \in Time \cup {None}
        BY <3>1, StoredRow DEF Time
      <4>2. /\ req[r].start \in Time \cup {Absent}
            /\ req[r].end \in (Time \cup {None}) \cup {Absent}
            /\ req[r].seconds \in Int \cup {None}
        BY <2>9 DEF CommitUpdate, TimesKnown, Request
      <4> QED
        BY <4>1, <4>2, WrittenType
    <3>3. RowOf(Written(req[r].start, entry[e].start), Written(req[r].end, entry[e].end),
                req[r].seconds) \in Row
      BY <3>2, RowType
    <3> QED
      BY <2>9, <3>1, <3>3, <1>d, <1>p DEF CommitUpdate
  <2>10. CASE LogDeletion(r)
    <3>1. PICK e \in Stored : Remember(r, Memory("delete", e, None, None, None))
      BY <2>10 DEF LogDeletion
    <3>2. Memory("delete", e, None, None, None) \in Request
      BY MemoryType, StoredRow DEF Op
    <3> QED
      BY <3>1, <3>2, <1>m, <2>10 DEF LogDeletion
  <2>11. CASE CommitDelete(r)
    BY <2>11, <1>d, <1>p DEF CommitDelete, Stored
  <2>12. CASE Abort(r)
    BY <2>12, <1>d DEF Abort
  <2> QED
    BY <1>2, <2>1, <2>2, <2>3, <2>4, <2>5, <2>6, <2>7, <2>8, <2>9, <2>10, <2>11, <2>12
       DEF RequestStep, HandlerStep
<1>3. ASSUME NEW e \in Fresh, NEW start \in 0..now, NEW end \in 0..now,
             CreateEntry(e, start, end)
      PROVE  RestOK'
  <2>1. e \in Entries /\ start \in Time /\ end \in Time /\ Seconds(start, end) \in Int
    BY <1>i, SecondsType DEF Fresh, Time
  <2> QED
    BY <1>3, <2>1, <1>p, RowType DEF CreateEntry
<1>4. CASE Tick
  BY <1>4, BoundAssumption DEF Tick
<1> QED
  BY <1>1, <1>2, <1>3, <1>4 DEF Next

LEMMA TimesStep == TypeOK /\ TimesKnown /\ [Next]_vars => TimesKnown'
<1> SUFFICES ASSUME TypeOK, TimesKnown, [Next]_vars PROVE TimesKnown'
  OBVIOUS
<1> USE DEF TimesKnown
<1>m. ASSUME NEW r \in Requests, NEW q, Remember(r, q),
             q.op = "resuming" => q.start \in Time,
             q.op = "stop" => q.end \in Time,
             q.op = "update" => q.start \in Time \cup {Absent}
      PROVE  TimesKnown'
  BY <1>m DEF Remember, TypeOK
<1>k. ASSUME NEW r \in Requests,
             NEW op \in Op \ {"resuming", "stop", "update"}, NEW e, NEW s, NEW t, NEW n,
             Remember(r, Memory(op, e, s, t, n))
      PROVE  TimesKnown'
  BY <1>k, <1>m DEF Memory
<1>1. CASE UNCHANGED req
  BY <1>1
<1>2. ASSUME NEW r \in Requests, RequestStep(r) PROVE TimesKnown'
  <2>1. CASE FindNone(r)
    BY <2>1, <1>k DEF FindNone, Op
  <2>2. CASE ReadResumed(r)
    <3>1. PICK e \in Stored :
             Remember(r, Memory("resuming", e, now - TicksPerSecond * Given(entry[e].seconds, 0),
                                None, None))
      BY <2>2 DEF ReadResumed
    <3>2. now \in Int /\ Given(entry[e].seconds, 0) \in Int
      BY StoredRow DEF Given, TypeOK
    <3>3. now - TicksPerSecond * Given(entry[e].seconds, 0) \in Time
      BY <3>2 DEF TicksPerSecond, Time
    <3> QED
      BY <3>1, <3>3, <1>m DEF Memory
  <2>3. CASE CommitStart(r) \/ CommitResume(r) \/ CommitStop(r) \/ LogDeletion(r)
    BY <2>3, <1>k DEF CommitStart, CommitResume, CommitStop, LogDeletion, Op
  <2>6. CASE FindActive(r)
    <3>1. now \in Time
      BY DEF TypeOK, Time
    <3> QED
      BY <2>6, <3>1, <1>m DEF FindActive, Memory
  <2>5. CASE ReadEdited(r)
    <3>1. PICK e \in Stored, start \in Starts, end \in Ends :
             Remember(r, Memory("update", e, start, end,
               IF Given(end, entry[e].end) # None
                 THEN Seconds(Given(start, entry[e].start), Given(end, entry[e].end))
                 ELSE entry[e].seconds))
      BY <2>5 DEF ReadEdited
    <3>2. start \in Time \cup {Absent}
      BY DEF Starts, Time, TypeOK
    <3> QED
      BY <3>1, <3>2, <1>m DEF Memory
  <2>4. CASE LogAndPublish(r) \/ CommitUpdate(r) \/ CommitDelete(r) \/ Abort(r)
    BY <2>4, <1>k DEF LogAndPublish, CommitUpdate, CommitDelete, Abort, Idle, Op
  <2> QED
    BY <1>2, <2>1, <2>2, <2>3, <2>4, <2>5, <2>6 DEF RequestStep, HandlerStep
<1> QED
  BY <1>1, <1>2 DEF Next, CreateEntry, Tick, vars

(* No handler is in flight at first. *)
LEMMA InitIdle == ASSUME Init, NEW r \in Requests PROVE req[r] = Idle
<1>1. req = [s \in Requests |-> Idle]
  BY DEF Init
<1> QED
  BY Zenon, <1>1

LEMMA TypeInit == Init => TypeOK
<1> SUFFICES ASSUME Init PROVE TypeOK
  OBVIOUS
<1>1. now \in 0..MaxTime
  BY BoundAssumption DEF Init
<1>2. entry \in [Entries -> Row \cup {None}]
  BY DEF Init
<1>3. req \in [Requests -> Request]
  BY IdleType DEF Init
<1> QED
  BY <1>1, <1>2, <1>3 DEF Init, TypeOK

(* Every reachable state is well typed, however the handlers interleave. *)
THEOREM TimerTypes == Spec => []TypeOK
<1>1. Init => TypeOK
  BY TypeInit
<1>2. Init => TimesKnown
  <2> SUFFICES ASSUME Init, NEW r \in Requests PROVE req[r].op = "idle"
    BY DEF TimesKnown
  <2>1. Idle.op = "idle"
    BY DEF Idle, Memory
  <2> QED
    BY Zenon, <2>1, InitIdle
<1> QED
  BY <1>1, <1>2, TypeStep, TimesStep, PTL DEF Spec

-----------------------------------------------------------------------------
(* The duration that an edit writes is that of the times it leaves behind; if it
   leaves no end, it is the one that the entry had, or that of an end which the
   edit takes away. *)
EditHolds(e, start, end, duration) ==
    LET newEnd == Written(end, entry[e].end)
    IN  /\ newEnd # None => duration = Seconds(Written(start, entry[e].start), newEnd)
        /\ (newEnd = None /\ e \in Running) => duration = entry[e].seconds
        /\ (newEnd = None /\ e \notin Running) => duration \in Int

(* The invariant of the handlers that keep apart: what each of them remembers
   still says of the tables what it said when it was read. *)
MemoryHolds(r) ==
    LET q == req[r]
        e == req[r].entry
    IN  /\ q.op \in {"start", "resume", "resuming"} => Timed = {}
        /\ q.op = "started" => e \in Entries /\ Timed = {e}
        /\ q.op = "stopped" => e \notin Running
        /\ q.op = "resuming" =>
             /\ q.start \in Time
             /\ e \in Stored => Seconds(q.start, now) >= entry[e].seconds
        /\ q.op = "stop" =>
             /\ e \in Running
             /\ q.end \in Time
             /\ q.seconds = Seconds(entry[e].start, q.end)
        /\ q.op = "update" =>
             /\ q.start \in Time \cup {Absent}
             /\ e \in Stored => EditHolds(e, q.start, q.end, q.seconds)

(* A reopened entry runs and has a duration. *)
ReopenedHolds == \A e \in reopened : e \in Running /\ entry[e].seconds \in Int

ApartInv ==
    /\ TypeOK
    /\ NoContention
    /\ OneTimer
    /\ DurationMatches
    /\ ReopenedHolds
    /\ ShownIsStored
    /\ \A r \in Requests : MemoryHolds(r)

(* What one write to the table changes, and that the rest stays. *)
LEMMA PutEffect ==
  ASSUME TypeOK, NEW e \in Entries, NEW row \in Row \cup {None}, Put(e, row)
  PROVE  /\ entry'[e] = row
         /\ \A d \in Entries \ {e} : entry'[d] = entry[d]
         /\ e \in Stored' <=> row # None
         /\ e \in Running' <=> row # None /\ row.end = None
         /\ \A d \in Entries \ {e} : (d \in Stored' <=> d \in Stored)
                                     /\ (d \in Running' <=> d \in Running)
  BY DEF TypeOK, Put, Stored, Running

(* Nothing else is reopened, or closed, along with a write to entry e. *)
OnlyReopens(e) == \A d \in Entries \ {e} : d \in reopened' <=> d \in reopened

LEMMA TimedEffect ==
  ASSUME TypeOK, NEW e \in Entries, NEW row \in Row \cup {None}, Put(e, row), OnlyReopens(e)
  PROVE  /\ e \in Timed' <=> row # None /\ row.end = None /\ e \notin reopened'
         /\ \A d \in Entries \ {e} : d \in Timed' <=> d \in Timed
  BY PutEffect DEF Timed, OnlyReopens

LEMMA SubsetsOfEntries ==
  /\ Stored \subseteq Entries /\ Running \subseteq Stored /\ Timed \subseteq Running
  /\ Stored' \subseteq Entries /\ Running' \subseteq Stored' /\ Timed' \subseteq Running'
  BY DEF Stored, Running, Timed

(* A handler's memory survives another's write to an entry that is not the
   handler's, unless it is about the timer and the write starts one. *)
LEMMA MemoryKept ==
  ASSUME TypeOK, NEW s \in Requests, MemoryHolds(s), req'[s] = req[s], now' = now,
         NEW e \in Entries, NEW row \in Row \cup {None}, Put(e, row), OnlyReopens(e),
         req[s].entry # e,
         req[s].op \in TimerOps => (e \in Timed' => e \in Timed)
  PROVE  MemoryHolds(s)'
<1> DEFINE d == req[s].entry
<1>1. /\ d \in Entries => entry'[d] = entry[d]
      /\ d \in Entries => (d \in Stored' <=> d \in Stored)
      /\ d \in Entries => (d \in Running' <=> d \in Running)
      /\ d \in Entries => (d \in Timed' <=> d \in Timed)
  BY PutEffect, TimedEffect
<1>2. /\ Stored \subseteq Entries /\ Stored' \subseteq Entries
      /\ Running \subseteq Entries /\ Running' \subseteq Entries
      /\ Timed \subseteq Entries /\ Timed' \subseteq Entries
  BY SubsetsOfEntries
<1>4. ASSUME req[s].op \in TimerOps PROVE Timed' \subseteq Timed
  BY <1>2, <1>4, TimedEffect
<1>5. req[s].op \in {"start", "resume", "resuming"} => Timed' = {}
  BY <1>4 DEF MemoryHolds, TimerOps
<1>6. req[s].op = "started" => d \in Entries /\ Timed' = {d}
  BY <1>1, <1>4 DEF MemoryHolds, TimerOps
<1>7. req[s].op = "resuming" =>
         /\ req[s].start \in Time
         /\ d \in Stored' => Seconds(req[s].start, now) >= entry'[d].seconds
  BY <1>1, <1>2 DEF MemoryHolds
<1>8. req[s].op = "stop" =>
         /\ d \in Running'
         /\ req[s].end \in Time
         /\ req[s].seconds = Seconds(entry'[d].start, req[s].end)
  BY <1>1, <1>2 DEF MemoryHolds
<1>9. req[s].op = "stopped" => d \notin Running'
  BY <1>1, <1>2 DEF MemoryHolds
<1>10. req[s].op = "update" =>
         /\ req[s].start \in Time \cup {Absent}
         /\ d \in Stored' => EditHolds(d, req[s].start, req[s].end, req[s].seconds)'
  <2> SUFFICES ASSUME req[s].op = "update", d \in Stored'
               PROVE  EditHolds(d, req[s].start, req[s].end, req[s].seconds)'
    BY DEF MemoryHolds
  <2>1. /\ d \in Stored
        /\ entry'[d] = entry[d]
        /\ d \in Running' <=> d \in Running
    BY <1>1, <1>2
  <2>2. EditHolds(d, req[s].start, req[s].end, req[s].seconds)
    BY <2>1 DEF MemoryHolds
  <2> QED
    BY <2>1, <2>2 DEF EditHolds, Written, Seconds
<1> QED
  BY <1>5, <1>6, <1>7, <1>8, <1>9, <1>10 DEF MemoryHolds, Seconds, TicksPerSecond

(* What another handler remembers is not about the timer if this one is, nor
   about the same entry. *)
LEMMA OthersApart ==
  ASSUME NoContention, NEW r \in Requests, NEW s \in Requests \ {r}
  PROVE  /\ req[r].op \in TimerOps => req[s].op \notin TimerOps
         /\ req[r].entry # None => req[s].entry # req[r].entry
  BY DEF NoContention, Conflict

(* The parts of the invariant that do not depend on what is shown. *)
Consistent ==
    /\ OneTimer
    /\ DurationMatches
    /\ ReopenedHolds
    /\ \A r \in Requests : MemoryHolds(r)

(* A step that only changes what one handler remembers, to something true. *)
LEMMA ReadStep ==
  ASSUME ApartInv, NEW r \in Requests, NEW q, Remember(r, q),
         UNCHANGED <<now, entry, reopened>>, MemoryHolds(r)'
  PROVE  Consistent'
<1>0. Stored' = Stored /\ Running' = Running /\ Timed' = Timed
  BY DEF Stored, Running, Timed
<1>1. OneTimer' /\ DurationMatches' /\ ReopenedHolds'
  BY <1>0 DEF ApartInv, OneTimer, DurationMatches, ReopenedHolds, Seconds
<1>2. ASSUME NEW s \in Requests \ {r} PROVE MemoryHolds(s)'
  <2>1. req'[s] = req[s]
    BY DEF Remember, ApartInv, TypeOK
  <2>2. MemoryHolds(s)
    BY DEF ApartInv
  <2> QED
    BY <1>0, <2>1, <2>2 DEF MemoryHolds, EditHolds, Written, Seconds
<1> QED
  BY <1>1, <1>2 DEF Consistent

(* A step in which a handler writes a row that is consistent, to an entry that
   no other handler is about. *)
LEMMA WriteStep ==
  ASSUME ApartInv, NEW r \in Requests, NEW q, Remember(r, q), now' = now,
         NEW e \in Entries, NEW row \in Row \cup {None}, Put(e, row), OnlyReopens(e),
         reopened' \subseteq Entries,
         (row # None /\ e \notin reopened') =>
             row.seconds = IF row.end = None THEN None ELSE Seconds(row.start, row.end),
         e \in reopened' => row # None /\ row.end = None /\ row.seconds \in Int,
         e \in Timed' => Timed \subseteq {e},
         \A s \in Requests \ {r} :
            /\ req[s].entry # e
            /\ req[s].op \in TimerOps => (e \in Timed' => e \in Timed),
         MemoryHolds(r)'
  PROVE  Consistent'
<1> USE DEF ApartInv
<1>1. OneTimer'
  <2>1. Timed' \subseteq Entries
    BY SubsetsOfEntries
  <2>2. CASE e \in Timed'
    BY <2>1, <2>2, TimedEffect DEF OneTimer
  <2>3. CASE e \notin Timed'
    BY <2>1, <2>3, TimedEffect DEF OneTimer
  <2> QED
    BY <2>2, <2>3
<1>2. DurationMatches'
  <2> SUFFICES ASSUME NEW d \in Stored', d \notin reopened'
               PROVE  entry'[d].seconds = IF entry'[d].end = None THEN None
                                          ELSE Seconds(entry'[d].start, entry'[d].end)
    BY DEF DurationMatches, Seconds
  <2>1. d \in Entries
    BY DEF Stored
  <2>2. CASE d = e
    BY <2>2, PutEffect
  <2>3. CASE d # e
    <3>1. d \in Stored \ reopened /\ entry'[d] = entry[d]
      BY <2>1, <2>3, PutEffect DEF OnlyReopens
    <3> QED
      BY <3>1 DEF DurationMatches
  <2> QED
    BY <2>2, <2>3
<1>3. ReopenedHolds'
  <2> SUFFICES ASSUME NEW d \in reopened'
               PROVE  d \in Running' /\ entry'[d].seconds \in Int
    BY DEF ReopenedHolds
  <2>1. CASE d = e
    BY <2>1, PutEffect
  <2>2. CASE d # e
    <3>1. d \in Entries /\ d \in reopened
      BY <2>2 DEF OnlyReopens
    <3> QED
      BY <2>2, <3>1, PutEffect DEF ReopenedHolds
  <2> QED
    BY <2>1, <2>2
<1>4. ASSUME NEW s \in Requests \ {r} PROVE MemoryHolds(s)'
  <2>1. req'[s] = req[s]
    BY DEF Remember, TypeOK
  <2> QED
    BY <2>1, MemoryKept
<1> QED
  BY <1>1, <1>2, <1>3, <1>4 DEF Consistent

(* What is shown, after a step that publishes nothing. *)
LEMMA ShownQuiet ==
  ASSUME ApartInv, NEW r \in Requests, NEW q, Remember(r, q), shown' = shown,
         \/ q.op \in {"started", "stopped"}
         \/ /\ req[r].op \notin {"started", "stopped"}
            /\ ~missed' => ~missed /\ Running' = Running
  PROVE  ShownIsStored'
<1>1. req'[r] = q /\ \A s \in Requests \ {r} : req'[s] = req[s]
  BY DEF Remember, ApartInv, TypeOK
<1>2. CASE q.op \in {"started", "stopped"}
  BY <1>1, <1>2 DEF ShownIsStored
<1>3. CASE /\ req[r].op \notin {"started", "stopped"}
           /\ ~missed' => ~missed /\ Running' = Running
  <2> SUFFICES ASSUME ~missed', \A s \in Requests : req'[s].op \notin {"started", "stopped"}
               PROVE  Running' = {shown'} \ {None}
    BY DEF ShownIsStored
  <2>1. \A s \in Requests : req[s].op \notin {"started", "stopped"}
    BY <1>1, <1>3
  <2> QED
    BY <2>1, <1>3 DEF ShownIsStored, ApartInv
<1> QED
  BY <1>2, <1>3

LEMMA RememberedNow ==
  ASSUME TypeOK, NEW r \in Requests, NEW q, Remember(r, q)
  PROVE  req'[r] = q
  BY DEF TypeOK, Remember

(* The handlers that read, and those that fail. *)
LEMMA ApartReads ==
  ASSUME ApartInv, NEW r \in Requests,
         \/ FindNone(r) \/ ReadResumed(r) \/ FindActive(r) \/ ReadEdited(r)
         \/ LogDeletion(r) \/ Abort(r)
  PROVE  Consistent' /\ ShownIsStored'
<1>t. TypeOK /\ NoContention /\ OneTimer /\ DurationMatches /\ ReopenedHolds
  BY DEF ApartInv
<1>k. ASSUME UNCHANGED <<entry, reopened>>
      PROVE  Running' = Running /\ Stored' = Stored /\ Timed' = Timed
  BY <1>k DEF Running, Stored, Timed
<1>1. CASE FindNone(r)
  <2>1. PICK op \in {"start", "resume"} : Remember(r, Memory(op, None, None, None, None))
    BY <1>1 DEF FindNone
  <2>2. req'[r] = Memory(op, None, None, None, None)
    BY <2>1, <1>t, RememberedNow
  <2>3. Timed' = {}
    BY <1>1, <1>k DEF FindNone, Timed
  <2>4. MemoryHolds(r)'
    BY <2>2, <2>3 DEF MemoryHolds, Memory
  <2>5. Consistent'
    BY <1>1, <2>1, <2>4, ReadStep DEF FindNone
  <2>6. ShownIsStored'
    BY <1>1, <2>1, <1>k, ShownQuiet DEF FindNone, Memory
  <2> QED
    BY <2>5, <2>6
<1>2. CASE ReadResumed(r)
  <2> DEFINE start(e) == now - TicksPerSecond * Given(entry[e].seconds, 0)
  <2>1. PICK e \in Stored : Remember(r, Memory("resuming", e, start(e), None, None))
    BY <1>2 DEF ReadResumed
  <2>2. req'[r] = Memory("resuming", e, start(e), None, None)
    BY <2>1, <1>t, RememberedNow
  <2>3. Timed = {} /\ Timed' = {}
    BY <1>2, <1>k DEF ReadResumed, ApartInv, MemoryHolds
  <2>4. e \in reopened \/ entry[e].end # None
    BY <2>3 DEF Running, Timed
  <2>5. entry[e].seconds \in Int /\ now \in Int
    <3>1. CASE e \in reopened
      BY <3>1, <1>t DEF ReopenedHolds, TypeOK
    <3>2. CASE e \notin reopened
      <4>1. entry[e].seconds = Seconds(entry[e].start, entry[e].end)
        BY <2>4, <3>2, <1>t DEF DurationMatches
      <4>2. entry[e].start \in Int /\ entry[e].end \in Int
        BY <2>4, <3>2, <1>t, StoredRow
      <4>3. now \in Int
        BY <1>t DEF TypeOK
      <4> QED
        BY <4>1, <4>2, <4>3, SecondsType
    <3> QED
      BY <3>1, <3>2
  <2>6. start(e) = now - TicksPerSecond * entry[e].seconds
    BY <2>5, NoneAssumption, AbsentAssumption DEF Given
  <2>7. start(e) \in Time /\ Seconds(start(e), now) = entry[e].seconds
    <3>1. Seconds(now - TicksPerSecond * entry[e].seconds, now) = entry[e].seconds
      BY <2>5, SecondsKept
    <3>2. now - TicksPerSecond * entry[e].seconds \in Time
      BY <2>5 DEF Time, TicksPerSecond
    <3> QED
      BY <3>1, <3>2, <2>6
  <2>8. UNCHANGED <<now, entry, reopened>>
    BY <1>2 DEF ReadResumed
  <2>9. MemoryHolds(r)'
    <3> HIDE DEF start
    <3> QED
      BY <2>2, <2>3, <2>5, <2>7, <2>8 DEF MemoryHolds, Memory, Seconds, TicksPerSecond
  <2>10. Consistent'
    BY <2>1, <2>8, <2>9, ReadStep
  <2>11. ShownIsStored'
    BY <1>2, <2>1, <1>k, ShownQuiet DEF ReadResumed, Memory
  <2> QED
    BY <2>10, <2>11
<1>3. CASE FindActive(r)
  <2>1. PICK e \in Running :
           Remember(r, Memory("stop", e, None, now, Seconds(entry[e].start, now)))
    BY <1>3 DEF FindActive
  <2>2. req'[r] = Memory("stop", e, None, now, Seconds(entry[e].start, now))
    BY <2>1, <1>t, RememberedNow
  <2>3. UNCHANGED <<now, entry, reopened>> /\ now \in Time
    BY <1>3, <1>t DEF FindActive, TypeOK, Time
  <2>4. MemoryHolds(r)'
    BY <2>2, <2>3, <1>k DEF MemoryHolds, Memory, Seconds
  <2>5. Consistent'
    BY <2>1, <2>3, <2>4, ReadStep
  <2>6. ShownIsStored'
    BY <1>3, <2>1, <1>k, ShownQuiet DEF FindActive, Memory
  <2> QED
    BY <2>5, <2>6
<1>4. CASE ReadEdited(r)
  <2> DEFINE duration(e, start, end) ==
               IF Given(end, entry[e].end) # None
                 THEN Seconds(Given(start, entry[e].start), Given(end, entry[e].end))
                 ELSE entry[e].seconds
  <2>1. PICK e \in Stored, start \in Starts, end \in Ends :
           Remember(r, Memory("update", e, start, end, duration(e, start, end)))
    BY <1>4 DEF ReadEdited
  <2>2. req'[r] = Memory("update", e, start, end, duration(e, start, end))
    BY <2>1, <1>t, RememberedNow
  <2>3. UNCHANGED <<now, entry, reopened>>
    BY <1>4 DEF ReadEdited
  <2>4. /\ start \in Time \cup {Absent}
        /\ end \in Time \cup {None, Absent}
        /\ None \notin Time /\ Absent \notin Time /\ Absent # None
    BY <1>t, NoneAssumption, AbsentAssumption DEF Starts, Ends, Time, TypeOK
  <2>8. EditHolds(e, start, end, duration(e, start, end))
    <3> DEFINE newStart == Written(start, entry[e].start)
               newEnd == Written(end, entry[e].end)
    <3>1. newStart = Given(start, entry[e].start)
      BY <2>4 DEF Written, Given
    <3>2. ASSUME newEnd # None
          PROVE  duration(e, start, end) = Seconds(newStart, newEnd)
      <4>1. newEnd = Given(end, entry[e].end)
        BY <2>4, <3>2 DEF Written, Given
      <4> QED
        BY <3>1, <3>2, <4>1
    <3>3. ASSUME newEnd = None, e \in Running PROVE duration(e, start, end) = entry[e].seconds
      <4>1. Given(end, entry[e].end) = None
        BY <2>4, <3>3 DEF Written, Given, Running
      <4> QED
        BY <4>1
    <3>4. ASSUME newEnd = None, e \notin Running PROVE duration(e, start, end) \in Int
      <4>1. entry[e].end # None /\ entry[e].end \in Int /\ entry[e].start \in Int
        BY <3>4, <1>t, StoredRow DEF Running
      <4>2. Given(end, entry[e].end) = entry[e].end
        BY <2>4, <3>4, <4>1 DEF Written, Given
      <4>3. Given(start, entry[e].start) \in Int
        BY <2>4, <4>1 DEF Given, Time
      <4> QED
        BY <4>1, <4>2, <4>3, SecondsType
    <3> QED
      BY <3>2, <3>3, <3>4 DEF EditHolds
  <2>5. MemoryHolds(r)'
    <3>5. PICK n : n = duration(e, start, end)
      OBVIOUS
    <3>1. /\ req'[r].op = "update" /\ req'[r].entry = e
          /\ req'[r].start = start /\ req'[r].end = end /\ req'[r].seconds = n
      BY <2>2, <3>5 DEF Memory
    <3>2. EditHolds(e, start, end, n)
      BY <2>8, <3>5
    <3>3. entry'[e] = entry[e] /\ (e \in Running' <=> e \in Running)
      BY <2>3, <1>k
    <3>4. EditHolds(e, start, end, n)'
      BY <3>2, <3>3 DEF EditHolds, Written, Seconds
    <3> QED
      BY <2>4, <3>1, <3>4 DEF MemoryHolds
  <2>6. Consistent'
    BY <2>1, <2>3, <2>5, ReadStep
  <2>7. ShownIsStored'
    BY <1>4, <2>1, <1>k, ShownQuiet DEF ReadEdited, Memory
  <2> QED
    BY <2>6, <2>7
<1>5. CASE LogDeletion(r)
  <2>1. PICK e \in Stored : Remember(r, Memory("delete", e, None, None, None))
    BY <1>5 DEF LogDeletion
  <2>2. MemoryHolds(r)'
    BY <2>1, <1>t, RememberedNow DEF MemoryHolds, Memory
  <2>3. Consistent'
    BY <1>5, <2>1, <2>2, ReadStep DEF LogDeletion
  <2>4. ShownIsStored'
    BY <1>5, <2>1, <1>k, ShownQuiet DEF LogDeletion, Memory
  <2> QED
    BY <2>3, <2>4
<1>6. CASE Abort(r)
  <2>1. MemoryHolds(r)'
    BY <1>6, <1>t, RememberedNow DEF Abort, MemoryHolds, Idle, Memory
  <2>2. Consistent'
    BY <1>6, <2>1, ReadStep DEF Abort
  <2>3. ShownIsStored'
    <3>1. CASE req[r].op \in {"started", "stopped"}
      <4>1. missed' = (missed \/ req[r].op \in {"started", "stopped"})
        BY <1>6 DEF Abort
      <4>2. missed'
        BY Zenon, <3>1, <4>1
      <4> QED
        BY <4>2 DEF ShownIsStored
    <3>2. CASE req[r].op \notin {"started", "stopped"}
      <4>1. missed' = (missed \/ req[r].op \in {"started", "stopped"})
        BY <1>6 DEF Abort
      <4>2. ~missed' => ~missed
        BY Zenon, <4>1
      <4> QED
        BY <3>2, <4>2, <1>6, <1>k, ShownQuiet DEF Abort
    <3> QED
      BY <3>1, <3>2
  <2> QED
    BY <2>2, <2>3
<1> QED
  BY <1>1, <1>2, <1>3, <1>4, <1>5, <1>6

(* The handlers that write one entry. *)
LEMMA ApartWrites ==
  ASSUME ApartInv, NEW r \in Requests,
         \/ CommitStart(r) \/ CommitResume(r) \/ CommitStop(r)
         \/ CommitUpdate(r) \/ CommitDelete(r)
  PROVE  Consistent' /\ ShownIsStored'
<1>t. /\ TypeOK /\ NoContention /\ OneTimer /\ DurationMatches /\ ReopenedHolds
      /\ MemoryHolds(r) /\ reopened \subseteq Entries /\ reopened \subseteq Running
  BY DEF ApartInv, TypeOK, ReopenedHolds
<1>n. now \in Time /\ None \notin Time /\ None \notin Entries
  BY <1>t, NoneAssumption DEF TypeOK, Time
<1>s. /\ Running \subseteq Entries /\ Running' \subseteq Entries
      /\ Timed \subseteq Entries /\ Timed' \subseteq Entries
  BY SubsetsOfEntries
<1>1. CASE CommitStart(r)
  <2>1. PICK e \in Fresh : /\ Put(e, RowOf(now, None, None))
                           /\ Remember(r, Memory("started", e, None, None, None))
    BY <1>1 DEF CommitStart
  <2>2. /\ e \in Entries /\ e \notin Running /\ e \notin reopened
        /\ \A s \in Requests : req[s].entry # e
    BY <1>t DEF Fresh, Running
  <2>3. /\ RowOf(now, None, None) \in Row
        /\ RowOf(now, None, None).end = None
        /\ RowOf(now, None, None).seconds = None
    BY <1>n, WrittenRow
  <2>4. Timed = {} /\ req[r].op \in TimerOps
    BY <1>1, <1>t DEF CommitStart, MemoryHolds, TimerOps
  <2>10. reopened' = reopened /\ OnlyReopens(e)
    BY <1>1 DEF CommitStart, OnlyReopens
  <2>5. Timed' = {e}
    <3>1. e \in Timed'
      BY <2>1, <2>2, <2>3, <2>10, <1>t, NoneAssumption, TimedEffect
    <3> QED
      BY <2>1, <2>2, <2>3, <2>4, <2>10, <3>1, <1>s, <1>t, TimedEffect
  <2>6. MemoryHolds(r)'
    <3>1. req'[r] = Memory("started", e, None, None, None)
      BY <2>1, <1>t, RememberedNow
    <3> QED
      BY <2>2, <2>5, <3>1 DEF MemoryHolds, Memory
  <2>7. \A s \in Requests \ {r} : req[s].op \notin TimerOps
    BY <2>4, <1>t, OthersApart
  <2>8. Consistent'
    BY <1>1, <1>t, <2>1, <2>2, <2>3, <2>4, <2>6, <2>7, <2>10, WriteStep DEF CommitStart
  <2>9. ShownIsStored'
    BY <1>1, <2>1, ShownQuiet DEF CommitStart, Memory
  <2> QED
    BY <2>8, <2>9
<1>2. CASE CommitResume(r)
  <2> DEFINE e == req[r].entry
             row == RowOf(req[r].start, None, None)
             q == Memory("started", e, None, None, None)
  <2>1. /\ Put(e, row) /\ Remember(r, q) /\ now' = now /\ shown' = shown
        /\ reopened' = reopened \ {e}
    BY <1>2 DEF CommitResume
  <2>2. e \in Entries /\ e # None
    BY <1>2, <1>n DEF CommitResume, Stored
  <2>3. Timed = {} /\ req[r].op \in TimerOps /\ req[r].start \in Time
    BY <1>2, <1>t DEF CommitResume, MemoryHolds, TimerOps
  <2>4. row \in Row /\ row.end = None /\ row.seconds = None
    BY <2>3, RowType
  <2>10. OnlyReopens(e) /\ e \notin reopened' /\ reopened' \subseteq Entries
    BY <2>1, <1>t DEF OnlyReopens
  <2>5. Timed' = {e}
    <3> HIDE DEF e, row, q
    <3>1. e \in Timed'
      BY <2>1, <2>2, <2>4, <2>10, <1>t, NoneAssumption, TimedEffect
    <3> QED
      BY <2>1, <2>2, <2>3, <2>4, <2>10, <3>1, <1>s, <1>t, TimedEffect
  <2>6. MemoryHolds(r)'
    BY <2>1, <2>2, <2>5, <1>t, RememberedNow DEF MemoryHolds, Memory
  <2>7. \A s \in Requests \ {r} : req[s].op \notin TimerOps /\ req[s].entry # e
    BY <2>2, <2>3, <1>t, OthersApart
  <2>8. Consistent'
    <3> HIDE DEF e, row, q
    <3> QED
      BY <2>1, <2>2, <2>3, <2>4, <2>6, <2>7, <2>10, WriteStep
  <2>9. ShownIsStored'
    BY <2>1, ShownQuiet DEF Memory
  <2> QED
    BY <2>8, <2>9
<1>3. CASE CommitStop(r)
  <2> DEFINE e == req[r].entry
             row == RowOf(entry[e].start, req[r].end, req[r].seconds)
             q == Memory("stopped", e, None, None, None)
  <2>1. /\ Put(e, row) /\ Remember(r, q) /\ now' = now /\ shown' = shown
        /\ reopened' = reopened \ {e}
    BY <1>3 DEF CommitStop
  <2>2. e \in Stored /\ e \in Entries /\ e # None
    BY <1>3, <1>n DEF CommitStop, Stored
  <2>3. /\ e \in Running
        /\ req[r].end \in Time
        /\ req[r].seconds = Seconds(entry[e].start, req[r].end)
        /\ req[r].op \in TimerOps
    BY <1>3, <1>t DEF CommitStop, MemoryHolds, TimerOps
  <2>4. entry[e].start \in Time /\ req[r].seconds \in Int
    BY <2>2, <2>3, <1>t, StoredRow, SecondsType DEF Time
  <2>5. /\ row \in Row
        /\ row.start = entry[e].start
        /\ row.end = req[r].end
        /\ row.seconds = req[r].seconds
    BY <2>3, <2>4, RowType
  <2>6. row.end # None
    BY <2>3, <2>5, <1>n
  <2>7. OnlyReopens(e) /\ e \notin reopened' /\ reopened' \subseteq Entries
    BY <2>1, <1>t DEF OnlyReopens
  <2>8. e \notin Running' /\ e \notin Timed'
    <3> HIDE DEF e, row, q
    <3> QED
      BY <2>1, <2>2, <2>5, <2>6, <2>7, <1>t, PutEffect, TimedEffect
  <2>9. MemoryHolds(r)'
    BY <2>1, <2>8, <1>t, RememberedNow DEF MemoryHolds, Memory
  <2>10. \A s \in Requests \ {r} : req[s].op \notin TimerOps /\ req[s].entry # e
    BY <2>2, <2>3, <1>t, OthersApart
  <2>11. Consistent'
    <3> HIDE DEF e, row, q
    <3> QED
      BY <2>1, <2>2, <2>3, <2>5, <2>6, <2>7, <2>8, <2>9, <2>10, WriteStep
  <2>12. ShownIsStored'
    BY <2>1, ShownQuiet DEF Memory
  <2> QED
    BY <2>11, <2>12
<1>4. CASE CommitUpdate(r)
  <2> DEFINE e == req[r].entry
             end == Written(req[r].end, entry[e].end)
             start == Written(req[r].start, entry[e].start)
             row == RowOf(start, end, req[r].seconds)
  <2>1. /\ Put(e, row) /\ Remember(r, Idle) /\ now' = now /\ shown' = shown
        /\ reopened' = Reopened(e, end)
    BY <1>4 DEF CommitUpdate
  <2>2. e \in Stored /\ e \in Entries /\ e # None
    BY <1>4, <1>n DEF CommitUpdate, Stored
  <2>3. /\ req[r].start \in Time \cup {Absent}
        /\ EditHolds(e, req[r].start, req[r].end, req[r].seconds)
    BY <1>4, <2>2, <1>t DEF CommitUpdate, MemoryHolds
  <2>4. start \in Time /\ end \in Time \cup {None} /\ req[r].seconds \in Int \cup {None}
    <3>1. req[r] \in Request
      BY <1>t DEF TypeOK
    <3>2. entry[e].start \in Time /\ entry[e].end \in Time \cup {None}
      BY <2>2, <1>t, StoredRow DEF Time
    <3>3. req[r].end \in (Time \cup {None}) \cup {Absent} /\ req[r].seconds \in Int \cup {None}
      BY <3>1 DEF Request
    <3> QED
      BY <2>3, <3>2, <3>3, WrittenType
  <2>5. /\ row \in Row
        /\ row.start = start
        /\ row.end = end
        /\ row.seconds = req[r].seconds
    <3> HIDE DEF start, end
    <3> QED
      BY <2>4, WrittenRow
  <2>6. /\ OnlyReopens(e) /\ reopened' \subseteq Entries
        /\ end # None => e \notin reopened'
        /\ (end = None /\ e \in Running) => (e \in reopened' <=> e \in reopened)
        /\ (end = None /\ e \notin Running) => e \in reopened'
    BY <2>1, <2>2, <1>t DEF Reopened, OnlyReopens
  <2>7. /\ end # None => req[r].seconds = Seconds(start, end)
        /\ (end = None /\ e \in Running) => req[r].seconds = entry[e].seconds
        /\ (end = None /\ e \notin Running) => req[r].seconds \in Int
    BY <2>3 DEF EditHolds
  <2>8. e \notin reopened' =>
           row.seconds = IF row.end = None THEN None ELSE Seconds(row.start, row.end)
    <3> HIDE DEF row, start, end
    <3>1. CASE end # None
      BY <3>1, <2>5, <2>7 DEF Seconds
    <3>2. CASE end = None /\ e \in Running
      <4>1. e \notin reopened => entry[e].seconds = None
        BY <3>2, <2>2, <1>t DEF DurationMatches, Running
      <4> QED
        BY <3>2, <4>1, <2>5, <2>6, <2>7
    <3>3. CASE end = None /\ e \notin Running
      BY <3>3, <2>6
    <3> QED
      BY <3>1, <3>2, <3>3
  <2>9. e \in reopened' => row # None /\ row.end = None /\ row.seconds \in Int
    <3> HIDE DEF row, start, end
    <3>1. e \in reopened => entry[e].seconds \in Int
      BY <1>t DEF ReopenedHolds
    <3> QED
      BY <3>1, <2>5, <2>6, <2>7, NoneAssumption
  <2>10. e \in Timed' => e \in Timed
    <3> HIDE DEF e, row, start, end
    <3>1. e \in Timed' <=> row # None /\ row.end = None /\ e \notin reopened'
      BY <2>1, <2>2, <2>5, <2>6, <1>t, TimedEffect
    <3> QED
      BY <3>1, <2>5, <2>6 DEF Timed
  <2>11. \A s \in Requests \ {r} : req[s].entry # e
    BY <2>2, <1>t, OthersApart
  <2>12. MemoryHolds(r)'
    BY <2>1, <1>t, RememberedNow DEF MemoryHolds, Idle, Memory
  <2>13. e \in Timed => Timed \subseteq {e}
    BY <1>t DEF OneTimer
  <2>14. Consistent'
    <3> HIDE DEF e, row, start, end
    <3> QED
      BY <2>1, <2>2, <2>5, <2>6, <2>8, <2>9, <2>10, <2>11, <2>12, <2>13, WriteStep
  <2>15. ~missed' => ~missed /\ Running' = Running
    <3>1. missed' = (missed \/ Running' # Running)
      BY <1>4 DEF CommitUpdate
    <3> QED
      BY Zenon, <3>1
  <2>16. ShownIsStored'
    BY <1>4, <2>1, <2>15, ShownQuiet DEF CommitUpdate
  <2> QED
    BY <2>14, <2>16
<1>5. CASE CommitDelete(r)
  <2> DEFINE e == req[r].entry
  <2>1. /\ Put(e, None) /\ Remember(r, Idle) /\ now' = now /\ shown' = shown
        /\ reopened' = reopened \ {e}
    BY <1>5 DEF CommitDelete
  <2>2. e \in Entries /\ e # None
    BY <1>5, <1>n DEF CommitDelete, Stored
  <2>3. OnlyReopens(e) /\ e \notin reopened' /\ reopened' \subseteq Entries
    BY <2>1, <1>t DEF OnlyReopens
  <2>4. e \notin Timed'
    BY <2>1, <2>2, <2>3, <1>t, TimedEffect
  <2>5. \A s \in Requests \ {r} : req[s].entry # e
    BY <2>2, <1>t, OthersApart
  <2>6. MemoryHolds(r)'
    BY <2>1, <1>t, RememberedNow DEF MemoryHolds, Idle, Memory
  <2>7. Consistent'
    <3> HIDE DEF e
    <3> QED
      BY <2>1, <2>2, <2>3, <2>4, <2>5, <2>6, WriteStep
  <2>8. ~missed' => ~missed /\ Running' = Running
    <3>1. missed' = (missed \/ Running' # Running)
      BY <1>5 DEF CommitDelete
    <3> QED
      BY Zenon, <3>1
  <2>9. ShownIsStored'
    BY <1>5, <2>1, <2>8, ShownQuiet DEF CommitDelete
  <2> QED
    BY <2>7, <2>9
<1> QED
  BY <1>1, <1>2, <1>3, <1>4, <1>5

(* The steps that no handler remembers anything across, and the one that tells
   the browsers. *)
LEMMA ApartRest ==
  ASSUME ApartInv,
         \/ \E r \in Requests : LogAndPublish(r)
         \/ \E e \in Fresh, start, end \in 0..now : CreateEntry(e, start, end)
         \/ Tick
         \/ UNCHANGED vars
  PROVE  Consistent' /\ ShownIsStored'
<1>t. /\ TypeOK /\ NoContention /\ OneTimer /\ DurationMatches /\ ReopenedHolds
      /\ ShownIsStored
      /\ \A r \in Requests : MemoryHolds(r)
  BY DEF ApartInv
<1>k. ASSUME UNCHANGED <<entry, reopened>>
      PROVE  Running' = Running /\ Stored' = Stored /\ Timed' = Timed
  BY <1>k DEF Running, Stored, Timed
<1>1. ASSUME NEW r \in Requests, LogAndPublish(r) PROVE Consistent' /\ ShownIsStored'
  <2>1. MemoryHolds(r)'
    BY <1>1, <1>t, RememberedNow DEF LogAndPublish, MemoryHolds, Idle, Memory
  <2>2. Consistent'
    BY <1>1, <2>1, ReadStep DEF LogAndPublish
  <2>3. ASSUME ~missed' PROVE Running' = {shown'} \ {None}
    <3> DEFINE e == req[r].entry
    <3>1. Running \subseteq {e}
      <4>1. missed' = (Running \ {e} # {})
        BY <1>1 DEF LogAndPublish
      <4>2. Running \ {e} = {}
        BY Zenon, <2>3, <4>1
      <4> QED
        BY <4>2
    <3>2. Running' = Running /\ e # None
      BY <1>1, <1>k, NoneAssumption DEF LogAndPublish, Stored
    <3>3. CASE req[r].op = "started"
      <4>1. e \in Running /\ shown' = e
        BY <3>3, <1>1, <1>t DEF LogAndPublish, MemoryHolds, Timed
      <4> QED
        BY <3>1, <3>2, <4>1
    <3>4. CASE req[r].op = "stopped"
      <4>1. e \notin Running /\ shown' = None
        BY <3>4, <1>1, <1>t DEF LogAndPublish, MemoryHolds
      <4> QED
        BY <3>1, <3>2, <4>1
    <3> QED
      BY <3>3, <3>4, <1>1 DEF LogAndPublish
  <2> QED
    BY <2>2, <2>3 DEF ShownIsStored
<1>2. ASSUME NEW e \in Fresh, NEW start \in 0..now, NEW end \in 0..now,
             CreateEntry(e, start, end)
      PROVE  Consistent' /\ ShownIsStored'
  <2> DEFINE row == RowOf(start, end, Seconds(start, end))
  <2>1. Put(e, row) /\ OnlyReopens(e) /\ UNCHANGED <<now, req, shown, missed, reopened>>
    BY <1>2 DEF CreateEntry, OnlyReopens
  <2>2. e \in Entries /\ \A s \in Requests : req[s].entry # e
    BY DEF Fresh
  <2>3. start \in Int /\ end \in Int /\ end # None
    <3>1. now \in Int
      BY <1>t DEF TypeOK
    <3>2. start \in Int /\ end \in Int
      BY <3>1
    <3> QED
      BY <3>2, NoneAssumption
  <2>4. /\ row \in Row
        /\ row.start = start
        /\ row.end = end
        /\ row.seconds = Seconds(start, end)
    <3>1. start \in Time /\ end \in Time \cup {None} /\ Seconds(start, end) \in Int \cup {None}
      BY <2>3, SecondsType DEF Time
    <3> QED
      BY <3>1, WrittenRow
  <2>5. e \notin Running /\ e \notin Running'
    <3>1. e \notin Running
      BY DEF Fresh, Running
    <3> QED
      BY <3>1, <2>1, <2>2, <2>3, <2>4, <1>t, PutEffect
  <2>6. Running' = Running
    <3>1. Running \subseteq Entries /\ Running' \subseteq Entries
      BY DEF Running, Stored
    <3>2. \A d \in Entries \ {e} : d \in Running' <=> d \in Running
      BY <2>1, <2>2, <2>4, <1>t, PutEffect
    <3> QED
      BY <2>5, <3>1, <3>2
  <2>7. Timed' = Timed /\ OneTimer'
    BY <2>1, <2>6, <1>t DEF OneTimer, Timed
  <2>11. e \notin reopened
    BY <2>5, <1>t DEF ReopenedHolds
  <2>8. DurationMatches'
    <3> SUFFICES ASSUME NEW d \in Stored', d \notin reopened'
                 PROVE  entry'[d].seconds = IF entry'[d].end = None THEN None
                                            ELSE Seconds(entry'[d].start, entry'[d].end)
      BY DEF DurationMatches, Seconds
    <3>1. d \in Entries
      BY DEF Stored
    <3> HIDE DEF row
    <3>2. CASE d = e
      BY <3>2, <2>1, <2>2, <2>3, <2>4, <1>t, PutEffect
    <3>3. CASE d # e
      <4>1. d \in Stored \ reopened /\ entry'[d] = entry[d]
        BY <3>1, <3>3, <2>1, <2>2, <2>4, <1>t, PutEffect
      <4> QED
        BY <4>1, <1>t DEF DurationMatches
    <3> QED
      BY <3>2, <3>3
  <2>12. ReopenedHolds'
    <3> SUFFICES ASSUME NEW d \in reopened
                 PROVE  d \in Running' /\ entry'[d].seconds \in Int
      BY <2>1 DEF ReopenedHolds
    <3>1. d \in Entries /\ d # e
      BY <2>11, <1>t DEF TypeOK
    <3> HIDE DEF row
    <3> QED
      BY <3>1, <2>1, <2>2, <2>4, <1>t, PutEffect DEF ReopenedHolds
  <2>9. ASSUME NEW s \in Requests PROVE MemoryHolds(s)'
    <3>1. req'[s] = req[s] /\ now' = now /\ MemoryHolds(s)
      BY <2>1, <1>t
    <3>2. e \in Timed' => e \in Timed
      BY <2>7
    <3> HIDE DEF row
    <3> QED
      BY <3>1, <3>2, <2>1, <2>2, <2>4, <1>t, MemoryKept
  <2>10. ShownIsStored'
    BY <2>1, <2>6, <1>t DEF ShownIsStored
  <2> QED
    BY <2>7, <2>8, <2>9, <2>10, <2>12 DEF Consistent
<1>3. CASE Tick
  <2>1. /\ UNCHANGED <<entry, req, shown, missed, reopened>>
        /\ now \in Int /\ now' = now + 1
    BY <1>3, <1>t DEF Tick, TypeOK
  <2>4. Running' = Running /\ Stored' = Stored /\ Timed' = Timed
    BY <2>1, <1>k
  <2>2. OneTimer' /\ DurationMatches' /\ ReopenedHolds' /\ ShownIsStored'
    BY <2>1, <2>4, <1>t
       DEF OneTimer, DurationMatches, ReopenedHolds, ShownIsStored, Seconds
  <2>3. ASSUME NEW s \in Requests PROVE MemoryHolds(s)'
    <3> DEFINE e == req[s].entry
    <3>1. req[s].op = "resuming" =>
             /\ req[s].start \in Time
             /\ e \in Stored => Seconds(req[s].start, now') >= entry[e].seconds
      <4> SUFFICES ASSUME req[s].op = "resuming", e \in Stored
                   PROVE  Seconds(req[s].start, now + 1) >= entry[e].seconds
        BY <2>1, <1>t DEF MemoryHolds, Seconds
      <4>1. /\ Timed = {}
            /\ req[s].start \in Int
            /\ Seconds(req[s].start, now) >= entry[e].seconds
        BY <1>t DEF MemoryHolds, Time
      <4>4. entry[e].seconds \in Int
        <5>1. CASE e \in reopened
          BY <5>1, <1>t DEF ReopenedHolds
        <5>2. CASE e \notin reopened
          <6>1. entry[e].end # None
            BY <4>1, <5>2 DEF Running, Timed
          <6>2. entry[e].start \in Int /\ entry[e].end \in Int
            BY <6>1, <1>t, StoredRow
          <6> QED
            BY <5>2, <6>1, <6>2, <1>t, SecondsType DEF DurationMatches
        <5> QED
          BY <5>1, <5>2
      <4>5. /\ Seconds(req[s].start, now) <= Seconds(req[s].start, now + 1)
            /\ Seconds(req[s].start, now) \in Int
            /\ Seconds(req[s].start, now + 1) \in Int
        <5>1. now \in Int /\ now + 1 \in Int /\ now <= now + 1
          BY <2>1
        <5> QED
          BY Zenon, <5>1, <4>1, SecondsGrow, SecondsType
      <4> QED
        BY <4>1, <4>4, <4>5
    <3>2. MemoryHolds(s) /\ Running' = Running /\ Stored' = Stored /\ Timed' = Timed
      BY <2>4, <1>t
    <3> QED
      BY <3>1, <3>2, <2>1 DEF MemoryHolds, EditHolds, Written, Seconds
  <2> QED
    BY <2>2, <2>3 DEF Consistent
<1>4. CASE UNCHANGED vars
  <2>1. /\ UNCHANGED <<now, entry, req, shown, missed, reopened>>
        /\ Running' = Running /\ Stored' = Stored /\ Timed' = Timed
    BY <1>4, <1>k DEF vars
  <2> QED
    BY <2>1, <1>t
       DEF Consistent, OneTimer, DurationMatches, ReopenedHolds, ShownIsStored, MemoryHolds,
           EditHolds, Written, Seconds
<1> QED
  BY <1>1, <1>2, <1>3, <1>4

LEMMA ApartStep == ApartInv /\ [Next /\ NoContention']_vars => ApartInv'
<1> SUFFICES ASSUME ApartInv, [Next /\ NoContention']_vars PROVE ApartInv'
  OBVIOUS
<1>1. TypeOK'
  BY TypeStep DEF ApartInv, TimesKnown, MemoryHolds
<1>2. NoContention'
  <2>1. CASE UNCHANGED vars
    BY <2>1 DEF vars, ApartInv, NoContention
  <2> QED
    BY <2>1
<1>3. Consistent' /\ ShownIsStored'
  BY ApartReads, ApartWrites, ApartRest DEF Next, RequestStep, HandlerStep
<1> QED
  BY <1>1, <1>2, <1>3 DEF ApartInv, Consistent

LEMMA ApartInit == Init => ApartInv
<1> SUFFICES ASSUME Init PROVE ApartInv
  OBVIOUS
<1>1. TypeOK
  BY TypeInit
<1>2. Stored = {} /\ reopened = {} /\ shown = None
  BY DEF Init, Stored
<1>3. Running = {} /\ Timed = {}
  BY <1>2 DEF Running, Timed
<1>4. Idle.op = "idle" /\ Idle.op \notin TimerOps /\ Idle.entry = None
  BY DEF TimerOps, Idle, Memory
<1>5. \A r \in Requests : req[r].op = "idle" /\ req[r].op \notin TimerOps /\ req[r].entry = None
  BY Zenon, <1>4, InitIdle
<1>6. NoContention
  BY <1>5 DEF Conflict, NoContention
<1>7. ASSUME NEW r \in Requests PROVE MemoryHolds(r)
  <2>1. req[r].op = "idle"
    BY <1>5
  <2> QED
    BY <2>1 DEF MemoryHolds
<1>8. ShownIsStored
  BY <1>2, <1>3 DEF ShownIsStored
<1>9. OneTimer /\ DurationMatches /\ ReopenedHolds
  BY <1>2, <1>3 DEF OneTimer, DurationMatches, ReopenedHolds
<1> QED
  BY <1>1, <1>6, <1>7, <1>8, <1>9 DEF ApartInv

LEMMA ApartAlways == ApartSpec => []ApartInv
  BY ApartInit, ApartStep, PTL DEF ApartSpec

(* While no two handlers are about the timer together, at most one timer runs,
   whatever else happens to the entries. *)
THEOREM TimerIsOne == ApartSpec => []OneTimer
<1>1. ApartInv => OneTimer
  BY DEF ApartInv
<1> QED
  BY <1>1, ApartAlways, PTL

(* While no two handlers are about one entry together, stored durations are
   those of the stored times. *)
THEOREM DurationsMatch == ApartSpec => []DurationMatches
<1>1. ApartInv => DurationMatches
  BY DEF ApartInv
<1> QED
  BY <1>1, ApartAlways, PTL

(* Once the handlers are done the browsers show the timer that runs, unless it
   was changed by a handler that publishes nothing or its event was lost. *)
THEOREM ShownTimerRuns == ApartSpec => []ShownIsStored
<1>1. ApartInv => ShownIsStored
  BY DEF ApartInv
<1> QED
  BY <1>1, ApartAlways, PTL

(* An edit sets no timer running: it only moves entries in and out of reopened. *)
LEMMA EditSetsNoTimer ==
  ASSUME TypeOK, NEW r \in Requests, CommitUpdate(r), NEW e \in Entries, e \in Timed'
  PROVE  e \in Timed
<1> DEFINE d == req[r].entry
           end == Written(req[r].end, entry[d].end)
           start == Written(req[r].start, entry[d].start)
           row == RowOf(start, end, req[r].seconds)
<1>1. d \in Entries /\ entry[d] # None /\ Put(d, row) /\ reopened' = Reopened(d, end)
  BY DEF CommitUpdate, Stored
<1>2. entry'[d] = row /\ \A c \in Entries \ {d} : entry'[c] = entry[c]
  BY <1>1 DEF Put, TypeOK
<1>3. row.end = end
  BY DEF RowOf
<1>4. entry'[e] # None /\ entry'[e].end = None /\ e \notin reopened'
  BY DEF Timed, Running, Stored
<1> HIDE DEF d, end, start, row
<1>5. CASE e = d
  <2>1. end = None
    BY <1>2, <1>3, <1>4, <1>5
  <2>2. d \in Running /\ d \notin reopened
    BY <1>1, <1>4, <1>5, <2>1 DEF Reopened
  <2> QED
    BY <1>5, <2>2 DEF Timed
<1>6. CASE e # d
  <2>1. e \notin reopened
    BY <1>1, <1>4, <1>6 DEF Reopened
  <2> QED
    BY <1>2, <1>4, <1>6, <2>1 DEF Timed, Running, Stored
<1> QED
  BY <1>5, <1>6

(* A resumed entry starts with at least the time it had. *)
THEOREM ResumedKeepsTime == ApartSpec => ResumeKeepsTime
<1> DEFINE Kept == \A e \in Stored :
                     (e \notin Timed /\ e \in Timed')
                        => Seconds(entry'[e].start, now') >= entry[e].seconds
<1>1. ASSUME ApartInv, [Next /\ NoContention']_vars PROVE [Kept]_vars
  <2> SUFFICES ASSUME Next, NEW e \in Stored, e \notin Timed, e \in Timed'
               PROVE  Seconds(entry'[e].start, now') >= entry[e].seconds
    BY <1>1
  <2>t. TypeOK /\ \A r \in Requests : MemoryHolds(r)
    BY <1>1 DEF ApartInv
  <2>0. /\ e \in Entries
        /\ entry'[e] # None /\ entry'[e].end = None /\ e \notin reopened'
        /\ (e \notin reopened => entry'[e] # entry[e])
    BY DEF Stored, Running, Timed
  <2>1. ASSUME NEW d \in Entries, NEW row \in Row \cup {None}, Put(d, row),
               reopened' \in {reopened, reopened \ {d}}
        PROVE  d = e
    <3>1. d # e => entry'[e] = entry[e] /\ e \notin reopened
      BY <2>0, <2>1, <2>t, PutEffect
    <3> QED
      BY <2>0, <3>1
  <2>2. ASSUME NEW r \in Requests, CommitResume(r)
        PROVE  Seconds(entry'[e].start, now') >= entry[e].seconds
    <3>1. req[r].entry \in Entries /\ now' = now /\ reopened' = reopened \ {req[r].entry}
      BY <2>2 DEF CommitResume, Stored
    <3>2. req[r].start \in Time /\ Put(req[r].entry, RowOf(req[r].start, None, None))
      BY <2>2, <2>t DEF CommitResume, MemoryHolds
    <3>3. /\ RowOf(req[r].start, None, None) \in Row
          /\ RowOf(req[r].start, None, None).start = req[r].start
      BY <3>2, WrittenRow
    <3>4. req[r].entry = e
      BY <2>1, <3>1, <3>2, <3>3
    <3>5. entry'[e].start = req[r].start
      BY <3>1, <3>2, <3>3, <3>4, <2>t, PutEffect
    <3> QED
      BY <3>1, <3>4, <3>5, <2>2, <2>t DEF CommitResume, MemoryHolds
  <2>3. ASSUME NEW r \in Requests, CommitStart(r) PROVE FALSE
    <3>1. PICK d \in Fresh : Put(d, RowOf(now, None, None))
      BY <2>3 DEF CommitStart
    <3>2. d \in Entries /\ d \notin Stored /\ now \in Time /\ reopened' = reopened
      BY <2>3, <2>t DEF CommitStart, Fresh, TypeOK, Time
    <3>3. RowOf(now, None, None) \in Row
      BY <3>2, WrittenRow
    <3> QED
      BY <2>1, <3>1, <3>2, <3>3
  <2>4. ASSUME NEW r \in Requests, CommitStop(r) PROVE FALSE
    <3> DEFINE d == req[r].entry
    <3>1. /\ d \in Stored /\ d \in Entries
          /\ Put(d, RowOf(entry[d].start, req[r].end, req[r].seconds))
          /\ reopened' = reopened \ {d}
      BY <2>4 DEF CommitStop, Stored
    <3>2. req[r].end \in Time /\ req[r].seconds \in Int \cup {None}
      BY <2>4, <2>t, <3>1 DEF CommitStop, MemoryHolds, TypeOK, Request
    <3>3. entry[d].start \in Time
      BY <3>1, <2>t, StoredRow DEF Time
    <3>4. /\ RowOf(entry[d].start, req[r].end, req[r].seconds) \in Row
          /\ RowOf(entry[d].start, req[r].end, req[r].seconds).end = req[r].end
      BY <3>2, <3>3, WrittenRow
    <3>5. d = e
      BY <2>1, <3>1, <3>4
    <3>6. entry'[e].end = req[r].end
      BY <3>1, <3>4, <3>5, <2>t, PutEffect
    <3> QED
      BY <2>0, <3>2, <3>6, NoneAssumption DEF Time
  <2>5. ASSUME NEW r \in Requests, CommitUpdate(r) PROVE FALSE
    BY <2>5, <2>0, <2>t, EditSetsNoTimer
  <2>6. ASSUME NEW r \in Requests, CommitDelete(r) PROVE FALSE
    <3>1. /\ req[r].entry \in Entries /\ Put(req[r].entry, None)
          /\ reopened' = reopened \ {req[r].entry}
      BY <2>6 DEF CommitDelete, Stored
    <3>2. req[r].entry = e
      BY <2>1, <3>1
    <3>3. entry'[e] = None
      BY <3>1, <3>2, <2>t DEF Put, TypeOK
    <3> QED
      BY <3>3, <2>0
  <2>7. ASSUME NEW d \in Fresh, NEW start \in 0..now, NEW end \in 0..now,
               CreateEntry(d, start, end)
        PROVE  FALSE
    <3>1. d # e /\ d \in Entries /\ Put(d, RowOf(start, end, Seconds(start, end)))
          /\ reopened' = reopened
      BY <2>7 DEF CreateEntry, Fresh
    <3>2. entry'[e] = entry[e]
      BY <3>1, <2>0, <2>t DEF Put, TypeOK
    <3> QED
      BY <3>1, <3>2, <2>0
  <2>8. CASE UNCHANGED <<entry, reopened>>
    BY <2>8, <2>0
  <2> QED
    BY <2>2, <2>3, <2>4, <2>5, <2>6, <2>7, <2>8
       DEF Next, RequestStep, HandlerStep, FindNone, ReadResumed, FindActive, LogAndPublish,
           ReadEdited, LogDeletion, Abort, Tick
<1> QED
  BY <1>1, ApartAlways, PTL DEF ApartSpec, ResumeKeepsTime

=============================================================================
