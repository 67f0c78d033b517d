--------------------------- MODULE ClientsProofs ---------------------------
(***************************************************************************)
(* What holds of Clients for every number of clients, contacts, handlers   *)
(* and days.                                                               *)
(***************************************************************************)
EXTENDS Clients, TLAPS

(* What the records hold. *)
LEMMA EditFields ==
  ASSUME NEW op, NEW id, NEW before, NEW given
  PROVE  /\ Edit(op, id, before, given).op = op
         /\ Edit(op, id, before, given).id = id
         /\ Edit(op, id, before, given).before = before
         /\ Edit(op, id, before, given).changes = given
  BY DEF Edit

LEMMA EditType ==
  ASSUME NEW op \in EditOps, NEW id \in Ids, NEW before \in Client, NEW given \in Input
  PROVE  Edit(op, id, before, given) \in Request
  BY DEF Edit, Request

LEMMA ImportType ==
  ASSUME NEW k \in Contacts
  PROVE  /\ Import(k) \in Request /\ Import(k).op = "import" /\ Import(k).contact = k
  BY DEF Import, Request

LEMMA IdleType == Idle \in Request /\ Idle.op = "idle"
  BY DEF Idle, Request

LEMMA RowType ==
  ASSUME NEW s \in Statuses, NEW d \in Days \cup {None}, NEW t \in Days \cup {None},
         NEW k \in Contacts \cup {None}
  PROVE  /\ ClientRow(s, d, t, k) \in Client
         /\ ClientRow(s, d, t, k).status = s
         /\ ClientRow(s, d, t, k).contactedAt = d
         /\ ClientRow(s, d, t, k).toRecontactAt = t
         /\ ClientRow(s, d, t, k).hubspotId = k
  BY DEF ClientRow, Client

LEMMA RowFields ==
  ASSUME NEW row \in Client
  PROVE  /\ row.status \in Statuses
         /\ row.contactedAt \in Days \cup {None}
         /\ row.toRecontactAt \in Days \cup {None}
         /\ row.hubspotId \in Contacts \cup {None}
         /\ row # Unborn /\ row # Gone
  BY ClientsAssumption DEF Client

LEMMA TaleType ==
  ASSUME NEW s \in Statuses, NEW d \in Days \cup {None}, NEW w \in BOOLEAN
  PROVE  Tale(s, d, w) \in Story
  BY DEF Tale, Story

LEMMA TaleFields ==
  ASSUME NEW s, NEW d, NEW w
  PROVE  Tale(s, d, w).status = s /\ Tale(s, d, w).contactedAt = d
  BY DEF Tale

LEMMA StoryFields ==
  ASSUME NEW story \in Story
  PROVE  /\ story.status \in Statuses
         /\ story.contactedAt \in Days \cup {None}
         /\ story.whole \in BOOLEAN
         /\ story # Torn /\ story # None
  BY ClientsAssumption DEF Story

LEMMA InputFields ==
  ASSUME NEW input \in Input
  PROVE  /\ input.status \in Statuses \cup {Keep}
         /\ input.contactedAt \in Days \cup {None, Keep}
         /\ input.toRecontactAt \in Days \cup {None, Keep}
         /\ input.hubspotId \in Contacts \cup {None, Keep}
  BY DEF Input

LEMMA ChangesType ==
  ASSUME NEW s \in Statuses \cup {Keep}, NEW d \in Days \cup {None, Keep},
         NEW t \in Days \cup {None, Keep}, NEW k \in Contacts \cup {None, Keep}
  PROVE  /\ Changes(s, d, t, k) \in Input
         /\ Changes(s, d, t, k).status = s
         /\ Changes(s, d, t, k).contactedAt = d
         /\ Changes(s, d, t, k).toRecontactAt = t
         /\ Changes(s, d, t, k).hubspotId = k
  BY DEF Changes, Input

(* A status that has a next one leads to a status. *)
LEMMA NextStatusType == \A s \in DOMAIN NextStatus : NextStatus[s] \in Statuses
  BY DEF NextStatus, Statuses

LEMMA StatusNames ==
  {"CLIENT", "CONTACTED", "FOLLOW_UP_2", "RECONTACT_LATER"} \subseteq Statuses
  BY DEF NextStatus, Statuses

(* An edit leaves a row. *)
LEMMA UpdatedRow ==
  ASSUME NEW row \in Client, NEW given \in Input
  PROVE  /\ Updated(row, given) \in Client
         /\ Updated(row, given).status = Set(row.status, given.status)
         /\ Updated(row, given).contactedAt = Set(row.contactedAt, given.contactedAt)
         /\ Updated(row, given).hubspotId = Set(row.hubspotId, given.hubspotId)
<1>1. /\ Set(row.status, given.status) \in Statuses
      /\ Set(row.contactedAt, given.contactedAt) \in Days \cup {None}
      /\ Set(row.toRecontactAt, given.toRecontactAt) \in Days \cup {None}
      /\ Set(row.hubspotId, given.hubspotId) \in Contacts \cup {None}
  BY RowFields, InputFields DEF Set
<1> QED
  BY <1>1, RowType DEF Updated

(* The change that an edit of a row amounts to, with the step along the cycle. *)
LEMMA SteppedType ==
  ASSUME NEW row \in Client, NEW given \in Input
  PROVE  Changes(SteppedStatus(row, given), given.contactedAt, given.toRecontactAt,
                 given.hubspotId) \in Input
<1>1. SteppedStatus(row, given) \in Statuses \cup {Keep}
  BY InputFields, NextStatusType DEF SteppedStatus
<1> QED
  BY <1>1, InputFields, ChangesType

(* A history that continues. *)
LEMMA Continued ==
  ASSUME NEW story \in Story \cup {Torn}
  PROVE  /\ \A s, t \in Statuses : StatusChanged(story, s, t) \in Story \cup {Torn}
         /\ \A d, e \in Days \cup {None} : ContactedAtChanged(story, d, e) \in Story \cup {Torn}
<1>1. CASE story = Torn
  BY <1>1 DEF StatusChanged, ContactedAtChanged
<1>2. CASE story # Torn
  <2>1. story \in Story
    BY <1>2
  <2>2. ASSUME NEW s \in Statuses, NEW t \in Statuses
        PROVE  StatusChanged(story, s, t) \in Story
    <3>1. StatusChanged(story, s, t) = Tale(t, story.contactedAt, story.whole /\ story.status = s)
      BY <1>2 DEF StatusChanged
    <3>2. (story.whole /\ story.status = s) \in BOOLEAN
      OBVIOUS
    <3> QED
      BY <2>1, <3>1, <3>2, StoryFields, TaleType
  <2>3. ASSUME NEW d \in Days \cup {None}, NEW e \in Days \cup {None}
        PROVE  ContactedAtChanged(story, d, e) \in Story
    <3>1. ContactedAtChanged(story, d, e) =
            Tale(story.status, e, story.whole /\ story.contactedAt = d)
      BY <1>2 DEF ContactedAtChanged
    <3>2. (story.whole /\ story.contactedAt = d) \in BOOLEAN
      OBVIOUS
    <3> QED
      BY <2>1, <3>1, <3>2, StoryFields, TaleType
  <2> QED
    BY <2>2, <2>3
<1> QED
  BY <1>1, <1>2

-----------------------------------------------------------------------------
(* Types *)

(* What a row or a story that exists is. *)
LEMMA Existing ==
  ASSUME TypeOK, NEW c \in Ids, Exists(c)
  PROVE  client[c] \in Client /\ history[c] \in Story \cup {Torn}
  BY DEF TypeOK, Exists

LEMMA EditFacts ==
  ASSUME TypeOK, NEW r \in Requests, request[r].op \in EditOps
  PROVE  /\ request[r].id \in Ids
         /\ request[r].before \in Client
         /\ request[r].changes \in Input
<1>1. request[r] \in [op : EditOps, id : Ids, before : Client, changes : Input]
  BY DEF TypeOK, Request, EditOps
<1> QED
  BY <1>1

LEMMA ImportFacts ==
  ASSUME TypeOK, NEW r \in Requests, request[r].op = "import"
  PROVE  request[r].contact \in Contacts
<1>1. request[r] \in [op : {"import"}, contact : Contacts]
  BY DEF TypeOK, Request, EditOps
<1> QED
  BY <1>1

LEMMA RememberType ==
  ASSUME TypeOK, NEW r \in Requests, NEW q \in Request, Remember(r, q)
  PROVE  /\ request' \in [Requests -> Request]
         /\ request'[r] = q
         /\ \A s \in Requests \ {r} : request'[s] = request[s]
  BY DEF Remember, TypeOK

(* A new client. *)
LEMMA Inserted ==
  ASSUME TypeOK, NEW c \in Ids, NEW input \in Input, Insert(c, input)
  PROVE  /\ client[c] = Unborn
         /\ client' \in [Ids -> Client \cup {Unborn, Gone}]
         /\ history' \in [Ids -> Story \cup {Torn, None}]
         /\ client'[c] \in Client /\ client'[c].hubspotId = Set(None, input.hubspotId)
         /\ history'[c] = Tale(client'[c].status, client'[c].contactedAt, TRUE)
         /\ history'[c] \in Story
         /\ \A d \in Ids \ {c} : client'[d] = client[d] /\ history'[d] = history[d]
<1> DEFINE status == Set("CLIENT", input.status)
           contactedAt == Set(None, input.contactedAt)
           toRecontactAt == Set(None, input.toRecontactAt)
           k == Set(None, input.hubspotId)
<1>1. /\ status \in Statuses
      /\ contactedAt \in Days \cup {None}
      /\ toRecontactAt \in Days \cup {None}
      /\ k \in Contacts \cup {None}
  BY InputFields, StatusNames DEF Set
<1>2. /\ client[c] = Unborn
      /\ client' = [client EXCEPT ![c] = ClientRow(status, contactedAt, toRecontactAt, k)]
      /\ history' = [history EXCEPT ![c] = Tale(status, contactedAt, TRUE)]
  BY DEF Insert
<1>3. Tale(status, contactedAt, TRUE) \in Story
  BY <1>1, TaleType
<1> HIDE DEF status, contactedAt, toRecontactAt, k
<1>4. /\ ClientRow(status, contactedAt, toRecontactAt, k) \in Client
      /\ ClientRow(status, contactedAt, toRecontactAt, k).status = status
      /\ ClientRow(status, contactedAt, toRecontactAt, k).contactedAt = contactedAt
      /\ ClientRow(status, contactedAt, toRecontactAt, k).hubspotId = k
  BY ONLY <1>1, RowType
<1> QED
  BY <1>2, <1>3, <1>4 DEF TypeOK, k

LEMMA InsertType ==
  ASSUME TypeOK, NEW c \in Ids, NEW input \in Input, Insert(c, input)
  PROVE  /\ client' \in [Ids -> Client \cup {Unborn, Gone}]
         /\ history' \in [Ids -> Story \cup {Torn, None}]
         /\ \A d \in Ids : history'[d] # None <=> Exists(d)'
<1>1. client'[c] \notin {Unborn, Gone} /\ history'[c] # None
  BY Inserted, RowFields, StoryFields
<1> QED
  BY <1>1, Inserted DEF TypeOK, Exists

(* What the creating handlers insert, and what becomes of whatever they leave alone. *)
LEMMA Creating ==
  ASSUME TypeOK
  PROVE  /\ \A c \in Ids : Create(c) \/ AdminCreate(c) =>
              /\ \E input \in Input : Insert(c, input) /\ Type(c, input)
              /\ UNCHANGED <<today, request, cron, raced>>
         /\ \A r \in Requests : ImportCreates(r) =>
              /\ request[r].op = "import"
              /\ \E c \in Ids, input \in Input :
                    Insert(c, input) /\ input.hubspotId = request[r].contact
              /\ Remember(r, Idle)
              /\ UNCHANGED <<today, cron, typed, raced>>
<1>k. Keep \in Statuses \cup {Keep} /\ Keep \in Days \cup {None, Keep}
  OBVIOUS
<1>1. ASSUME NEW c \in Ids, Create(c)
      PROVE  \E input \in Input : Insert(c, input) /\ Type(c, input)
  <2>1. PICK input \in Creates : Insert(c, input) /\ Type(c, input)
    BY <1>1 DEF Create
  <2> QED
    BY <2>1, ClientsAssumption
<1>2. ASSUME NEW c \in Ids, AdminCreate(c)
      PROVE  \E input \in Input : Insert(c, input) /\ Type(c, input)
  <2>1. PICK k \in Contacts \cup {None, Keep} :
           Insert(c, Changes(Keep, Keep, Keep, k)) /\ Type(c, Changes(Keep, Keep, Keep, k))
    BY <1>2 DEF AdminCreate
  <2>2. Changes(Keep, Keep, Keep, k) \in Input
    BY <1>k, ChangesType
  <2> QED
    BY <2>1, <2>2
<1>3. ASSUME NEW r \in Requests, ImportCreates(r)
      PROVE  \E c \in Ids, input \in Input :
                Insert(c, input) /\ input.hubspotId = request[r].contact
  <2>1. PICK c \in Ids : Insert(c, Changes(Keep, Keep, Keep, request[r].contact))
    BY <1>3 DEF ImportCreates
  <2>2. request[r].contact \in Contacts \cup {None, Keep}
    BY <1>3, ImportFacts DEF ImportCreates
  <2>3. /\ Changes(Keep, Keep, Keep, request[r].contact) \in Input
        /\ Changes(Keep, Keep, Keep, request[r].contact).hubspotId = request[r].contact
    BY <1>k, <2>2, ChangesType
  <2> QED
    BY <2>1, <2>3
<1> QED
  BY <1>1, <1>2, <1>3 DEF Create, AdminCreate, ImportCreates

(* The administrator's editor writes a row and touches nothing but the HubSpot id. *)
LEMMA AdminWrites ==
  ASSUME TypeOK, NEW c \in Ids, NEW k \in Contacts \cup {None}, AdminUpdate(c, k)
  PROVE  /\ Exists(c) /\ client'[c] \in Client
         /\ client'[c].status = client[c].status
         /\ client'[c].contactedAt = client[c].contactedAt
         /\ client'[c].toRecontactAt = client[c].toRecontactAt
         /\ \A d \in Ids \ {c} : client'[d] = client[d]
         /\ client' \in [Ids -> Client \cup {Unborn, Gone}]
         /\ \A d \in Ids : Exists(d)' <=> Exists(d)
<1>1. /\ Exists(c) /\ client[c] \in Client
      /\ client'[c] = [client[c] EXCEPT !.hubspotId = k]
      /\ \A d \in Ids \ {c} : client'[d] = client[d]
      /\ client' = [client EXCEPT ![c] = client'[c]]
  BY Existing DEF AdminUpdate, TypeOK
<1>2. /\ client'[c] \in Client
      /\ client'[c].status = client[c].status
      /\ client'[c].contactedAt = client[c].contactedAt
      /\ client'[c].toRecontactAt = client[c].toRecontactAt
  BY <1>1 DEF Client
<1>3. client' \in [Ids -> Client \cup {Unborn, Gone}]
  BY <1>1, <1>2 DEF TypeOK
<1>4. \A d \in Ids : Exists(d)' <=> Exists(d)
  BY <1>1, <1>2, RowFields DEF Exists
<1> QED
  BY <1>1, <1>2, <1>3, <1>4

(* A history goes on, one entry later or torn. *)
LEMMA StoryStep ==
  ASSUME TypeOK, history' \in [Ids -> Story \cup {Torn, None}], client' = client,
         \A c \in Ids : history'[c] = history[c] \/ (Exists(c) /\ history'[c] # None)
  PROVE  \A c \in Ids : history'[c] # None <=> Exists(c)'
  BY DEF TypeOK, Exists

(* TypeOK is not inductive: an entry is written with the value that the handler
   remembers, so the edit that it remembers has to give one. *)
LogMemory ==
  \A r \in Requests :
     /\ request[r].op = "logStatus" => LogsStatus(request[r])
     /\ request[r].op = "logContact" => LogsContact(request[r])

LEMMA LogStep == TypeOK /\ LogMemory /\ [Next]_vars => LogMemory'
<1> SUFFICES ASSUME TypeOK, LogMemory, [Next]_vars PROVE LogMemory'
  OBVIOUS
<1>0. CASE UNCHANGED request
  BY <1>0 DEF LogMemory, LogsStatus, LogsContact
<1>m. ASSUME NEW r \in Requests, NEW q, Remember(r, q),
             q.op = "logStatus" => LogsStatus(q), q.op = "logContact" => LogsContact(q)
      PROVE  LogMemory'
  <2>1. request'[r] = q /\ \A s \in Requests \ {r} : request'[s] = request[s]
    BY <1>m DEF Remember, TypeOK
  <2> QED
    BY <1>m, <2>1 DEF LogMemory, LogsStatus, LogsContact
<1>i. ASSUME NEW r \in Requests, Remember(r, Idle) PROVE LogMemory'
  BY <1>i, <1>m, IdleType
<1>1. ASSUME NEW r \in Requests, NEW k \in Contacts, ImportFromHubspot(r, k) PROVE LogMemory'
  BY <1>1, <1>m, ImportType DEF ImportFromHubspot, TurnTo
<1>2. ASSUME NEW r \in Requests, NEW c \in Edited, UpdateReads(r, c) PROVE LogMemory'
  <2>1. PICK given : Remember(r, Edit("write", c, client[c], given))
    BY <1>2 DEF UpdateReads
  <2> QED
    BY <2>1, <1>m, EditFields
<1>3. ASSUME NEW r \in Requests, Continue(r) PROVE LogMemory'
  <2> DEFINE m == request[r]
  <2>s. ASSUME LogsStatus(m), Remember(r, Edit("logStatus", m.id, m.before, m.changes))
        PROVE  LogMemory'
    <3>1. LogsStatus(Edit("logStatus", m.id, m.before, m.changes))
      BY <2>s, EditFields DEF LogsStatus
    <3> QED
      BY <2>s, <3>1, <1>m, EditFields
  <2>c. ASSUME LogsContact(m), Remember(r, Edit("logContact", m.id, m.before, m.changes))
        PROVE  LogMemory'
    <3>1. LogsContact(Edit("logContact", m.id, m.before, m.changes))
      BY <2>c, EditFields DEF LogsContact
    <3> QED
      BY <2>c, <3>1, <1>m, EditFields
  <2>1. CASE ImportCreates(r) \/ UpdateLogsContact(r) \/ UpdateFails(r)
    BY <2>1, <1>i DEF ImportCreates, UpdateLogsContact, UpdateFails
  <2>2. CASE UpdateWrites(r) \/ UpdateLogsStatus(r)
    <3>1. \/ Remember(r, Idle)
          \/ LogsStatus(m) /\ Remember(r, Edit("logStatus", m.id, m.before, m.changes))
          \/ LogsContact(m) /\ Remember(r, Edit("logContact", m.id, m.before, m.changes))
      BY <2>2 DEF UpdateWrites, UpdateLogsStatus
    <3> QED
      BY <3>1, <2>s, <2>c, <1>i
  <2> QED
    BY <1>3, <2>1, <2>2 DEF Continue
<1>4. CASE \/ NewDay \/ Cron \/ (\E c \in Ids : Create(c) \/ AdminCreate(c) \/ Delete(c))
           \/ (\E c \in Edited, k \in Contacts \cup {None} : AdminUpdate(c, k))
           \/ UNCHANGED vars
  BY <1>4, <1>0 DEF NewDay, Cron, CronFinds, CronPromotes, CronLogs, CronFails, Create,
     AdminCreate, AdminUpdate, Delete, vars
<1> QED
  BY <1>1, <1>2, <1>3, <1>4 DEF Next

(* What was written by hand and what two imports were at. *)
LEMMA HandStep ==
  ASSUME TypeOK, [Next]_vars PROVE typed' \subseteq Ids /\ raced' \subseteq Contacts
<1>o. typed \subseteq Ids /\ raced \subseteq Contacts /\ Edited \subseteq Ids
  BY ClientsAssumption DEF TypeOK
<1>1. ASSUME NEW c \in Ids, Create(c) \/ AdminCreate(c)
      PROVE  typed' \subseteq Ids /\ raced' = raced
  <2>1. PICK input \in Input : Type(c, input)
    BY <1>1, Creating
  <2>2. raced' = raced
    BY <1>1 DEF Create, AdminCreate
  <2>3. typed' = typed \/ typed' = typed \cup {c}
    BY <2>1 DEF Type
  <2> QED
    BY <1>o, <2>2, <2>3
<1>2. ASSUME NEW c \in Ids, Delete(c) PROVE typed' \subseteq Ids /\ raced' = raced
  BY <1>o, <1>2 DEF Delete
<1>3. ASSUME NEW c \in Edited, NEW k \in Contacts \cup {None}, AdminUpdate(c, k)
      PROVE  typed' \subseteq Ids /\ raced' = raced
  BY <1>o, <1>3 DEF AdminUpdate
<1>4. ASSUME NEW r \in Requests, NEW k \in Contacts, ImportFromHubspot(r, k)
      PROVE  typed' = typed /\ raced' \subseteq Contacts
  <2>1. raced' = raced \/ raced' = raced \cup {k}
    BY <1>4 DEF ImportFromHubspot, TurnTo
  <2> QED
    BY <1>o, <1>4, <2>1 DEF ImportFromHubspot
<1>5. ASSUME NEW r \in Requests, UpdateWrites(r) PROVE typed' \subseteq Ids /\ raced' = raced
  <2>1. request[r].id \in Ids
    BY <1>5, EditFacts DEF UpdateWrites, EditOps
  <2>2. typed' = typed \/ typed' = typed \cup {request[r].id}
    BY <1>5 DEF UpdateWrites, Type
  <2> QED
    BY <1>o, <1>5, <2>1, <2>2 DEF UpdateWrites
<1>6. CASE \/ UNCHANGED vars \/ NewDay \/ Cron
           \/ (\E r \in Requests, c \in Edited : UpdateReads(r, c))
           \/ (\E r \in Requests : \/ ImportCreates(r) \/ UpdateLogsStatus(r)
                                   \/ UpdateLogsContact(r) \/ UpdateFails(r))
  <2>1. typed' = typed /\ raced' = raced
    BY <1>6 DEF vars, NewDay, Cron, CronFinds, CronPromotes, CronLogs, CronFails, UpdateReads,
       ImportCreates, UpdateLogsStatus, UpdateLogsContact, UpdateFails
  <2> QED
    BY <1>o, <2>1
<1> QED
  BY <1>o, <1>1, <1>2, <1>3, <1>4, <1>5, <1>6 DEF Next, Continue

LEMMA TypeStep == TypeOK /\ LogMemory /\ [Next]_vars => TypeOK'
<1> DEFINE RestOK ==
      /\ today \in Days
      /\ client \in [Ids -> Client \cup {Unborn, Gone}]
      /\ history \in [Ids -> Story \cup {Torn, None}]
      /\ \A c \in Ids : history[c] # None <=> Exists(c)
      /\ request \in [Requests -> Request]
      /\ cron \in [at : {"idle", "promote", "log"}, stale : SUBSET Ids]
      /\ cron.at = "idle" => cron.stale = {}
<1>h. ASSUME TypeOK, [Next]_vars PROVE typed' \subseteq Ids /\ raced' \subseteq Contacts
  BY <1>h, HandStep
<1> SUFFICES ASSUME TypeOK, LogMemory, [Next]_vars PROVE RestOK'
  BY <1>h DEF TypeOK
<1>0. CASE UNCHANGED vars
  BY <1>0 DEF vars, TypeOK, Exists
<1>k. ASSUME NEW q, q \in Story \cup {Torn} PROVE q # None
  BY <1>k, ClientsAssumption
<1>1. CASE NewDay
  <2>1. today' \in Days
    BY <1>1, ClientsAssumption DEF NewDay, TypeOK, Days
  <2> QED
    BY <1>1, <2>1 DEF NewDay, TypeOK, Exists
<1>2. CASE CronFinds
  <2>1. cron' \in [at : {"idle", "promote", "log"}, stale : SUBSET Ids] /\ cron'.at # "idle"
    BY <1>2 DEF CronFinds, FindStale
  <2> QED
    BY <1>2, <2>1 DEF CronFinds, TypeOK, Exists
<1>c. cron.stale \subseteq Ids /\ cron.at \in {"idle", "promote", "log"}
  BY DEF TypeOK
<1>3. CASE CronPromotes
  <2>1. ASSUME NEW c \in Ids, Exists(c)
        PROVE  ClientRow("RECONTACT_LATER", client[c].contactedAt, client[c].toRecontactAt,
                         client[c].hubspotId) \in Client
    BY <2>1, Existing, RowFields, RowType, StatusNames
  <2>2. \A c \in Ids :
          \/ client'[c] = client[c]
          \/ Exists(c) /\ client'[c] \in Client
    BY <1>3, <2>1 DEF CronPromotes
  <2>3. client' \in [Ids -> Client \cup {Unborn, Gone}]
    <3>1. client' = [c \in Ids |-> client'[c]]
      BY <1>3 DEF CronPromotes
    <3> QED
      BY <2>2, <3>1 DEF TypeOK
  <2>4. \A c \in Ids : history'[c] # None <=> Exists(c)'
    BY <1>3, <2>2, RowFields DEF CronPromotes, TypeOK, Exists
  <2> QED
    BY <1>3, <1>c, <2>3, <2>4 DEF CronPromotes, TypeOK
<1>4. CASE CronLogs
  <2>1. ASSUME NEW c \in Ids
        PROVE  \/ history'[c] = history[c]
               \/ Exists(c) /\ history'[c] \in Story \cup {Torn}
    <3>1. CASE c \in cron.stale
      BY <1>4, <3>1, Existing, Continued, StatusNames DEF CronLogs
    <3>2. CASE c \notin cron.stale
      BY <1>4, <3>2 DEF CronLogs
    <3> QED
      BY <3>1, <3>2
  <2>2. history' \in [Ids -> Story \cup {Torn, None}]
    <3>1. history' = [c \in Ids |-> history'[c]]
      BY <1>4 DEF CronLogs
    <3> QED
      BY <2>1, <3>1 DEF TypeOK
  <2>3. \A c \in Ids : history'[c] # None <=> Exists(c)'
    BY <1>4, <1>k, <2>1, <2>2, StoryStep DEF CronLogs
  <2> QED
    BY <1>4, <2>2, <2>3 DEF CronLogs, TypeOK
<1>t. ASSUME NEW S \in SUBSET Ids, Tear(S), client' = client
      PROVE  /\ history' \in [Ids -> Story \cup {Torn, None}]
             /\ \A c \in Ids : history'[c] # None <=> Exists(c)'
  <2>1. history' \in [Ids -> Story \cup {Torn, None}]
    BY <1>t DEF Tear, TypeOK
  <2> QED
    BY <1>t, <2>1, <1>k, StoryStep DEF Tear
<1>5. CASE CronFails
  <2>1. PICK S \in SUBSET Ids : Tear(S)
    BY <1>5, <1>c DEF CronFails
  <2> QED
    BY <1>5, <2>1, <1>t DEF CronFails, TypeOK
<1>6. ASSUME NEW c \in Ids, Create(c) \/ AdminCreate(c) PROVE RestOK'
  <2>1. PICK input \in Input : Insert(c, input)
    BY <1>6, Creating
  <2>2. today' = today /\ request' = request /\ cron' = cron
    BY <1>6 DEF Create, AdminCreate
  <2> QED
    BY <2>1, <2>2, InsertType DEF TypeOK
<1>11. ASSUME NEW c \in Edited, NEW k \in Contacts \cup {None}, AdminUpdate(c, k) PROVE RestOK'
  <2>1. c \in Ids /\ today' = today /\ history' = history /\ request' = request /\ cron' = cron
    BY <1>11, ClientsAssumption DEF AdminUpdate
  <2>2. /\ client' \in [Ids -> Client \cup {Unborn, Gone}]
        /\ \A d \in Ids : Exists(d)' <=> Exists(d)
    BY <1>11, <2>1, AdminWrites
  <2> QED
    BY <2>1, <2>2 DEF TypeOK
<1>7. ASSUME NEW c \in Ids, Delete(c) PROVE RestOK'
  BY <1>7 DEF Delete, TypeOK, Exists
<1>8. ASSUME NEW r \in Requests, NEW k \in Contacts, ImportFromHubspot(r, k) PROVE RestOK'
  BY <1>8, ImportType, RememberType DEF ImportFromHubspot, TurnTo, TypeOK, Exists
<1>9. ASSUME NEW r \in Requests, NEW c \in Edited, UpdateReads(r, c) PROVE RestOK'
  <2>1. PICK input \in Input :
           Remember(r, Edit("write", c, client[c],
                            Changes(SteppedStatus(client[c], input),
                                    input.contactedAt, input.toRecontactAt,
                                    input.hubspotId)))
    BY <1>9, ClientsAssumption DEF UpdateReads
  <2>2. c \in Ids /\ client[c] \in Client
    BY <1>9, ClientsAssumption, Existing DEF UpdateReads
  <2>3. Edit("write", c, client[c], Changes(SteppedStatus(client[c], input),
             input.contactedAt, input.toRecontactAt, input.hubspotId)) \in Request
    BY <2>2, SteppedType, EditType DEF EditOps
  <2> QED
    BY <1>9, <2>1, <2>3, RememberType DEF UpdateReads, TypeOK, Exists
<1>10. ASSUME NEW r \in Requests, Continue(r) PROVE RestOK'
  <2>e. ASSUME request[r].op \in EditOps, NEW op \in EditOps
        PROVE  Edit(op, request[r].id, request[r].before, request[r].changes) \in Request
    BY <2>e, EditFacts, EditType
  <2>1. CASE ImportCreates(r)
    <3>1. PICK c \in Ids, input \in Input : Insert(c, input)
      BY <2>1, Creating
    <3>2. Remember(r, Idle) /\ today' = today /\ cron' = cron
      BY <2>1 DEF ImportCreates
    <3> QED
      BY <3>1, <3>2, InsertType, IdleType, RememberType DEF TypeOK
  <2>2. CASE UpdateWrites(r)
    <3> DEFINE m == request[r]
    <3>1. m.op = "write" /\ m.id \in Ids /\ m.changes \in Input
      BY <2>2, EditFacts DEF UpdateWrites, EditOps
    <3>2. request' \in [Requests -> Request]
      <4>1. \/ Remember(r, Idle)
            \/ Remember(r, Edit("logStatus", m.id, m.before, m.changes))
            \/ Remember(r, Edit("logContact", m.id, m.before, m.changes))
        BY <2>2 DEF UpdateWrites
      <4> QED
        BY <4>1, <3>1, <2>e, IdleType, RememberType DEF EditOps
    <3>3. CASE Exists(m.id)
      <4>1. Updated(client[m.id], m.changes) \in Client
        BY <3>1, <3>3, Existing, UpdatedRow
      <4>2. client' = [client EXCEPT ![m.id] = Updated(client[m.id], m.changes)]
        BY <2>2, <3>3 DEF UpdateWrites
      <4>3. /\ client' \in [Ids -> Client \cup {Unborn, Gone}]
            /\ \A c \in Ids : Exists(c)' <=> Exists(c)
        BY <3>1, <3>3, <4>1, <4>2, RowFields DEF TypeOK, Exists
      <4> QED
        BY <2>2, <3>2, <4>3 DEF UpdateWrites, TypeOK
    <3>4. CASE ~Exists(m.id)
      BY <2>2, <3>2, <3>4 DEF UpdateWrites, TypeOK, Exists
    <3> QED
      BY <3>3, <3>4
  <2>l. ASSUME NEW c \in Ids, Exists(c), NEW story \in Story \cup {Torn},
               history' = [history EXCEPT ![c] = story], client' = client
        PROVE  /\ history' \in [Ids -> Story \cup {Torn, None}]
               /\ \A d \in Ids : history'[d] # None <=> Exists(d)'
    <3>1. history' \in [Ids -> Story \cup {Torn, None}]
      BY <2>l DEF TypeOK
    <3> QED
      BY <2>l, <3>1, <1>k, StoryStep DEF TypeOK
  <2>3. CASE UpdateLogsStatus(r)
    <3> DEFINE m == request[r]
    <3>1. /\ m.op = "logStatus" /\ m.id \in Ids /\ m.before \in Client /\ Exists(m.id)
          /\ m.changes \in Input
      BY <2>3, EditFacts DEF UpdateLogsStatus, EditOps
    <3>2. request' \in [Requests -> Request]
      <4>1. \/ Remember(r, Idle)
            \/ Remember(r, Edit("logContact", m.id, m.before, m.changes))
        BY <2>3 DEF UpdateLogsStatus
      <4> QED
        BY <4>1, <3>1, <2>e, IdleType, RememberType DEF EditOps
    <3>3. m.before.status \in Statuses /\ m.changes.status \in Statuses
      BY <3>1, RowFields, InputFields DEF LogMemory, LogsStatus
    <3>4. StatusChanged(history[m.id], m.before.status, m.changes.status) \in Story \cup {Torn}
      BY <3>1, <3>3, Existing, Continued
    <3> QED
      BY <2>3, <3>1, <3>2, <3>4, <2>l DEF UpdateLogsStatus, TypeOK
  <2>4. CASE UpdateLogsContact(r)
    <3> DEFINE m == request[r]
    <3>1. /\ m.op = "logContact" /\ m.id \in Ids /\ m.before \in Client /\ Exists(m.id)
          /\ m.changes \in Input
      BY <2>4, EditFacts DEF UpdateLogsContact, EditOps
    <3>2. m.before.contactedAt \in Days \cup {None} /\ m.changes.contactedAt \in Days \cup {None}
      BY <3>1, RowFields, InputFields DEF LogMemory, LogsContact
    <3>3. ContactedAtChanged(history[m.id], m.before.contactedAt, m.changes.contactedAt)
             \in Story \cup {Torn}
      BY <3>1, <3>2, Existing, Continued
    <3> QED
      BY <2>4, <3>1, <3>3, <2>l, IdleType, RememberType DEF UpdateLogsContact, TypeOK
  <2>5. CASE UpdateFails(r)
    <3>1. {request[r].id} \in SUBSET Ids
      BY <2>5, EditFacts DEF UpdateFails, EditOps
    <3> QED
      BY <2>5, <3>1, <1>t, IdleType, RememberType DEF UpdateFails, TypeOK
  <2> QED
    BY <1>10, <2>1, <2>2, <2>3, <2>4, <2>5 DEF Continue
<1> QED
  BY <1>0, <1>1, <1>2, <1>3, <1>4, <1>5, <1>6, <1>7, <1>8, <1>9, <1>10,
     <1>11 DEF Next, Cron

TypeInv == TypeOK /\ LogMemory

LEMMA TypeStart == Init => TypeInv
<1> SUFFICES ASSUME Init PROVE TypeInv
  OBVIOUS
<1>1. request \in [Requests -> Request] /\ LogMemory
  BY IdleType DEF Init, LogMemory
<1>2. today \in Days
  BY ClientsAssumption DEF Init, Days
<1>3. cron \in [at : {"idle", "promote", "log"}, stale : SUBSET Ids] /\ cron.stale = {}
  BY DEF Init
<1> QED
  BY <1>1, <1>2, <1>3 DEF Init, TypeInv, TypeOK, Exists

LEMMA TypeInvStep == TypeInv /\ [Next]_vars => TypeInv'
  BY LogStep, TypeStep DEF TypeInv

(* Every variable keeps its type; in particular a client has a history exactly
   while it exists. *)
THEOREM ClientTypes == Spec => []TypeOK
<1>1. TypeInv => TypeOK
  BY DEF TypeInv
<1> QED
  BY <1>1, TypeStart, TypeInvStep, PTL DEF Spec

-----------------------------------------------------------------------------
(* Imports, in every interleaving *)

(* Nobody but an overlapping import or a hand can have brought contact k. *)
Unknown(k) == \A c \in Ids \ typed : Exists(c) => client[c].hubspotId # k

(* A contact that a single import is about to create is still unknown. *)
ContactInv ==
  /\ TypeInv
  /\ OneClientPerContact
  /\ \A r, s \in Requests :
        (r # s /\ request[r].op = "import" /\ request[s].op = "import"
           /\ request[r].contact = request[s].contact)
        => request[r].contact \in raced
  /\ \A r \in Requests :
        request[r].op = "import" =>
          request[r].contact \in raced \/ Unknown(request[r].contact)

(* The clients that count keep their contact, and nobody begins an import. *)
LEMMA ContactsKept ==
  ASSUME ContactInv, TypeInv', raced' = raced,
         \A c \in Ids : Exists(c)' /\ c \notin typed' =>
            Exists(c) /\ c \notin typed /\ client'[c].hubspotId = client[c].hubspotId,
         \A r \in Requests : request'[r].op = "import" => request'[r] = request[r]
  PROVE  ContactInv'
<1>1. OneClientPerContact'
  BY DEF ContactInv, OneClientPerContact
<1>2. ASSUME NEW r \in Requests, NEW s \in Requests, r # s, request'[r].op = "import",
             request'[s].op = "import", request'[r].contact = request'[s].contact
      PROVE  request'[r].contact \in raced'
  BY <1>2 DEF ContactInv
<1>3. ASSUME NEW r \in Requests, request'[r].op = "import"
      PROVE  request'[r].contact \in raced' \/ Unknown(request[r].contact)'
  <2>1. request[r].op = "import" /\ request'[r] = request[r]
    BY <1>3
  <2>2. request[r].contact \in raced \/ Unknown(request[r].contact)
    BY <2>1 DEF ContactInv
  <2> QED
    BY <2>1, <2>2 DEF Unknown
<1> QED
  BY <1>1, <1>2, <1>3 DEF ContactInv

LEMMA ContactStep == ContactInv /\ [Next]_vars => ContactInv'
<1> SUFFICES ASSUME ContactInv, [Next]_vars PROVE ContactInv'
  OBVIOUS
<1>t. TypeInv'
  BY TypeInvStep DEF ContactInv
<1>o. TypeOK
  BY DEF ContactInv, TypeInv
<1>0. CASE UNCHANGED vars
  BY <1>0, <1>t, ContactsKept DEF vars, Exists
<1> SUFFICES ASSUME Next PROVE ContactInv'
  BY <1>0
<1>m. ASSUME NEW r \in Requests, NEW q, Remember(r, q)
      PROVE  request'[r] = q /\ \A s \in Requests \ {r} : request'[s] = request[s]
  BY <1>m, <1>o DEF Remember, TypeOK
(* A new row, which does not count or is of a contact that is unknown and stays
   so to the imports. *)
<1>i. ASSUME NEW c \in Ids, NEW k, Exists(c)' => client'[c].hubspotId = k,
             \A d \in Ids \ {c} : client'[d] = client[d],
             typed \subseteq typed', raced' = raced,
             c \in typed' \/ k = None \/ k \in raced \/ Unknown(k),
             \A r \in Requests : request'[r].op = "import" =>
                /\ request'[r] = request[r]
                /\ c \in typed' \/ request[r].contact # k \/ k \in raced
      PROVE  ContactInv'
  <2>1. \A d \in Ids \ {c} : Exists(d)' <=> Exists(d)
    BY <1>i DEF Exists
  <2>2. OneClientPerContact'
    <3>1. ASSUME NEW d \in Ids, NEW e \in Ids, d \notin typed', e \notin typed',
                 Exists(d)', Exists(e)', client'[d].hubspotId = client'[e].hubspotId,
                 client'[d].hubspotId \notin raced \cup {None}
          PROVE  d = e
      <4>1. CASE d # c /\ e # c
        BY <3>1, <4>1, <2>1, <1>i DEF ContactInv, OneClientPerContact
      <4>2. CASE d = c \/ e = c
        BY <3>1, <4>2, <2>1, <1>i DEF Unknown
      <4> QED
        BY <4>1, <4>2
    <3> QED
      BY <3>1, <1>i DEF OneClientPerContact
  <2>3. ASSUME NEW r \in Requests, request'[r].op = "import"
        PROVE  request'[r].contact \in raced' \/ Unknown(request[r].contact)'
    <3>1. request'[r] = request[r] /\ request[r].op = "import"
      BY <2>3, <1>i
    <3>2. request[r].contact \in raced \/ Unknown(request[r].contact)
      BY <3>1 DEF ContactInv
    <3>3. CASE request[r].contact \notin raced
      <4>1. c \in typed' \/ request[r].contact # k
        BY <2>3, <3>3, <1>i
      <4>2. \A d \in Ids \ typed : Exists(d) => client[d].hubspotId # request[r].contact
        BY <3>2, <3>3 DEF Unknown
      <4>3. PICK q : q = request[r].contact
        OBVIOUS
      <4>4. ASSUME NEW d \in Ids, d \notin typed', Exists(d)'
            PROVE  client'[d].hubspotId # q
        <5>1. CASE d = c
          BY <4>1, <4>3, <4>4, <5>1, <1>i
        <5>2. CASE d # c
          BY <4>2, <4>3, <4>4, <5>2, <2>1, <1>i
        <5> QED
          BY <5>1, <5>2
      <4>5. request'[r].contact = q /\ request[r]' = request'[r]
        BY <3>1, <4>3
      <4> QED
        BY <3>1, <4>3, <4>4, <4>5 DEF Unknown
    <3> QED
      BY <3>1, <3>3, <1>i
  <2>4. ASSUME NEW r \in Requests, NEW s \in Requests, r # s, request'[r].op = "import",
               request'[s].op = "import", request'[r].contact = request'[s].contact
        PROVE  request'[r].contact \in raced'
    BY <2>4, <1>i DEF ContactInv
  <2> QED
    BY <1>t, <2>2, <2>3, <2>4 DEF ContactInv
<1>1. ASSUME NEW c \in Ids, Create(c) \/ AdminCreate(c) PROVE ContactInv'
  <2>1. PICK input \in Input : Insert(c, input) /\ Type(c, input)
    BY <1>1, <1>o, Creating
  <2>2. request' = request /\ raced' = raced
    BY <1>1 DEF Create, AdminCreate
  <2>3. /\ client'[c].hubspotId = Set(None, input.hubspotId)
        /\ \A d \in Ids \ {c} : client'[d] = client[d]
    BY <2>1, <1>o, Inserted
  <2>4. typed \subseteq typed' /\ (c \in typed' \/ Set(None, input.hubspotId) = None)
    BY <2>1 DEF Type, Set
  <2>5. \A r \in Requests : request[r].op = "import" => request[r].contact # None
    BY <1>o, ImportFacts, ClientsAssumption
  <2>6. PICK k : k = Set(None, input.hubspotId)
    OBVIOUS
  <2> QED
    BY <2>2, <2>3, <2>4, <2>5, <2>6, <1>i
<1>2. ASSUME NEW r \in Requests, ImportCreates(r) PROVE ContactInv'
  <2>1. PICK c \in Ids, input \in Input : Insert(c, input) /\ input.hubspotId = request[r].contact
    BY <1>2, <1>o, Creating
  <2>2. /\ request[r].op = "import" /\ Remember(r, Idle)
        /\ typed' = typed /\ raced' = raced
    BY <1>2 DEF ImportCreates
  <2>3. request[r].contact \in Contacts
    BY <2>2, <1>o, ImportFacts
  <2>4. /\ client'[c].hubspotId = request[r].contact
        /\ \A d \in Ids \ {c} : client'[d] = client[d]
    <3>1. client'[c].hubspotId = Set(None, input.hubspotId)
      BY <2>1, <1>o, Inserted
    <3>2. Set(None, input.hubspotId) = request[r].contact
      BY <2>1, <2>3, ClientsAssumption DEF Set
    <3> QED
      BY <2>1, <3>1, <3>2, <1>o, Inserted
  <2>5. ASSUME NEW s \in Requests, request'[s].op = "import"
        PROVE  /\ request'[s] = request[s]
               /\ request[s].contact # request[r].contact \/ request[r].contact \in raced
    <3>1. s # r /\ request'[s] = request[s]
      BY <2>2, <2>5, <1>m, IdleType
    <3> QED
      BY <2>2, <2>5, <3>1 DEF ContactInv
  <2>6. request[r].contact \in raced \/ Unknown(request[r].contact)
    BY <2>2 DEF ContactInv
  <2>7. PICK k : k = request[r].contact
    OBVIOUS
  <2> QED
    BY <2>2, <2>4, <2>5, <2>6, <2>7, <1>i
<1>3. ASSUME NEW r \in Requests, NEW k \in Contacts, ImportFromHubspot(r, k) PROVE ContactInv'
  <2>1. /\ Unknown(k) /\ Remember(r, Import(k)) /\ client' = client /\ typed' = typed
        /\ request[r].op = "idle"
    BY <1>3 DEF ImportFromHubspot, TurnTo, Unknown
  <2>2. /\ request'[r].contact = k
        /\ \A s \in Requests \ {r} : request'[s] = request[s]
    BY <2>1, <1>m, ImportType
  <2>3. raced \subseteq raced'
    BY <1>3 DEF ImportFromHubspot, TurnTo
  <2>4. ASSUME NEW s \in Requests, request[s].op = "import", request[s].contact = k
        PROVE  k \in raced'
    <3>1. request[s] \in [op : {"import"}, contact : Contacts]
      BY <2>4, <1>o DEF TypeOK, Request, EditOps
    <3>2. request[s] = Import(k)
      BY <2>4, <3>1 DEF Import
    <3> QED
      BY <1>3, <3>2 DEF ImportFromHubspot, TurnTo
  <2>5. ASSUME NEW s \in Requests, NEW u \in Requests, s # u, request'[s].op = "import",
               request'[u].op = "import", request'[s].contact = request'[u].contact
        PROVE  request'[s].contact \in raced'
    <3>1. CASE s = r \/ u = r
      BY <2>2, <2>4, <2>5, <3>1
    <3>2. CASE s # r /\ u # r
      BY <2>2, <2>3, <2>5, <3>2 DEF ContactInv
    <3> QED
      BY <3>1, <3>2
  <2>6. ASSUME NEW s \in Requests, request'[s].op = "import"
        PROVE  request'[s].contact \in raced' \/ Unknown(request[s].contact)'
    <3>1. CASE s = r
      BY <2>1, <2>2, <3>1 DEF Unknown, Exists
    <3>2. CASE s # r
      <4>1. request'[s] = request[s]
        BY <2>2, <3>2
      <4>2. request[s].contact \in raced \/ Unknown(request[s].contact)
        BY <2>6, <4>1 DEF ContactInv
      <4> QED
        BY <2>1, <2>3, <4>1, <4>2 DEF Unknown, Exists
    <3> QED
      BY <3>1, <3>2
  <2>7. OneClientPerContact'
    BY <2>1, <2>3 DEF ContactInv, OneClientPerContact, Exists
  <2> QED
    BY <1>t, <2>5, <2>6, <2>7 DEF ContactInv
<1>r. ASSUME NEW r \in Requests, NEW q, Remember(r, q), q.op # "import"
      PROVE  \A s \in Requests : request'[s].op = "import" => request'[s] = request[s]
  BY <1>r, <1>m
<1>4. ASSUME NEW c \in Ids, Delete(c) PROVE ContactInv'
  <2>1. \A d \in Ids : Exists(d)' /\ d \notin typed' =>
           Exists(d) /\ d \notin typed /\ client'[d].hubspotId = client[d].hubspotId
    BY <1>4, <1>o DEF Delete, Exists, TypeOK
  <2> QED
    BY <1>4, <2>1, <1>t, ContactsKept DEF Delete
<1>5. ASSUME NEW r \in Requests, NEW c \in Edited, UpdateReads(r, c) PROVE ContactInv'
  <2>1. PICK given : Remember(r, Edit("write", c, client[c], given))
    BY <1>5 DEF UpdateReads
  <2>2. client' = client /\ typed' = typed /\ raced' = raced
    BY <1>5 DEF UpdateReads
  <2>3. \A s \in Requests : request'[s].op = "import" => request'[s] = request[s]
    BY <2>1, <1>r, EditFields
  <2> QED
    BY <2>2, <2>3, <1>t, ContactsKept DEF Exists
<1>6. ASSUME NEW r \in Requests, UpdateWrites(r) PROVE ContactInv'
  <2> DEFINE m == request[r]
  <2>1. m.id \in Ids /\ m.changes \in Input
    BY <1>6, <1>o, EditFacts DEF UpdateWrites, EditOps
  <2>2. \A s \in Requests : request'[s].op = "import" => request'[s] = request[s]
    <3>1. \/ Remember(r, Idle)
          \/ Remember(r, Edit("logStatus", m.id, m.before, m.changes))
          \/ Remember(r, Edit("logContact", m.id, m.before, m.changes))
      BY <1>6 DEF UpdateWrites
    <3> QED
      BY <3>1, <1>r, IdleType, EditFields
  <2>3. ASSUME NEW c \in Ids, Exists(c)', c \notin typed'
        PROVE  Exists(c) /\ c \notin typed /\ client'[c].hubspotId = client[c].hubspotId
    <3>1. CASE Exists(m.id)
      <4>1. /\ client' = [client EXCEPT ![m.id] = Updated(client[m.id], m.changes)]
            /\ Type(m.id, m.changes)
        BY <1>6, <3>1 DEF UpdateWrites
      <4>2. Updated(client[m.id], m.changes).hubspotId
               = Set(client[m.id].hubspotId, m.changes.hubspotId)
        BY <1>o, <2>1, <3>1, Existing, UpdatedRow
      <4>3. c \notin typed /\ (c = m.id => m.changes.hubspotId = Keep)
        BY <2>3, <4>1 DEF Type
      <4> QED
        BY <4>1, <4>2, <4>3, <2>1, <2>3, <3>1, <1>o DEF TypeOK, Exists, Set
    <3>2. CASE ~Exists(m.id)
      BY <1>6, <2>3, <3>2 DEF UpdateWrites, Exists
    <3> QED
      BY <3>1, <3>2
  <2>4. raced' = raced
    BY <1>6 DEF UpdateWrites
  <2> QED
    BY <2>2, <2>3, <2>4, <1>t, ContactsKept
<1>10. ASSUME NEW c \in Edited, NEW k \in Contacts \cup {None}, AdminUpdate(c, k)
       PROVE  ContactInv'
  <2>1. c \in Ids /\ typed' = typed \cup {c} /\ raced' = raced /\ request' = request
    BY <1>10, ClientsAssumption DEF AdminUpdate
  <2>2. \A d \in Ids \ {c} : client'[d] = client[d]
    BY <1>10, <1>o, <2>1, AdminWrites
  <2>3. \A d \in Ids : Exists(d)' /\ d \notin typed' =>
           Exists(d) /\ d \notin typed /\ client'[d].hubspotId = client[d].hubspotId
    BY <2>1, <2>2 DEF Exists
  <2> QED
    BY <2>1, <2>3, <1>t, ContactsKept
<1>7. ASSUME NEW r \in Requests, UpdateLogsStatus(r) \/ UpdateLogsContact(r) \/ UpdateFails(r)
      PROVE  ContactInv'
  <2> DEFINE m == request[r]
  <2>1. /\ client' = client /\ typed' = typed /\ raced' = raced
        /\ \/ Remember(r, Idle)
           \/ Remember(r, Edit("logContact", m.id, m.before, m.changes))
    BY <1>7 DEF UpdateLogsStatus, UpdateLogsContact, UpdateFails
  <2>2. \A s \in Requests : request'[s].op = "import" => request'[s] = request[s]
    BY <2>1, <1>r, IdleType, EditFields
  <2> QED
    BY <2>1, <2>2, <1>t, ContactsKept DEF Exists
<1>8. CASE CronPromotes
  <2>1. ASSUME NEW c \in Ids, Exists(c)'
        PROVE  Exists(c) /\ client'[c].hubspotId = client[c].hubspotId
    <3>1. CASE c \in cron.stale /\ Exists(c)
      <4>1. client'[c] = ClientRow("RECONTACT_LATER", client[c].contactedAt,
                                   client[c].toRecontactAt, client[c].hubspotId)
        BY <1>8, <3>1 DEF CronPromotes
      <4> QED
        BY <3>1, <4>1 DEF ClientRow
    <3>2. CASE ~(c \in cron.stale /\ Exists(c))
      BY <1>8, <2>1, <3>2 DEF CronPromotes, Exists
    <3> QED
      BY <3>1, <3>2
  <2>2. request' = request /\ typed' = typed /\ raced' = raced
    BY <1>8 DEF CronPromotes
  <2> QED
    BY <2>1, <2>2, <1>t, ContactsKept
<1>9. CASE NewDay \/ CronFinds \/ CronLogs \/ CronFails
  <2>1. client' = client /\ request' = request /\ typed' = typed /\ raced' = raced
    BY <1>9 DEF NewDay, CronFinds, CronLogs, CronFails
  <2> QED
    BY <2>1, <1>t, ContactsKept DEF Exists
<1> QED
  BY <1>1, <1>2, <1>3, <1>4, <1>5, <1>6, <1>7, <1>8, <1>9, <1>10 DEF Next, Continue, Cron

(* No handler is under way and no run of the cron. *)
LEMMA StartApart == Init => NoContention
<1> SUFFICES ASSUME Init PROVE NoContention
  OBVIOUS
<1>1. cron.stale = {} /\ \A r \in Requests : request[r].op = "idle"
  BY IdleType DEF Init
<1> QED
  BY <1>1 DEF NoContention, Editing, EditOps

(* However handlers interleave, a contact that no two imports were at at once
   has one client beside those whose HubSpot id was written by hand. *)
THEOREM ContactImportedOnce == Spec => []OneClientPerContact
<1>1. Init => ContactInv
  <2> SUFFICES ASSUME Init PROVE ContactInv
    OBVIOUS
  <2>1. \A c \in Ids : ~Exists(c)
    BY DEF Init, Exists
  <2>2. \A r \in Requests : request[r].op = "idle"
    BY IdleType DEF Init
  <2> QED
    BY <2>1, <2>2, TypeStart DEF ContactInv, OneClientPerContact
<1>2. ContactInv => OneClientPerContact
  BY DEF ContactInv
<1> QED
  BY <1>1, <1>2, ContactStep, PTL DEF Spec

-----------------------------------------------------------------------------
(* The cron, while nobody edits what it has found *)

(* The query finds the prospects whose newest date is too long ago. *)
LEMMA QueryIsStale ==
  ASSUME TypeOK, NEW c \in Ids, Exists(c)
  PROVE  IsStale(client[c], today - StaleDays) => Stale(c)
<1>1. /\ client[c].contactedAt \in Days \cup {None}
      /\ client[c].toRecontactAt \in Days \cup {None}
  BY Existing, RowFields
<1>2. today \in Int /\ StaleDays \in Int /\ Days \subseteq Int
  BY ClientsAssumption DEF TypeOK, Days
<1> QED
  BY <1>1, <1>2 DEF IsStale, Stale, NewestContactDate, Before

LEMMA LaterStill ==
  ASSUME NEW d \in Int, NEW t \in Int, NEW u \in Int, NEW w \in Int, d < t - w, t <= u
  PROVE  d < u - w
  OBVIOUS

(* A client keeps its place in the cycle and its dates. *)
SameWait(c) ==
  /\ client'[c].status = client[c].status
  /\ client'[c].contactedAt = client[c].contactedAt
  /\ client'[c].toRecontactAt = client[c].toRecontactAt

(* A prospect that waits too long does so the next day. *)
LEMMA StaleStays ==
  ASSUME TypeOK, TypeOK', NEW c \in Ids, Exists(c), Stale(c),
         Exists(c)', SameWait(c), today <= today'
  PROVE  Stale(c)'
<1>1. NewestContactDate(client[c]) \in Days \cup {None}
  BY Existing, RowFields DEF NewestContactDate
<1>2. today \in Int /\ today' \in Int /\ StaleDays \in Int /\ Days \subseteq Int
  BY ClientsAssumption DEF TypeOK, Days
<1>3. Before(NewestContactDate(client[c]), today' - StaleDays)
  <2> DEFINE date == NewestContactDate(client[c])
  <2>1. date # None /\ date < today - StaleDays
    BY DEF Stale, Before
  <2>2. date \in Int
    BY <1>1, <1>2, <2>1
  <2> HIDE DEF date
  <2>3. date < today' - StaleDays
    BY <1>2, <2>1, <2>2, LaterStill
  <2> QED
    BY <2>1, <2>3 DEF Before, date
<1>4. NewestContactDate(client[c])' = NewestContactDate(client[c])
  BY DEF NewestContactDate, SameWait
<1>5. Exists(c)' /\ client'[c].status = "FOLLOW_UP_2"
  BY DEF SameWait, Stale
<1>6. Before(NewestContactDate(client[c]), today - StaleDays)'
  BY <1>2, <1>3, <1>4, ClientsAssumption DEF Before
<1> QED
  BY <1>5, <1>6 DEF Stale

(* What the cron has found is, until it promotes it, what it looked for; and no
   handler is about a client that is not created yet. *)
StaleInv ==
  /\ TypeInv
  /\ NoContention
  /\ \A c \in cron.stale : client[c] # Unborn
  /\ \A r \in Requests, c \in Ids : Editing(r, c) => client[c] # Unborn
  /\ cron.at = "promote" => \A c \in cron.stale : Exists(c) => Stale(c)

(* How rows change: they are created, deleted, written by their editor, promoted
   or given another HubSpot id. *)
LEMMA RowsMove ==
  ASSUME TypeOK, [Next]_vars, NEW c \in Ids, client[c] # Unborn
  PROVE  /\ client'[c] # Unborn
         /\ \/ client'[c] = client[c]
            \/ client'[c] = Gone
            \/ Exists(c) /\ client'[c] \in Client /\ SameWait(c)
            \/ \E r \in Requests : Editing(r, c) /\ UpdateWrites(r)
            \/ CronPromotes /\ c \in cron.stale /\ Exists(c)
<1>g. Gone # Unborn
  BY ClientsAssumption
<1>i. ASSUME NEW d \in Ids, NEW input \in Input, Insert(d, input)
      PROVE  client'[c] = client[c]
  BY <1>i, Inserted
<1>1. ASSUME NEW d \in Ids, Create(d) \/ AdminCreate(d) PROVE client'[c] = client[c]
  BY <1>1, <1>i, Creating
<1>2. ASSUME NEW r \in Requests, ImportCreates(r) PROVE client'[c] = client[c]
  BY <1>2, <1>i, Creating
<1>8. ASSUME NEW d \in Edited, NEW k \in Contacts \cup {None}, AdminUpdate(d, k)
      PROVE  /\ client'[c] # Unborn
             /\ client'[c] = client[c] \/ (Exists(c) /\ client'[c] \in Client /\ SameWait(c))
  <2>1. d \in Ids
    BY ClientsAssumption
  <2> QED
    BY <1>8, <2>1, AdminWrites, RowFields DEF SameWait
<1>3. ASSUME NEW d \in Ids, Delete(d) PROVE client'[c] \in {client[c], Gone}
  BY <1>3 DEF Delete, TypeOK
<1>4. ASSUME NEW r \in Requests, UpdateWrites(r)
      PROVE  client'[c] = client[c] \/ (Editing(r, c) /\ client'[c] # Unborn)
  <2>1. request[r].op \in EditOps
    BY <1>4 DEF UpdateWrites, EditOps
  <2>2. CASE Exists(request[r].id) /\ request[r].id = c
    <3>1. client'[c] = Updated(client[c], request[r].changes)
      BY <1>4, <2>2 DEF UpdateWrites, TypeOK
    <3>2. Updated(client[c], request[r].changes) \in Client
      BY <2>1, <2>2, EditFacts, Existing, UpdatedRow
    <3> QED
      BY <2>1, <2>2, <3>1, <3>2, RowFields DEF Editing
  <2>3. CASE ~(Exists(request[r].id) /\ request[r].id = c)
    BY <1>4, <2>3 DEF UpdateWrites, TypeOK
  <2> QED
    BY <2>2, <2>3
<1>5. ASSUME CronPromotes
      PROVE  client'[c] = client[c] \/ (c \in cron.stale /\ Exists(c) /\ client'[c] # Unborn)
  <2>1. CASE c \in cron.stale /\ Exists(c)
    <3>1. client'[c] = ClientRow("RECONTACT_LATER", client[c].contactedAt,
                                 client[c].toRecontactAt, client[c].hubspotId)
      BY <1>5, <2>1 DEF CronPromotes
    <3>2. ClientRow("RECONTACT_LATER", client[c].contactedAt, client[c].toRecontactAt,
                    client[c].hubspotId) \in Client
      BY <2>1, Existing, RowFields, RowType, StatusNames
    <3> QED
      BY <2>1, <3>1, <3>2, RowFields
  <2>2. CASE ~(c \in cron.stale /\ Exists(c))
    BY <1>5, <2>2 DEF CronPromotes
  <2> QED
    BY <2>1, <2>2
<1>6. CASE UNCHANGED client
  BY <1>6
<1>7. CASE ~UNCHANGED client
  <2>1. \/ \E d \in Ids : Create(d) \/ AdminCreate(d) \/ Delete(d)
        \/ \E d \in Edited, k \in Contacts \cup {None} : AdminUpdate(d, k)
        \/ \E r \in Requests : ImportCreates(r) \/ UpdateWrites(r)
        \/ CronPromotes
    BY <1>7 DEF Next, Cron, Continue, NewDay, CronFinds, CronLogs, CronFails, ImportFromHubspot,
       UpdateReads, UpdateLogsStatus, UpdateLogsContact, UpdateFails, vars
  <2> QED
    BY <2>1, <1>1, <1>2, <1>3, <1>4, <1>5, <1>8, <1>g
<1> QED
  BY <1>6, <1>7

LEMMA TimePasses ==
  ASSUME TypeOK, [Next]_vars PROVE today <= today'
<1>1. today \in Int
  BY ClientsAssumption DEF TypeOK, Days
<1>2. today' = today \/ today' = today + 1
  BY DEF Next, Cron, Continue, NewDay, CronFinds, CronPromotes, CronLogs, CronFails, Create, AdminCreate,
     AdminUpdate, Delete, ImportFromHubspot, ImportCreates, UpdateReads, UpdateWrites, UpdateLogsStatus,
     UpdateLogsContact, UpdateFails, vars
<1> QED
  BY <1>1, <1>2

(* Whoever edits a client edited it before, or finds it there. *)
LEMMA EditorsMove ==
  ASSUME TypeOK, [Next]_vars, NEW r \in Requests, NEW c \in Ids, Editing(r, c)'
  PROVE  \/ Editing(r, c)
         \/ UpdateReads(r, c) /\ c \in Edited /\ Exists(c)
<1>m. ASSUME NEW s \in Requests, NEW q, Remember(s, q)
      PROVE  request'[s] = q /\ \A u \in Requests \ {s} : request'[u] = request[u]
  BY <1>m DEF Remember, TypeOK
<1>n. ASSUME NEW s \in Requests, NEW q, Remember(s, q), q.op \notin EditOps
      PROVE  Editing(r, c)
  BY <1>n, <1>m DEF Editing
<1>i. Idle.op \notin EditOps
  BY IdleType DEF EditOps
<1>1. CASE UNCHANGED request
  BY <1>1 DEF Editing
<1>2. ASSUME NEW s \in Requests, NEW k \in Contacts, ImportFromHubspot(s, k) PROVE Editing(r, c)
  <2>1. Remember(s, Import(k)) /\ Import(k).op \notin EditOps
    BY <1>2, ImportType DEF ImportFromHubspot, TurnTo, EditOps
  <2> QED
    BY <2>1, <1>n
<1>3. ASSUME NEW s \in Requests, NEW d \in Edited, UpdateReads(s, d)
      PROVE  Editing(r, c) \/ (s = r /\ d = c /\ Exists(c))
  <2>1. PICK given : Remember(s, Edit("write", d, client[d], given))
    BY <1>3 DEF UpdateReads
  <2>2. request'[s].id = d /\ \A u \in Requests \ {s} : request'[u] = request[u]
    BY <2>1, <1>m, EditFields
  <2> QED
    BY <1>3, <2>2 DEF Editing, UpdateReads
<1>4. ASSUME NEW s \in Requests, Continue(s) PROVE Editing(r, c)
  <2> DEFINE m == request[s]
  <2>1. \/ Remember(s, Idle)
        \/ /\ m.op \in EditOps
           /\ \/ Remember(s, Edit("logStatus", m.id, m.before, m.changes))
              \/ Remember(s, Edit("logContact", m.id, m.before, m.changes))
    BY <1>4 DEF Continue, ImportCreates, UpdateWrites, UpdateLogsStatus, UpdateLogsContact,
       UpdateFails, EditOps
  <2>2. ASSUME NEW op, m.op \in EditOps, Remember(s, Edit(op, m.id, m.before, m.changes))
        PROVE  Editing(r, c)
    <3>1. request'[s].id = m.id /\ \A u \in Requests \ {s} : request'[u] = request[u]
      BY <2>2, <1>m, EditFields
    <3> QED
      BY <2>2, <3>1 DEF Editing
  <2> QED
    BY <2>1, <2>2, <1>n, <1>i
<1>5. CASE \/ NewDay \/ Cron \/ (\E d \in Ids : Create(d) \/ AdminCreate(d) \/ Delete(d))
           \/ (\E d \in Edited, k \in Contacts \cup {None} : AdminUpdate(d, k))
           \/ UNCHANGED vars
  BY <1>5, <1>1 DEF NewDay, Cron, CronFinds, CronPromotes, CronLogs, CronFails, Create,
     AdminCreate, AdminUpdate, Delete, vars
<1> QED
  BY <1>2, <1>3, <1>4, <1>5 DEF Next

LEMMA StaleStep == StaleInv /\ [Next /\ NoContention']_vars => StaleInv'
<1> SUFFICES ASSUME StaleInv, [Next /\ NoContention']_vars PROVE StaleInv'
  OBVIOUS
<1>t. TypeInv' /\ TypeOK' /\ TypeOK /\ cron.stale \subseteq Ids /\ [Next]_vars
  BY TypeInvStep DEF StaleInv, TypeInv, TypeOK
<1>n. NoContention'
  BY DEF StaleInv, NoContention, vars, Editing
<1>1. ASSUME NEW r \in Requests, NEW c \in Ids, Editing(r, c)' PROVE client'[c] # Unborn
  <2>1. client[c] # Unborn
    BY <1>1, <1>t, EditorsMove DEF StaleInv, Exists
  <2> QED
    BY <2>1, <1>t, RowsMove
<1>2. CASE CronFinds
  <2>1. /\ cron'.stale = FindStale /\ cron'.stale \subseteq Ids
        /\ client' = client /\ today' = today
    BY <1>2 DEF CronFinds, FindStale
  <2>2. ASSUME NEW c \in cron'.stale PROVE Exists(c) /\ Stale(c)
    <3>1. c \in Ids /\ Exists(c) /\ IsStale(client[c], today - StaleDays)
      BY <2>1, <2>2 DEF FindStale
    <3>2. IsStale(client[c], today - StaleDays) => Stale(c)
      BY <3>1, <1>t, QueryIsStale
    <3> QED
      BY <3>1, <3>2
  <2>3. ASSUME NEW c \in cron'.stale PROVE client'[c] # Unborn /\ Stale(c)'
    <3>1. c \in Ids /\ Exists(c) /\ Stale(c) /\ client'[c] = client[c]
      BY <2>1, <2>2, <2>3
    <3>2. today <= today'
      BY <1>t, TimePasses
    <3> QED
      BY <3>1, <3>2, <1>t, StaleStays DEF SameWait, Exists
  <2> QED
    BY <1>t, <1>n, <1>1, <2>3 DEF StaleInv
<1>3. CASE UNCHANGED cron /\ ~CronPromotes
  <2>1. ASSUME NEW c \in cron.stale
        PROVE  /\ client'[c] # Unborn
               /\ \/ client'[c] \in {client[c], Gone}
                  \/ Exists(c) /\ client'[c] \in Client /\ SameWait(c)
    <3>1. client[c] # Unborn /\ c \in Ids
      BY <1>t DEF StaleInv
    <3>2. \A r \in Requests : ~Editing(r, c)
      BY DEF StaleInv, NoContention
    <3> QED
      BY <3>1, <3>2, <1>3, <1>t, RowsMove
  <2>2. ASSUME NEW c \in cron.stale, cron.at = "promote", Exists(c)'
        PROVE  Stale(c)'
    <3>1. SameWait(c) /\ Exists(c) /\ c \in Ids
      BY <2>1, <2>2, <1>t DEF SameWait, Exists
    <3>2. Stale(c)
      BY <2>2, <3>1 DEF StaleInv
    <3> QED
      BY <2>2, <3>1, <3>2, <1>t, TimePasses, StaleStays
  <2> QED
    BY <1>t, <1>n, <1>1, <1>3, <2>1, <2>2 DEF StaleInv
<1>4. CASE CronPromotes
  <2>1. cron'.at = "log" /\ cron'.stale = cron.stale
    BY <1>4 DEF CronPromotes
  <2>2. ASSUME NEW c \in cron.stale PROVE client'[c] # Unborn
    BY <1>t, RowsMove DEF StaleInv
  <2> QED
    BY <1>t, <1>n, <1>1, <2>1, <2>2 DEF StaleInv
<1>5. CASE CronLogs \/ CronFails
  <2>1. cron'.at = "idle" /\ cron'.stale = {}
    BY <1>5 DEF CronLogs, CronFails
  <2> QED
    BY <1>t, <1>n, <1>1, <2>1 DEF StaleInv
<1>6. CronFinds \/ (UNCHANGED cron /\ ~CronPromotes) \/ CronPromotes \/ CronLogs \/ CronFails
  BY <1>t DEF Next, Cron, Continue, NewDay, Create, AdminCreate, AdminUpdate, Delete,
     ImportFromHubspot, ImportCreates, UpdateReads, UpdateWrites, UpdateLogsStatus,
     UpdateLogsContact, UpdateFails, vars
<1> QED
  BY <1>2, <1>3, <1>4, <1>5, <1>6

LEMMA StaleStart == Init => StaleInv
<1> SUFFICES ASSUME Init PROVE StaleInv
  OBVIOUS
<1>1. cron.stale = {} /\ cron.at = "idle" /\ \A r \in Requests : request[r].op = "idle"
  BY IdleType DEF Init
<1> QED
  BY <1>1, TypeStart, StartApart DEF StaleInv, Editing, EditOps

(* The cron changes only prospects whose wait is over when it writes. *)
THEOREM OnlyStaleArePromoted == ApartSpec => PromotedWasStale
<1> DEFINE A == \A c \in cron.stale :
                   CronPromotes => client'[c] = client[c] \/ Stale(c)
<1>1. StaleInv /\ [Next /\ NoContention']_vars => A
  <2> SUFFICES ASSUME StaleInv, CronPromotes, NEW c \in cron.stale
               PROVE  client'[c] = client[c] \/ Stale(c)
    OBVIOUS
  <2>1. cron.at = "promote" /\ c \in Ids
    BY DEF CronPromotes, StaleInv, TypeInv, TypeOK
  <2>2. CASE Exists(c)
    BY <2>1, <2>2 DEF StaleInv
  <2>3. CASE ~Exists(c)
    BY <2>1, <2>3 DEF CronPromotes
  <2> QED
    BY <2>2, <2>3
<1>2. A => [A]_vars
  OBVIOUS
<1>3. PromotedWasStale <=> [][A]_vars
  BY DEF PromotedWasStale
<1> HIDE DEF A
<1> QED
  BY <1>1, <1>2, <1>3, StaleStart, StaleStep, PTL DEF ApartSpec
-----------------------------------------------------------------------------
(* HistoryTells *)

LEMMA StatusTold ==
  ASSUME NEW s \in Statuses, NEW d \in Days \cup {None}, NEW t
  PROVE  StatusChanged(Tale(s, d, TRUE), s, t) = Tale(t, d, TRUE)
<1>1. Tale(s, d, TRUE) # Torn
  BY TaleType, StoryFields
<1>2. Tale(t, Tale(s, d, TRUE).contactedAt, Tale(s, d, TRUE).whole /\ Tale(s, d, TRUE).status = s)
         = Tale(t, d, TRUE)
  BY DEF Tale
<1> QED
  BY <1>1, <1>2 DEF StatusChanged

LEMMA ContactTold ==
  ASSUME NEW s \in Statuses, NEW d \in Days \cup {None}, NEW e
  PROVE  ContactedAtChanged(Tale(s, d, TRUE), d, e) = Tale(s, e, TRUE)
<1>1. Tale(s, d, TRUE) # Torn
  BY TaleType, StoryFields
<1>2. Tale(Tale(s, d, TRUE).status, e, Tale(s, d, TRUE).whole /\ Tale(s, d, TRUE).contactedAt = d)
         = Tale(s, e, TRUE)
  BY DEF Tale
<1> QED
  BY <1>1, <1>2 DEF ContactedAtChanged

(* The history ends at what is stored. *)
Told(c) == history[c] = Tale(client[c].status, client[c].contactedAt, TRUE)

(* How far the handler that edits a client has come. *)
Follows(m) ==
  /\ m.op = "write" =>
        /\ m.before.status = client[m.id].status
        /\ m.before.contactedAt = client[m.id].contactedAt
        /\ Told(m.id)
  /\ m.op = "logStatus" =>
        /\ LogsStatus(m)
        /\ history[m.id] = Tale(m.before.status, m.before.contactedAt, TRUE)
        /\ client[m.id].status = m.changes.status
        /\ client[m.id].contactedAt = Set(m.before.contactedAt, m.changes.contactedAt)
  /\ m.op = "logContact" =>
        /\ history[m.id] = Tale(client[m.id].status, m.before.contactedAt, TRUE)
        /\ client[m.id].contactedAt = m.changes.contactedAt

Promoted(c) ==
  /\ client[c].status = "RECONTACT_LATER"
  /\ history[c] = Tale("FOLLOW_UP_2", client[c].contactedAt, TRUE)

(* What is known of a client while, and after, somebody works on it. *)
Tells(c) ==
  /\ \A r \in Requests : Editing(r, c) => Follows(request[r])
  /\ c \in cron.stale /\ cron.at = "log" => Promoted(c)
  /\ c \in cron.stale /\ cron.at # "log" => Told(c)
  /\ ~Busy(c) => Told(c)

Sound(c) == Exists(c) /\ history[c] # Torn => Tells(c)

TellsInv == StaleInv /\ \A c \in Ids : Sound(c)

(* Nothing is lost about a client of which a step leaves alone what its history
   tells. *)
LEMMA SameStory ==
  ASSUME NEW c \in Ids, Sound(c), Exists(c)' => Exists(c),
         client'[c].status = client[c].status,
         client'[c].contactedAt = client[c].contactedAt, history'[c] = history[c],
         c \in cron'.stale <=> c \in cron.stale,
         c \in cron.stale => cron'.at = cron.at,
         \A r \in Requests : Editing(r, c) \/ Editing(r, c)' => request'[r] = request[r]
  PROVE  Sound(c)'
<1> SUFFICES ASSUME Exists(c)', history'[c] # Torn PROVE Tells(c)'
  BY DEF Sound
<1>1. Tells(c)
  BY DEF Sound
<1>2. Told(c) => Told(c)'
  BY DEF Told
<1>3. Promoted(c) => Promoted(c)'
  BY DEF Promoted
<1>4. ASSUME NEW r \in Requests, Editing(r, c)' PROVE Follows(request[r])'
  <2>1. request'[r] = request[r] /\ Editing(r, c) /\ request[r].id = c
    BY <1>4 DEF Editing
  <2>2. Follows(request[r])
    BY <1>1, <2>1 DEF Tells
  <2> QED
    BY <2>1, <2>2 DEF Follows, Told
<1>5. Busy(c) => Busy(c)'
  BY DEF Busy, Editing
<1> QED
  BY <1>1, <1>2, <1>3, <1>4, <1>5 DEF Tells

LEMMA LeftAlone ==
  ASSUME NEW c \in Ids, Sound(c),
         client'[c] = client[c], history'[c] = history[c],
         c \in cron'.stale <=> c \in cron.stale,
         c \in cron.stale => cron'.at = cron.at,
         \A r \in Requests : Editing(r, c) \/ Editing(r, c)' => request'[r] = request[r]
  PROVE  Sound(c)'
<1>1. Exists(c)' => Exists(c)
  BY DEF Exists
<1> QED
  BY <1>1, SameStory

(* A step of a handler is its own affair. *)
LEMMA Others ==
  ASSUME TypeOK, NEW r \in Requests, NEW q, Remember(r, q)
  PROVE  /\ request'[r] = q
         /\ \A s \in Requests \ {r} : request'[s] = request[s]
BY DEF Remember, TypeOK

(* The only editor of a client. *)
LEMMA OneEditor ==
  ASSUME StaleInv, NEW r \in Requests, NEW c \in Ids, Editing(r, c)
  PROVE  /\ \A s \in Requests \ {r} : ~Editing(s, c)
         /\ c \notin cron.stale
         /\ \A d \in Ids \ {c} : ~Editing(r, d)
BY DEF StaleInv, NoContention, Editing

(* A new row is told as it is; the other rows are left alone. *)
LEMMA InsertTells ==
  ASSUME TellsInv, NEW d \in Ids, NEW input \in Input, Insert(d, input), cron' = cron,
         \A r \in Requests : \/ request'[r] = request[r]
                             \/ request[r].op \notin EditOps /\ request'[r].op \notin EditOps,
         NEW c \in Ids
  PROVE  Sound(c)'
<1>t. TypeOK
  BY DEF TellsInv, StaleInv, TypeInv
<1>1. CASE c = d
  <2> DEFINE status == Set("CLIENT", input.status)
             contactedAt == Set(None, input.contactedAt)
  <2>1. /\ client'[d] = ClientRow(status, contactedAt, Set(None, input.toRecontactAt),
                                  Set(None, input.hubspotId))
        /\ history'[d] = Tale(status, contactedAt, TRUE)
        /\ client[d] = Unborn
    BY <1>t DEF Insert, TypeOK
  <2>2. client'[d].status = status /\ client'[d].contactedAt = contactedAt
    BY <2>1 DEF ClientRow
  <2>3. Told(d)'
    BY <2>1, <2>2 DEF Told
  <2>4. d \notin cron'.stale
    BY <2>1 DEF TellsInv, StaleInv
  <2>5. \A r \in Requests : ~Editing(r, d)'
    BY <2>1 DEF TellsInv, StaleInv, Editing
  <2> QED
    BY <1>1, <2>3, <2>4, <2>5 DEF Sound, Tells
<1>2. CASE c # d
  <2>1. client'[c] = client[c] /\ history'[c] = history[c]
    BY <1>2, <1>t DEF Insert, TypeOK
  <2>2. \A r \in Requests : Editing(r, c) \/ Editing(r, c)' => request'[r] = request[r]
    BY DEF Editing
  <2>3. Sound(c)
    BY DEF TellsInv
  <2> QED
    BY <2>1, <2>2, <2>3, LeftAlone
<1> QED
  BY <1>1, <1>2

LEMMA TellsRead ==
  ASSUME TellsInv, NEW r \in Requests, NEW d \in Edited, UpdateReads(r, d), NoContention',
         TypeOK', NEW c \in Ids
  PROVE  Sound(c)'
<1>t. TypeOK /\ d \in Ids
  BY ClientsAssumption DEF TellsInv, StaleInv, TypeInv
<1>q. client' = client /\ history' = history /\ cron' = cron
  BY DEF UpdateReads
<1>1. PICK given : Remember(r, Edit("write", d, client[d], given))
  BY DEF UpdateReads
<1>2. /\ request'[r] = Edit("write", d, client[d], given)
      /\ \A s \in Requests \ {r} : request'[s] = request[s]
  BY <1>1, <1>t, Others
<1>3. request[r].op \notin EditOps
  BY DEF UpdateReads, EditOps
<1>4. request'[r].op = "write" /\ request'[r].id = d /\ request'[r].before = client[d]
  BY <1>2, EditFields
<1>5. Editing(r, d)'
  BY <1>4 DEF Editing, EditOps
<1>6. (\A s \in Requests \ {r} : ~Editing(s, d)') /\ d \notin cron'.stale
  BY <1>5, <1>t DEF NoContention
<1>7. CASE c = d
  <2> SUFFICES ASSUME Exists(d)', history'[d] # Torn PROVE Tells(d)'
    BY <1>7 DEF Sound
  <2>1. ~Busy(d)
    BY <1>2, <1>3, <1>6, <1>q DEF Busy, Editing
  <2>2. Told(d)
    BY <2>1, <1>q, <1>t DEF TellsInv, Sound, Exists, Tells
  <2>3. Told(d)'
    BY <2>2, <1>q DEF Told
  <2>4. Follows(request[r])'
    BY <2>3, <1>4, <1>q DEF Follows
  <2> QED
    BY <2>3, <2>4, <1>6 DEF Tells
<1>8. CASE c # d
  <2>1. \A s \in Requests : Editing(s, c) \/ Editing(s, c)' => request'[s] = request[s]
    BY <1>2, <1>3, <1>4, <1>8 DEF Editing
  <2> QED
    BY <2>1, <1>q, LeftAlone DEF TellsInv
<1> QED
  BY <1>7, <1>8

(* What becomes of the clients that the handler does not edit, and of its own. *)
LEMMA TellsOwn ==
  ASSUME TellsInv, NEW r \in Requests, NEW q, Remember(r, q), request[r].op \in EditOps,
         q = Idle \/ (q.op \in EditOps /\ q.id = request[r].id),
         cron' = cron, NEW c \in Ids,
         c = request[r].id /\ Exists(c)' => Exists(c),
         c # request[r].id => client'[c] = client[c] /\ history'[c] = history[c],
         c = request[r].id /\ Exists(c) /\ Exists(c)' /\ history'[c] # Torn =>
            /\ history[c] # Torn
            /\ Follows(request[r]) => IF q = Idle THEN Told(c)' ELSE Follows(request[r])'
  PROVE  Sound(c)'
<1>t. TypeOK /\ request[r].id \in Ids
  BY EditFacts DEF TellsInv, StaleInv, TypeInv
<1>1. request'[r] = q /\ \A s \in Requests \ {r} : request'[s] = request[s]
  BY <1>t, Others
<1>i. Idle.op \notin EditOps
  BY IdleType DEF EditOps
<1>2. Editing(r, request[r].id)
  BY DEF Editing
<1>3. CASE c = request[r].id
  <2> SUFFICES ASSUME Exists(c)', history'[c] # Torn PROVE Tells(c)'
    BY DEF Sound
  <2>1. /\ \A s \in Requests \ {r} : ~Editing(s, c)
        /\ c \notin cron.stale
    BY <1>2, <1>3, <1>t, OneEditor DEF TellsInv
  <2>2. Exists(c)
    BY <1>3
  <2>3. Follows(request[r]) /\ history[c] # Torn
    BY <2>2, <1>2, <1>3 DEF TellsInv, Sound, Tells
  <2>4. IF q = Idle THEN Told(c)' ELSE Follows(request[r])'
    BY <2>2, <2>3, <1>3
  <2>5. \A s \in Requests \ {r} : ~Editing(s, c)'
    BY <2>1, <1>1 DEF Editing
  <2>6. c \notin cron'.stale
    BY <2>1
  <2>7. CASE q = Idle
    <3>1. ~Editing(r, c)'
      BY <2>7, <1>1, <1>i DEF Editing
    <3> QED
      BY <2>4, <2>5, <2>6, <2>7, <3>1 DEF Tells
  <2>8. CASE q # Idle
    <3>1. Editing(r, c)'
      BY <2>8, <1>1, <1>3 DEF Editing
    <3>2. Busy(c)'
      BY <3>1 DEF Busy
    <3> QED
      BY <2>4, <2>5, <2>6, <2>8, <3>2 DEF Tells
  <2> QED
    BY <2>7, <2>8
<1>4. CASE c # request[r].id
  <2>1. \A s \in Requests : Editing(s, c) \/ Editing(s, c)' => request'[s] = request[s]
    BY <1>1, <1>4, <1>i DEF Editing
  <2> QED
    BY <2>1, <1>4, LeftAlone DEF TellsInv
<1> QED
  BY <1>3, <1>4

(* What an edit is about to store, and what it has stored, is what it logs. *)
LEMMA TellsWritten ==
  ASSUME TellsInv, NEW r \in Requests, UpdateWrites(r), NEW c \in Ids
  PROVE  Sound(c)'
<1> DEFINE m == request[r]
<1>t. TypeOK /\ m.op = "write" /\ m.op \in EditOps /\ m.id \in Ids /\ m.before \in Client
      /\ m.changes \in Input
  BY EditFacts DEF TellsInv, StaleInv, TypeInv, UpdateWrites, EditOps
<1>i. PICK i \in Ids : i = request[r].id
  BY <1>t
<1>j. \A op, id, before, given :
         Edit(op, id, before, given) = Idle => op = "idle"
  BY EditFields, IdleType
<1>1. CASE ~Exists(m.id)
  <2>1. Remember(r, Idle) /\ client' = client /\ history' = history /\ cron' = cron
    BY <1>1 DEF UpdateWrites
  <2>2. ~Exists(i)'
    BY <1>1, <1>i, <2>1 DEF Exists
  <2> QED
    BY <1>1, <1>t, <1>i, <2>1, <2>2, TellsOwn
<1>2. CASE Exists(m.id)
  <2> DEFINE q == IF LogsStatus(m) THEN Edit("logStatus", m.id, m.before, m.changes)
                  ELSE IF LogsContact(m) THEN Edit("logContact", m.id, m.before, m.changes)
                  ELSE Idle
  <2>1. /\ Remember(r, q) /\ history' = history /\ cron' = cron
        /\ client'[m.id] = Updated(client[m.id], m.changes)
        /\ \A d \in Ids \ {m.id} : client'[d] = client[d]
    BY <1>2, <1>t DEF UpdateWrites, TypeOK
  <2>2. /\ client'[m.id].status = Set(client[m.id].status, m.changes.status)
        /\ client'[m.id].contactedAt = Set(client[m.id].contactedAt, m.changes.contactedAt)
    BY <1>2, <1>t, <2>1, Existing, UpdatedRow
  <2>3. request'[r] = q
    BY <1>t, <2>1, Others
  <2>4. q = Idle \/ (q.op \in EditOps /\ q.id = m.id)
    BY EditFields DEF EditOps
  <2>5. ASSUME Follows(m)
        PROVE  IF q = Idle THEN Told(i)' ELSE Follows(request[r])'
    <3>1. /\ m.before.status = client[m.id].status
          /\ m.before.contactedAt = client[m.id].contactedAt
          /\ history[m.id] = Tale(m.before.status, m.before.contactedAt, TRUE)
      BY <2>5, <1>t DEF Follows, Told
    <3>2. CASE LogsStatus(m)
      <4>1. q = Edit("logStatus", m.id, m.before, m.changes) /\ q # Idle
        BY <3>2, <1>j
      <4>2. /\ request'[r].op = "logStatus" /\ request'[r].id = m.id
            /\ request'[r].before = m.before /\ request'[r].changes = m.changes
        BY <4>1, <2>3, EditFields
      <4>3. client'[m.id].status = m.changes.status
        BY <3>2, <2>2 DEF LogsStatus, Set
      <4>4. LogsStatus(request[r])'
        BY <3>2, <4>2 DEF LogsStatus
      <4> QED
        BY <3>1, <4>1, <4>2, <4>3, <4>4, <2>1, <2>2 DEF Follows
    <3>3. CASE ~LogsStatus(m) /\ LogsContact(m)
      <4>1. q = Edit("logContact", m.id, m.before, m.changes) /\ q # Idle
        BY <3>3, <1>j
      <4>2. /\ request'[r].op = "logContact" /\ request'[r].id = m.id
            /\ request'[r].before = m.before /\ request'[r].changes = m.changes
        BY <4>1, <2>3, EditFields
      <4>3. client'[m.id].status = m.before.status
        BY <3>1, <3>3, <2>2 DEF LogsStatus, Set
      <4>4. client'[m.id].contactedAt = m.changes.contactedAt
        BY <3>3, <2>2 DEF LogsContact, Set
      <4> QED
        BY <3>1, <4>1, <4>2, <4>3, <4>4, <2>1 DEF Follows
    <3>4. CASE ~LogsStatus(m) /\ ~LogsContact(m)
      <4>1. q = Idle
        BY <3>4
      <4>2. client'[m.id].status = m.before.status
            /\ client'[m.id].contactedAt = m.before.contactedAt
        BY <3>1, <3>4, <2>2 DEF LogsStatus, LogsContact, Set
      <4> QED
        BY <3>1, <4>1, <4>2, <2>1, <1>i DEF Told
    <3> QED
      BY <3>2, <3>3, <3>4
  <2> HIDE DEF q
  <2> QED
    BY <1>2, <1>t, <1>i, <2>1, <2>4, <2>5, TellsOwn
<1> QED
  BY <1>1, <1>2

LEMMA TellsStatus ==
  ASSUME TellsInv, NEW r \in Requests, UpdateLogsStatus(r), NEW c \in Ids
  PROVE  Sound(c)'
<1> DEFINE m == request[r]
           q == IF LogsContact(m) THEN Edit("logContact", m.id, m.before, m.changes) ELSE Idle
<1>t. TypeOK /\ m.op = "logStatus" /\ m.op \in EditOps /\ m.id \in Ids /\ m.before \in Client
      /\ m.changes \in Input
  BY EditFacts DEF TellsInv, StaleInv, TypeInv, UpdateLogsStatus, EditOps
<1>i. PICK i \in Ids : i = request[r].id
  BY <1>t
<1>1. /\ Remember(r, q) /\ client' = client /\ cron' = cron
      /\ history'[m.id] = StatusChanged(history[m.id], m.before.status, m.changes.status)
      /\ \A d \in Ids \ {m.id} : history'[d] = history[d]
      /\ Exists(m.id)
  BY <1>t DEF UpdateLogsStatus, TypeOK
<1>2. request'[r] = q
  BY <1>t, <1>1, Others
<1>3. q = Idle \/ (q.op \in EditOps /\ q.id = m.id)
  BY EditFields DEF EditOps
<1>4. history[m.id] = Torn => history'[m.id] = Torn
  BY <1>1 DEF StatusChanged
<1>5. ASSUME Follows(m)
      PROVE  IF q = Idle THEN Told(i)' ELSE Follows(request[r])'
  <2>1. /\ LogsStatus(m)
        /\ history[m.id] = Tale(m.before.status, m.before.contactedAt, TRUE)
        /\ client[m.id].status = m.changes.status
        /\ client[m.id].contactedAt = Set(m.before.contactedAt, m.changes.contactedAt)
    BY <1>5, <1>t DEF Follows
  <2>2. m.before.status \in Statuses /\ m.before.contactedAt \in Days \cup {None}
    BY <1>t, RowFields
  <2>3. history'[m.id] = Tale(client'[m.id].status, m.before.contactedAt, TRUE)
    <3>1. StatusChanged(Tale(m.before.status, m.before.contactedAt, TRUE),
                        m.before.status, m.changes.status)
             = Tale(m.changes.status, m.before.contactedAt, TRUE)
      BY ONLY <2>2, StatusTold
    <3> QED
      BY <1>1, <2>1, <3>1
  <2>4. CASE LogsContact(m)
    <3>1. q = Edit("logContact", m.id, m.before, m.changes)
      BY <2>4
    <3>2. /\ request'[r].op = "logContact" /\ request'[r].id = m.id
          /\ request'[r].before = m.before /\ request'[r].changes = m.changes
      BY <3>1, <1>2, EditFields
    <3>3. q # Idle
      BY <3>1, EditFields, IdleType
    <3>4. client'[m.id].contactedAt = m.changes.contactedAt
      BY <2>1, <2>4, <1>1 DEF LogsContact, Set
    <3> QED
      BY <2>3, <3>2, <3>3, <3>4 DEF Follows
  <2>5. CASE ~LogsContact(m)
    <3>1. client'[m.id].contactedAt = m.before.contactedAt
      BY <2>1, <2>5, <1>1 DEF LogsContact, Set
    <3> QED
      BY <2>3, <2>5, <3>1, <1>i DEF Told
  <2> QED
    BY <2>4, <2>5
<1> HIDE DEF q
<1> QED
  BY <1>t, <1>i, <1>1, <1>3, <1>4, <1>5, TellsOwn DEF Exists

LEMMA TellsContact ==
  ASSUME TellsInv, NEW r \in Requests, UpdateLogsContact(r), NEW c \in Ids
  PROVE  Sound(c)'
<1> DEFINE m == request[r]
<1>t. TypeOK /\ m.op = "logContact" /\ m.op \in EditOps /\ m.id \in Ids /\ m.before \in Client
  BY EditFacts DEF TellsInv, StaleInv, TypeInv, UpdateLogsContact, EditOps
<1>i. PICK i \in Ids : i = request[r].id
  BY <1>t
<1>1. /\ Remember(r, Idle) /\ client' = client /\ cron' = cron
      /\ history'[m.id] =
            ContactedAtChanged(history[m.id], m.before.contactedAt, m.changes.contactedAt)
      /\ \A d \in Ids \ {m.id} : history'[d] = history[d]
      /\ Exists(m.id)
  BY <1>t DEF UpdateLogsContact, TypeOK
<1>2. history[m.id] = Torn => history'[m.id] = Torn
  BY <1>1 DEF ContactedAtChanged
<1>3. ASSUME Follows(m) PROVE Told(i)'
  <2>1. /\ history[m.id] = Tale(client[m.id].status, m.before.contactedAt, TRUE)
        /\ client[m.id].contactedAt = m.changes.contactedAt
    BY <1>3, <1>t DEF Follows
  <2>2. client[m.id].status \in Statuses /\ m.before.contactedAt \in Days \cup {None}
    BY <1>t, <1>1, RowFields, Existing
  <2>3. ContactedAtChanged(Tale(client[m.id].status, m.before.contactedAt, TRUE),
                           m.before.contactedAt, m.changes.contactedAt)
           = Tale(client[m.id].status, m.changes.contactedAt, TRUE)
    BY ONLY <2>2, ContactTold
  <2> QED
    BY <1>1, <2>1, <2>3, <1>i DEF Told
<1> QED
  BY <1>t, <1>i, <1>1, <1>2, <1>3, TellsOwn DEF Exists

LEMMA TellsFailed ==
  ASSUME TellsInv, NEW r \in Requests, UpdateFails(r), NEW c \in Ids
  PROVE  Sound(c)'
<1>t. TypeOK /\ request[r].op \in EditOps /\ request[r].id \in Ids
  BY EditFacts DEF TellsInv, StaleInv, TypeInv, UpdateFails, EditOps
<1>i. PICK i \in Ids : i = request[r].id
  BY <1>t
<1>1. /\ Remember(r, Idle) /\ client' = client /\ cron' = cron
      /\ \A d \in Ids : history'[d] = IF d = request[r].id /\ Exists(d) THEN Torn ELSE history[d]
  BY <1>t DEF UpdateFails, Tear
<1>2. Exists(i)' => Exists(i)
  BY <1>1 DEF Exists
<1> QED
  BY <1>t, <1>i, <1>1, <1>2, TellsOwn


(* The cron finds nobody that is being edited, moves on what it found and tells
   so. *)
LEMMA TellsCron ==
  ASSUME TellsInv, Cron, NoContention', NEW c \in Ids
  PROVE  Sound(c)'
<1>t. TypeOK /\ Sound(c) /\ (cron.at = "idle" => cron.stale = {})
  BY DEF TellsInv, StaleInv, TypeInv, TypeOK
<1>q. request' = request
  BY DEF Cron, CronFinds, CronPromotes, CronLogs, CronFails
<1>e. c \in cron.stale \/ c \in cron'.stale => \A r \in Requests : ~Editing(r, c) /\ ~Editing(r, c)'
  BY <1>q DEF TellsInv, StaleInv, NoContention, Editing
<1>a. ASSUME client'[c] = client[c], history'[c] = history[c],
             c \in cron'.stale <=> c \in cron.stale, c \in cron.stale => cron'.at = cron.at
      PROVE  Sound(c)'
  BY <1>a, <1>t, <1>q, LeftAlone
<1>1. CASE CronFinds
  <2>1. /\ cron.stale = {} /\ cron'.at = "promote"
        /\ client' = client /\ history' = history
    BY <1>1, <1>t DEF CronFinds
  <2>2. CASE c \in cron'.stale
    <3>1. ~Busy(c)
      BY <2>1, <2>2, <1>e DEF Busy
    <3>2. Exists(c)' /\ history'[c] # Torn => Told(c)'
      BY <2>1, <3>1, <1>t DEF Sound, Tells, Told, Exists
    <3> QED
      BY <2>1, <2>2, <3>2, <1>e DEF Sound, Tells
  <2> QED
    BY <2>1, <2>2, <1>a
<1>2. CASE CronPromotes
  <2>1. /\ cron.at = "promote" /\ cron'.at = "log" /\ cron'.stale = cron.stale
        /\ history' = history
    BY <1>2 DEF CronPromotes
  <2>2. CASE c \in cron.stale /\ Exists(c)
    <3>1. client'[c] = ClientRow("RECONTACT_LATER", client[c].contactedAt,
                                 client[c].toRecontactAt, client[c].hubspotId)
      BY <1>2, <2>2 DEF CronPromotes
    <3>2. client'[c].status = "RECONTACT_LATER" /\ client'[c].contactedAt = client[c].contactedAt
      BY <3>1 DEF ClientRow
    <3>3. client[c].status = "FOLLOW_UP_2"
      BY <2>1, <2>2 DEF TellsInv, StaleInv, Stale
    <3>4. history'[c] # Torn => history'[c] = Tale("FOLLOW_UP_2", client[c].contactedAt, TRUE)
      BY <2>1, <2>2, <3>3, <1>t DEF Sound, Tells, Told
    <3>5. history'[c] # Torn => Promoted(c)'
      BY <3>2, <3>4 DEF Promoted
    <3>6. Busy(c)'
      BY <2>1, <2>2 DEF Busy
    <3> QED
      BY <2>1, <2>2, <3>5, <3>6, <1>e DEF Sound, Tells
  <2>3. CASE c \in cron.stale /\ ~Exists(c)
    <3>1. ~Exists(c)'
      BY <1>2, <2>3 DEF CronPromotes, Exists
    <3> QED
      BY <3>1 DEF Sound
  <2>4. CASE c \notin cron.stale
    BY <1>2, <2>1, <2>4, <1>a DEF CronPromotes
  <2> QED
    BY <2>2, <2>3, <2>4
<1>3. CASE CronLogs
  <2>1. /\ cron.at = "log" /\ cron'.at = "idle" /\ cron'.stale = {} /\ client' = client
        /\ history'[c] = IF c \in cron.stale
                         THEN StatusChanged(history[c], "FOLLOW_UP_2", "RECONTACT_LATER")
                         ELSE history[c]
    BY <1>3 DEF CronLogs
  <2>2. CASE c \in cron.stale
    <3>1. Exists(c) /\ client[c].contactedAt \in Days \cup {None}
      BY <1>3, <2>2, <1>t, Existing, RowFields DEF CronLogs
    <3>2. StatusChanged(Tale("FOLLOW_UP_2", client[c].contactedAt, TRUE),
                        "FOLLOW_UP_2", "RECONTACT_LATER")
             = Tale("RECONTACT_LATER", client[c].contactedAt, TRUE)
      BY ONLY <3>1, StatusNames, StatusTold
    <3>3. history[c] = Torn => history'[c] = Torn
      BY <2>1 DEF StatusChanged
    <3>4. history'[c] # Torn => Promoted(c)
      BY <2>1, <2>2, <3>1, <3>3, <1>t DEF Sound, Tells
    <3>5. history'[c] # Torn => Told(c)'
      BY <2>1, <2>2, <3>2, <3>4 DEF Promoted, Told
    <3> QED
      BY <2>1, <2>2, <3>5, <1>e DEF Sound, Tells
  <2> QED
    BY <2>1, <2>2, <1>a
<1>4. CASE CronFails
  <2>1. /\ cron'.stale = {} /\ client' = client
        /\ history'[c] = IF cron.at = "log" /\ c \in cron.stale /\ Exists(c)
                         THEN Torn ELSE history[c]
    BY <1>4 DEF CronFails, Tear
  <2>2. CASE c \in cron.stale
    <3>1. Exists(c)' /\ history'[c] # Torn => Told(c)'
      BY <2>1, <2>2, <1>t DEF Sound, Tells, Told, Exists
    <3> QED
      BY <2>1, <2>2, <3>1, <1>e DEF Sound, Tells
  <2> QED
    BY <2>1, <2>2, <1>a
<1> QED
  BY <1>1, <1>2, <1>3, <1>4 DEF Cron

LEMMA TellsStep == TellsInv /\ [Next /\ NoContention']_vars => TellsInv'
<1> SUFFICES ASSUME TellsInv, [Next /\ NoContention']_vars PROVE TellsInv'
  OBVIOUS
<1>1. StaleInv' /\ TypeOK' /\ TypeOK
  BY StaleStep DEF TellsInv, StaleInv, TypeInv
<1>2. ASSUME NEW c \in Ids PROVE Sound(c)'
  <2>i. Idle.op \notin EditOps
    BY IdleType DEF EditOps
  <2>1. CASE NewDay \/ UNCHANGED vars
    BY <2>1, LeftAlone DEF TellsInv, NewDay, vars
  <2>2. CASE Cron /\ NoContention'
    BY <2>2, TellsCron
  <2>3. ASSUME NEW d \in Ids, Create(d) \/ AdminCreate(d) PROVE Sound(c)'
    <3>1. PICK input \in Input : Insert(d, input)
      BY <2>3, <1>1, Creating
    <3>2. request' = request /\ cron' = cron
      BY <2>3 DEF Create, AdminCreate
    <3> QED
      BY <3>1, <3>2, InsertTells
  <2>9. ASSUME NEW d \in Edited, NEW k \in Contacts \cup {None}, AdminUpdate(d, k)
        PROVE  Sound(c)'
    <3>1. /\ d \in Ids /\ request' = request /\ cron' = cron /\ history' = history
      BY <2>9, ClientsAssumption DEF AdminUpdate
    <3>2. /\ client'[c].status = client[c].status
          /\ client'[c].contactedAt = client[c].contactedAt
          /\ Exists(c)' => Exists(c)
      BY <2>9, <3>1, <1>1, AdminWrites
    <3> QED
      BY <3>1, <3>2, SameStory DEF TellsInv
  <2>4. ASSUME NEW d \in Ids, Delete(d) PROVE Sound(c)'
    <3>1. CASE c = d
      BY <2>4, <3>1, <1>1 DEF Delete, TypeOK, Sound, Exists
    <3>2. CASE c # d
      BY <2>4, <3>2, <1>1, LeftAlone DEF Delete, TypeOK, TellsInv
    <3> QED
      BY <3>1, <3>2
  <2>5. ASSUME NEW r \in Requests, NEW k \in Contacts, ImportFromHubspot(r, k) PROVE Sound(c)'
    <3>1. request[r].op \notin EditOps /\ Import(k).op \notin EditOps
      BY <2>5, ImportType DEF ImportFromHubspot, EditOps
    <3>2. request'[r] = Import(k) /\ \A s \in Requests \ {r} : request'[s] = request[s]
      BY <2>5, <1>1, Others DEF ImportFromHubspot, TurnTo
    <3>3. \A s \in Requests : Editing(s, c) \/ Editing(s, c)' => request'[s] = request[s]
      BY <3>1, <3>2 DEF Editing
    <3> QED
      BY <2>5, <3>3, LeftAlone DEF ImportFromHubspot, TellsInv
  <2>6. ASSUME NEW r \in Requests, ImportCreates(r) PROVE Sound(c)'
    <3>1. PICK d \in Ids, input \in Input : Insert(d, input)
      BY <2>6, <1>1, Creating
    <3>3. request'[r] = Idle /\ \A s \in Requests \ {r} : request'[s] = request[s]
      BY <2>6, <1>1, Others DEF ImportCreates
    <3>4. request[r].op \notin EditOps /\ cron' = cron
      BY <2>6 DEF ImportCreates, EditOps
    <3> QED
      BY <3>1, <3>3, <3>4, <2>i, InsertTells
  <2>7. ASSUME NEW r \in Requests, NEW d \in Edited, UpdateReads(r, d), NoContention'
        PROVE  Sound(c)'
    BY <2>7, <1>1, TellsRead
  <2>8. ASSUME NEW r \in Requests, Continue(r) PROVE Sound(c)'
    BY <2>6, <2>8, TellsWritten, TellsStatus, TellsContact, TellsFailed DEF Continue
  <2> QED
    BY <2>1, <2>2, <2>3, <2>4, <2>5, <2>7, <2>8, <2>9 DEF Next
<1> QED
  BY <1>1, <1>2 DEF TellsInv

LEMMA TellsStart == Init => TellsInv
<1>1. Init => \A c \in Ids : ~Exists(c)
  BY DEF Init, Exists
<1> QED
  BY <1>1, StaleStart DEF TellsInv, Sound

(* When nobody works on a client, the entries of its history lead from one to
   the next up to what is stored. *)
THEOREM HistoryIsTold == ApartSpec => []HistoryTells
<1>1. TellsInv => HistoryTells
  BY DEF TellsInv, Sound, Tells, Told, HistoryTells
<1> QED
  BY <1>1, TellsStart, TellsStep, PTL DEF ApartSpec
=============================================================================
