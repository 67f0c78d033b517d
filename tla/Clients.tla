------------------------------ MODULE Clients ------------------------------
(***************************************************************************)
(* The clients of one user, most of them prospects that move along a cycle *)
(* of statuses: clients.service.ts and prospect-cron.service.ts on top of  *)
(* prisma8-client.repository.ts, and the imports of HubSpot contacts.      *)
(*                                                                         *)
(* An edit reads the client, writes it and logs what changed in up to two  *)
(* history entries; the nightly cron reads the ids of the prospects that   *)
(* waited too long, writes their status and logs it.  Each statement is an *)
(* action, so other requests run in between; an insert of a history entry  *)
(* may also fail.                                                          *)
(*                                                                         *)
(* Of a client the model keeps its status, its two contact dates and its   *)
(* HubSpot id.  Of its history it keeps where the entries lead and whether *)
(* each of them starts where the one before it ended.                      *)
(*                                                                         *)
(* Users and administrators may write the HubSpot id too; typed and raced  *)
(* tell where it came from.                                                *)
(***************************************************************************)
EXTENDS Integers, FiniteSets

CONSTANTS
    Ids,             \* client ids, never used twice
    Contacts,        \* HubSpot contacts
    Requests,        \* request slots
    StaleDays,       \* STALE_FOLLOW_UP_DAYS
    Horizon,         \* bound: the last day of the model
    Edited,          \* bound: the clients that are edited
    Creates,         \* what users send to create a client
    Updates,         \* what users send to edit a client
    None,            \* a null
    Keep,            \* a field an input leaves out (undefined)
    Unborn, Gone,    \* a client that is not created yet, or was deleted
    Torn             \* a history one of whose entries could not be written

VARIABLES
    today,
    client,    \* the client rows
    history,   \* what the history entries of each client tell
    request,   \* what each handler in flight remembers
    cron,      \* where the nightly run is, and the ids it found
    typed,     \* memory: the clients whose HubSpot id somebody wrote by hand
    raced      \* memory: the contacts two imports were at at once

vars == <<today, client, history, request, cron, typed, raced>>

\* NEXT_STATUS_AFTER_CONTACT; a status that is not in its domain has no next one.
NextStatus ==
    [s \in {"TO_CONTACT", "FORMER_CLIENT", "CONTACTED", "FOLLOW_UP_1",
            "FOLLOW_UP_2", "RECONTACT_LATER"} |->
        CASE s \in {"TO_CONTACT", "FORMER_CLIENT", "RECONTACT_LATER"} -> "CONTACTED"
          [] s = "CONTACTED"   -> "FOLLOW_UP_1"
          [] s = "FOLLOW_UP_1" -> "FOLLOW_UP_2"
          [] s = "FOLLOW_UP_2" -> "RECONTACT_LATER"]

Statuses == DOMAIN NextStatus \cup {"TALKING", "CLIENT"}

Days == 0..Horizon

Client == [status        : Statuses,
           contactedAt   : Days \cup {None},
           toRecontactAt : Days \cup {None},
           hubspotId     : Contacts \cup {None}]

Input == [status        : Statuses \cup {Keep},
          contactedAt   : Days \cup {None, Keep},
          toRecontactAt : Days \cup {None, Keep},
          hubspotId     : Contacts \cup {None, Keep}]

Story == [status      : Statuses,
          contactedAt : Days \cup {None},
          whole       : BOOLEAN]

EditOps == {"write", "logStatus", "logContact"}

Request == [op : {"idle"}]
           \cup [op : {"import"}, contact : Contacts]
           \cup [op : EditOps, id : Ids, before : Client, changes : Input]

ASSUME ClientsAssumption ==
    /\ Horizon \in Nat /\ StaleDays \in Nat
    /\ Edited \subseteq Ids
    /\ Creates \subseteq Input /\ Updates \subseteq Input
    /\ None \notin Days /\ None \notin Contacts
    /\ Keep \notin Days /\ Keep \notin Statuses /\ Keep \notin Contacts /\ Keep # None
    /\ Unborn # Gone /\ {Unborn, Gone} \cap Client = {}
    /\ None # Torn /\ {None, Torn} \cap Story = {}

Exists(c) == client[c] \notin {Unborn, Gone}

TypeOK ==
    /\ today \in Days
    /\ client \in [Ids -> Client \cup {Unborn, Gone}]
    /\ history \in [Ids -> Story \cup {Torn, None}]
    /\ \A c \in Ids : history[c] # None <=> Exists(c)
    /\ request \in [Requests -> Request]
    /\ cron \in [at : {"idle", "promote", "log"}, stale : SUBSET Ids]
    /\ cron.at = "idle" => cron.stale = {}
    /\ typed \subseteq Ids
    /\ raced \subseteq Contacts

Idle == [op |-> "idle"]

Import(k) == [op |-> "import", contact |-> k]

Edit(op, id, before, changes) ==
    [op |-> op, id |-> id, before |-> before, changes |-> changes]

Changes(status, contactedAt, toRecontactAt, hubspotId) ==
    [status |-> status, contactedAt |-> contactedAt,
     toRecontactAt |-> toRecontactAt, hubspotId |-> hubspotId]

ClientRow(status, contactedAt, toRecontactAt, hubspotId) ==
    [status |-> status, contactedAt |-> contactedAt,
     toRecontactAt |-> toRecontactAt, hubspotId |-> hubspotId]

Tale(status, contactedAt, whole) ==
    [status |-> status, contactedAt |-> contactedAt, whole |-> whole]

Init ==
    /\ today = 0
    /\ client = [c \in Ids |-> Unborn]
    /\ history = [c \in Ids |-> None]
    /\ request = [r \in Requests |-> Idle]
    /\ cron = [at |-> "idle", stale |-> {}]
    /\ typed = {}
    /\ raced = {}

Remember(r, memory) == request' = [request EXCEPT ![r] = memory]

-----------------------------------------------------------------------------
(* Creating, importing and deleting *)

\* A field that the input sets takes its value, the others keep theirs.
Set(stored, given) == IF given = Keep THEN stored ELSE given

\* Somebody wrote a HubSpot id for client c, or an input left it out.
Type(c, input) == typed' = IF input.hubspotId = Keep THEN typed ELSE typed \cup {c}

\* Ids are handed out in any order.  A status left out is CLIENT, the default of
\* the column.
Insert(c, input) ==
    LET status == Set("CLIENT", input.status)
        contactedAt == Set(None, input.contactedAt)
    IN /\ client[c] = Unborn
       /\ client' = [client EXCEPT ![c] =
              ClientRow(status, contactedAt, Set(None, input.toRecontactAt),
                        Set(None, input.hubspotId))]
       /\ history' = [history EXCEPT ![c] = Tale(status, contactedAt, TRUE)]

Create(c) ==
    /\ \E input \in Creates : Insert(c, input) /\ Type(c, input)
    /\ UNCHANGED <<today, request, cron, raced>>

\* An administrator's input has no status and no dates.
AdminCreate(c) ==
    /\ \E k \in Contacts \cup {None, Keep} :
         LET input == Changes(Keep, Keep, Keep, k)
         IN  Insert(c, input) /\ Type(c, input)
    /\ UNCHANGED <<today, request, cron, raced>>

\* Import r turns to contact k, perhaps beside another.
TurnTo(r, k) ==
    /\ Remember(r, Import(k))
    /\ raced' = IF \E s \in Requests : request[s] = Import(k) THEN raced \cup {k} ELSE raced

\* Mutant: the import does not look for the contact.
ImportFromHubspot_Blind(r, k) ==
    /\ request[r].op = "idle"
    /\ TurnTo(r, k)
    /\ UNCHANGED <<today, client, history, cron, typed>>

\* A contact that is found is the answer; the handler that finds none goes on.
ImportFromHubspot(r, k) ==
    /\ request[r].op = "idle"
    /\ \A c \in Ids : Exists(c) => client[c].hubspotId # k
    /\ TurnTo(r, k)
    /\ UNCHANGED <<today, client, history, cron, typed>>

ImportCreates(r) ==
    /\ request[r].op = "import"
    /\ \E c \in Ids : Insert(c, Changes(Keep, Keep, Keep, request[r].contact))
    /\ Remember(r, Idle)
    /\ UNCHANGED <<today, cron, typed, raced>>

\* Mutant: history entries outlive their client.
Delete_KeepsHistory(c) ==
    /\ Exists(c)
    /\ client' = [client EXCEPT ![c] = Gone]
    /\ UNCHANGED <<today, history, request, cron, typed, raced>>

\* History entries go with their client.
Delete(c) ==
    /\ Exists(c)
    /\ client' = [client EXCEPT ![c] = Gone]
    /\ history' = [history EXCEPT ![c] = None]
    /\ typed' = typed \ {c}
    /\ UNCHANGED <<today, request, cron, raced>>

-----------------------------------------------------------------------------
(* Editing *)

\* A newer contact date moves a prospect one step along its cycle, unless the
\* same edit picks another status itself.
SteppedStatus(before, changes) ==
    LET picked == changes.status \notin {Keep, before.status}
        newer == /\ changes.contactedAt \notin {Keep, None}
                 /\ \/ before.contactedAt = None
                    \/ changes.contactedAt > before.contactedAt
    IN IF ~picked /\ newer /\ before.status \in DOMAIN NextStatus
       THEN NextStatus[before.status]
       ELSE changes.status

UpdateReads(r, c) ==
    /\ request[r].op = "idle"
    /\ Exists(c)
    /\ \E input \in Updates :
          Remember(r, Edit("write", c, client[c],
                           Changes(SteppedStatus(client[c], input),
                                   input.contactedAt, input.toRecontactAt,
                                   input.hubspotId)))
    /\ UNCHANGED <<today, client, history, cron, typed, raced>>

LogsStatus(m) == m.changes.status \notin {Keep, m.before.status}

\* Mutant: a date that is cleared is not logged.
LogsContact_Truthy(m) ==
    m.changes.contactedAt \notin {Keep, None, m.before.contactedAt}

LogsContact(m) == m.changes.contactedAt \notin {Keep, m.before.contactedAt}

Updated(row, changes) ==
    ClientRow(Set(row.status, changes.status), Set(row.contactedAt, changes.contactedAt),
              Set(row.toRecontactAt, changes.toRecontactAt),
              Set(row.hubspotId, changes.hubspotId))

\* An edit of a client that was deleted meanwhile fails.
UpdateWrites(r) ==
    /\ request[r].op = "write"
    /\ LET m == request[r] IN
       IF Exists(m.id)
       THEN /\ client' = [client EXCEPT ![m.id] = Updated(client[m.id], m.changes)]
            /\ Type(m.id, m.changes)
            /\ Remember(r, IF LogsStatus(m) THEN Edit("logStatus", m.id, m.before, m.changes)
                           ELSE IF LogsContact(m) THEN Edit("logContact", m.id, m.before, m.changes)
                           ELSE Idle)
       ELSE Remember(r, Idle) /\ UNCHANGED <<client, typed>>
    /\ UNCHANGED <<today, history, cron, raced>>

\* The administrator's editor writes the id at once and logs nothing; the rest
\* of what it writes the model leaves out.
AdminUpdate(c, hubspotId) ==
    /\ Exists(c)
    /\ client' = [client EXCEPT ![c].hubspotId = hubspotId]
    /\ typed' = typed \cup {c}
    /\ UNCHANGED <<today, history, request, cron, raced>>

\* The entry { from, to } after those a client has.
StatusChanged(story, from, to) ==
    IF story = Torn THEN Torn
    ELSE Tale(to, story.contactedAt, story.whole /\ story.status = from)

ContactedAtChanged(story, from, to) ==
    IF story = Torn THEN Torn
    ELSE Tale(story.status, to, story.whole /\ story.contactedAt = from)

\* The entries that were to be written for these clients are not.
Tear(clients) ==
    history' = [c \in Ids |-> IF c \in clients /\ Exists(c) THEN Torn ELSE history[c]]

UpdateLogsStatus(r) ==
    /\ request[r].op = "logStatus"
    /\ LET m == request[r] IN
       /\ Exists(m.id)
       /\ history' = [history EXCEPT ![m.id] =
              StatusChanged(history[m.id], m.before.status, m.changes.status)]
       /\ Remember(r, IF LogsContact(m) THEN Edit("logContact", m.id, m.before, m.changes)
                      ELSE Idle)
    /\ UNCHANGED <<today, client, cron, typed, raced>>

UpdateLogsContact(r) ==
    /\ request[r].op = "logContact"
    /\ LET m == request[r] IN
       /\ Exists(m.id)
       /\ history' = [history EXCEPT ![m.id] =
              ContactedAtChanged(history[m.id], m.before.contactedAt, m.changes.contactedAt)]
       /\ Remember(r, Idle)
    /\ UNCHANGED <<today, client, cron, typed, raced>>

\* The insert fails, and with it what follows; the edit itself stays.  It always
\* fails when the client was deleted.
UpdateFails(r) ==
    /\ request[r].op \in {"logStatus", "logContact"}
    /\ Tear({request[r].id})
    /\ Remember(r, Idle)
    /\ UNCHANGED <<today, client, cron, typed, raced>>

-----------------------------------------------------------------------------
(* promoteStaleFollowUps, every night *)

Before(date, cutoff) == date # None /\ date < cutoff

\* Mutant: one of the dates is before the cutoff.
IsStale_Either(row, cutoff) ==
    /\ row.status = "FOLLOW_UP_2"
    /\ Before(row.contactedAt, cutoff) \/ Before(row.toRecontactAt, cutoff)

\* Mutant: both dates are set and before the cutoff.
IsStale_Both(row, cutoff) ==
    /\ row.status = "FOLLOW_UP_2"
    /\ Before(row.contactedAt, cutoff)
    /\ Before(row.toRecontactAt, cutoff)

\* The newest of the two dates is before the cutoff: one is, none is after.
IsStale(row, cutoff) ==
    /\ row.status = "FOLLOW_UP_2"
    /\ Before(row.contactedAt, cutoff) \/ Before(row.toRecontactAt, cutoff)
    /\ row.contactedAt = None \/ Before(row.contactedAt, cutoff)
    /\ row.toRecontactAt = None \/ Before(row.toRecontactAt, cutoff)

FindStale == {c \in Ids : Exists(c) /\ IsStale(client[c], today - StaleDays)}

CronFinds ==
    /\ cron.at = "idle"
    /\ FindStale # {}
    /\ cron' = [at |-> "promote", stale |-> FindStale]
    /\ UNCHANGED <<today, client, history, request, typed, raced>>

\* The update goes by id alone.
CronPromotes ==
    /\ cron.at = "promote"
    /\ client' = [c \in Ids |->
           IF c \in cron.stale /\ Exists(c)
           THEN ClientRow("RECONTACT_LATER", client[c].contactedAt,
                          client[c].toRecontactAt, client[c].hubspotId)
           ELSE client[c]]
    /\ cron' = [at |-> "log", stale |-> cron.stale]
    /\ UNCHANGED <<today, history, request, typed, raced>>

\* One insert for all of them: it fails when one of the clients is gone.
CronLogs ==
    /\ cron.at = "log"
    /\ \A c \in cron.stale : Exists(c)
    /\ history' = [c \in Ids |->
           IF c \in cron.stale
           THEN StatusChanged(history[c], "FOLLOW_UP_2", "RECONTACT_LATER")
           ELSE history[c]]
    /\ cron' = [at |-> "idle", stale |-> {}]
    /\ UNCHANGED <<today, client, request, typed, raced>>

\* Whatever fails, the error is caught and the next night tries again.
CronFails ==
    /\ cron.at # "idle"
    /\ cron' = [at |-> "idle", stale |-> {}]
    /\ Tear(IF cron.at = "log" THEN cron.stale ELSE {})
    /\ UNCHANGED <<today, client, request, typed, raced>>

-----------------------------------------------------------------------------

NewDay ==
    /\ today < Horizon
    /\ today' = today + 1
    /\ UNCHANGED <<client, history, request, cron, typed, raced>>

Continue(r) ==
    \/ ImportCreates(r)
    \/ UpdateWrites(r)
    \/ UpdateLogsStatus(r)
    \/ UpdateLogsContact(r)
    \/ UpdateFails(r)

Cron == CronFinds \/ CronPromotes \/ CronLogs \/ CronFails

Next ==
    \/ NewDay
    \/ Cron
    \/ \E c \in Ids : Create(c) \/ AdminCreate(c) \/ Delete(c)
    \/ \E c \in Edited, k \in Contacts \cup {None} : AdminUpdate(c, k)
    \/ \E r \in Requests :
        \/ Continue(r)
        \/ \E k \in Contacts : ImportFromHubspot(r, k)
        \/ \E c \in Edited : UpdateReads(r, c)

Spec == Init /\ [][Next]_vars

Editing(r, c) ==
    request[r].op \in EditOps /\ request[r].id = c

\* Nobody edits a client that somebody else edits or that the cron has found.
\* Importing, deleting and the administrator know no such bound.
NoContention ==
    /\ \A r, s \in Requests :
        r # s => \A c \in Ids : ~(Editing(r, c) /\ Editing(s, c))
    /\ \A r \in Requests, c \in cron.stale : ~Editing(r, c)

\* Node runs whatever is ready; the cron runs every night, and not every one of
\* its runs fails.
Fairness ==
    /\ \A r \in Requests : WF_vars(Continue(r))
    /\ SF_vars(CronFinds)
    /\ SF_vars(CronPromotes)
    /\ WF_vars(CronLogs \/ CronFails)

ApartSpec == Init /\ [][Next /\ NoContention']_vars /\ Fairness

-----------------------------------------------------------------------------
(* Properties *)

Busy(c) == (\E r \in Requests : Editing(r, c)) \/ c \in cron.stale

\* The history of a client tells how it came to its status and its last contact
\* date: each entry starts where the one before it ended and the last one ends
\* at what is stored, unless an entry could not be written (update, logMany).
HistoryTells ==
    \A c \in Ids :
        Exists(c) /\ ~Busy(c) /\ history[c] # Torn =>
            history[c] = Tale(client[c].status, client[c].contactedAt, TRUE)

\* However often a contact is imported ("idempotent by hubspotId"), and whatever
\* clients are deleted or given other ids by hand meanwhile, importing it leaves
\* one client with its id, unless two imports were at it at once, which nothing
\* prevents (importFromHubspot).
OneClientPerContact ==
    \A c, d \in {i \in Ids : Exists(i)} \ typed :
        (client[c].hubspotId = client[d].hubspotId /\ client[c].hubspotId \notin raced \cup {None})
            => c = d

\* The date prospect waits count from: the newer of the two, if any.
NewestContactDate(row) ==
    IF row.contactedAt = None THEN row.toRecontactAt
    ELSE IF row.toRecontactAt = None THEN row.contactedAt
    ELSE IF row.contactedAt > row.toRecontactAt THEN row.contactedAt
    ELSE row.toRecontactAt

Stale(c) ==
    /\ Exists(c)
    /\ client[c].status = "FOLLOW_UP_2"
    /\ Before(NewestContactDate(client[c]), today - StaleDays)

\* The cron changes only prospects at FOLLOW_UP_2 whose wait, counted from the
\* date the board counts it from, is over when it writes (promoteClients).
PromotedWasStale ==
    [][\A c \in cron.stale :
          CronPromotes => client'[c] = client[c] \/ Stale(c)]_vars

\* A prospect at FOLLOW_UP_2 that waits too long does not stay there: some night
\* moves it on, however many runs fail (promoteStaleFollowUps).
StaleFollowUpMoves == \A c \in Ids : Stale(c) ~> ~Stale(c)

=============================================================================
