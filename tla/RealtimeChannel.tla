-------------------------- MODULE RealtimeChannel --------------------------
(***************************************************************************)
(* One key (one user) of the registry in realtime-channel-registry.ts: the *)
(* entry of its channels map, the event streams that sse-stream.util.ts    *)
(* writes from it, and the connection of its Redis subscriber.             *)
(*                                                                         *)
(* The registry is synchronous code of one Node process.  Between its      *)
(* steps come: browsers that connect and leave, Redis that processes the   *)
(* commands it is sent in order, replies and messages that are read in the *)
(* order Redis wrote them, and the reactions of the subscribe promises.  A *)
(* chunk read from the socket may hold a reply and the messages behind it: *)
(* these are handled before the promise of the reply reacts, but no other  *)
(* event of the process is.                                                *)
(*                                                                         *)
(* A subject stands for the channel object that was made with it.  A Redis *)
(* command is written as the state it asks for: SUBSCRIBE as the subject   *)
(* it was sent for, UNSUBSCRIBE as None.  An event carries the subject of  *)
(* the SUBSCRIBE under which Redis sent it.                                *)
(***************************************************************************)
EXTENDS Integers, Sequences, FiniteSets

CONSTANTS
    Clients,       \* browser connections of the user
    Subjects,      \* channel objects
    Gated,         \* which of opts.gated TRUE (timer), FALSE (auth) exist
    MaxSSE,        \* MAX_SSE_PER_USER of the gated registry
    MaxPending,    \* bound: commands unanswered when a channel is made
    MaxInbox,      \* bound: replies and messages waiting before a publish
    MaxRefusals,   \* bound: commands that Redis answers with an error
    MaxDrops,      \* bound: losses of the connection
    None           \* no channel, no subject

ASSUME ClientsAssumption == IsFiniteSet(Clients)
ASSUME GatedAssumption == Gated \subseteq BOOLEAN
ASSUME LimitAssumption == {MaxSSE, MaxPending, MaxInbox, MaxRefusals, MaxDrops} \subseteq Nat

VARIABLES
    gated,      \* opts.gated of this registry
    channel,    \* channels.get(key)
    stream,     \* the subject each open stream captured
    seen,       \* the last event written to it
    queue,      \* commandQueue of ioredis: sent, and the answer not read yet
    taken,      \* how many of them Redis has processed
    redis,      \* the subscription Redis holds for this connection
    inbox,      \* what Redis wrote and the process has not read
    acked,      \* the subscription ioredis restores after a reconnect
    settled,    \* subscribe promises that are settled and have not reacted
    refusals,   \* how many commands were refused
    drops,      \* how often the connection was lost
    destroyed   \* whether the module was destroyed

vars == <<gated, channel, stream, seen, queue, taken, redis, inbox, acked, settled,
          refusals, drops, destroyed>>
registry == <<gated, channel, stream, seen, destroyed>>
connection == <<taken, redis, inbox, acked, refusals, drops>>

ChannelStatus == {"subscribing", "active", "cleaning"}

Channel == [subject : Subjects, refCount : Nat, status : ChannelStatus]

ASSUME NoneAssumption == None \notin Subjects \cup Channel

Command == Subjects \cup {None}

Reading == [kind : {"ok", "refused"}, of : {None}]
           \cup [kind : {"event"}, of : Subjects]

Settlement == [subject : Subjects, ok : BOOLEAN]

TypeOK ==
    /\ gated \in Gated
    /\ channel \in Channel \cup {None}
    /\ stream \in [Clients -> Subjects \cup {None}]
    /\ seen \in [Clients -> Subjects \cup {None}]
    /\ queue \in Seq(Command)
    /\ taken \in 0..Len(queue)
    /\ redis \in Command
    /\ inbox \in Seq(Reading)
    /\ acked \in Command
    /\ settled \subseteq Settlement
    /\ refusals \in 0..MaxRefusals
    /\ drops \in 0..MaxDrops
    /\ destroyed \in BOOLEAN

Init ==
    /\ gated \in Gated
    /\ channel = None
    /\ stream = [c \in Clients |-> None]
    /\ seen = [c \in Clients |-> None]
    /\ queue = <<>>
    /\ taken = 0
    /\ redis = None
    /\ inbox = <<>>
    /\ acked = None
    /\ settled = {}
    /\ refusals = 0
    /\ drops = 0
    /\ destroyed = FALSE

-----------------------------------------------------------------------------
(* Channels and streams *)

Open == {c \in Clients : stream[c] # None}

Listeners(s) == {c \in Clients : stream[c] = s}

InMap(s) == channel # None /\ channel.subject = s

\* Objects that nothing refers to: a new one is none of those in use.
Unused ==
    {s \in Subjects :
        /\ ~InMap(s) /\ Listeners(s) = {}
        /\ redis # s /\ acked # s
        /\ \A k \in DOMAIN queue : queue[k] # s
        /\ \A k \in DOMAIN inbox : inbox[k].of # s
        /\ \A p \in settled : p.subject # s}

\* The channel object in the map, with these fields assigned.
Assigned(refCount, status) ==
    [subject |-> channel.subject, refCount |-> refCount, status |-> status]

Send(command) == queue' = Append(queue, command)

\* safeClose of these streams, as far as the streams themselves go.
CloseStreams(C) ==
    /\ stream' = [c \in Clients |-> IF c \in C THEN None ELSE stream[c]]
    /\ seen' = [c \in Clients |-> IF c \in C THEN None ELSE seen[c]]

\* Mutant: the key is deleted and Redis not told.
PerformCleanup_NoUnsubscribe ==
    /\ channel' = None
    /\ UNCHANGED queue

PerformCleanup ==
    /\ channel' = None
    /\ Send(None)

\* Mutant: the count goes down once more.
InitiateCleanup_Twice(n) ==
    \/ /\ ~gated \/ channel.status = "active"
       /\ PerformCleanup
    \/ /\ gated
       /\ channel.status # "active"
       /\ channel' = Assigned(channel.refCount - n - 1, "cleaning")
       /\ UNCHANGED queue

\* After n teardowns.  A subscribe still in flight finishes the cleanup when it
\* resolves.
InitiateCleanup(n) ==
    \/ /\ ~gated \/ channel.status = "active"
       /\ PerformCleanup
    \/ /\ gated
       /\ channel.status # "active"
       /\ channel' = Assigned(channel.refCount - n, "cleaning")
       /\ UNCHANGED queue

\* n streams of the channel in the map are torn down, one after the other.
Release(n) ==
    \/ /\ channel.refCount > n
       /\ channel' = Assigned(channel.refCount - n, channel.status)
       /\ UNCHANGED queue
    \/ /\ channel.refCount <= n
       /\ InitiateCleanup(n)

-----------------------------------------------------------------------------
(* Browsers *)

GetRefCount == IF channel = None THEN 0 ELSE channel.refCount

\* Only the timer's service has a limit.
BelowLimit == gated => GetRefCount < MaxSSE

Reusable == channel # None /\ ~(gated /\ channel.status = "cleaning")

\* Joins the channel in the map, or makes one and sends SUBSCRIBE.
Connect(c) ==
    /\ stream[c] = None
    /\ settled = {}
    /\ BelowLimit
    /\ \/ /\ Reusable
          /\ channel' = Assigned(channel.refCount + 1, channel.status)
          /\ stream' = [stream EXCEPT ![c] = channel.subject]
          /\ UNCHANGED queue
       \/ /\ ~Reusable
          /\ Len(queue) < MaxPending
          /\ \E s \in Unused :
               /\ channel' = [subject |-> s, refCount |-> 1, status |-> "subscribing"]
               /\ stream' = [stream EXCEPT ![c] = s]
               /\ Send(s)
    /\ UNCHANGED <<gated, seen, connection, settled, destroyed>>

\* The teardown of a superseded channel's stream leaves the map alone.
Close(c) ==
    /\ stream[c] # None
    /\ settled = {}
    /\ CloseStreams({c})
    /\ IF InMap(stream[c]) THEN Release(1) ELSE UNCHANGED <<channel, queue>>
    /\ UNCHANGED <<gated, connection, settled, destroyed>>

\* onModuleDestroy: completes the streams, whose teardown may still send
\* UNSUBSCRIBE, and clears the map.
Destroy ==
    /\ ~destroyed
    /\ settled = {}
    /\ destroyed' = TRUE
    /\ channel' = None
    /\ IF channel = None
         THEN UNCHANGED <<stream, seen, queue>>
         ELSE /\ CloseStreams(Listeners(channel.subject))
              /\ IF Listeners(channel.subject) # {} /\ (~gated \/ channel.status = "active")
                   THEN Send(None) ELSE UNCHANGED queue
    /\ UNCHANGED <<gated, connection, settled>>

-----------------------------------------------------------------------------
(* The connection to Redis *)

\* Redis processes the next command and answers it.
RedisAnswers(kind) ==
    /\ taken < Len(queue)
    /\ taken' = taken + 1
    /\ inbox' = Append(inbox, [kind |-> kind, of |-> None])

RedisAccepts ==
    /\ RedisAnswers("ok")
    /\ redis' = queue[taken + 1]
    /\ UNCHANGED <<registry, queue, acked, settled, refusals, drops>>

RedisRefuses ==
    /\ RedisAnswers("refused")
    /\ refusals < MaxRefusals
    /\ refusals' = refusals + 1
    /\ UNCHANGED <<registry, queue, redis, acked, settled, drops>>

\* Some process publishes an event of this user.
Publish ==
    /\ redis # None
    /\ Len(inbox) < MaxInbox
    /\ inbox' = Append(inbox, [kind |-> "event", of |-> redis])
    /\ UNCHANGED <<registry, queue, taken, redis, acked, settled, refusals, drops>>

\* Mutant: autoResubscribe is off.
Reconnect_NoResubscribe ==
    /\ drops < MaxDrops
    /\ drops' = drops + 1
    /\ redis' = None
    /\ taken' = 0
    /\ inbox' = <<>>
    /\ UNCHANGED <<registry, queue, acked, settled, refusals>>

\* The connection is lost and made again: autoResubscribe restores the
\* subscription ioredis knows of, then what was not answered is sent again.
Reconnect ==
    /\ drops < MaxDrops
    /\ drops' = drops + 1
    /\ redis' = acked
    /\ taken' = 0
    /\ inbox' = <<>>
    /\ UNCHANGED <<registry, queue, acked, settled, refusals>>

-----------------------------------------------------------------------------
(* Reading from the connection *)

\* A reply settles the promise of the oldest command that Redis processed;
\* nobody waits for that of an UNSUBSCRIBE.
ReadReply ==
    /\ inbox # <<>>
    /\ Head(inbox).kind # "event"
    /\ taken > 0
    /\ LET ok == Head(inbox).kind = "ok"
           command == Head(queue)
       IN  /\ acked' = IF ok THEN command ELSE acked
           /\ settled' = IF command = None THEN settled
                         ELSE settled \cup {[subject |-> command, ok |-> ok]}
    /\ queue' = Tail(queue)
    /\ taken' = taken - 1
    /\ inbox' = Tail(inbox)
    /\ UNCHANGED <<registry, redis, refusals, drops>>

\* Mutant: a gated channel delivers before it is active.
Deliverable_Early == channel # None

Deliverable == channel # None /\ (gated => channel.status = "active")

\* The message handler.  A stream that cannot be written to is closed.
ReadEvent ==
    /\ inbox # <<>>
    /\ Head(inbox).kind = "event"
    /\ inbox' = Tail(inbox)
    /\ \/ /\ ~Deliverable
          /\ UNCHANGED <<channel, stream, seen, queue>>
       \/ /\ Deliverable
          /\ \E broken \in SUBSET Listeners(channel.subject) :
               /\ stream' = [c \in Clients |-> IF c \in broken THEN None ELSE stream[c]]
               /\ seen' = [c \in Clients |->
                              IF c \in broken THEN None
                              ELSE IF stream[c] = channel.subject THEN Head(inbox).of
                              ELSE seen[c]]
               /\ IF broken = {} THEN UNCHANGED <<channel, queue>>
                                 ELSE Release(Cardinality(broken))
    /\ UNCHANGED <<gated, taken, redis, acked, settled, refusals, drops, destroyed>>

-----------------------------------------------------------------------------
(* Reactions of the subscribe promises *)

\* Mutant: no test for a superseded channel, which still is in cleaning.
SubscribeResolved_Superseded(p) ==
    /\ p \in settled /\ p.ok
    /\ settled' = settled \ {p}
    /\ \/ /\ channel = None
          /\ UNCHANGED <<channel, queue>>
       \/ /\ channel # None
          /\ gated /\ (InMap(p.subject) => channel.status = "cleaning")
          /\ PerformCleanup
       \/ /\ channel # None
          /\ gated => (InMap(p.subject) /\ channel.status # "cleaning")
          /\ channel' = Assigned(channel.refCount, "active")
          /\ UNCHANGED queue
    /\ UNCHANGED <<gated, stream, seen, connection, destroyed>>

\* Mutant: a channel that lost its last stream meanwhile is left in the map.
SubscribeResolved_NoCleanup(p) ==
    /\ p \in settled /\ p.ok
    /\ settled' = settled \ {p}
    /\ IF InMap(p.subject) /\ channel.status # "cleaning"
         THEN channel' = Assigned(channel.refCount, "active")
         ELSE UNCHANGED channel
    /\ UNCHANGED <<gated, stream, seen, queue, connection, destroyed>>

\* .then: a superseded channel is left alone; one that lost its last stream
\* meanwhile is cleaned up now.
SubscribeResolved(p) ==
    /\ p \in settled /\ p.ok
    /\ settled' = settled \ {p}
    /\ \/ /\ ~InMap(p.subject)
          /\ UNCHANGED <<channel, queue>>
       \/ /\ InMap(p.subject)
          /\ gated /\ channel.status = "cleaning"
          /\ PerformCleanup
       \/ /\ InMap(p.subject)
          /\ ~(gated /\ channel.status = "cleaning")
          /\ channel' = Assigned(channel.refCount, "active")
          /\ UNCHANGED queue
    /\ UNCHANGED <<gated, stream, seen, connection, destroyed>>

\* Mutant: the streams of the failed channel are not told.
SubscribeRejected_Silent(p) ==
    /\ p \in settled /\ ~p.ok
    /\ settled' = settled \ {p}
    /\ channel' = IF gated /\ InMap(p.subject) THEN None ELSE channel
    /\ UNCHANGED <<gated, stream, seen, queue, connection, destroyed>>

\* .catch: a gated channel ends its streams with an error and leaves the map;
\* an ungated one is kept.
SubscribeRejected(p) ==
    /\ p \in settled /\ ~p.ok
    /\ settled' = settled \ {p}
    /\ IF gated /\ InMap(p.subject)
         THEN channel' = None /\ CloseStreams(Listeners(p.subject))
         ELSE UNCHANGED <<channel, stream, seen>>
    /\ UNCHANGED <<gated, queue, connection, destroyed>>

React == \E p \in settled : SubscribeResolved(p) \/ SubscribeRejected(p)

Next ==
    \/ \E c \in Clients : Connect(c) \/ Close(c)
    \/ Destroy
    \/ RedisAccepts \/ RedisRefuses \/ Publish \/ Reconnect
    \/ ReadReply \/ ReadEvent
    \/ React

Spec == Init /\ [][Next]_vars

\* Redis answers, the process reads what it wrote, promises react.  Nothing
\* is assumed of browsers, publishers or the loss of connections.
Fairness ==
    /\ WF_vars(RedisAccepts)
    /\ WF_vars(ReadReply \/ ReadEvent)
    /\ WF_vars(React)

FairSpec == Spec /\ Fairness

-----------------------------------------------------------------------------
(* Properties *)

\* However connects, closes and late subscribe replies interleave, every open
\* stream listens to the channel in the map, and the reference count of that
\* channel is the number of its streams, within the limit of the timer: no
\* stream is orphaned by the cleanup of a superseded channel, and none is
\* counted twice or forgotten.  Only a channel being cleaned up has no stream.
StreamsOnChannel ==
    /\ \A c \in Open : InMap(stream[c])
    /\ channel # None =>
         /\ channel.refCount = Cardinality(Listeners(channel.subject))
         /\ channel.refCount = 0 <=> gated /\ channel.status = "cleaning"
         /\ gated => channel.refCount <= MaxSSE

\* A gated channel that is active is really subscribed: no UNSUBSCRIBE of an
\* earlier channel is still ahead, also after a lost connection.
ActiveIsSubscribed ==
    (gated /\ channel # None /\ channel.status = "active")
        => redis = channel.subject /\ queue = <<>>

\* A gated stream never gets an event that was published before the SUBSCRIBE
\* of its own channel took effect, such as one left over from the channel that
\* the user's previous page had (the status test of the message handler).
NoStaleEvent ==
    gated => \A c \in Clients : seen[c] # None => seen[c] = stream[c]

Quiet == queue = <<>> /\ settled = {}

\* Once everything in flight has been answered, Redis is subscribed exactly
\* while the map has the channel: nothing leaks and no channel is dead.  Not
\* so after an error reply, nor after the module was destroyed.
SubscriptionAgrees ==
    (Quiet /\ refusals = 0 /\ ~destroyed)
        => redis = IF channel = None THEN None ELSE channel.subject

InTransit(s) == gated /\ InMap(s) /\ channel.status # "active"

\* No gated channel stays between subscribing and active, or in cleaning: a
\* waiting stream goes live or is closed, and a cleanup comes to an end.
TransitEnds == \A s \in Subjects : InTransit(s) ~> ~InTransit(s)

\* What a browser can tell of its stream.
Live(c) == Deliverable /\ InMap(stream[c])

Conn == [c \in Clients |-> IF stream[c] = None THEN "closed"
                           ELSE IF Live(c) THEN "live" ELSE "waiting"]

Hub == INSTANCE StreamHub WITH Events <- Subjects, conn <- Conn

\* The registry keeps the promise of StreamHub: the streams of a user go live
\* together and stay so, an event reaches all of them or closes those it cannot
\* reach, and no step writes to a stream that is closed or waiting.
KeepsPromise == Hub!HubSpec

=============================================================================
