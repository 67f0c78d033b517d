--------------------------- MODULE RealtimeProofs ---------------------------
(***************************************************************************)
(* What holds of RealtimeChannel for every number of browsers, channel     *)
(* objects, commands in flight, refusals and lost connections, and for     *)
(* both kinds of registry.                                                 *)
(***************************************************************************)
EXTENDS RealtimeChannel, FiniteSetTheorems, TLAPS

(* The variables of the connection keep their types whatever is done with
   them; those of the registry need the reference count to be right, so the
   inductive invariant is both. *)
RegistryInv == TypeOK /\ StreamsOnChannel

ConnectionType ==
    /\ queue \in Seq(Command)
    /\ taken \in 0..Len(queue)
    /\ redis \in Command
    /\ inbox \in Seq(Reading)
    /\ acked \in Command
    /\ settled \subseteq Settlement
    /\ refusals \in 0..MaxRefusals
    /\ drops \in 0..MaxDrops

RegistryType ==
    /\ gated \in Gated
    /\ channel \in Channel \cup {None}
    /\ stream \in [Clients -> Subjects \cup {None}]
    /\ seen \in [Clients -> Subjects \cup {None}]
    /\ destroyed \in BOOLEAN

LEMMA TypeSplit == TypeOK <=> RegistryType /\ ConnectionType
  BY DEF TypeOK, RegistryType, ConnectionType

(* The streams of a channel are finitely many. *)
LEMMA ListenersFinite ==
  ASSUME NEW s
  PROVE  /\ IsFiniteSet(Listeners(s))
         /\ Cardinality(Listeners(s)) \in Nat
         /\ Cardinality(Listeners(s)) = 0 <=> Listeners(s) = {}
  BY ClientsAssumption, FS_Subset, FS_CardinalityType, FS_EmptySet DEF Listeners

(* Sending a command keeps the queue a queue of commands. *)
LEMMA SendType ==
  ASSUME queue \in Seq(Command), taken \in 0..Len(queue), NEW c \in Command,
         Send(c), taken' = taken
  PROVE  queue' \in Seq(Command) /\ taken' \in 0..Len(queue')
  BY DEF Send

(* Without a channel nothing is open; with streams on it, all of them are on
   the channel in the map. *)
LEMMA OpenIsListening ==
  ASSUME RegistryInv
  PROVE  /\ channel = None => Open = {}
         /\ channel # None => /\ Open = Listeners(channel.subject)
                              /\ channel \in Channel
                              /\ channel.subject \in Subjects
                              /\ channel.subject # None
  BY NoneAssumption DEF RegistryInv, TypeOK, StreamsOnChannel, Open, Listeners, InMap, Channel

(* Tearing down streams of the channel in the map leaves the count right:
   the channel that loses its last stream is deleted or marked. *)
LEMMA ReleaseKeeps ==
  ASSUME RegistryInv, channel # None, NEW C \in SUBSET Listeners(channel.subject),
         C # {}, Release(Cardinality(C)), gated' = gated, taken' = taken,
         stream' = [c \in Clients |-> IF c \in C THEN None ELSE stream[c]]
  PROVE  /\ StreamsOnChannel'
         /\ channel' \in Channel \cup {None}
         /\ stream' \in [Clients -> Subjects \cup {None}]
         /\ queue' \in Seq(Command) /\ taken' \in 0..Len(queue')
<1> DEFINE L == Listeners(channel.subject)
           n == Cardinality(C)
<1>1. /\ IsFiniteSet(L) /\ Cardinality(L) \in Nat
      /\ IsFiniteSet(C) /\ n \in Nat /\ n # 0 /\ n <= Cardinality(L)
      /\ n = Cardinality(L) => C = L
  BY ListenersFinite, FS_Subset, FS_CardinalityType, FS_EmptySet
<1>2. /\ channel \in Channel /\ channel.subject \in Subjects /\ channel.subject # None
      /\ Open = L /\ channel.refCount = Cardinality(L)
  BY OpenIsListening DEF RegistryInv, StreamsOnChannel
<1>3. stream' \in [Clients -> Subjects \cup {None}]
  BY DEF RegistryInv, TypeOK
<1>4. /\ queue \in Seq(Command) /\ taken \in 0..Len(queue)
      /\ channel.status \in ChannelStatus /\ gated \in BOOLEAN
      /\ gated => channel.refCount <= MaxSSE
      /\ channel.refCount = 0 <=> gated /\ channel.status = "cleaning"
      /\ stream \in [Clients -> Subjects \cup {None}]
  BY <1>2, GatedAssumption DEF RegistryInv, TypeOK, Channel, StreamsOnChannel
<1>5. Open' = L \ C
  BY <1>2, <1>4 DEF Open, Listeners
<1>6. CASE channel.refCount > n
  <2>1. /\ channel' = Assigned(channel.refCount - n, channel.status)
        /\ queue' = queue
    BY <1>1, <1>2, <1>6 DEF Release
  <2>2. /\ channel' \in Channel /\ channel'.subject = channel.subject
        /\ channel'.refCount = channel.refCount - n /\ channel'.status = channel.status
    BY <1>1, <1>2, <1>4, <1>6, <2>1 DEF Assigned, Channel
  <2>3. Listeners(channel.subject)' = L \ C
    BY <1>2, <1>4, <2>2 DEF Listeners
  <2>4. Cardinality(L \ C) = Cardinality(L) - n
    <3>1. L \cap C = C
      OBVIOUS
    <3>2. IsFiniteSet(L)
      BY <1>1
    <3> HIDE DEF L
    <3>3. Cardinality(L \ C) = Cardinality(L) - Cardinality(L \cap C)
      BY <3>2, FS_Difference
    <3> QED
      BY <3>1, <3>3
  <2>5. channel'.refCount = Cardinality(Listeners(channel.subject)')
    BY <1>2, <2>2, <2>3, <2>4
  <2>6. \A c \in Open' : InMap(stream[c])'
    BY <1>5, <1>4, <1>2, <2>2, NoneAssumption DEF InMap, Listeners
  <2>7. /\ channel'.refCount # 0
        /\ gated => channel'.refCount <= MaxSSE
    BY <1>1, <1>2, <1>4, <1>6, <2>2, LimitAssumption
  <2>8. StreamsOnChannel'
    <3>1. (channel.refCount = Cardinality(Listeners(channel.subject)))'
      BY <2>2, <2>5
    <3>2. (channel.refCount = 0 <=> gated /\ channel.status = "cleaning")'
      BY <1>1, <1>2, <1>4, <1>6, <2>2, <2>7
    <3> QED
      BY <2>6, <2>7, <3>1, <3>2 DEF StreamsOnChannel
  <2> QED
    BY <1>3, <1>4, <2>1, <2>2, <2>8
<1>7. CASE ~(channel.refCount > n)
  <2>1. C = L /\ n = channel.refCount /\ Open' = {}
    BY <1>1, <1>2, <1>5, <1>7
  <2>2. InitiateCleanup(n)
    BY <1>1, <1>2, <1>7 DEF Release
  <2>3. CASE ~gated \/ channel.status = "active"
    <3>1. channel' = None /\ Send(None)
      BY <2>2, <2>3 DEF InitiateCleanup, PerformCleanup
    <3> QED
      BY <1>3, <1>4, <2>1, <3>1, SendType DEF StreamsOnChannel, Command
  <2>4. CASE gated /\ channel.status # "active"
    <3>1. channel' = Assigned(channel.refCount - n, "cleaning") /\ queue' = queue
      BY <2>2, <2>4 DEF InitiateCleanup
    <3>2. /\ channel' \in Channel /\ channel'.subject = channel.subject
          /\ channel'.refCount = 0 /\ channel'.status = "cleaning"
      BY <1>1, <1>2, <2>1, <3>1 DEF Assigned, Channel, ChannelStatus
    <3>3. Listeners(channel.subject)' = {}
      BY <1>2, <2>1, <3>2 DEF Listeners, Open
    <3>4. Cardinality({}) = 0
      BY FS_EmptySet
    <3>5. StreamsOnChannel'
      <4>1. (channel.refCount = Cardinality(Listeners(channel.subject)))'
        BY <3>2, <3>3, <3>4
      <4> QED
        BY <2>1, <2>4, <3>2, <4>1, LimitAssumption DEF StreamsOnChannel
    <3> QED
      BY <1>3, <1>4, <3>1, <3>2, <3>5
  <2> QED
    BY <2>3, <2>4, <1>4
<1> QED
  BY <1>6, <1>7, <1>1, <1>2

(* Steps that leave channel and streams alone keep them consistent. *)
LEMMA FrameKeeps ==
  ASSUME RegistryInv, UNCHANGED <<gated, channel, stream>>
  PROVE  StreamsOnChannel'
<1>1. \A s : Listeners(s)' = Listeners(s)
  BY DEF Listeners
<1>2. Open' = Open /\ (\A s : InMap(s)' = InMap(s))
  BY DEF Open, InMap
<1>3. channel # None => Listeners(channel.subject)' = Listeners(channel.subject)
  BY DEF Listeners
<1> QED
  BY <1>2, <1>3 DEF RegistryInv, StreamsOnChannel, InMap

(* When every stream closes and the channel goes, nothing is left to count. *)
LEMMA EmptyKeeps ==
  ASSUME channel' = None, \A c \in Clients : stream'[c] = None
  PROVE  StreamsOnChannel'
  BY DEF StreamsOnChannel, Open

LEMMA ConnectKeeps ==
  ASSUME RegistryInv, NEW c \in Clients, Connect(c)
  PROVE  RegistryInv'
<1> USE DEF RegistryInv
<1>1. /\ channel = None => Open = {}
      /\ channel # None => /\ Open = Listeners(channel.subject)
                           /\ channel \in Channel
                           /\ channel.subject \in Subjects
                           /\ channel.subject # None
  BY OpenIsListening
<1>2. /\ queue \in Seq(Command) /\ taken \in 0..Len(queue) /\ gated \in BOOLEAN
      /\ stream \in [Clients -> Subjects \cup {None}] /\ MaxSSE \in Nat
  BY GatedAssumption, LimitAssumption DEF TypeOK
<1>3. CASE Reusable
  <2> DEFINE L == Listeners(channel.subject)
  <2>1. /\ channel # None /\ channel \in Channel /\ channel.subject \in Subjects
        /\ channel.refCount = Cardinality(L) /\ channel.refCount \in Nat
        /\ ~(gated /\ channel.status = "cleaning")
        /\ channel.status \in ChannelStatus
        /\ gated => channel.refCount < MaxSSE
    BY <1>1, <1>3 DEF Reusable, StreamsOnChannel, Connect, BelowLimit, GetRefCount, Channel
  <2>2. /\ channel' = Assigned(channel.refCount + 1, channel.status)
        /\ stream' = [stream EXCEPT ![c] = channel.subject]
        /\ UNCHANGED <<queue, gated, seen, connection, settled, destroyed>>
        /\ stream[c] = None
    BY <1>3 DEF Connect
  <2>3. /\ channel' \in Channel /\ channel'.subject = channel.subject
        /\ channel'.refCount = channel.refCount + 1 /\ channel'.status = channel.status
    BY <2>1, <2>2 DEF Assigned, Channel
  <2>4. /\ L' = L \cup {c}
        /\ c \notin L
    BY <1>1, <1>2, <2>1, <2>2, <2>3 DEF Listeners
  <2>5. Cardinality(L \cup {c}) = Cardinality(L) + 1
    BY <2>4, ListenersFinite, FS_AddElement
  <2>6. (channel.refCount = Cardinality(Listeners(channel.subject)))'
    BY <2>1, <2>3, <2>4, <2>5
  <2>7. \A d \in Open' : InMap(stream[d])'
    BY <1>1, <1>2, <2>1, <2>2, <2>3, NoneAssumption DEF Open, InMap, Listeners
  <2>8. StreamsOnChannel'
    <3>1. gated' = gated /\ channel'.refCount # 0 /\ (gated => channel'.refCount <= MaxSSE)
      BY <1>2, <2>1, <2>2, <2>3
    <3> QED
      BY <2>1, <2>3, <2>6, <2>7, <3>1 DEF StreamsOnChannel
  <2> QED
    BY <1>2, <2>1, <2>2, <2>3, <2>8 DEF TypeOK, connection
<1>4. CASE ~Reusable
  <2>1. PICK s \in Unused :
          /\ channel' = [subject |-> s, refCount |-> 1, status |-> "subscribing"]
          /\ stream' = [stream EXCEPT ![c] = s]
          /\ Send(s)
    BY <1>4 DEF Connect
  <2>2. s \in Subjects /\ s # None
    BY NoneAssumption DEF Unused
  <2>3. Open = {}
    <3>1. CASE channel = None
      BY <3>1, <1>1
    <3>2. CASE channel # None
      <4>1. Cardinality(Listeners(channel.subject)) = 0
        BY <3>2, <1>4 DEF Reusable, StreamsOnChannel
      <4> QED
        BY <3>2, <4>1, <1>1, ListenersFinite
    <3> QED
      BY <3>1, <3>2
  <2>4. channel' \in Channel /\ channel' # None /\ channel'.subject = s
        /\ channel'.refCount = 1 /\ channel'.status = "subscribing"
    BY <2>1, <2>2, NoneAssumption DEF Channel, ChannelStatus
  <2>5. Listeners(channel.subject)' = {c}
    BY <1>2, <2>1, <2>2, <2>3, <2>4 DEF Listeners, Open
  <2>6. Cardinality({c}) = 1
    BY FS_Singleton
  <2>7. (channel.refCount = Cardinality(Listeners(channel.subject)))'
    BY <2>4, <2>5, <2>6
  <2>8. \A d \in Open' : InMap(stream[d])'
    BY <1>2, <2>1, <2>3, <2>4 DEF Open, InMap
  <2>9. gated' = gated /\ (gated => 1 <= MaxSSE)
    <3>1. GetRefCount \in Nat
      BY <1>1 DEF GetRefCount, Channel
    <3> QED
      BY <1>2, <3>1 DEF Connect, BelowLimit
  <2>10. StreamsOnChannel'
    BY <1>2, <2>4, <2>7, <2>8, <2>9 DEF StreamsOnChannel
  <2>11. queue' \in Seq(Command) /\ taken' \in 0..Len(queue')
    BY <1>2, <2>1, <2>2, SendType DEF Connect, connection, Command
  <2> QED
    BY <1>2, <2>1, <2>2, <2>4, <2>10, <2>11 DEF TypeOK, Connect, connection
<1> QED
  BY <1>3, <1>4

(* The invariant is inductive. *)
LEMMA RegistryStep == RegistryInv /\ [Next]_vars => RegistryInv'
<1> SUFFICES ASSUME RegistryInv, [Next]_vars PROVE RegistryInv'
  OBVIOUS
<1>0. /\ TypeOK /\ StreamsOnChannel /\ gated \in BOOLEAN
      /\ queue \in Seq(Command) /\ taken \in 0..Len(queue)
      /\ inbox \in Seq(Reading) /\ Len(inbox) \in Nat /\ Len(queue) \in Nat
  BY GatedAssumption DEF RegistryInv, TypeOK
<1>a. /\ channel = None => Open = {}
      /\ channel # None => /\ Open = Listeners(channel.subject)
                           /\ channel \in Channel
                           /\ channel.subject \in Subjects
                           /\ channel.subject # None
  BY OpenIsListening
<1>b. ASSUME inbox # <<>> PROVE Head(inbox) \in Reading /\ Tail(inbox) \in Seq(Reading)
  BY <1>0, <1>b
<1>1. CASE UNCHANGED vars
  BY <1>0, <1>1, FrameKeeps DEF vars, RegistryInv, TypeOK
<1>2. ASSUME NEW c \in Clients, Connect(c) PROVE RegistryInv'
  BY <1>2, ConnectKeeps
<1>3. ASSUME NEW c \in Clients, Close(c) PROVE RegistryInv'
  <2>1. InMap(stream[c]) /\ c \in Listeners(channel.subject)
    BY <1>0, <1>3 DEF Close, StreamsOnChannel, Open, InMap, Listeners
  <2>2. Cardinality({c}) = 1
    BY FS_Singleton
  <2>3. Release(Cardinality({c})) /\ channel # None
    BY <1>3, <2>1, <2>2 DEF Close, InMap
  <2>4. /\ stream' = [d \in Clients |-> IF d \in {c} THEN None ELSE stream[d]]
        /\ gated' = gated /\ taken' = taken
    BY <1>3 DEF Close, CloseStreams, connection
  <2>5. /\ StreamsOnChannel'
        /\ channel' \in Channel \cup {None}
        /\ stream' \in [Clients -> Subjects \cup {None}]
        /\ queue' \in Seq(Command) /\ taken' \in 0..Len(queue')
    BY <2>1, <2>3, <2>4, ReleaseKeeps
  <2>6. seen' \in [Clients -> Subjects \cup {None}]
    BY <1>0, <1>3 DEF Close, CloseStreams, TypeOK
  <2> QED
    BY <1>0, <1>3, <2>5, <2>6 DEF Close, connection, TypeOK, RegistryInv
<1>4. CASE Destroy
  <2>1. \A c \in Clients : stream'[c] = None
    <3>1. CASE channel = None
      BY <1>4, <1>a, <3>1 DEF Destroy, Open
    <3>2. CASE channel # None
      BY <1>4, <1>a, <3>2 DEF Destroy, CloseStreams, Open
    <3> QED
      BY <3>1, <3>2
  <2>2. StreamsOnChannel'
    BY <1>4, <2>1, EmptyKeeps DEF Destroy
  <2>3. queue' \in Seq(Command) /\ taken' \in 0..Len(queue')
    <3>1. None \in Command
      BY DEF Command
    <3> QED
      BY <1>0, <1>4, <3>1, SendType DEF Destroy, connection
  <2>4. /\ stream' \in [Clients -> Subjects \cup {None}]
        /\ seen' \in [Clients -> Subjects \cup {None}]
    BY <1>0, <1>4 DEF Destroy, CloseStreams, TypeOK
  <2> QED
    BY <1>0, <1>4, <2>2, <2>3, <2>4 DEF Destroy, connection, TypeOK, RegistryInv
<1>5. CASE RedisAccepts \/ RedisRefuses
  <2>1. PICK kind \in {"ok", "refused"} : RedisAnswers(kind)
    BY <1>5 DEF RedisAccepts, RedisRefuses
  <2>2. [kind |-> kind, of |-> None] \in Reading
    BY DEF Reading
  <2>3. inbox' \in Seq(Reading) /\ taken + 1 \in 1..Len(queue) /\ taken' = taken + 1
    BY <1>0, <2>1, <2>2 DEF RedisAnswers
  <2>4. queue[taken + 1] \in Command
    BY <1>0, <2>3
  <2>5. redis' \in Command /\ refusals' \in 0..MaxRefusals
    BY <1>0, <1>5, <2>4, LimitAssumption DEF RedisAccepts, RedisRefuses, TypeOK
  <2>6. UNCHANGED <<registry, queue, acked, settled, drops>>
    BY <1>5 DEF RedisAccepts, RedisRefuses
  <2>7. StreamsOnChannel'
    BY <2>6, FrameKeeps DEF registry
  <2> QED
    BY <1>0, <2>3, <2>5, <2>6, <2>7 DEF TypeOK, RegistryInv, registry
<1>6. CASE Publish
  <2>1. [kind |-> "event", of |-> redis] \in Reading
    BY <1>0, <1>6 DEF Publish, Reading, TypeOK, Command
  <2>2. inbox' \in Seq(Reading)
    BY <1>0, <1>6, <2>1 DEF Publish
  <2> QED
    BY <1>0, <1>6, <2>2, FrameKeeps DEF Publish, TypeOK, RegistryInv, registry
<1>7. CASE Reconnect
  <2>1. /\ taken' \in 0..Len(queue') /\ inbox' \in Seq(Reading) /\ drops' \in 0..MaxDrops
    BY <1>0, <1>7, LimitAssumption DEF Reconnect, TypeOK
  <2> QED
    BY <1>0, <1>7, <2>1, FrameKeeps DEF Reconnect, TypeOK, RegistryInv, registry
<1>8. CASE ReadReply
  <2> DEFINE command == Head(queue)
             ok == Head(inbox).kind = "ok"
  <2>1. queue # <<>> /\ taken > 0
    BY <1>0, <1>8 DEF ReadReply
  <2>2. command \in Command /\ Tail(queue) \in Seq(Command) /\ Len(Tail(queue)) = Len(queue) - 1
    BY <1>0, <2>1
  <2>3. taken - 1 \in 0..Len(Tail(queue))
    BY <1>0, <2>1, <2>2
  <2>4. acked' \in Command
    BY <1>0, <1>8, <2>2 DEF ReadReply, TypeOK
  <2>5. settled' \subseteq Settlement
    <3>1. CASE command = None
      BY <1>0, <1>8, <3>1 DEF ReadReply, TypeOK
    <3>2. CASE command # None
      <4>1. settled' = settled \cup {[subject |-> command, ok |-> ok]}
        BY <1>8, <3>2 DEF ReadReply
      <4>2. command \in Subjects /\ ok \in BOOLEAN
        BY <2>2, <3>2 DEF Command
      <4>3. [subject |-> command, ok |-> ok] \in Settlement
        BY <4>2 DEF Settlement
      <4> QED
        BY <1>0, <4>1, <4>3 DEF TypeOK
    <3> QED
      BY <3>1, <3>2
  <2>6. inbox' \in Seq(Reading) /\ queue' = Tail(queue) /\ taken' = taken - 1
    BY <1>8, <1>b DEF ReadReply
  <2>7. UNCHANGED <<registry, redis, refusals, drops>>
    BY <1>8 DEF ReadReply
  <2>8. StreamsOnChannel'
    BY <2>7, FrameKeeps DEF registry
  <2> QED
    BY <1>0, <2>2, <2>3, <2>4, <2>5, <2>6, <2>7, <2>8 DEF TypeOK, RegistryInv, registry
<1>9. CASE ReadEvent
  <2>1. /\ Head(inbox) \in Reading /\ Head(inbox).kind = "event"
        /\ inbox' \in Seq(Reading)
    BY <1>9, <1>b DEF ReadEvent
  <2>2. Head(inbox).of \in Subjects
    BY <2>1 DEF Reading
  <2>3. UNCHANGED <<gated, taken, redis, acked, settled, refusals, drops, destroyed>>
    BY <1>9 DEF ReadEvent
  <2>4. CASE UNCHANGED <<channel, stream, seen, queue>>
    BY <1>0, <2>1, <2>3, <2>4, FrameKeeps DEF TypeOK, RegistryInv
  <2>5. CASE ~UNCHANGED <<channel, stream, seen, queue>>
    <3>0. Deliverable
      BY <1>9, <2>5 DEF ReadEvent
    <3>1. PICK broken \in SUBSET Listeners(channel.subject) :
            /\ stream' = [c \in Clients |-> IF c \in broken THEN None ELSE stream[c]]
            /\ seen' = [c \in Clients |->
                           IF c \in broken THEN None
                           ELSE IF stream[c] = channel.subject THEN Head(inbox).of
                           ELSE seen[c]]
            /\ IF broken = {} THEN UNCHANGED <<channel, queue>>
                              ELSE Release(Cardinality(broken))
      BY <1>9, <2>5 DEF ReadEvent
    <3>2. seen' \in [Clients -> Subjects \cup {None}]
      BY <1>0, <2>2, <3>1 DEF TypeOK
    <3>3. CASE broken = {}
      <4>1. stream' = stream
        BY <1>0, <3>1, <3>3 DEF TypeOK
      <4> QED
        BY <1>0, <2>1, <2>3, <3>1, <3>2, <3>3, <4>1, FrameKeeps DEF TypeOK, RegistryInv
    <3>4. CASE broken # {}
      <4>1. /\ StreamsOnChannel'
            /\ channel' \in Channel \cup {None}
            /\ stream' \in [Clients -> Subjects \cup {None}]
            /\ queue' \in Seq(Command) /\ taken' \in 0..Len(queue')
        BY <2>3, <3>0, <3>1, <3>4, ReleaseKeeps DEF Deliverable
      <4> QED
        BY <1>0, <2>1, <2>3, <3>2, <4>1 DEF TypeOK, RegistryInv
    <3> QED
      BY <3>3, <3>4
  <2> QED
    BY <2>4, <2>5
<1>10. ASSUME NEW p \in settled, SubscribeResolved(p) PROVE RegistryInv'
  <2>1. /\ UNCHANGED <<gated, stream, seen, taken, redis, inbox, acked, refusals, drops, destroyed>>
        /\ settled' \subseteq Settlement
    BY <1>0, <1>10 DEF SubscribeResolved, connection, TypeOK
  <2>2. CASE UNCHANGED <<channel, queue>>
    BY <1>0, <2>1, <2>2, FrameKeeps DEF TypeOK, RegistryInv
  <2>3. CASE InMap(p.subject) /\ gated /\ channel.status = "cleaning" /\ PerformCleanup
    <3>1. channel # None /\ channel.refCount = 0
      BY <1>0, <2>3 DEF InMap, StreamsOnChannel
    <3>2. Listeners(channel.subject) = {}
      BY <1>0, <3>1, ListenersFinite DEF StreamsOnChannel
    <3>3. \A c \in Clients : stream'[c] = None
      BY <1>a, <2>1, <3>1, <3>2 DEF Open
    <3>4. queue' \in Seq(Command) /\ taken' \in 0..Len(queue') /\ channel' = None
      BY <1>0, <2>1, <2>3, SendType DEF PerformCleanup, Command
    <3>5. StreamsOnChannel'
      BY <3>3, <3>4, EmptyKeeps
    <3> QED
      BY <1>0, <2>1, <3>4, <3>5 DEF TypeOK, RegistryInv
  <2>4. CASE /\ InMap(p.subject) /\ ~(gated /\ channel.status = "cleaning")
             /\ channel' = Assigned(channel.refCount, "active") /\ queue' = queue
    <3>1. /\ channel # None /\ channel \in Channel /\ channel.subject \in Subjects
          /\ channel.refCount # 0
      BY <1>0, <1>a, <2>4 DEF InMap, StreamsOnChannel
    <3>2. /\ channel' \in Channel /\ channel'.subject = channel.subject
          /\ channel'.refCount = channel.refCount /\ channel'.status = "active"
      BY <2>4, <3>1 DEF Assigned, Channel, ChannelStatus
    <3>3. Listeners(channel.subject)' = Listeners(channel.subject)
      BY <2>1, <3>2 DEF Listeners
    <3>4. \A c \in Open' : InMap(stream[c])'
      BY <1>0, <2>1, <3>1, <3>2, NoneAssumption DEF Open, InMap, StreamsOnChannel
    <3>5. (channel.refCount = Cardinality(Listeners(channel.subject)))'
      BY <1>0, <3>1, <3>2, <3>3 DEF StreamsOnChannel
    <3>6. gated => channel'.refCount <= MaxSSE
      BY <1>0, <3>1, <3>2 DEF StreamsOnChannel
    <3>7. StreamsOnChannel'
      BY <2>1, <3>1, <3>2, <3>4, <3>5, <3>6 DEF StreamsOnChannel
    <3> QED
      BY <1>0, <2>1, <2>4, <3>2, <3>7 DEF TypeOK, RegistryInv
  <2> QED
    BY <1>10, <2>2, <2>3, <2>4 DEF SubscribeResolved
<1>11. ASSUME NEW p \in settled, SubscribeRejected(p) PROVE RegistryInv'
  <2>1. /\ UNCHANGED <<gated, queue, taken, redis, inbox, acked, refusals, drops, destroyed>>
        /\ settled' \subseteq Settlement
    BY <1>0, <1>11 DEF SubscribeRejected, connection, TypeOK
  <2>2. CASE gated /\ InMap(p.subject)
    <3>1. channel' = None /\ CloseStreams(Listeners(p.subject))
      BY <1>11, <2>2 DEF SubscribeRejected
    <3>2. \A c \in Clients : stream'[c] = None
      BY <1>a, <2>2, <3>1 DEF CloseStreams, InMap, Open
    <3>3. StreamsOnChannel'
      BY <3>1, <3>2, EmptyKeeps
    <3> QED
      BY <1>0, <2>1, <3>1, <3>3 DEF TypeOK, RegistryInv, CloseStreams
  <2>3. CASE ~(gated /\ InMap(p.subject))
    <3>1. UNCHANGED <<channel, stream, seen>>
      BY <1>11, <2>3 DEF SubscribeRejected
    <3> QED
      BY <1>0, <2>1, <3>1, FrameKeeps DEF TypeOK, RegistryInv
  <2> QED
    BY <2>2, <2>3
<1> QED
  BY <1>1, <1>2, <1>3, <1>4, <1>5, <1>6, <1>7, <1>8, <1>9, <1>10, <1>11 DEF Next, React

LEMMA RegistryInit == Init => RegistryInv
<1> SUFFICES ASSUME Init PROVE RegistryInv
  OBVIOUS
<1>1. 0 \in 0..MaxRefusals /\ 0 \in 0..MaxDrops
  BY LimitAssumption
<1>2. /\ queue \in Seq(Command) /\ taken \in 0..Len(queue) /\ inbox \in Seq(Reading)
  BY DEF Init
<1>3. TypeOK
  BY <1>1, <1>2 DEF Init, TypeOK, Command
<1> QED
  BY <1>3 DEF Init, RegistryInv, StreamsOnChannel, Open

(* Types are right and every open stream is on the channel in the map, whose
   reference count is the number of its streams. *)
LEMMA RegistryInvHolds == Spec => []RegistryInv
  BY RegistryInit, RegistryStep, PTL DEF Spec

(* Type correctness of every behaviour; in particular the reference count
   never becomes negative. *)
THEOREM RealtimeTypes == Spec => []TypeOK
<1>1. RegistryInv => TypeOK
  BY DEF RegistryInv
<1> QED
  BY <1>1, RegistryInvHolds, PTL

(* No stream is ever orphaned, forgotten or counted twice, however connects,
   closes, errors and late replies interleave. *)
THEOREM StreamsStayOnChannel == Spec => []StreamsOnChannel
<1>1. RegistryInv => StreamsOnChannel
  BY DEF RegistryInv
<1> QED
  BY <1>1, RegistryInvHolds, PTL

-----------------------------------------------------------------------------
(***************************************************************************)
(* The registry implements StreamHub: every step of it opens one stream,   *)
(* makes all of them live, delivers to all of them, closes some, or is     *)
(* invisible to the browsers.                                              *)
(***************************************************************************)

(* The phase of every open stream is that of the channel in the map. *)
LEMMA ConnValue ==
  ASSUME RegistryInv, NEW c \in Clients
  PROVE  Conn[c] = IF stream[c] = None THEN "closed"
                   ELSE IF Deliverable THEN "live" ELSE "waiting"
  BY DEF RegistryInv, StreamsOnChannel, Open, Conn, Live

(* Steps that close some streams and leave the channel of the others alone. *)
LEMMA ClosingIsDisconnect ==
  ASSUME RegistryInv, RegistryInv', NEW gone \in SUBSET Clients,
         CloseStreams(gone),
         \A c \in Clients : stream'[c] # None => Deliverable' = Deliverable
  PROVE  Hub!Disconnect(gone)
<1>1. \A c \in Clients : stream'[c] = IF c \in gone THEN None ELSE stream[c]
  BY DEF CloseStreams
<1>2. ASSUME NEW c \in Clients
      PROVE  Conn'[c] = IF c \in gone THEN "closed" ELSE Conn[c]
  <2>1. /\ Conn[c] = IF stream[c] = None THEN "closed"
                     ELSE IF Deliverable THEN "live" ELSE "waiting"
        /\ Conn'[c] = IF stream'[c] = None THEN "closed"
                      ELSE IF Deliverable' THEN "live" ELSE "waiting"
    BY ConnValue DEF Conn, Live, RegistryInv, StreamsOnChannel, Open
  <2> QED
    BY <1>1, <2>1
<1>3. Conn' = [c \in Clients |-> IF c \in gone THEN "closed" ELSE Conn[c]]
  BY <1>2 DEF Conn
<1> QED
  BY <1>3 DEF Hub!Disconnect, CloseStreams

(* Steps that change neither the streams nor whether the channel delivers. *)
LEMMA InvisibleStep ==
  ASSUME RegistryInv, RegistryInv', UNCHANGED <<stream, seen>>,
         \A c \in Clients : stream[c] # None => Deliverable' = Deliverable
  PROVE  UNCHANGED <<Conn, seen>>
<1>1. ASSUME NEW c \in Clients PROVE Conn'[c] = Conn[c]
  BY DEF Conn, Live, RegistryInv, StreamsOnChannel, Open
<1> QED
  BY <1>1 DEF Conn

(* What is still open after a teardown is on the same channel as before. *)
LEMMA ReleaseDelivers ==
  ASSUME RegistryInv, RegistryInv', channel # None, NEW n, Release(n), gated' = gated,
         NEW c \in Clients, stream'[c] # None
  PROVE  Deliverable' = Deliverable
<1>1. channel \in Channel /\ channel' # None
  BY DEF RegistryInv, TypeOK, StreamsOnChannel, Open, InMap
<1>2. gated \in BOOLEAN
  BY GatedAssumption DEF RegistryInv, TypeOK
<1>3. CASE channel' = Assigned(channel.refCount - n, channel.status)
  BY <1>1, <1>2, <1>3 DEF Deliverable, Assigned
<1>4. CASE gated /\ channel.status # "active" /\ channel' = Assigned(channel.refCount - n, "cleaning")
  BY <1>1, <1>2, <1>4 DEF Deliverable, Assigned
<1> QED
  BY <1>1, <1>3, <1>4 DEF Release, InitiateCleanup, PerformCleanup

LEMMA ConnectRefines ==
  ASSUME RegistryInv, RegistryInv', NEW c \in Clients, Connect(c)
  PROVE  Hub!Connect(c)
<1>0. /\ stream \in [Clients -> Subjects \cup {None}] /\ gated \in BOOLEAN
      /\ stream[c] = None /\ UNCHANGED <<seen, gated>>
  BY GatedAssumption DEF RegistryInv, TypeOK, Connect
<1>1. \A d \in Clients : /\ Conn[d] = IF stream[d] = None THEN "closed"
                                      ELSE IF Deliverable THEN "live" ELSE "waiting"
                         /\ Conn'[d] = IF stream'[d] = None THEN "closed"
                                       ELSE IF Deliverable' THEN "live" ELSE "waiting"
  BY ConnValue DEF Conn, Live, RegistryInv, StreamsOnChannel, Open
<1>2. PICK s \in Subjects : stream' = [stream EXCEPT ![c] = s] /\ s # None
  BY OpenIsListening, NoneAssumption DEF Connect, Reusable, Unused
<1>3. \A d \in Clients : d # c => stream'[d] = stream[d]
  BY <1>0, <1>2
<1>4. stream'[c] # None
  BY <1>0, <1>2
<1>5. \A d \in Clients : stream[d] # None => Deliverable' = Deliverable
  <2>1. CASE Reusable
    <3>1. channel # None /\ channel \in Channel
      BY <2>1, OpenIsListening DEF Reusable
    <3>2. channel' = Assigned(channel.refCount + 1, channel.status) /\ channel' # None
      BY <2>1, <1>4 DEF Connect, RegistryInv, StreamsOnChannel, Open, InMap
    <3> QED
      BY <1>0, <3>1, <3>2 DEF Deliverable, Assigned
  <2>2. CASE ~Reusable
    <3>1. Open = {}
      <4>1. CASE channel = None
        BY <4>1, OpenIsListening
      <4>2. CASE channel # None
        BY <2>2, <4>2, OpenIsListening, ListenersFinite
           DEF Reusable, RegistryInv, StreamsOnChannel
      <4> QED
        BY <4>1, <4>2
    <3> QED
      BY <3>1 DEF Open
  <2> QED
    BY <2>1, <2>2
<1> DEFINE phase == IF Deliverable' THEN "live" ELSE "waiting"
<1>6. phase = "waiting" => Hub!In("live") = {}
  BY <1>1, <1>5 DEF Hub!In
<1>7. phase = "live" => Hub!In("waiting") = {}
  BY <1>1, <1>5 DEF Hub!In
<1>8. Conn' = [Conn EXCEPT ![c] = phase]
  <2>1. ASSUME NEW d \in Clients PROVE Conn'[d] = IF d = c THEN phase ELSE Conn[d]
    BY <1>1, <1>3, <1>4, <1>5
  <2> QED
    BY <2>1 DEF Conn
<1>9. Conn[c] = "closed"
  BY <1>0, <1>1
<1>10. phase \in {"waiting", "live"}
  OBVIOUS
<1> HIDE DEF phase
<1> QED
  BY <1>0, <1>6, <1>7, <1>8, <1>9, <1>10 DEF Hub!Connect

(* Every step of the registry is a step of the hub or invisible. *)
LEMMA HubStep == RegistryInv /\ RegistryInv' /\ [Next]_vars => [Hub!HubNext]_<<Conn, seen>>
<1> SUFFICES ASSUME RegistryInv, RegistryInv', [Next]_vars
             PROVE  Hub!HubNext \/ UNCHANGED <<Conn, seen>>
  OBVIOUS
<1>0. /\ stream \in [Clients -> Subjects \cup {None}] /\ gated \in BOOLEAN
      /\ TypeOK /\ StreamsOnChannel
  BY GatedAssumption DEF RegistryInv, TypeOK
<1>a. /\ channel = None => Open = {}
      /\ channel # None => /\ Open = Listeners(channel.subject)
                           /\ channel \in Channel
                           /\ channel.subject # None
  BY OpenIsListening
<1>f. ASSUME UNCHANGED <<gated, channel, stream, seen>> PROVE UNCHANGED <<Conn, seen>>
  BY <1>f, InvisibleStep DEF Deliverable
<1>1. CASE UNCHANGED vars
  BY <1>1, <1>f DEF vars
<1>2. ASSUME NEW c \in Clients, Connect(c) PROVE Hub!HubNext
  BY <1>2, ConnectRefines DEF Hub!HubNext
<1>3. ASSUME NEW c \in Clients, Close(c) PROVE Hub!HubNext
  <2>1. channel # None /\ Release(1) /\ CloseStreams({c}) /\ gated' = gated
    BY <1>0, <1>3 DEF Close, StreamsOnChannel, Open, InMap
  <2>2. \A d \in Clients : stream'[d] # None => Deliverable' = Deliverable
    BY <2>1, ReleaseDelivers
  <2>3. Hub!Disconnect({c})
    BY <2>1, <2>2, ClosingIsDisconnect
  <2> QED
    BY <2>3 DEF Hub!HubNext
<1>4. CASE Destroy
  <2>1. CASE channel = None
    BY <1>4, <1>f, <2>1 DEF Destroy
  <2>2. CASE channel # None
    <3>1. CloseStreams(Listeners(channel.subject)) /\ channel' = None
      BY <1>4, <2>2 DEF Destroy
    <3>2. \A d \in Clients : stream'[d] # None => Deliverable' = Deliverable
      BY <3>1 DEF RegistryInv, StreamsOnChannel, Open, InMap
    <3>3. Listeners(channel.subject) \in SUBSET Clients
      BY DEF Listeners
    <3>4. Hub!Disconnect(Listeners(channel.subject))
      BY <3>1, <3>2, <3>3, ClosingIsDisconnect
    <3> QED
      BY <3>3, <3>4 DEF Hub!HubNext
  <2> QED
    BY <2>1, <2>2
<1>5. CASE RedisAccepts \/ RedisRefuses \/ Publish \/ Reconnect \/ ReadReply
  BY <1>5, <1>f DEF RedisAccepts, RedisRefuses, Publish, Reconnect, ReadReply, registry
<1>6. CASE ReadEvent
  <2>0. gated' = gated
    BY <1>6 DEF ReadEvent
  <2>1. CASE UNCHANGED <<channel, stream, seen>>
    BY <1>f, <2>0, <2>1
  <2>2. CASE ~UNCHANGED <<channel, stream, seen>>
    <3> DEFINE event == Head(inbox).of
    <3>1. PICK broken \in SUBSET Listeners(channel.subject) :
            /\ stream' = [c \in Clients |-> IF c \in broken THEN None ELSE stream[c]]
            /\ seen' = [c \in Clients |->
                           IF c \in broken THEN None
                           ELSE IF stream[c] = channel.subject THEN event
                           ELSE seen[c]]
            /\ IF broken = {} THEN UNCHANGED <<channel, queue>>
                              ELSE Release(Cardinality(broken))
      BY <1>6, <2>2 DEF ReadEvent
    <3>2. Deliverable /\ channel # None
      BY <1>6, <2>2 DEF ReadEvent, Deliverable
    <3>3. event \in Subjects
      <4>1. Head(inbox) \in Reading /\ Head(inbox).kind = "event"
        BY <1>0, <1>6 DEF ReadEvent, TypeOK
      <4> QED
        BY <4>1 DEF Reading
    <3>4. \A c \in Clients : stream'[c] # None => Deliverable'
      <4>1. CASE broken = {}
        BY <2>0, <3>1, <3>2, <4>1 DEF Deliverable
      <4>2. CASE broken # {}
        BY <2>0, <3>1, <3>2, <4>2, ReleaseDelivers
      <4> QED
        BY <4>1, <4>2
    <3>5. \A c \in Clients : /\ Conn[c] = IF stream[c] = None THEN "closed" ELSE "live"
                             /\ Conn'[c] = IF stream'[c] = None THEN "closed" ELSE "live"
      BY <3>2, <3>4 DEF Conn, Live, RegistryInv, StreamsOnChannel, Open
    <3>6. broken \in SUBSET Clients /\ \A c \in broken : stream[c] # None
      BY <1>a, <3>2 DEF Listeners
    <3>7. broken \subseteq Hub!In("live")
      BY <3>5, <3>6 DEF Hub!In
    <3>8. Conn' = [c \in Clients |-> IF c \in broken THEN "closed" ELSE Conn[c]]
      <4>1. ASSUME NEW c \in Clients
            PROVE  Conn'[c] = IF c \in broken THEN "closed" ELSE Conn[c]
        BY <3>1, <3>5
      <4> QED
        BY <4>1 DEF Conn
    <3>9. \A c \in Clients : Conn[c] = "live" <=> stream[c] = channel.subject
      BY <1>a, <3>2, <3>5 DEF Open, Listeners
    <3>10. seen' = [c \in Clients |-> IF c \in broken THEN None
                                      ELSE IF Conn[c] = "live" THEN event
                                      ELSE seen[c]]
      BY <3>1, <3>9
    <3> HIDE DEF event
    <3>11. Hub!Broadcast(event, broken)
      BY <3>7, <3>8, <3>10 DEF Hub!Broadcast
    <3> QED
      BY <3>3, <3>6, <3>11 DEF Hub!HubNext
  <2> QED
    BY <2>1, <2>2
<1>7. ASSUME NEW p \in settled, SubscribeResolved(p)
      PROVE  Hub!HubNext \/ UNCHANGED <<Conn, seen>>
  <2>0. UNCHANGED <<gated, stream, seen>>
    BY <1>7 DEF SubscribeResolved
  <2>1. CASE UNCHANGED channel
    BY <1>f, <2>0, <2>1
  <2>2. CASE channel' = None
    <3>1. \A c \in Clients : stream[c] = None
      BY <2>0, <2>2 DEF RegistryInv, StreamsOnChannel, Open, InMap
    <3> QED
      BY <2>0, <3>1, InvisibleStep
  <2>3. CASE /\ InMap(p.subject) /\ ~(gated /\ channel.status = "cleaning")
             /\ channel' = Assigned(channel.refCount, "active")
    <3>1. channel # None /\ channel \in Channel /\ channel.refCount # 0
      BY <1>0, <1>a, <2>3 DEF InMap, StreamsOnChannel
    <3>2. Listeners(channel.subject) # {}
      BY <1>0, <3>1, ListenersFinite DEF StreamsOnChannel
    <3>3. PICK c \in Clients : stream[c] # None
      BY <1>a, <3>1, <3>2 DEF Listeners
    <3>4. channel' # None /\ channel'.status = "active"
      BY <2>0, <2>3, <3>3 DEF RegistryInv, StreamsOnChannel, Open, InMap, Assigned
    <3>5. Deliverable'
      BY <3>4 DEF Deliverable
    <3>6. CASE Deliverable
      BY <2>0, <3>5, <3>6, InvisibleStep
    <3>7. CASE ~Deliverable
      <4>1. \A d \in Clients : /\ Conn[d] = IF stream[d] = None THEN "closed" ELSE "waiting"
                               /\ Conn'[d] = IF stream[d] = None THEN "closed" ELSE "live"
        BY <2>0, <3>5, <3>7 DEF Conn, Live, RegistryInv, StreamsOnChannel, Open
      <4>2. Hub!In("waiting") # {}
        BY <3>3, <4>1 DEF Hub!In
      <4>3. Conn' = [d \in Clients |-> IF Conn[d] = "waiting" THEN "live" ELSE Conn[d]]
        <5>1. ASSUME NEW d \in Clients
              PROVE  Conn'[d] = IF Conn[d] = "waiting" THEN "live" ELSE Conn[d]
          BY <4>1
        <5> QED
          BY <5>1 DEF Conn
      <4>4. Hub!GoLive
        BY <2>0, <4>2, <4>3 DEF Hub!GoLive
      <4> QED
        BY <4>4 DEF Hub!HubNext
    <3> QED
      BY <3>6, <3>7
  <2> QED
    BY <1>7, <2>1, <2>2, <2>3 DEF SubscribeResolved, PerformCleanup
<1>8. ASSUME NEW p \in settled, SubscribeRejected(p)
      PROVE  Hub!HubNext \/ UNCHANGED <<Conn, seen>>
  <2>0. gated' = gated
    BY <1>8 DEF SubscribeRejected
  <2>1. CASE UNCHANGED <<channel, stream, seen>>
    BY <1>f, <2>0, <2>1
  <2>2. CASE channel' = None /\ CloseStreams(Listeners(p.subject))
    <3>1. \A d \in Clients : stream'[d] # None => Deliverable' = Deliverable
      BY <2>2 DEF RegistryInv, StreamsOnChannel, Open, InMap
    <3>2. Listeners(p.subject) \in SUBSET Clients
      BY DEF Listeners
    <3>3. Hub!Disconnect(Listeners(p.subject))
      BY <2>2, <3>1, <3>2, ClosingIsDisconnect
    <3> QED
      BY <3>2, <3>3 DEF Hub!HubNext
  <2> QED
    BY <1>8, <2>1, <2>2 DEF SubscribeRejected
<1> QED
  BY <1>1, <1>2, <1>3, <1>4, <1>5, <1>6, <1>7, <1>8 DEF Next, React

(* What a browser sees of the registry is what StreamHub promises. *)
THEOREM RegistryImplementsHub == Spec => KeepsPromise
<1>1. Init => Hub!HubInit
  BY DEF Init, Hub!HubInit, Conn
<1>2. RegistryInv /\ RegistryInv' /\ [Next]_vars => [Hub!HubNext]_<<Conn, seen>>
  BY HubStep
<1>3. Hub!hubVars = <<Conn, seen>>
  BY DEF Hub!hubVars
<1>4. RegistryInv /\ RegistryInv' /\ [Next]_vars => [Hub!HubNext]_(Hub!hubVars)
  BY <1>2 DEF Hub!hubVars
<1> QED
  BY <1>1, <1>4, RegistryInvHolds, PTL DEF Spec, KeepsPromise, Hub!HubSpec


-----------------------------------------------------------------------------
(***************************************************************************)
(* The subscription: what the command queue, the replies on their way and  *)
(* the settled promises say of the channel in the map.                     *)
(***************************************************************************)

Reply(i) == inbox[i].kind # "event"

EventsFrom(i) == \A j \in DOMAIN inbox : j >= i => ~Reply(j)

(* at[k] is where the reply to the k-th command in the queue waits. *)
Answers(at) ==
  /\ at \in [1..taken -> DOMAIN inbox]
  /\ \A k, l \in 1..taken : k < l => at[k] < at[l]
  /\ \A i \in DOMAIN inbox : Reply(i) <=> \E k \in 1..taken : at[k] = i

(* The replies waiting are those of the commands that Redis has processed, in
   their order; the last one tells what Redis is subscribed to, and so do the
   events behind it. *)
WireInv ==
  /\ \E at : Answers(at)
  /\ \A i \in DOMAIN inbox :
       /\ EventsFrom(i) => inbox[i].of = redis
       /\ inbox[i].kind = "ok" /\ EventsFrom(i + 1) => redis = queue[taken]

(* No reply waits for a command when Redis has processed none. *)
LEMMA NoReplyUntaken ==
  ASSUME TypeOK, WireInv, taken = 0
  PROVE  \A i \in DOMAIN inbox : ~Reply(i)
<1>1. PICK at : Answers(at)
  BY DEF WireInv
<1>2. 1..taken = {}
  OBVIOUS
<1> QED
  BY <1>1, <1>2 DEF Answers

(* A reply has its command in the queue; with another one behind it, two. *)
LEMMA ReplyTaken ==
  ASSUME TypeOK, WireInv, NEW i \in DOMAIN inbox, Reply(i)
  PROVE  /\ taken > 0
         /\ \A j \in DOMAIN inbox : i < j /\ Reply(j) => taken > 1
<1>1. PICK at : Answers(at)
  BY DEF WireInv
<1>2. taken \in Nat /\ DOMAIN inbox = 1..Len(inbox) /\ Len(inbox) \in Nat
  BY DEF TypeOK
<1>3. PICK k \in 1..taken : at[k] = i
  BY <1>1 DEF Answers
<1>4. ASSUME NEW j \in DOMAIN inbox, i < j, Reply(j) PROVE taken > 1
  <2>1. PICK l \in 1..taken : at[l] = j
    BY <1>1, <1>4 DEF Answers
  <2>2. k # l
    BY <1>2, <1>3, <1>4, <2>1
  <2> QED
    BY <1>2, <2>2
<1> QED
  BY <1>2, <1>3, <1>4

(* Redis has processed a command: its reply waits. *)
LEMMA TakenReply ==
  ASSUME TypeOK, WireInv, taken > 0
  PROVE  \E i \in DOMAIN inbox : Reply(i)
<1>1. PICK at : Answers(at)
  BY DEF WireInv
<1>2. 1 \in 1..taken
  BY DEF TypeOK
<1> QED
  BY <1>1, <1>2 DEF Answers

(* Sending a command changes nothing of what Redis has processed. *)
LEMMA WireSent ==
  ASSUME TypeOK, WireInv, UNCHANGED <<inbox, redis, taken>>,
         queue' = queue \/ \E c \in Command : Send(c)
  PROVE  WireInv'
<1>1. ASSUME NEW i \in DOMAIN inbox, inbox[i].kind = "ok" PROVE queue'[taken] = queue[taken]
  <2>1. taken > 0 /\ taken <= Len(queue) /\ taken \in Nat
    BY <1>1, ReplyTaken DEF Reply, TypeOK
  <2>2. queue \in Seq(Command)
    BY DEF TypeOK
  <2> QED
    BY <2>1, <2>2 DEF Send
<1>2. PICK at : Answers(at)
  BY DEF WireInv
<1>3. Answers(at)'
  BY <1>2 DEF Answers, Reply
<1>4. \E a : Answers(a)'
  BY <1>3
<1>5. \A i \in DOMAIN inbox : /\ EventsFrom(i)' <=> EventsFrom(i)
                              /\ EventsFrom(i + 1)' <=> EventsFrom(i + 1)
  BY DEF EventsFrom, Reply
<1> QED
  BY <1>1, <1>4, <1>5 DEF WireInv

(* What an appended item does. *)
LEMMA WireAppended ==
  ASSUME TypeOK, NEW x \in Reading, inbox' = Append(inbox, x), NEW n, n = Len(inbox) + 1
  PROVE  /\ DOMAIN inbox' = DOMAIN inbox \cup {n}
         /\ DOMAIN inbox = 1..Len(inbox) /\ Len(inbox) \in Nat
         /\ inbox'[n] = x
         /\ \A i \in DOMAIN inbox : inbox'[i] = inbox[i]
         /\ \A i \in DOMAIN inbox : Reply(i)' <=> Reply(i)
         /\ Reply(n)' <=> x.kind # "event"
<1>1. /\ inbox \in Seq(Reading) /\ Len(inbox) \in Nat /\ DOMAIN inbox = 1..Len(inbox)
      /\ Len(inbox') = Len(inbox) + 1 /\ DOMAIN inbox' = 1..Len(inbox) + 1
  BY DEF TypeOK
<1>2. inbox'[n] = x /\ \A i \in DOMAIN inbox : inbox'[i] = inbox[i]
  BY <1>1
<1> QED
  BY <1>1, <1>2 DEF Reply

LEMMA WireAnswers ==
  ASSUME TypeOK, WireInv, NEW kind \in {"ok", "refused"}, RedisAnswers(kind), UNCHANGED queue,
         kind = "ok" => redis' = queue[taken + 1]
  PROVE  WireInv'
<1> DEFINE x == [kind |-> kind, of |-> None]
<1>n. PICK n \in Nat : n = Len(inbox) + 1
  BY DEF TypeOK
<1>1. /\ x \in Reading /\ inbox' = Append(inbox, x) /\ taken' = taken + 1
      /\ taken \in Nat /\ x.kind = kind
  BY DEF RedisAnswers, Reading, TypeOK
<1> HIDE DEF x
<1>2. /\ DOMAIN inbox' = DOMAIN inbox \cup {n}
      /\ DOMAIN inbox = 1..Len(inbox) /\ Len(inbox) \in Nat
      /\ inbox'[n] = x
      /\ \A i \in DOMAIN inbox : Reply(i)' <=> Reply(i)
      /\ Reply(n)'
  BY <1>1, <1>n, WireAppended
<1>3. PICK at : Answers(at)
  BY DEF WireInv
<1>4. PICK more : more = [k \in 1..taken' |-> IF k = taken' THEN n ELSE at[k]]
  OBVIOUS
<1>5. /\ 1..taken' = 1..taken \cup {taken'} /\ taken' \notin 1..taken
      /\ more[taken'] = n
      /\ \A k \in 1..taken : more[k] = at[k] /\ at[k] \in DOMAIN inbox /\ k < taken'
  BY <1>1, <1>3, <1>4 DEF Answers
<1>6. \A i \in DOMAIN inbox : i < n /\ i # n
  BY <1>n, <1>2
<1>7. Answers(more)'
  <2>1. more \in [1..taken' -> DOMAIN inbox']
    BY <1>2, <1>4, <1>5
  <2>2. ASSUME NEW k \in 1..taken', NEW l \in 1..taken', k < l PROVE more[k] < more[l]
    <3>1. k \in 1..taken
      BY <1>1, <2>2
    <3>2. CASE l = taken'
      BY <1>5, <1>6, <3>1, <3>2
    <3>3. CASE l \in 1..taken
      <4>1. at[k] < at[l]
        BY <1>3, <2>2, <3>1, <3>3 DEF Answers
      <4> QED
        BY <1>5, <3>1, <3>3, <4>1
    <3> QED
      BY <1>5, <3>2, <3>3
  <2>3. ASSUME NEW i \in DOMAIN inbox'
        PROVE  Reply(i)' <=> \E k \in 1..taken' : more[k] = i
    <3>1. CASE i = n
      BY <1>2, <1>5, <3>1
    <3>2. CASE i \in DOMAIN inbox
      <4>1. Reply(i) <=> \E k \in 1..taken : at[k] = i
        BY <1>3, <3>2 DEF Answers
      <4> QED
        BY <1>2, <1>5, <1>6, <3>2, <4>1
    <3> QED
      BY <1>2, <3>1, <3>2
  <2> QED
    BY <2>1, <2>2, <2>3 DEF Answers
<1>8. \A i \in DOMAIN inbox' : ~EventsFrom(i)' /\ (i # n => ~EventsFrom(i + 1)')
  <2>1. \A i \in DOMAIN inbox' : n >= i /\ (i # n => n >= i + 1)
    BY <1>n, <1>2
  <2> QED
    BY <1>2, <2>1 DEF EventsFrom
<1>9. inbox'[n].kind = "ok" => redis' = queue'[taken']
  BY <1>1, <1>2
<1> QED
  BY <1>7, <1>8, <1>9 DEF WireInv

LEMMA WirePublished ==
  ASSUME TypeOK, WireInv, Publish
  PROVE  WireInv'
<1> DEFINE x == [kind |-> "event", of |-> redis]
<1>n. PICK n \in Nat : n = Len(inbox) + 1
  BY DEF TypeOK
<1>1. /\ x \in Reading /\ inbox' = Append(inbox, x) /\ UNCHANGED <<taken, redis, queue>>
      /\ x.kind = "event" /\ x.of = redis
  BY DEF Publish, Reading, TypeOK, Command
<1> HIDE DEF x
<1>2. /\ DOMAIN inbox' = DOMAIN inbox \cup {n}
      /\ DOMAIN inbox = 1..Len(inbox) /\ Len(inbox) \in Nat
      /\ inbox'[n] = x
      /\ \A i \in DOMAIN inbox : inbox'[i] = inbox[i]
      /\ \A i \in DOMAIN inbox : Reply(i)' <=> Reply(i)
      /\ ~Reply(n)'
  BY <1>1, <1>n, WireAppended
<1>3. PICK at : Answers(at)
  BY DEF WireInv
<1>5. \A i \in DOMAIN inbox : i < n /\ i # n
  BY <1>n, <1>2
<1>7. Answers(at)'
  <2>1. /\ at \in [1..taken' -> DOMAIN inbox']
        /\ \A k, l \in 1..taken' : k < l => at[k] < at[l]
    BY <1>1, <1>2, <1>3 DEF Answers
  <2>2. ASSUME NEW i \in DOMAIN inbox'
        PROVE  Reply(i)' <=> \E k \in 1..taken' : at[k] = i
    <3>1. CASE i = n
      BY <1>1, <1>2, <1>3, <1>5, <3>1 DEF Answers
    <3>2. CASE i \in DOMAIN inbox
      BY <1>1, <1>2, <1>3, <3>2 DEF Answers
    <3> QED
      BY <1>2, <3>1, <3>2
  <2> QED
    BY <2>1, <2>2 DEF Answers
<1>8. ASSUME NEW i \in DOMAIN inbox'
      PROVE  /\ EventsFrom(i)' => inbox'[i].of = redis'
             /\ inbox'[i].kind = "ok" /\ EventsFrom(i + 1)' => redis' = queue'[taken']
  <2>1. CASE i = n
    <3>1. inbox'[i].kind = "event" /\ inbox'[i].of = redis'
      BY <1>1, <1>2, <2>1
    <3> QED
      BY <3>1
  <2>2. CASE i \in DOMAIN inbox
    <3>1. /\ EventsFrom(i)' => EventsFrom(i)
          /\ EventsFrom(i + 1)' => EventsFrom(i + 1)
      BY <1>2 DEF EventsFrom
    <3> QED
      BY <1>1, <1>2, <2>2, <3>1 DEF WireInv
  <2> QED
    BY <1>2, <2>1, <2>2
<1> QED
  BY <1>7, <1>8 DEF WireInv

LEMMA WireRead ==
  ASSUME TypeOK, WireInv, inbox # <<>>, inbox' = Tail(inbox), redis' = redis,
         taken' = IF Reply(1) THEN taken - 1 ELSE taken,
         \A i \in DOMAIN inbox : i > 1 /\ inbox[i].kind = "ok" => queue'[taken'] = queue[taken]
  PROVE  WireInv'
<1>1. /\ DOMAIN inbox = 1..Len(inbox) /\ Len(inbox) \in Nat /\ taken \in Nat
      /\ DOMAIN inbox' = 1..Len(inbox) - 1
      /\ \A i \in DOMAIN inbox' : inbox'[i] = inbox[i + 1]
      /\ 1 \in DOMAIN inbox
  BY DEF TypeOK
<1>2. \A i \in DOMAIN inbox' : i + 1 \in DOMAIN inbox /\ (Reply(i)' <=> Reply(i + 1)) /\ 1 < i + 1
  BY <1>1 DEF Reply
<1>3. PICK at : Answers(at)
  BY DEF WireInv
<1>4. /\ at \in [1..taken -> DOMAIN inbox]
      /\ \A k, l \in 1..taken : k < l => at[k] < at[l]
      /\ \A i \in DOMAIN inbox : Reply(i) <=> \E k \in 1..taken : at[k] = i
  BY <1>3 DEF Answers
<1>5. PICK less : Answers(less)'
  <2>1. CASE Reply(1)
    <3>1. at[1] = 1 /\ 1 \in 1..taken
      <4>1. PICK k \in 1..taken : at[k] = 1
        BY <1>1, <1>4, <2>1
      <4>2. 1 \in 1..taken /\ at[1] \in 1..Len(inbox) /\ (1 < k => at[1] < at[k])
        BY <1>1, <1>4, <4>1
      <4> QED
        BY <1>1, <4>1, <4>2
    <3>2. taken' = taken - 1
      BY <2>1
    <3>3. PICK f : f = [k \in 1..taken' |-> at[k + 1] - 1]
      OBVIOUS
    <3>4. \A k \in 1..taken' : k + 1 \in 1..taken /\ 1 < k + 1
      BY <1>1, <3>2
    <3>5. \A k \in 1..taken' : /\ f[k] = at[k + 1] - 1 /\ at[k + 1] \in 1..Len(inbox)
                               /\ at[k + 1] > 1
      BY <1>1, <1>4, <3>1, <3>3, <3>4
    <3>6. f \in [1..taken' -> DOMAIN inbox']
      <4>1. ASSUME NEW k \in 1..taken' PROVE at[k + 1] - 1 \in DOMAIN inbox'
        <5>1. PICK place : place = at[k + 1]
          OBVIOUS
        <5>2. place \in 1..Len(inbox) /\ place > 1
          BY <3>5, <5>1
        <5>3. place - 1 \in DOMAIN inbox'
          BY <1>1, <5>2
        <5> QED
          BY <5>1, <5>3
      <4> QED
        BY <3>3, <4>1
    <3>7. ASSUME NEW k \in 1..taken', NEW l \in 1..taken', k < l PROVE f[k] < f[l]
      <4>1. k + 1 < l + 1
        BY <1>1, <3>2, <3>7
      <4>2. at[k + 1] < at[l + 1]
        BY <1>4, <3>4, <4>1
      <4> QED
        BY <1>1, <3>5, <4>2
    <3>8. ASSUME NEW i \in DOMAIN inbox'
          PROVE  Reply(i)' <=> \E k \in 1..taken' : f[k] = i
      <4>1. Reply(i)' <=> \E l \in 1..taken : at[l] = i + 1
        BY <1>2, <1>4
      <4>2. ASSUME NEW l \in 1..taken, at[l] = i + 1 PROVE \E k \in 1..taken' : f[k] = i
        <5>1. l # 1
          BY <1>1, <3>1, <4>2
        <5>2. l - 1 \in 1..taken' /\ (l - 1) + 1 = l
          BY <1>1, <3>2, <5>1
        <5>3. f[l - 1] = i
          BY <1>1, <3>5, <4>2, <5>2
        <5> QED
          BY <5>2, <5>3
      <4>3. ASSUME NEW k \in 1..taken', f[k] = i PROVE at[k + 1] = i + 1
        BY <1>1, <3>5, <4>3
      <4> QED
        BY <3>4, <4>1, <4>2, <4>3
    <3> QED
      BY <3>6, <3>7, <3>8 DEF Answers
  <2>2. CASE ~Reply(1)
    <3>1. taken' = taken
      BY <2>2
    <3>2. PICK f : f = [k \in 1..taken' |-> at[k] - 1]
      OBVIOUS
    <3>3. \A k \in 1..taken : f[k] = at[k] - 1 /\ at[k] \in 1..Len(inbox) /\ at[k] > 1
      <4>1. \A k \in 1..taken : at[k] \in 1..Len(inbox) /\ at[k] # 1
        BY <1>1, <1>4, <2>2
      <4> QED
        BY <1>1, <3>1, <3>2, <4>1
    <3>4. f \in [1..taken' -> DOMAIN inbox']
      BY <1>1, <3>1, <3>2, <3>3
    <3>5. ASSUME NEW k \in 1..taken', NEW l \in 1..taken', k < l PROVE f[k] < f[l]
      BY <1>1, <1>4, <3>1, <3>3, <3>5
    <3>6. ASSUME NEW i \in DOMAIN inbox'
          PROVE  Reply(i)' <=> \E k \in 1..taken' : f[k] = i
      <4>1. Reply(i)' <=> \E k \in 1..taken : at[k] = i + 1
        BY <1>2, <1>4
      <4>2. \A k \in 1..taken : (f[k] = i) <=> (at[k] = i + 1)
        <5>1. i \in Int
          BY <1>1
        <5>2. \A k \in 1..taken : f[k] = at[k] - 1 /\ at[k] \in Int
          BY <1>1, <3>3
        <5> QED
          BY <5>1, <5>2
      <4> QED
        BY <3>1, <4>1, <4>2
    <3> QED
      BY <3>4, <3>5, <3>6 DEF Answers
  <2> QED
    BY <2>1, <2>2
<1>7. ASSUME NEW i \in DOMAIN inbox'
      PROVE  /\ EventsFrom(i)' => EventsFrom(i + 1)
             /\ EventsFrom(i + 1)' => EventsFrom(i + 2)
  <2> SUFFICES ASSUME NEW k \in {i, i + 1}, EventsFrom(k)', NEW j \in DOMAIN inbox, j >= k + 1
               PROVE  ~Reply(j)
    BY <1>1 DEF EventsFrom
  <2>1. j - 1 \in DOMAIN inbox' /\ j - 1 >= k /\ (j - 1) + 1 = j
    BY <1>1
  <2> QED
    BY <1>2, <2>1 DEF EventsFrom
<1>8. ASSUME NEW i \in DOMAIN inbox'
      PROVE  /\ EventsFrom(i)' => inbox'[i].of = redis'
             /\ inbox'[i].kind = "ok" /\ EventsFrom(i + 1)' => redis' = queue'[taken']
  <2>1. (i + 1) + 1 = i + 2
    BY <1>1
  <2> QED
    BY <1>1, <1>2, <1>7, <2>1 DEF WireInv
<1> QED
  BY <1>5, <1>8 DEF WireInv

LEMMA WireStep == RegistryInv /\ WireInv /\ [Next]_vars => WireInv'
<1> SUFFICES ASSUME RegistryInv, WireInv, [Next]_vars PROVE WireInv'
  OBVIOUS
<1>0. TypeOK /\ TypeOK'
  BY RegistryStep DEF RegistryInv
<1>1. CASE UNCHANGED vars
  BY <1>0, <1>1, WireSent DEF vars
<1>2. ASSUME UNCHANGED connection, queue' = queue \/ \E c \in Command : Send(c)
      PROVE  WireInv'
  BY <1>0, <1>2, WireSent DEF connection
<1>3. ASSUME NEW c \in Clients, Connect(c) PROVE WireInv'
  BY <1>2, <1>3 DEF Connect, Unused, Command
<1>r. ASSUME NEW n, Release(n) PROVE queue' = queue \/ \E c \in Command : Send(c)
  BY <1>r DEF Release, InitiateCleanup, PerformCleanup, Command
<1>4. ASSUME NEW c \in Clients, Close(c) PROVE WireInv'
  <2>1. queue' = queue \/ \E d \in Command : Send(d)
    BY <1>4, <1>r DEF Close
  <2> QED
    BY <1>2, <1>4, <2>1 DEF Close
<1>5. CASE Destroy
  BY <1>2, <1>5 DEF Destroy, Command
<1>6. CASE RedisAccepts
  BY <1>0, <1>6, WireAnswers DEF RedisAccepts
<1>7. CASE RedisRefuses
  BY <1>0, <1>7, WireAnswers DEF RedisRefuses
<1>8. CASE Publish
  BY <1>0, <1>8, WirePublished
<1>9. CASE Reconnect
  <2>1. inbox' = <<>> /\ DOMAIN inbox' = {}
    BY <1>9 DEF Reconnect
  <2>2. PICK at : at = [k \in 1..0 |-> 0]
    OBVIOUS
  <2>3. taken' = 0 /\ 1..0 = {}
    BY <1>9 DEF Reconnect
  <2>4. Answers(at)'
    BY <2>1, <2>2, <2>3 DEF Answers
  <2> QED
    BY <2>1, <2>4 DEF WireInv
<1>10. CASE ReadReply
  <2>1. /\ inbox # <<>> /\ inbox' = Tail(inbox) /\ redis' = redis
        /\ taken' = taken - 1 /\ queue' = Tail(queue)
    BY <1>10 DEF ReadReply
  <2>2. 1 \in DOMAIN inbox /\ Reply(1)
    BY <1>0, <1>10 DEF ReadReply, Reply, TypeOK
  <2>3. ASSUME NEW i \in DOMAIN inbox, i > 1, inbox[i].kind = "ok"
        PROVE  queue'[taken'] = queue[taken]
    <3>1. Reply(i)
      BY <2>3 DEF Reply
    <3>2. taken > 1
      BY <1>0, <2>2, <2>3, <3>1, ReplyTaken
    <3>3. queue \in Seq(Command) /\ taken \in 0..Len(queue)
      BY <1>0 DEF TypeOK
    <3> QED
      BY <2>1, <3>2, <3>3
  <2> QED
    BY <1>0, <2>1, <2>2, <2>3, WireRead
<1>11. CASE ReadEvent
  <2>1. /\ inbox # <<>> /\ inbox' = Tail(inbox) /\ UNCHANGED <<redis, taken>>
        /\ Head(inbox).kind = "event"
    BY <1>11 DEF ReadEvent
  <2>2. ~Reply(1)
    BY <1>0, <2>1 DEF Reply, TypeOK
  <2>3. queue' = queue \/ \E c \in Command : Send(c)
    BY <1>11, <1>r DEF ReadEvent
  <2>4. ASSUME NEW i \in DOMAIN inbox, inbox[i].kind = "ok"
        PROVE  queue'[taken'] = queue[taken]
    <3>1. taken > 0
      BY <1>0, <2>4, ReplyTaken DEF Reply
    <3>2. queue \in Seq(Command) /\ taken \in 0..Len(queue)
      BY <1>0 DEF TypeOK
    <3> QED
      BY <2>1, <2>3, <3>1, <3>2 DEF Send
  <2> QED
    BY <1>0, <2>1, <2>2, <2>4, WireRead
<1>12. CASE React
  <2>1. UNCHANGED connection
    BY <1>12 DEF React, SubscribeResolved, SubscribeRejected
  <2>2. queue' = queue \/ \E c \in Command : Send(c)
    BY <1>12 DEF React, SubscribeResolved, SubscribeRejected, PerformCleanup, Command
  <2> QED
    BY <1>2, <2>1, <2>2
<1> QED
  BY <1>1, <1>3, <1>4, <1>5, <1>6, <1>7, <1>8, <1>9, <1>10, <1>11, <1>12 DEF Next

(* What connecting, closing and delivering do to the channel in the map and to
   the command queue. *)
Kept ==
  /\ queue' = queue
  /\ \/ channel' = channel
     \/ /\ channel # None /\ channel' # None
        /\ channel'.subject = channel.subject
        /\ gated => (channel'.status = "active" <=> channel.status = "active")

Dropped == channel' = None /\ Send(None)

Made ==
  \E s \in Unused :
    /\ channel' = [subject |-> s, refCount |-> 1, status |-> "subscribing"]
    /\ Send(s)

LEMMA ChannelKept ==
  ASSUME channel \in Channel, NEW n \in Nat, NEW status \in ChannelStatus,
         channel' = Assigned(n, status), queue' = queue,
         gated => (status = "active" <=> channel.status = "active")
  PROVE  Kept
<1>1. /\ channel' \in Channel /\ channel'.subject = channel.subject
      /\ channel'.status = status
  BY DEF Assigned, Channel
<1> QED
  BY <1>1, NoneAssumption DEF Kept

LEMMA ReleaseMoves ==
  ASSUME RegistryInv, channel # None, NEW n \in Nat, n <= channel.refCount, Release(n)
  PROVE  Kept \/ Dropped
<1>1. channel \in Channel /\ channel.refCount \in Nat /\ channel.status \in ChannelStatus
  BY OpenIsListening DEF Channel
<1>2. channel.refCount - n \in Nat
  BY <1>1
<1>3. CASE channel.refCount > n
  BY <1>1, <1>2, <1>3, ChannelKept DEF Release
<1>4. CASE channel.refCount <= n
  <2>1. InitiateCleanup(n)
    BY <1>1, <1>4 DEF Release
  <2>2. CASE PerformCleanup
    BY <2>2 DEF PerformCleanup, Dropped
  <2>3. CASE /\ gated /\ channel.status # "active"
             /\ channel' = Assigned(channel.refCount - n, "cleaning")
             /\ queue' = queue
    BY <1>1, <1>2, <2>3, ChannelKept DEF ChannelStatus
  <2> QED
    BY <2>1, <2>2, <2>3 DEF InitiateCleanup
<1> QED
  BY <1>1, <1>3, <1>4

(* The streams that are torn down were counted. *)
LEMMA TornCounted ==
  ASSUME RegistryInv, channel # None, NEW C \in SUBSET Listeners(channel.subject)
  PROVE  Cardinality(C) \in Nat /\ Cardinality(C) <= channel.refCount
BY ListenersFinite, FS_Subset, FS_CardinalityType DEF RegistryInv, StreamsOnChannel

LEMMA ConnectMoves ==
  ASSUME RegistryInv, NEW c \in Clients, Connect(c)
  PROVE  Kept \/ Made
<1>1. CASE Reusable /\ channel' = Assigned(channel.refCount + 1, channel.status) /\ queue' = queue
  <2>1. channel \in Channel /\ channel.refCount + 1 \in Nat /\ channel.status \in ChannelStatus
    BY <1>1, OpenIsListening DEF Reusable, Channel
  <2> QED
    BY <1>1, <2>1, ChannelKept
<1> QED
  BY <1>1 DEF Connect, Made

LEMMA CloseMoves ==
  ASSUME RegistryInv, NEW c \in Clients, Close(c)
  PROVE  Kept \/ Dropped
<1>1. CASE InMap(stream[c])
  <2>1. channel # None /\ {c} \in SUBSET Listeners(channel.subject) /\ Release(1)
    BY <1>1 DEF Close, InMap, Listeners
  <2>2. Cardinality({c}) = 1
    BY FS_Singleton
  <2>3. 1 <= channel.refCount
    BY <2>1, <2>2, TornCounted
  <2> QED
    BY <2>1, <2>3, ReleaseMoves
<1> QED
  BY <1>1 DEF Close, Kept

LEMMA ReadEventMoves ==
  ASSUME RegistryInv, ReadEvent
  PROVE  Kept \/ Dropped
<1>1. CASE UNCHANGED <<channel, queue>>
  BY <1>1 DEF Kept
<1>2. CASE ~UNCHANGED <<channel, queue>>
  <2>1. channel # None
    BY <1>2 DEF ReadEvent, Deliverable
  <2>2. PICK broken \in SUBSET Listeners(channel.subject) : Release(Cardinality(broken))
    BY <1>2 DEF ReadEvent
  <2> QED
    BY <2>1, <2>2, TornCounted, ReleaseMoves
<1> QED
  BY <1>1, <1>2

-----------------------------------------------------------------------------
(***************************************************************************)
(* Without error replies Redis will be subscribed to what the map has, as  *)
(* soon as it has processed the commands in the queue.                     *)
(***************************************************************************)

\* What the last command asks for.
Wanted == IF queue = <<>> THEN acked ELSE queue[Len(queue)]

InTheMap == IF channel = None THEN None ELSE channel.subject

Accepted ==
  /\ \A i \in DOMAIN inbox : inbox[i].kind # "refused"
  /\ \A p \in settled : p.ok
  /\ redis = IF taken = 0 THEN acked ELSE queue[taken]
  /\ ~destroyed => Wanted = InTheMap

AgreeInv == RegistryInv /\ (refusals = 0 => Accepted)

(* Steps of the registry that keep, drop or make a channel. *)
LEMMA AcceptedMoves ==
  ASSUME TypeOK, Accepted, Kept \/ Dropped \/ Made,
         UNCHANGED <<redis, taken, acked, settled, destroyed>>,
         inbox' = inbox \/ (inbox # <<>> /\ inbox' = Tail(inbox))
  PROVE  Accepted'
<1>1. /\ queue \in Seq(Command) /\ taken \in 0..Len(queue) /\ inbox \in Seq(Reading)
  BY DEF TypeOK
<1>2. \A i \in DOMAIN inbox' : inbox'[i].kind # "refused"
  <2>1. CASE inbox' = inbox
    BY <2>1 DEF Accepted
  <2>2. CASE inbox # <<>> /\ inbox' = Tail(inbox)
    <3>1. \A i \in DOMAIN inbox' : i + 1 \in DOMAIN inbox /\ inbox'[i] = inbox[i + 1]
      BY <1>1, <2>2
    <3> QED
      BY <3>1 DEF Accepted
  <2> QED
    BY <2>1, <2>2
<1>3. taken # 0 => queue'[taken] = queue[taken]
  <2>1. ASSUME NEW s \in Command, Send(s), taken # 0 PROVE queue'[taken] = queue[taken]
    BY <1>1, <2>1 DEF Send
  <2> QED
    BY <2>1 DEF Kept, Dropped, Made, Unused, Command
<1>4. ~destroyed => Wanted' = InTheMap'
  <2>1. CASE Kept
    BY <2>1 DEF Accepted, Kept, Wanted, InTheMap
  <2>2. ASSUME NEW s, Send(s) PROVE Wanted' = s
    <3>1. queue' # <<>> /\ queue'[Len(queue')] = s
      BY <1>1, <2>2 DEF Send
    <3> QED
      BY <3>1 DEF Wanted
  <2>3. CASE Dropped
    BY <2>2, <2>3 DEF Dropped, InTheMap
  <2>4. CASE Made
    <3>1. PICK s \in Unused :
            /\ channel' = [subject |-> s, refCount |-> 1, status |-> "subscribing"]
            /\ Send(s)
      BY <2>4 DEF Made
    <3>2. channel' \in Channel
      BY <3>1 DEF Channel, ChannelStatus, Unused
    <3>3. InTheMap' = s
      BY <3>1, <3>2, NoneAssumption DEF InTheMap
    <3> QED
      BY <2>2, <3>1, <3>3
  <2> QED
    BY <2>1, <2>3, <2>4
<1> QED
  BY <1>2, <1>3, <1>4 DEF Accepted

LEMMA OneOrMore == \A n \in Nat : n > 0 => n = 1 \/ n > 1
  OBVIOUS

LEMMA AgreeStep == AgreeInv /\ [Next]_vars => AgreeInv'
<1> SUFFICES ASSUME AgreeInv, [Next]_vars, refusals' = 0 PROVE Accepted'
  BY RegistryStep DEF AgreeInv
<1>0. /\ RegistryInv /\ TypeOK
      /\ queue \in Seq(Command) /\ taken \in 0..Len(queue) /\ inbox \in Seq(Reading)
      /\ refusals \in Nat
  BY LimitAssumption DEF AgreeInv, RegistryInv, TypeOK
<1>1. CASE UNCHANGED vars
  BY <1>1 DEF AgreeInv, Accepted, Wanted, InTheMap, vars
<1>2. CASE RedisRefuses
  BY <1>0, <1>2 DEF RedisRefuses
<1> SUFFICES ASSUME Next, ~RedisRefuses, Accepted PROVE Accepted'
  <2>1. CASE Next /\ ~RedisRefuses
    <3>1. refusals' = refusals
      BY <2>1 DEF Next, Connect, Close, Destroy, RedisAccepts, Publish, Reconnect,
                  ReadReply, ReadEvent, React, SubscribeResolved, SubscribeRejected, connection
    <3> QED
      BY <2>1, <3>1 DEF AgreeInv
  <2> QED
    BY <1>1, <1>2, <2>1
<1>3. ASSUME NEW c \in Clients, Connect(c) PROVE Accepted'
  BY <1>0, <1>3, ConnectMoves, AcceptedMoves DEF Connect, connection
<1>4. ASSUME NEW c \in Clients, Close(c) PROVE Accepted'
  BY <1>0, <1>4, CloseMoves, AcceptedMoves DEF Close, connection
<1>5. CASE Destroy
  <2>1. queue' = queue \/ Send(None)
    BY <1>5 DEF Destroy
  <2>2. taken # 0 => queue'[taken] = queue[taken]
    BY <1>0, <2>1 DEF Send
  <2> QED
    BY <1>5, <2>2 DEF Destroy, Accepted, connection
<1>6. CASE RedisAccepts
  <2>1. /\ inbox' = Append(inbox, [kind |-> "ok", of |-> None])
        /\ taken' = taken + 1 /\ redis' = queue[taken + 1]
        /\ UNCHANGED <<queue, acked, settled, channel, destroyed>>
    BY <1>6 DEF RedisAccepts, RedisAnswers, registry
  <2>2. \A i \in DOMAIN inbox' : (i \in DOMAIN inbox /\ inbox'[i] = inbox[i]) \/ inbox'[i].kind = "ok"
    BY <1>0, <2>1
  <2>3. taken' # 0
    BY <1>0, <2>1
  <2> QED
    BY <2>1, <2>2, <2>3 DEF Accepted, Wanted, InTheMap
<1>7. CASE Publish
  <2>1. /\ inbox' = Append(inbox, [kind |-> "event", of |-> redis])
        /\ UNCHANGED <<taken, redis, queue, acked, settled, channel, destroyed>>
    BY <1>7 DEF Publish, registry
  <2>2. \A i \in DOMAIN inbox' : (i \in DOMAIN inbox /\ inbox'[i] = inbox[i]) \/ inbox'[i].kind = "event"
    BY <1>0, <2>1
  <2> QED
    BY <2>1, <2>2 DEF Accepted, Wanted, InTheMap
<1>8. CASE Reconnect
  BY <1>8 DEF Reconnect, Accepted, Wanted, InTheMap, registry
<1>9. CASE ReadReply
  <2>1. /\ inbox # <<>> /\ Head(inbox) = inbox[1] /\ 1 \in DOMAIN inbox /\ inbox[1] \in Reading
        /\ inbox[1].kind # "event" /\ taken > 0
    BY <1>0, <1>9 DEF ReadReply
  <2>2. Head(inbox).kind = "ok"
    BY <2>1 DEF Reading, Accepted
  <2>3. /\ acked' = queue[1] /\ queue' = Tail(queue) /\ taken' = taken - 1
        /\ inbox' = Tail(inbox) /\ UNCHANGED <<redis, channel, destroyed>>
    BY <1>0, <1>9, <2>2 DEF ReadReply, registry
  <2>s. \A p \in settled' : p.ok
    <3>1. settled' \subseteq settled \cup {[subject |-> Head(queue), ok |-> TRUE]}
      BY <1>9, <2>2 DEF ReadReply
    <3> QED
      BY <3>1 DEF Accepted
  <2>4. \A i \in DOMAIN inbox' : i + 1 \in DOMAIN inbox /\ inbox'[i] = inbox[i + 1]
    BY <1>0, <2>1, <2>3
  <2>5. redis' = IF taken' = 0 THEN acked' ELSE queue'[taken']
    <3>1. redis = queue[taken]
      BY <1>0, <2>1 DEF Accepted
    <3>2. CASE taken = 1
      BY <2>3, <3>1, <3>2
    <3>3. CASE taken > 1
      BY <1>0, <2>3, <3>1, <3>3
    <3> QED
      BY <1>0, <2>1, <3>2, <3>3
  <2>6. Wanted' = Wanted
    <3>1. queue # <<>> /\ Wanted = queue[Len(queue)]
      BY <1>0, <2>1 DEF Wanted
    <3>2. CASE Len(queue) = 1
      <4>1. queue' = <<>>
        BY <1>0, <2>3, <3>2
      <4> QED
        BY <2>3, <3>1, <3>2, <4>1 DEF Wanted
    <3>3. CASE Len(queue) > 1
      <4>1. queue' # <<>> /\ queue'[Len(queue')] = queue[Len(queue)]
        <5>1. Len(queue') = Len(queue) - 1 /\ Len(queue) \in Nat
          BY <1>0, <2>3, <3>1
        <5>2. queue'[Len(queue) - 1] = queue[Len(queue)]
          BY <1>0, <2>3, <3>3
        <5> QED
          BY <3>3, <5>1, <5>2
      <4> QED
        BY <3>1, <4>1 DEF Wanted
    <3>4. Len(queue) = 1 \/ Len(queue) > 1
      <4>1. Len(queue) \in Nat /\ Len(queue) > 0
        BY <1>0, <2>1
      <4> QED
        BY <4>1, OneOrMore
    <3> QED
      BY <3>2, <3>3, <3>4
  <2> QED
    BY <2>s, <2>3, <2>4, <2>5, <2>6 DEF Accepted, InTheMap
<1>10. CASE ReadEvent
  <2>1. /\ UNCHANGED <<redis, taken, acked, settled, destroyed>>
        /\ inbox # <<>> /\ inbox' = Tail(inbox)
    BY <1>10 DEF ReadEvent
  <2> QED
    BY <1>0, <1>10, <2>1, ReadEventMoves, AcceptedMoves
<1>11. ASSUME NEW p \in settled, SubscribeResolved(p) PROVE Accepted'
  <2>1. UNCHANGED <<redis, taken, acked, inbox, destroyed>> /\ settled' \subseteq settled
    BY <1>11 DEF SubscribeResolved, connection
  <2>2. CASE Dropped
    <3>1. taken # 0 => queue'[taken] = queue[taken]
      BY <1>0, <2>2 DEF Dropped, Send
    <3>2. queue' # <<>> /\ queue'[Len(queue')] = None
      BY <1>0, <2>2 DEF Dropped, Send
    <3> QED
      BY <2>1, <2>2, <3>1, <3>2 DEF Accepted, Wanted, InTheMap, Dropped
  <2>3. CASE UNCHANGED <<channel, queue>>
    BY <2>1, <2>3 DEF Accepted, Wanted, InTheMap
  <2>4. CASE InMap(p.subject) /\ channel' = Assigned(channel.refCount, "active") /\ queue' = queue
    <3>1. channel # None /\ channel \in Channel
      BY <1>0, <2>4, OpenIsListening DEF InMap
    <3>2. channel' \in Channel /\ channel'.subject = channel.subject
      BY <2>4, <3>1 DEF Assigned, Channel, ChannelStatus
    <3>3. InTheMap' = InTheMap
      BY <3>1, <3>2, NoneAssumption DEF InTheMap
    <3> QED
      BY <2>1, <2>4, <3>3 DEF Accepted, Wanted
  <2> QED
    BY <1>11, <2>2, <2>3, <2>4 DEF SubscribeResolved, PerformCleanup, Dropped
<1>12. ASSUME NEW p \in settled, SubscribeRejected(p) PROVE Accepted'
  BY <1>12 DEF SubscribeRejected, Accepted
<1> QED
  BY <1>3, <1>4, <1>5, <1>6, <1>7, <1>8, <1>9, <1>10, <1>11, <1>12 DEF Next, React

(* Without error replies nothing of the subscription leaks and no channel is
   dead, however late replies, closes and reconnects interleave. *)
THEOREM SubscriptionFollowsMap == Spec => []SubscriptionAgrees
<1>1. Init => AgreeInv
  BY RegistryInit DEF Init, AgreeInv, Accepted, Wanted, InTheMap
<1>2. AgreeInv => SubscriptionAgrees
  <2> SUFFICES ASSUME AgreeInv, Quiet, refusals = 0, ~destroyed PROVE redis = InTheMap
    BY DEF SubscriptionAgrees, InTheMap
  <2>1. taken = 0
    BY DEF AgreeInv, RegistryInv, TypeOK, Quiet
  <2> QED
    BY <2>1 DEF AgreeInv, Accepted, Quiet, Wanted
<1> QED
  BY <1>1, <1>2, AgreeStep, PTL DEF Spec

-----------------------------------------------------------------------------
(***************************************************************************)
(* The subscription of a gated channel, error replies or not.              *)
(***************************************************************************)

Settled(s) == {p \in settled : p.subject = s}

\* SUBSCRIBE is on its way: the last command, and of no earlier channel.
OnItsWay(s) ==
  /\ queue # <<>>
  /\ queue[Len(queue)] = s
  /\ \A k \in DOMAIN queue : queue[k] = s => k = Len(queue)
  /\ Settled(s) = {}

\* It was answered, and the promise has not reacted.
Answered(s) ==
  /\ queue = <<>>
  /\ Settled(s) # {}
  /\ \A p, q \in Settled(s) : p.ok = q.ok
  /\ \A p \in Settled(s) : p.ok => redis = s /\ acked = s

Subscribed(s) ==
  /\ queue = <<>> /\ redis = s /\ acked = s
  /\ Settled(s) = {}

Backed ==
  channel # None =>
    IF channel.status = "active" THEN Subscribed(channel.subject)
    ELSE OnItsWay(channel.subject) \/ Answered(channel.subject)

(* No command is ahead of an active channel, and the promise of a channel that
   is not active will tell the truth. *)
BackedInv == RegistryInv /\ WireInv /\ (gated => Backed /\ NoStaleEvent)

(* Steps of the registry that keep, drop or make a channel. *)
LEMMA BackedMoves ==
  ASSUME TypeOK, gated, Backed, Kept \/ Dropped \/ (Made /\ settled = {}),
         UNCHANGED <<redis, acked, settled>>
  PROVE  Backed'
<1>1. CASE Kept
  <2>1. CASE channel' = channel
    BY <1>1, <2>1 DEF Kept, Backed, Subscribed, OnItsWay, Answered, Settled
  <2>2. CASE channel' # channel
    BY <1>1, <2>2 DEF Kept, Backed, Subscribed, OnItsWay, Answered, Settled
  <2> QED
    BY <2>1, <2>2
<1>2. CASE Dropped
  BY <1>2 DEF Dropped, Backed
<1>3. CASE Made /\ settled = {}
  <2>1. PICK s \in Unused :
          /\ channel' = [subject |-> s, refCount |-> 1, status |-> "subscribing"]
          /\ Send(s)
    BY <1>3 DEF Made
  <2>2. channel'.subject = s /\ channel'.status # "active"
    BY <2>1
  <2>3. OnItsWay(s)'
    <3>1. /\ queue \in Seq(Command) /\ s \in Command /\ queue' = Append(queue, s)
          /\ \A k \in DOMAIN queue : queue[k] # s
      BY <2>1 DEF TypeOK, Send, Unused, Command
    <3>2. /\ queue' # <<>> /\ queue'[Len(queue')] = s
          /\ \A k \in DOMAIN queue' : k = Len(queue') \/ (k \in DOMAIN queue /\ queue'[k] = queue[k])
      BY <3>1
    <3>3. Settled(s)' = {}
      BY <1>3 DEF Settled
    <3> QED
      BY <3>1, <3>2, <3>3 DEF OnItsWay
  <2> QED
    BY <2>2, <2>3 DEF Backed
<1> QED
  BY <1>1, <1>2, <1>3

(* What is read while nothing is unanswered comes from the present
   subscription. *)
LEMMA HeadIsPresent ==
  ASSUME TypeOK, WireInv, queue = <<>>, inbox # <<>>
  PROVE  Head(inbox).of = redis
<1>1. taken = 0 /\ 1 \in DOMAIN inbox /\ Head(inbox) = inbox[1]
  BY DEF TypeOK
<1>2. EventsFrom(1)
  BY <1>1, NoReplyUntaken DEF EventsFrom
<1> QED
  BY <1>1, <1>2 DEF WireInv

(* The answer to the only command in the queue. *)
LEMMA LastAnswer ==
  ASSUME TypeOK, WireInv, Len(queue) = 1, inbox # <<>>, Head(inbox).kind = "ok"
  PROVE  redis = queue[1]
<1>1. 1 \in DOMAIN inbox /\ Head(inbox) = inbox[1] /\ DOMAIN inbox = 1..Len(inbox)
  BY DEF TypeOK
<1>2. Reply(1)
  BY <1>1 DEF Reply
<1>3. taken = 1
  BY <1>1, <1>2, ReplyTaken DEF TypeOK
<1>4. \A j \in DOMAIN inbox : j >= 1 + 1 => 1 < j
  BY <1>1
<1>5. EventsFrom(1 + 1)
  BY <1>1, <1>2, <1>3, <1>4, ReplyTaken DEF EventsFrom
<1> QED
  BY <1>1, <1>3, <1>5 DEF WireInv

LEMMA BackedReply ==
  ASSUME TypeOK, WireInv, gated, Backed, ReadReply
  PROVE  Backed'
<1> SUFFICES ASSUME channel # None PROVE Backed'
  BY DEF ReadReply, registry, Backed
<1> DEFINE s == channel.subject
<1>0. s \in Subjects
  BY DEF TypeOK, Channel
<1>1. /\ queue \in Seq(Command) /\ Len(queue) \in Nat /\ Len(queue) > 0
      /\ queue' = Tail(queue) /\ UNCHANGED <<channel, redis>>
      /\ inbox # <<>> /\ inbox \in Seq(Reading) /\ Head(inbox) \in Reading
      /\ Head(inbox).kind # "event"
  BY DEF TypeOK, ReadReply, registry
<1>2. queue # <<>> /\ Head(queue) = queue[1] /\ 1 \in DOMAIN queue /\ DOMAIN queue = 1..Len(queue)
  BY <1>1
<1>3. channel.status # "active" /\ OnItsWay(s)
  BY <1>2 DEF Backed, Subscribed, Answered
<1>4. PICK ok \in BOOLEAN : ok <=> Head(inbox).kind = "ok"
  OBVIOUS
<1>5. /\ acked' = IF ok THEN queue[1] ELSE acked
      /\ settled' = IF queue[1] = None THEN settled
                    ELSE settled \cup {[subject |-> queue[1], ok |-> ok]}
  <2>1. (Head(inbox).kind = "ok") = ok
    BY <1>4
  <2> QED
    BY <1>2, <2>1 DEF ReadReply
<1>6. CASE Len(queue) = 1
  <2>1. queue' = <<>> /\ queue[1] = s
    BY <1>1, <1>3, <1>6 DEF OnItsWay
  <2>2. ok => redis = s /\ acked' = s
    BY <1>1, <1>4, <1>5, <1>6, <2>1, LastAnswer
  <2>3. Settled(s)' \subseteq {[subject |-> s, ok |-> ok]}
    BY <1>1, <1>3, <1>5, <2>1 DEF OnItsWay, Settled
  <2>4. Settled(s)' # {}
    <3>1. s # None
      BY <1>0, NoneAssumption
    <3>2. [subject |-> s, ok |-> ok] \in settled'
      BY <1>5, <2>1, <3>1
    <3> QED
      BY <1>1, <3>2 DEF Settled
  <2>5. Answered(s)'
    BY <1>1, <2>1, <2>2, <2>3, <2>4 DEF Answered
  <2> QED
    BY <1>1, <1>3, <2>5 DEF Backed
<1>7. CASE Len(queue) > 1
  <2>1. /\ Len(queue') = Len(queue) - 1 /\ queue' # <<>> /\ DOMAIN queue' = 1..Len(queue')
        /\ \A k \in DOMAIN queue' : k + 1 \in DOMAIN queue /\ queue'[k] = queue[k + 1]
    <3>1. Len(queue') = Len(queue) - 1 /\ DOMAIN queue' = 1..Len(queue) - 1
      BY <1>1, <1>2
    <3>2. queue' # <<>>
      <4>1. Len(queue') > 0
        BY <1>1, <1>7, <3>1
      <4>2. ASSUME queue' = <<>> PROVE Len(queue') = 0
        BY <4>2
      <4> QED
        BY <4>1, <4>2
    <3>3. \A k \in DOMAIN queue' : k + 1 \in DOMAIN queue /\ queue'[k] = queue[k + 1]
      BY <1>1, <1>2, <3>1
    <3> QED
      BY <3>1, <3>2, <3>3
  <2>2. queue[1] # s
    BY <1>2, <1>3, <1>7 DEF OnItsWay
  <2>3. Settled(s)' = {}
    BY <1>1, <1>3, <1>5, <2>2 DEF OnItsWay, Settled
  <2>4. queue'[Len(queue')] = s
    <3>1. Len(queue') \in DOMAIN queue' /\ Len(queue') + 1 = Len(queue)
      BY <1>1, <1>7, <2>1
    <3> QED
      BY <1>3, <2>1, <3>1 DEF OnItsWay
  <2>5. \A k \in DOMAIN queue' : queue'[k] = s => k = Len(queue')
    <3>1. \A k \in DOMAIN queue' : k + 1 = Len(queue) => k = Len(queue')
      BY <1>1, <2>1
    <3> QED
      BY <1>3, <2>1, <3>1 DEF OnItsWay
  <2>6. OnItsWay(s)'
    BY <1>1, <2>1, <2>3, <2>4, <2>5 DEF OnItsWay
  <2> QED
    BY <1>1, <1>3, <2>6 DEF Backed
<1>8. Len(queue) = 1 \/ Len(queue) > 1
  BY <1>1, OneOrMore
<1> QED
  BY <1>6, <1>7, <1>8

(* Streams that are closed forget what they saw. *)
LEMMA ClosedUnseen ==
  ASSUME NoStaleEvent, gated, NEW C, CloseStreams(C), gated' = gated
  PROVE  NoStaleEvent'
BY DEF NoStaleEvent, CloseStreams

(* The promise of a channel that is not in the map reacts. *)
LEMMA OthersSettled ==
  ASSUME Backed, NEW p \in settled, settled' = settled \ {p}, ~InMap(p.subject),
         UNCHANGED <<channel, queue, redis, acked>>
  PROVE  Backed'
<1> SUFFICES ASSUME channel # None PROVE Backed'
  BY DEF Backed
<1>1. channel.subject # p.subject
  BY DEF InMap
<1>2. Settled(channel.subject)' = Settled(channel.subject)
  BY <1>1 DEF Settled
<1> QED
  BY <1>2 DEF Backed, Subscribed, OnItsWay, Answered

LEMMA BackedStep == BackedInv /\ [Next]_vars => BackedInv'
<1> SUFFICES ASSUME BackedInv, [Next]_vars, gated', gated' = gated PROVE Backed' /\ NoStaleEvent'
  <2>1. BackedInv /\ [Next]_vars => gated' = gated
    BY DEF Next, vars, registry, Connect, Close, Destroy, RedisAccepts, RedisRefuses, Publish,
           Reconnect, ReadReply, ReadEvent, React, SubscribeResolved, SubscribeRejected
  <2> QED
    BY <2>1, RegistryStep, WireStep DEF BackedInv
<1>0. /\ RegistryInv /\ WireInv /\ TypeOK /\ gated /\ Backed /\ NoStaleEvent
      /\ queue \in Seq(Command) /\ taken \in 0..Len(queue)
      /\ stream \in [Clients -> Subjects \cup {None}]
      /\ seen \in [Clients -> Subjects \cup {None}]
  BY DEF BackedInv, RegistryInv, TypeOK
<1>s. ASSUME UNCHANGED <<stream, seen>> PROVE NoStaleEvent'
  BY <1>0, <1>s DEF NoStaleEvent
<1>1. CASE UNCHANGED vars
  BY <1>0, <1>1 DEF vars, Backed, Subscribed, OnItsWay, Answered, Settled, NoStaleEvent
<1>2. ASSUME NEW c \in Clients, Connect(c) PROVE Backed' /\ NoStaleEvent'
  <2>1. Backed'
    BY <1>0, <1>2, ConnectMoves, BackedMoves DEF Connect, connection
  <2>2. stream[c] = None /\ seen' = seen /\ \A d \in Clients : d # c => stream'[d] = stream[d]
    BY <1>0, <1>2 DEF Connect
  <2>3. seen[c] = None
    BY <1>0, <2>2 DEF NoStaleEvent
  <2> QED
    BY <1>0, <2>1, <2>2, <2>3 DEF NoStaleEvent
<1>3. ASSUME NEW c \in Clients, Close(c) PROVE Backed' /\ NoStaleEvent'
  <2>1. Backed'
    BY <1>0, <1>3, CloseMoves, BackedMoves DEF Close, connection
  <2> QED
    BY <1>0, <1>3, <2>1, ClosedUnseen DEF Close
<1>4. CASE Destroy
  <2>1. Backed'
    BY <1>4 DEF Destroy, Backed
  <2> QED
    BY <1>0, <1>4, <1>s, <2>1, ClosedUnseen DEF Destroy
<1>5. CASE RedisAccepts \/ RedisRefuses
  <2>1. /\ UNCHANGED <<channel, queue, acked, settled, stream, seen>>
        /\ queue # <<>>
    BY <1>0, <1>5 DEF RedisAccepts, RedisRefuses, RedisAnswers, registry
  <2>2. Backed'
    BY <1>0, <2>1 DEF Backed, Subscribed, OnItsWay, Answered, Settled
  <2> QED
    BY <1>s, <2>1, <2>2
<1>6. CASE Publish
  BY <1>0, <1>6, <1>s DEF Publish, registry, Backed, Subscribed, OnItsWay, Answered, Settled
<1>7. CASE Reconnect
  BY <1>0, <1>7, <1>s DEF Reconnect, registry, Backed, Subscribed, OnItsWay, Answered, Settled
<1>8. CASE ReadReply
  BY <1>0, <1>8, <1>s, BackedReply DEF ReadReply, registry
<1>9. CASE ReadEvent
  <2>1. Backed'
    BY <1>0, <1>9, ReadEventMoves, BackedMoves DEF ReadEvent
  <2>2. CASE UNCHANGED <<stream, seen>>
    BY <1>s, <2>1, <2>2
  <2>3. CASE Deliverable /\ ~UNCHANGED <<stream, seen>>
    <3>1. channel # None /\ channel.status = "active" /\ inbox # <<>>
      BY <1>0, <1>9, <2>3 DEF Deliverable, ReadEvent
    <3>2. Subscribed(channel.subject)
      BY <1>0, <3>1 DEF Backed
    <3>3. Head(inbox).of = channel.subject
      BY <1>0, <3>1, <3>2, HeadIsPresent DEF Subscribed
    <3>4. PICK broken \in SUBSET Listeners(channel.subject) :
            /\ stream' = [c \in Clients |-> IF c \in broken THEN None ELSE stream[c]]
            /\ seen' = [c \in Clients |->
                           IF c \in broken THEN None
                           ELSE IF stream[c] = channel.subject THEN Head(inbox).of
                           ELSE seen[c]]
      BY <1>9, <2>3 DEF ReadEvent
    <3>5. NoStaleEvent'
      BY <1>0, <3>3, <3>4 DEF NoStaleEvent
    <3> QED
      BY <2>1, <3>5
  <2> QED
    BY <1>9, <2>2, <2>3 DEF ReadEvent
<1>10. ASSUME NEW p \in settled, SubscribeResolved(p) PROVE Backed' /\ NoStaleEvent'
  <2>1. /\ UNCHANGED <<redis, acked, stream, seen>> /\ settled' = settled \ {p} /\ p.ok
    BY <1>10 DEF SubscribeResolved, connection
  <2>2. CASE ~InMap(p.subject) /\ UNCHANGED <<channel, queue>>
    BY <1>0, <1>s, <2>1, <2>2, OthersSettled
  <2>3. CASE channel' = None
    BY <1>s, <2>1, <2>3 DEF Backed
  <2>4. CASE InMap(p.subject) /\ channel' = Assigned(channel.refCount, "active") /\ queue' = queue
    <3>1. channel # None /\ channel.subject = p.subject /\ p \in Settled(p.subject)
      BY <2>4 DEF InMap, Settled
    <3>2. Answered(p.subject)
      BY <1>0, <3>1 DEF Backed, OnItsWay, Subscribed
    <3>3. queue = <<>> /\ redis = p.subject /\ acked = p.subject
      BY <2>1, <3>1, <3>2 DEF Answered
    <3>4. \A q \in Settled(p.subject) : q = p
      <4> SUFFICES ASSUME NEW q \in settled, q.subject = p.subject PROVE q = p
        BY DEF Settled
      <4>1. q.ok = p.ok
        BY <3>1, <3>2 DEF Answered, Settled
      <4>2. q \in Settlement /\ p \in Settlement
        BY <1>0 DEF TypeOK
      <4> QED
        BY <4>1, <4>2 DEF Settlement
    <3>5. Settled(p.subject)' = {}
      BY <2>1, <3>4 DEF Settled
    <3>6. channel'.subject = p.subject /\ channel'.status = "active"
      BY <2>4, <3>1 DEF Assigned
    <3>7. Subscribed(p.subject)'
      BY <2>1, <2>4, <3>3, <3>5, <3>6 DEF Subscribed
    <3> QED
      BY <1>s, <2>1, <3>6, <3>7 DEF Backed
  <2> QED
    BY <1>10, <2>2, <2>3, <2>4 DEF SubscribeResolved, PerformCleanup
<1>11. ASSUME NEW p \in settled, SubscribeRejected(p) PROVE Backed' /\ NoStaleEvent'
  <2>1. UNCHANGED <<redis, acked, queue>> /\ settled' = settled \ {p}
    BY <1>11 DEF SubscribeRejected, connection
  <2>2. CASE ~InMap(p.subject) /\ UNCHANGED <<channel, stream, seen>>
    BY <1>0, <1>s, <2>1, <2>2, OthersSettled
  <2>3. CASE channel' = None /\ CloseStreams(Listeners(p.subject))
    BY <1>0, <2>3, ClosedUnseen DEF Backed
  <2> QED
    BY <1>0, <1>11, <2>2, <2>3 DEF SubscribeRejected
<1> QED
  BY <1>1, <1>2, <1>3, <1>4, <1>5, <1>6, <1>7, <1>8, <1>9, <1>10, <1>11 DEF Next, React

LEMMA BackedInvHolds == Spec => []BackedInv
<1>1. Init => WireInv
  <2> SUFFICES ASSUME Init PROVE WireInv
    OBVIOUS
  <2>1. inbox = <<>> /\ DOMAIN inbox = {}
    BY DEF Init
  <2>2. PICK at : at = [k \in 1..0 |-> 0]
    OBVIOUS
  <2>3. taken = 0 /\ 1..0 = {}
    BY DEF Init
  <2>4. Answers(at)
    BY <2>1, <2>2, <2>3 DEF Answers
  <2> QED
    BY <2>1, <2>4 DEF WireInv
<1>2. Init => BackedInv
  BY <1>1, RegistryInit DEF Init, BackedInv, Backed, NoStaleEvent
<1> QED
  BY <1>2, BackedStep, PTL DEF Spec

(* An active channel of the timer is subscribed, whatever replies were lost,
   late or errors. *)
THEOREM ActiveChannelsAreSubscribed == Spec => []ActiveIsSubscribed
<1>1. BackedInv => ActiveIsSubscribed
  BY DEF BackedInv, Backed, Subscribed, ActiveIsSubscribed
<1> QED
  BY <1>1, BackedInvHolds, PTL

(* Nothing left over from an earlier channel reaches a stream of the timer. *)
THEOREM EventsAreFresh == Spec => []NoStaleEvent
<1>1. BackedInv => NoStaleEvent
  BY DEF BackedInv, NoStaleEvent
<1> QED
  BY <1>1, BackedInvHolds, PTL

(* Why a channel that is not active will not stay so: its promise is settled and
   will react, or its SUBSCRIBE is the last command sent, and Redis has still to
   process a command or a reply has still to be read. *)
Awaited(s) ==
  \/ \E p \in settled : p.subject = s
  \/ /\ queue # <<>> /\ queue[Len(queue)] = s
     /\ taken < Len(queue) \/ \E i \in DOMAIN inbox : Reply(i)

(* What waits in the inbox can be read: the oldest command is that of the first
   reply. *)
Readable == inbox # <<>> => Head(inbox).kind = "event" \/ taken > 0

NothingForgotten == Readable /\ \A s \in Subjects : InTransit(s) => Awaited(s)

(* The answer that a channel of the timer waits for is never lost: not by another
   channel of the same user, by an error reply or by a lost connection.
   What TransitEnds rests upon, whatever the bounds. *)
THEOREM TransitIsAwaited == Spec => []NothingForgotten
<1>1. BackedInv => Readable
  <2> SUFFICES ASSUME BackedInv, inbox # <<>>, Head(inbox).kind # "event"
               PROVE  taken > 0
    BY DEF Readable
  <2>1. TypeOK /\ WireInv /\ 1 \in DOMAIN inbox /\ Head(inbox) = inbox[1]
    BY DEF BackedInv, RegistryInv, TypeOK
  <2> QED
    BY <2>1, ReplyTaken DEF Reply
<1>2. ASSUME BackedInv, NEW s \in Subjects, InTransit(s) PROVE Awaited(s)
  <2>1. /\ TypeOK /\ WireInv
        /\ channel # None /\ channel.subject = s
        /\ OnItsWay(s) \/ Answered(s)
    BY <1>2 DEF BackedInv, RegistryInv, Backed, InTransit, InMap
  <2>2. CASE Answered(s)
    BY <2>2 DEF Answered, Settled, Awaited
  <2>3. CASE OnItsWay(s)
    <3>1. queue \in Seq(Command) /\ Len(queue) \in Nat /\ Len(queue) > 0 /\ taken \in 0..Len(queue)
      BY <2>1, <2>3 DEF OnItsWay, TypeOK
    <3>2. taken < Len(queue) \/ taken > 0
      BY <3>1
    <3> QED
      BY <2>1, <2>3, <3>2, TakenReply DEF OnItsWay, Awaited
  <2> QED
    BY <2>1, <2>2, <2>3
<1>3. BackedInv => NothingForgotten
  BY <1>1, <1>2 DEF NothingForgotten
<1> QED
  BY <1>3, BackedInvHolds, PTL

=============================================================================
