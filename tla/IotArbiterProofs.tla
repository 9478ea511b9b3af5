-------------------------- MODULE IotArbiterProofs --------------------------
(***************************************************************************)
(* What holds of the arbiter for any stations, any topics of others and    *)
(* any number of messages and failures: the types, that it hears the       *)
(* stations unless it reconnected, and that the numbers are stored.        *)
(***************************************************************************)
EXTENDS IotArbiter, SequenceTheorems, FiniteSetTheorems, TLAPS

Message == Foreign \cup published

\* The shape of the broker's state, and how the stations' messages are counted.
Shapes ==
  /\ queue \in [Client -> Seq(Message)]
  /\ retained \in [Topic -> Foreign \cup {NONE}]
  /\ IsFiniteSet(published) /\ Cardinality(published) <= MaxMessages
  /\ \A m \in published : m.n \in 1 .. Cardinality(published)
  /\ \A s \in Station, t \in Second :
       db[s][t] # NONE => db[s][t] \in 1 .. Cardinality(published)

Typed == TypeOK /\ Shapes

\* Before it subscribes, a connection is the first of the process; an arbiter
\* that runs without one has lost it.
\* With Typed, the inductive invariant for HearsUnlessReconnected.
Told ==
  /\ Arbiter \in conn /\ subscribing => ~lost
  /\ up /\ Arbiter \notin conn => lost

\* The messages of the stations wait in the order in which they were sent,
\* and what the database holds was sent before them.
\* With Typed, the inductive invariant for NumbersAreStored.
Waiting == queue[Arbiter]
QueueIsOrdered ==
  \A i, j \in DOMAIN Waiting :
    i < j /\ Waiting[i].topic \in Station /\ Waiting[j].topic \in Station
      => Waiting[i].n < Waiting[j].n
StoredIsOlder ==
  \A i \in DOMAIN Waiting, t \in Second :
    Waiting[i].topic \in Station /\ db[Waiting[i].topic][t] # NONE
      => db[Waiting[i].topic][t] < Waiting[i].n

Sound == Typed /\ HearsUnlessReconnected /\ Told
Ordered == Sound /\ QueueIsOrdered /\ StoredIsOlder /\ NumbersAreStored

-----------------------------------------------------------------------------
\* What the broker's steps do to the queues.
LEMMA SequenceFacts ==
  ASSUME NEW T, NEW s \in Seq(T)
  PROVE  /\ Len(s) \in Nat /\ DOMAIN s = 1 .. Len(s)
         /\ \A i \in DOMAIN s : s[i] \in T
         /\ Range(s) \subseteq T
BY LenProperties DEF Range

\* The retained messages that a subscription asks for are sent as a sequence.
LEMMA RetainedIsSequence ==
  ASSUME NEW T, retained \in [Topic -> T \cup {NONE}], NEW c \in Client
  PROVE  SetToSeq(RetainedFor(c)) \in Seq(T)
<1> DEFINE S == {retained[t] : t \in Filter[c]}
           f == [t \in Filter[c] |-> retained[t]]
           R == RetainedFor(c)
<1>1. IsFiniteSet(Filter[c]) /\ Filter[c] \subseteq Topic
  BY BrokerAssumption, FS_Subset
<1>2. f \in Surjection(Filter[c], S)
  BY DEF Surjection
<1>3. IsFiniteSet(S)
  BY <1>1, <1>2, FS_Surjection
<1>4. IsFiniteSet(R) /\ R \subseteq T
  BY <1>1, <1>3, FS_Subset DEF RetainedFor
<1> HIDE DEF R, S, f
<1>5. PICK g : g \in Bijection(1 .. Cardinality(R), R)
  BY <1>4, FS_CardinalityType DEF ExistsBijection
<1>6. g \in [1 .. Cardinality(R) -> R] /\ IsInjective(g)
  BY <1>5 DEF Bijection, Injection, IsInjective
<1>7. SetToSeq(R) \in [1 .. Cardinality(R) -> R]
  BY <1>6 DEF SetToSeq
<1>8. Cardinality(R) \in Nat
  BY <1>4, FS_CardinalityType
<1>9. SetToSeq(R) \in Seq(R)
  BY <1>7, <1>8, SeqDef
<1> QED BY <1>4, <1>9, SeqMonotonic DEF R

LEMMA SubscribeEffect ==
  ASSUME Typed, Subscribe(Arbiter)
  PROVE  /\ queue' \in [Client -> Seq(Message)]
         /\ \E s \in Seq(Foreign) : queue'[Arbiter] = queue[Arbiter] \o s
<1> DEFINE s == SetToSeq(RetainedFor(Arbiter))
<1>1. Arbiter \in Client /\ queue \in [Client -> Seq(Message)]
  BY ArbiterAssumption DEF Typed, Shapes
<1>2. s \in Seq(Foreign)
  BY <1>1, RetainedIsSequence DEF Typed, Shapes
<1>3. s \in Seq(Message)
  BY <1>2, SeqMonotonic DEF Message
<1>4. queue' = [queue EXCEPT ![Arbiter] = @ \o s]
  BY DEF Subscribe
<1> HIDE DEF s
<1>5. queue[Arbiter] \o s \in Seq(Message)
  BY <1>1, <1>3, ConcatProperties
<1> QED BY <1>1, <1>2, <1>4, <1>5

LEMMA DisconnectEffect ==
  ASSUME Typed, Disconnect(Arbiter)
  PROVE  /\ queue' \in [Client -> Seq(Message)] /\ queue'[Arbiter] = <<>>
         /\ conn' = conn \ {Arbiter} /\ subs' = subs \ {Arbiter}
         /\ retained' = retained
<1>1. Arbiter \in Client \ Persistent /\ queue \in [Client -> Seq(Message)]
  BY ArbiterAssumption DEF Typed, Shapes
<1>2. queue' = [queue EXCEPT ![Arbiter] = <<>>]
  BY <1>1 DEF Disconnect
<1>3. <<>> \in Seq(Message)
  BY EmptySeq
<1> QED BY <1>1, <1>2, <1>3 DEF Disconnect

LEMMA DeliverEffect ==
  ASSUME Typed, Deliver(Arbiter)
  PROVE  /\ queue' \in [Client -> Seq(Message)]
         /\ Waiting # <<>> /\ Waiting' = Tail(Waiting)
         /\ Oldest(Arbiter) = Waiting[1] /\ Oldest(Arbiter) \in Message
         /\ Len(Waiting) \in Nat \ {0} /\ Len(Waiting') = Len(Waiting) - 1
         /\ \A i \in DOMAIN Waiting' :
              i + 1 \in DOMAIN Waiting /\ Waiting'[i] = Waiting[i + 1]
         /\ UNCHANGED <<conn, subs, retained>>
<1>1. /\ Arbiter \in Client /\ queue \in [Client -> Seq(Message)]
      /\ Waiting \in Seq(Message)
  BY ArbiterAssumption DEF Typed, Shapes, Waiting
<1>2. /\ Waiting # <<>> /\ queue' = [queue EXCEPT ![Arbiter] = Tail(Waiting)]
      /\ UNCHANGED <<conn, subs, retained>>
  BY DEF Deliver, Waiting
<1>3. /\ Head(Waiting) \in Message /\ Tail(Waiting) \in Seq(Message)
      /\ Len(Tail(Waiting)) = Len(Waiting) - 1
      /\ \A i \in 1 .. Len(Tail(Waiting)) : Tail(Waiting)[i] = Waiting[i + 1]
  BY <1>1, <1>2, HeadTailProperties
<1>4. queue' \in [Client -> Seq(Message)] /\ Waiting' = Tail(Waiting)
  BY <1>1, <1>2, <1>3 DEF Waiting
<1>5. /\ Len(Waiting) \in Nat \ {0} /\ DOMAIN Waiting = 1 .. Len(Waiting)
      /\ DOMAIN Tail(Waiting) = 1 .. Len(Tail(Waiting))
  BY <1>1, <1>2, <1>3, LenProperties, EmptySeq
<1>6. \A i \in DOMAIN Waiting' :
        i + 1 \in DOMAIN Waiting /\ Waiting'[i] = Waiting[i + 1]
  BY <1>3, <1>4, <1>5
<1>7. Oldest(Arbiter) = Waiting[1] /\ Oldest(Arbiter) \in Message
  BY <1>1, <1>3 DEF Oldest, Waiting
<1> QED BY <1>2, <1>3, <1>4, <1>5, <1>6, <1>7

\* A message is sent to those who subscribed to its topic.
LEMMA QueuedEffect ==
  ASSUME NEW T, queue \in [Client -> Seq(T)], NEW m \in T, queue' = Queued(m)
  PROVE  /\ queue' \in [Client -> Seq(T)]
         /\ \A c \in Client : \/ queue'[c] = queue[c]
                              \/ /\ c \in subs /\ m.topic \in Filter[c]
                                 /\ queue'[c] = Append(queue[c], m)
         /\ \A c \in Client : c \in subs /\ m.topic \in Filter[c] =>
              queue'[c] = Append(queue[c], m)
<1>1. \A c \in Client : queue[c] \in Seq(T) /\ Append(queue[c], m) \in Seq(T)
  BY AppendProperties
<1> QED BY <1>1 DEF Queued

LEMMA AppendFacts ==
  ASSUME NEW T, NEW s \in Seq(T), NEW m \in T
  PROVE  /\ Len(s) \in Nat /\ DOMAIN Append(s, m) = 1 .. Len(s) + 1
         /\ \A i \in 1 .. Len(s) : Append(s, m)[i] = s[i]
         /\ Append(s, m)[Len(s) + 1] = m
         /\ Range(Append(s, m)) = Range(s) \cup {m}
<1>1. /\ Append(s, m) \in Seq(T) /\ Len(Append(s, m)) = Len(s) + 1
      /\ \A i \in 1 .. Len(s) : Append(s, m)[i] = s[i]
      /\ Append(s, m)[Len(s) + 1] = m
  BY AppendProperties
<1>2. Len(s) \in Nat /\ DOMAIN s = 1 .. Len(s) /\ DOMAIN Append(s, m) = 1 .. Len(s) + 1
  BY <1>1, LenProperties
<1> QED BY <1>1, <1>2 DEF Range

-----------------------------------------------------------------------------
\* The types, and the order in which an arbiter hears and is heard.

\* The queues' part of TypeOK follows from their shape.
LEMMA QueuesAreTyped ==
  ASSUME queue' \in [Client -> Seq(Message')]
  PROVE  (\A c \in Client : Range(queue[c]) \subseteq Foreign \cup published)'
BY SequenceFacts DEF Message

LEMMA InitTyped == Init => Typed
<1> SUFFICES ASSUME Init PROVE Typed
  OBVIOUS
<1>1. published = {} /\ IsFiniteSet(published) /\ Cardinality(published) = 0
  BY FS_EmptySet DEF Init
<1>2. queue \in [Client -> Seq(Message)] /\ \A c \in Client : Range(queue[c]) = {}
  BY EmptySeq DEF Init, BrokerInit, Range
<1>3. TypeOK
  <2>1. /\ conn = {} /\ subs = {} /\ ~up /\ up \in BOOLEAN
        /\ ~subscribing /\ subscribing \in BOOLEAN /\ lost \in BOOLEAN
        /\ published = {} /\ excused = {}
    BY DEF Init, BrokerInit
  <2>2. db \in [Station -> [Second -> 1..MaxMessages \cup {NONE}]]
    BY DEF Init
  <2>3. \A t \in Topic : retained[t] \in Foreign \cup {NONE}
    BY DEF Init, BrokerInit
  <2>4. \A c \in Client : Range(queue[c]) \subseteq Foreign \cup published
    BY <1>2
  <2>5. failures \in 0 .. MaxFailures /\ others \in 0 .. MaxOthers
    BY ArbiterAssumption DEF Init
  <2> QED BY <2>1, <2>2, <2>3, <2>4, <2>5 DEF TypeOK
<1>4. Shapes
  BY <1>1, <1>2, ArbiterAssumption DEF Init, BrokerInit, Shapes
<1> QED BY <1>3, <1>4 DEF Typed

LEMMA StationPublishesKeepsTyped ==
  ASSUME Typed, NEW s \in Station, NEW p \in Payload, NEW t \in Second \cup {NONE},
         StationPublishes(s, p, t)
  PROVE  Typed'
<1> DEFINE n == Cardinality(published) + 1
           m == [topic |-> s, n |-> n, payload |-> p, stamp |-> t]
<1>1. /\ Cardinality(published) \in Nat /\ Cardinality(published) < MaxMessages
      /\ Publish(m, FALSE) /\ published' = published \cup {m}
      /\ excused' = IF Arbiter \in subs THEN excused ELSE excused \cup {m}
      /\ UNCHANGED <<conn, subs, retained, up, subscribing, db, failures, others, lost>>
  BY FS_CardinalityType DEF StationPublishes, Publish, Typed, Shapes
<1>2. m \in Measurement
  BY <1>1 DEF Measurement
<1>3. m \notin published
  <2>1. \A x \in published : x.n # n
    BY <1>1 DEF Typed, Shapes
  <2> QED BY <2>1
<1>4. IsFiniteSet(published') /\ Cardinality(published') = n
  BY <1>1, <1>3, FS_AddElement DEF Typed, Shapes
<1>5. queue \in [Client -> Seq(Message')] /\ m \in Message'
  <2>1. Message \subseteq Message'
    BY <1>1 DEF Message
  <2>2. \A c \in Client : queue[c] \in Seq(Message')
    BY <2>1, SeqMonotonic DEF Typed, Shapes
  <2> QED BY <1>1, <2>2 DEF Typed, Shapes, Message
<1>6. queue' \in [Client -> Seq(Message')]
  BY <1>1, <1>5, QueuedEffect DEF Publish
<1>7. Shapes'
  <2>1. \A x \in published' : x.n \in 1 .. Cardinality(published')
    BY <1>1, <1>4 DEF Typed, Shapes
  <2>2. \A x \in Station, y \in Second :
          db'[x][y] # NONE => db'[x][y] \in 1 .. Cardinality(published')
    BY <1>1, <1>4 DEF Typed, Shapes
  <2>3. Cardinality(published') <= MaxMessages
    BY <1>1, <1>4, ArbiterAssumption
  <2>4. retained' \in [Topic -> Foreign \cup {NONE}]
    BY <1>1 DEF Typed, Shapes
  <2> QED BY <1>4, <1>6, <2>1, <2>2, <2>3, <2>4 DEF Shapes
<1>8. TypeOK'
  <2>1. excused' \subseteq published' /\ published' \subseteq Measurement
    BY <1>1, <1>2 DEF Typed, TypeOK
  <2> HIDE DEF m
  <2> QED BY <1>1, <1>6, <2>1, QueuesAreTyped DEF Typed, TypeOK
<1> QED BY <1>7, <1>8 DEF Typed

LEMMA OthersPublishKeepsTyped ==
  ASSUME Typed, NEW m \in Foreign, OthersPublish(m)
  PROVE  Typed'
<1>1. /\ queue' = Queued(m)
      /\ \/ retained' = [retained EXCEPT ![m.topic] = m]
         \/ retained' = [retained EXCEPT ![m.topic] = NONE]
      /\ others < MaxOthers /\ others' = others + 1
      /\ UNCHANGED <<conn, subs, up, subscribing, db, failures, lost, published, excused>>
  BY DEF OthersPublish, Publish, PublishEmpty
<1>2. queue' \in [Client -> Seq(Message')]
  <2>1. queue \in [Client -> Seq(Message)] /\ m \in Message
    BY DEF Typed, Shapes, Message
  <2>2. queue' \in [Client -> Seq(Message)]
    BY <1>1, <2>1, QueuedEffect
  <2> QED BY <1>1, <2>2 DEF Message
<1>3. m.topic \in Topic /\ retained' \in [Topic -> Foreign \cup {NONE}]
  BY <1>1 DEF Typed, Shapes, Foreign
<1>4. Shapes'
  BY <1>1, <1>2, <1>3 DEF Typed, Shapes
<1>5. others' \in 0 .. MaxOthers
  BY <1>1, ArbiterAssumption DEF Typed, TypeOK
<1>6. TypeOK'
  BY <1>1, <1>2, <1>3, <1>5, QueuesAreTyped DEF Typed, TypeOK
<1> QED BY <1>4, <1>6 DEF Typed

\* A step that leaves the messages, what is retained and the database alone.
LEMMA TypedIfUntouched ==
  ASSUME Typed, queue' \in [Client -> Seq(Message)], UNCHANGED <<retained, published, db>>
  PROVE  /\ Shapes'
         /\ (\A c \in Client : Range(queue[c]) \subseteq Foreign \cup published)'
         /\ (\A t \in Topic : retained[t] \in Foreign \cup {NONE})'
         /\ (db \in [Station -> [Second -> 1..MaxMessages \cup {NONE}]])'
         /\ (published \subseteq Measurement)'
<1>1. queue' \in [Client -> Seq(Message')]
  BY DEF Message
<1>2. Shapes'
  BY <1>1 DEF Typed, Shapes
<1> QED BY <1>1, <1>2, QueuesAreTyped DEF Typed, TypeOK

LEMMA ArbiterStartsKeepsTyped == ASSUME Typed, ArbiterStarts PROVE Typed'
<1>1. /\ conn' = conn \cup {Arbiter} /\ UNCHANGED <<subs, queue, retained>>
      /\ up' = TRUE /\ subscribing' = TRUE /\ lost' = FALSE
      /\ UNCHANGED <<db, failures, others, published, excused>>
  BY DEF ArbiterStarts, Connect
<1>2. queue' \in [Client -> Seq(Message)] /\ Arbiter \in Client
  BY <1>1, ArbiterAssumption DEF Typed, Shapes
<1>3. TypeOK'
  BY <1>1, <1>2, TypedIfUntouched DEF Typed, TypeOK
<1> QED BY <1>1, <1>2, <1>3, TypedIfUntouched DEF Typed

LEMMA ArbiterSubscribesKeepsTyped == ASSUME Typed, ArbiterSubscribes PROVE Typed'
<1>1. /\ up /\ subscribing' = FALSE
      /\ UNCHANGED <<conn, retained, up, db, failures, others, lost, published, excused>>
      /\ subs' \subseteq conn'
  BY DEF ArbiterSubscribes, Subscribe, broker, Typed, TypeOK
<1>2. queue' \in [Client -> Seq(Message)]
  BY SubscribeEffect DEF ArbiterSubscribes, broker, Typed, Shapes
<1>3. TypeOK'
  BY <1>1, <1>2, TypedIfUntouched DEF Typed, TypeOK
<1> QED BY <1>1, <1>2, <1>3, TypedIfUntouched DEF Typed

LEMMA ArbiterReconnectsKeepsTyped == ASSUME Typed, ArbiterReconnects PROVE Typed'
<1>1. /\ up /\ conn' = conn \cup {Arbiter}
      /\ UNCHANGED <<subs, queue, retained, arbiter>>
  BY DEF ArbiterReconnects, Connect
<1>2. queue' \in [Client -> Seq(Message)] /\ Arbiter \in Client
  BY <1>1, ArbiterAssumption DEF Typed, Shapes
<1>3. TypeOK'
  BY <1>1, <1>2, TypedIfUntouched DEF Typed, TypeOK, arbiter
<1> QED BY <1>1, <1>2, <1>3, TypedIfUntouched DEF Typed, arbiter

\* The messages of the stations that wait are some of those published.
LEMMA MeasurementsArePublished ==
  ASSUME Typed
  PROVE  Measurements(queue[Arbiter]) \subseteq published
BY ArbiterAssumption DEF Typed, TypeOK, Measurements, Foreign

\* The connection ends, and maybe the process.
LEMMA ConnectionEndsKeepsTyped ==
  ASSUME Typed, Disconnect(Arbiter),
         excused' = excused \cup Measurements(queue[Arbiter]),
         UNCHANGED <<db, others, published>>, failures' \in 0 .. MaxFailures,
         lost' \in BOOLEAN, up' \in BOOLEAN, subscribing' \in BOOLEAN,
         subscribing' => up'
  PROVE  Typed'
<1>1. /\ queue' \in [Client -> Seq(Message)]
      /\ conn' = conn \ {Arbiter} /\ subs' = subs \ {Arbiter} /\ retained' = retained
  BY DisconnectEffect
<1>2. excused' \subseteq published'
  BY MeasurementsArePublished DEF Typed, TypeOK
<1>3. TypeOK'
  BY <1>1, <1>2, TypedIfUntouched DEF Typed, TypeOK
<1> QED BY <1>1, <1>3, TypedIfUntouched DEF Typed

LEMMA ArbiterLosesConnectionKeepsTyped ==
  ASSUME Typed, ArbiterLosesConnection PROVE Typed'
<1>1. failures' \in 0 .. MaxFailures
  BY ArbiterAssumption DEF ArbiterLosesConnection, Typed, TypeOK
<1> QED BY <1>1, ConnectionEndsKeepsTyped DEF ArbiterLosesConnection, Typed, TypeOK

LEMMA ArbiterEndsKeepsTyped ==
  ASSUME Typed, ArbiterEnds,
         UNCHANGED failures \/ (failures < MaxFailures /\ failures' = failures + 1)
  PROVE  Typed'
<1>1. failures' \in 0 .. MaxFailures
  BY ArbiterAssumption DEF Typed, TypeOK
<1> QED BY <1>1, ConnectionEndsKeepsTyped DEF ArbiterEnds, Typed, TypeOK

LEMMA IgnoreKeepsTyped == ASSUME Typed, Ignore PROVE Typed'
<1>1. /\ queue' \in [Client -> Seq(Message)]
      /\ UNCHANGED <<conn, subs, retained, arbiter>>
  BY DeliverEffect DEF Ignore
<1>2. TypeOK'
  BY <1>1, TypedIfUntouched DEF Typed, TypeOK, arbiter
<1> QED BY <1>1, <1>2, TypedIfUntouched DEF Typed, arbiter

\* Numbers come from the stations only.
LEMMA OldestIsPublished ==
  ASSUME Typed, Deliver(Arbiter), NEW m, m = Oldest(Arbiter), m.payload = "numbers"
  PROVE  /\ m \in published /\ m \in Measurement
         /\ m.n \in 1 .. Cardinality(published)
         /\ Cardinality(published) \in Nat /\ Cardinality(published) <= MaxMessages
<1>1. m \in published
  BY DeliverEffect DEF Message, Foreign
<1> QED BY <1>1, FS_CardinalityType DEF Typed, TypeOK, Shapes

LEMMA StoreKeepsTyped ==
  ASSUME Typed, NEW m, m = Oldest(Arbiter), m.payload = "numbers", Store(m)
  PROVE  Typed'
<1>1. /\ queue' \in [Client -> Seq(Message)]
      /\ UNCHANGED <<conn, subs, retained, up, subscribing, failures, others, lost, published, excused>>
  BY DeliverEffect DEF Store
<1>2. /\ m \in published /\ m.topic \in Station /\ m.n \in 1 .. Cardinality(published)
      /\ m.n \in 1 .. MaxMessages
  BY OldestIsPublished, ArbiterAssumption DEF Store, Measurement
<1>3. PICK t \in Second : db' = [db EXCEPT ![m.topic][t] = m.n]
  BY DEF Store
<1>4. queue' \in [Client -> Seq(Message')]
  BY <1>1 DEF Message
<1>5. db' \in [Station -> [Second -> 1..MaxMessages \cup {NONE}]]
  BY <1>2, <1>3 DEF Typed, TypeOK
<1>6. \A x \in Station, y \in Second :
        db'[x][y] # NONE => db'[x][y] \in 1 .. Cardinality(published)
  BY <1>2, <1>3 DEF Typed, TypeOK, Shapes
<1>7. Shapes'
  BY <1>1, <1>4, <1>6 DEF Typed, Shapes
<1>8. TypeOK'
  BY <1>1, <1>4, <1>5, QueuesAreTyped DEF Typed, TypeOK
<1> QED BY <1>7, <1>8 DEF Typed

\* The handler's four ways with a message.
LEMMA OnMessageSplits ==
  ASSUME OnMessage, NEW m, m = Oldest(Arbiter)
  PROVE  \/ Ignore /\ (IsMeasurement(m) => m.payload = "text")
         \/ ArbiterEnds /\ UNCHANGED failures
         \/ ArbiterEnds /\ failures < MaxFailures /\ failures' = failures + 1
         \/ Store(m) /\ m.payload = "numbers"
<1>1. Store(Oldest(Arbiter)) => Store(m)
  BY DEF Store
<1>2. IsMeasurement(Oldest(Arbiter)) <=> IsMeasurement(m)
  BY DEF IsMeasurement
<1> QED BY <1>1, <1>2 DEF OnMessage

LEMMA NextKeepsTyped == ASSUME Typed, [Next]_vars PROVE Typed'
<1>1. CASE UNCHANGED vars
  BY <1>1 DEF vars, broker, arbiter, Typed, TypeOK, Shapes, Message
<1>2. ASSUME NEW s \in Station, NEW p \in Payload, NEW t \in Second \cup {NONE},
             StationPublishes(s, p, t)
      PROVE  Typed'
  BY <1>2, StationPublishesKeepsTyped
<1>3. ASSUME NEW m \in Foreign, OthersPublish(m) PROVE Typed'
  BY <1>3, OthersPublishKeepsTyped
<1>4. CASE ArbiterStarts
  BY <1>4, ArbiterStartsKeepsTyped
<1>5. CASE ArbiterSubscribes
  BY <1>5, ArbiterSubscribesKeepsTyped
<1>6. CASE ArbiterReconnects
  BY <1>6, ArbiterReconnectsKeepsTyped
<1>7. CASE ArbiterLosesConnection
  BY <1>7, ArbiterLosesConnectionKeepsTyped
<1>8. CASE KillArbiter
  BY <1>8, ArbiterEndsKeepsTyped DEF KillArbiter
<1>9. CASE OnMessage
  <2> PICK m : m = Oldest(Arbiter)
    OBVIOUS
  <2> QED BY <1>9, OnMessageSplits, IgnoreKeepsTyped, ArbiterEndsKeepsTyped, StoreKeepsTyped
<1> QED BY <1>1, <1>2, <1>3, <1>4, <1>5, <1>6, <1>7, <1>8, <1>9 DEF Next

\* The variables always have the values the code gives them, and only a process
\* that runs is connected (server.py main).
THEOREM ArbiterTypeCorrect == Spec => []TypeOK
<1>1. Init => Typed
  BY InitTyped
<1>2. Typed /\ [Next]_vars => Typed'
  BY NextKeepsTyped
<1>3. Typed => TypeOK
  BY DEF Typed
<1> QED BY <1>1, <1>2, <1>3, PTL DEF Spec

LEMMA InitSound == Init => Sound
BY InitTyped DEF Init, BrokerInit, Sound, HearsUnlessReconnected, Told

\* A step that moves neither the process nor its connection.
LEMMA SoundIfUntouched ==
  ASSUME Sound, Typed',
         UNCHANGED <<conn, subs, up, subscribing, lost>>
  PROVE  Sound'
BY DEF Sound, HearsUnlessReconnected, Told

LEMMA ArbiterStartsKeepsSound == ASSUME Sound, Typed', ArbiterStarts PROVE Sound'
<1>1. up' /\ subscribing' /\ ~lost' /\ Arbiter \in conn'
  BY DEF ArbiterStarts, Connect
<1> QED BY <1>1 DEF Sound, HearsUnlessReconnected, Told

LEMMA ArbiterSubscribesKeepsSound == ASSUME Sound, Typed', ArbiterSubscribes PROVE Sound'
<1>1. /\ up /\ subscribing /\ subscribing' = FALSE
      /\ UNCHANGED <<conn, up, lost>>
  BY DEF ArbiterSubscribes, Subscribe, broker
<1>2. CASE Arbiter \in conn
  BY <1>1, <1>2 DEF ArbiterSubscribes, Subscribe, Sound, HearsUnlessReconnected, Told
<1>3. CASE Arbiter \notin conn
  BY <1>1, <1>3 DEF Sound, HearsUnlessReconnected, Told
<1> QED BY <1>2, <1>3

LEMMA ArbiterReconnectsKeepsSound == ASSUME Sound, Typed', ArbiterReconnects PROVE Sound'
<1>1. /\ up /\ ~subscribing /\ Arbiter \notin conn /\ Arbiter \notin subs
      /\ conn' = conn \cup {Arbiter} /\ UNCHANGED <<subs, arbiter>>
  BY DEF ArbiterReconnects, Connect, Sound, Typed, TypeOK
<1> QED BY <1>1 DEF Sound, HearsUnlessReconnected, Told, arbiter

LEMMA ArbiterLosesConnectionKeepsSound ==
  ASSUME Sound, Typed', ArbiterLosesConnection PROVE Sound'
<1>1. Arbiter \notin conn' /\ lost' = TRUE
  BY DEF ArbiterLosesConnection, Disconnect
<1> QED BY <1>1 DEF Sound, HearsUnlessReconnected, Told

LEMMA ArbiterEndsKeepsSound == ASSUME Sound, Typed', ArbiterEnds PROVE Sound'
<1>1. Arbiter \notin conn' /\ ~up'
  BY DEF ArbiterEnds, Disconnect
<1> QED BY <1>1 DEF Sound, HearsUnlessReconnected, Told

LEMMA NextKeepsSound == ASSUME Sound, [Next]_vars PROVE Sound'
<1>1. Typed'
  BY NextKeepsTyped DEF Sound
<1>2. CASE UNCHANGED vars
  BY <1>1, <1>2, SoundIfUntouched DEF vars, broker, arbiter
<1>3. ASSUME NEW s \in Station, NEW p \in Payload, NEW t \in Second \cup {NONE},
             StationPublishes(s, p, t)
      PROVE  Sound'
  BY <1>1, <1>3, SoundIfUntouched DEF StationPublishes, Publish
<1>4. ASSUME NEW m \in Foreign, OthersPublish(m) PROVE Sound'
  BY <1>1, <1>4, SoundIfUntouched DEF OthersPublish, Publish, PublishEmpty
<1>5. CASE ArbiterStarts
  BY <1>1, <1>5, ArbiterStartsKeepsSound
<1>6. CASE ArbiterSubscribes
  BY <1>1, <1>6, ArbiterSubscribesKeepsSound
<1>7. CASE ArbiterReconnects
  BY <1>1, <1>7, ArbiterReconnectsKeepsSound
<1>8. CASE ArbiterLosesConnection
  BY <1>1, <1>8, ArbiterLosesConnectionKeepsSound
<1>9. CASE KillArbiter
  BY <1>1, <1>9, ArbiterEndsKeepsSound DEF KillArbiter
<1>10. CASE OnMessage
  <2> PICK m : m = Oldest(Arbiter)
    OBVIOUS
  <2>1. CASE Ignore
    BY <1>1, <2>1, SoundIfUntouched DEF Ignore, Deliver, arbiter
  <2>2. CASE ArbiterEnds
    BY <1>1, <2>2, ArbiterEndsKeepsSound
  <2>3. CASE Store(m)
    BY <1>1, <2>3, SoundIfUntouched DEF Store, Deliver
  <2> QED BY <1>10, <2>1, <2>2, <2>3, OnMessageSplits
<1> QED BY <1>2, <1>3, <1>4, <1>5, <1>6, <1>7, <1>8, <1>9, <1>10 DEF Next

\* Once main has subscribed, a connected arbiter gets what the stations send
\* exactly when this process never lost a connection (server.py main).
THEOREM HearsUnlessItReconnected == Spec => []HearsUnlessReconnected
<1>1. Init => Sound
  BY InitSound
<1>2. Sound /\ [Next]_vars => Sound'
  BY NextKeepsSound
<1>3. Sound => HearsUnlessReconnected
  BY DEF Sound
<1> QED BY <1>1, <1>2, <1>3, PTL DEF Spec

-----------------------------------------------------------------------------
\* The numbers in the database.

LEMMA InitOrdered == Init => Ordered
<1> SUFFICES ASSUME Init PROVE Ordered
  OBVIOUS
<1>1. Waiting = <<>> /\ published = {}
  BY ArbiterAssumption DEF Init, BrokerInit, Waiting
<1> QED BY <1>1, InitSound
     DEF Ordered, QueueIsOrdered, StoredIsOlder, NumbersAreStored

LEMMA WaitingFacts ==
  ASSUME Typed
  PROVE  /\ Arbiter \in Client /\ Waiting \in Seq(Message) /\ Len(Waiting) \in Nat
         /\ DOMAIN Waiting = 1 .. Len(Waiting)
         /\ \A i \in DOMAIN Waiting : Waiting[i] \in Message
         /\ \A i \in DOMAIN Waiting : Waiting[i].topic \in Station =>
              /\ Waiting[i] \in published
              /\ Waiting[i].n \in 1 .. Cardinality(published)
         /\ Cardinality(published) \in Nat
<1>1. Arbiter \in Client /\ Waiting \in Seq(Message)
  BY ArbiterAssumption DEF Waiting, Typed, Shapes
<1>2. \A m \in Message : m.topic \in Station => m \in published
  BY DEF Message, Foreign
<1> QED BY <1>1, <1>2, SequenceFacts, FS_CardinalityType DEF Typed, Shapes

\* The arbiter's queue, the database and the messages published stay.
LEMMA OrderedIfUntouched ==
  ASSUME Ordered, Sound', Waiting' = Waiting, UNCHANGED <<db, published, excused>>
  PROVE  Ordered'
<1>1. QueueIsOrdered' /\ StoredIsOlder'
  BY DEF Ordered, QueueIsOrdered, StoredIsOlder
<1>2. NumbersAreStored'
  BY DEF Ordered, NumbersAreStored, Waiting
<1> QED BY <1>1, <1>2 DEF Ordered

\* Messages of others come behind those that wait.
LEMMA OrderedIfOthersAdded ==
  ASSUME Ordered, Sound', NEW s \in Seq(Foreign), Waiting' = Waiting \o s,
         UNCHANGED <<db, published, excused>>
  PROVE  Ordered'
<1>1. Len(Waiting) \in Nat /\ DOMAIN Waiting = 1 .. Len(Waiting) /\ Waiting \in Seq(Message)
  BY WaitingFacts DEF Ordered, Sound
<1>2. s \in Seq(Message) /\ Len(s) \in Nat /\ \A i \in 1 .. Len(s) : s[i].topic \notin Station
  <2>1. Foreign \subseteq Message /\ \A m \in Foreign : m.topic \notin Station
    BY DEF Message, Foreign
  <2>2. Len(s) \in Nat /\ \A i \in 1 .. Len(s) : s[i] \in Foreign
    BY SequenceFacts
  <2>3. s \in Seq(Message)
    BY <2>1, SeqMonotonic
  <2> QED BY <2>1, <2>2, <2>3
<1>3. /\ Waiting' \in Seq(Message) /\ Len(Waiting') = Len(Waiting) + Len(s)
      /\ DOMAIN Waiting' = 1 .. Len(Waiting) + Len(s)
      /\ \A i \in 1 .. Len(Waiting) + Len(s) :
           Waiting'[i] = IF i <= Len(Waiting) THEN Waiting[i] ELSE s[i - Len(Waiting)]
  BY <1>1, <1>2, ConcatProperties, LenProperties
<1>4. \A i \in DOMAIN Waiting : i \in DOMAIN Waiting' /\ Waiting'[i] = Waiting[i]
  BY <1>1, <1>2, <1>3
<1>5. \A i \in DOMAIN Waiting' : Waiting'[i].topic \in Station =>
        i \in DOMAIN Waiting /\ Waiting'[i] = Waiting[i]
  BY <1>1, <1>2, <1>3
<1>6. QueueIsOrdered' /\ StoredIsOlder'
  BY <1>5 DEF Ordered, QueueIsOrdered, StoredIsOlder
<1>7. Range(Waiting) \subseteq Range(Waiting')
  BY <1>4 DEF Range
<1>8. NumbersAreStored'
  BY <1>7 DEF Ordered, NumbersAreStored, Waiting
<1> QED BY <1>6, <1>8 DEF Ordered

LEMMA OthersPublishKeepsOrdered ==
  ASSUME Ordered, Sound', NEW m \in Foreign, OthersPublish(m) PROVE Ordered'
<1>1. /\ queue \in [Client -> Seq(Message)] /\ m \in Message /\ Arbiter \in Client
      /\ queue' = Queued(m) /\ UNCHANGED <<db, published, excused>>
  BY ArbiterAssumption 
     DEF Ordered, Sound, Typed, Shapes, Message, OthersPublish, Publish, PublishEmpty
<1>2. Waiting' = Waiting \/ Waiting' = Append(Waiting, m)
  BY <1>1, QueuedEffect DEF Waiting
<1>3. <<m>> \in Seq(Foreign) /\ Waiting \in Seq(Message)
  BY <1>1 DEF Waiting
<1>4. Append(Waiting, m) = Waiting \o <<m>>
  BY <1>1, <1>3, AppendIsConcat
<1> QED BY <1>1, <1>2, <1>3, <1>4, OrderedIfUntouched, OrderedIfOthersAdded

LEMMA ArbiterSubscribesKeepsOrdered ==
  ASSUME Ordered, Sound', ArbiterSubscribes PROVE Ordered'
<1>1. UNCHANGED <<db, published, excused>>
  BY DEF ArbiterSubscribes
<1>2. CASE Subscribe(Arbiter)
  BY <1>1, <1>2, SubscribeEffect, OrderedIfOthersAdded DEF Waiting, Ordered, Sound
<1>3. CASE UNCHANGED broker
  BY <1>1, <1>3, OrderedIfUntouched DEF Waiting, broker
<1> QED BY <1>2, <1>3 DEF ArbiterSubscribes

LEMMA StationPublishesKeepsOrdered ==
  ASSUME Ordered, Sound', NEW s \in Station, NEW p \in Payload,
         NEW t \in Second \cup {NONE}, StationPublishes(s, p, t)
  PROVE  Ordered'
<1> DEFINE n == Cardinality(published) + 1
           m == [topic |-> s, n |-> n, payload |-> p, stamp |-> t]
<1>1. /\ Typed /\ Typed' /\ Publish(m, FALSE) /\ published' = published \cup {m}
      /\ excused' = IF Arbiter \in subs THEN excused ELSE excused \cup {m}
      /\ UNCHANGED <<subs, db>>
  BY DEF StationPublishes, Publish, Ordered, Sound
<1>2. m.topic = s /\ m.n = n /\ m.topic \in Filter[Arbiter] /\ m \in Message'
  BY <1>1, ArbiterAssumption DEF Message
<1> HIDE DEF m
<1>3. queue \in [Client -> Seq(Message')]
  <2>1. Message \subseteq Message'
    BY <1>1 DEF Message
  <2>2. \A c \in Client : queue[c] \in Seq(Message')
    BY <1>1, <2>1, SeqMonotonic DEF Typed, Shapes
  <2> QED BY <1>1, <2>2 DEF Typed, Shapes
<1>4. /\ Arbiter \in subs => Waiting' = Append(Waiting, m)
      /\ Waiting' = Waiting \/ Waiting' = Append(Waiting, m)
  BY <1>1, <1>2, <1>3, QueuedEffect, ArbiterAssumption DEF Waiting, Publish
<1>5. /\ Len(Waiting) \in Nat /\ DOMAIN Waiting = 1 .. Len(Waiting)
      /\ DOMAIN Append(Waiting, m) = 1 .. Len(Waiting) + 1
      /\ \A i \in 1 .. Len(Waiting) : Append(Waiting, m)[i] = Waiting[i]
      /\ Append(Waiting, m)[Len(Waiting) + 1] = m
      /\ Range(Append(Waiting, m)) = Range(Waiting) \cup {m}
  BY <1>1, <1>2, <1>3, WaitingFacts, AppendFacts DEF Waiting
<1>6. /\ \A i \in DOMAIN Waiting : Waiting[i].topic \in Station => Waiting[i].n < n
      /\ \A x \in Station, y \in Second : db[x][y] # NONE => db[x][y] < n
      /\ n \in Nat
  <2>1. /\ Cardinality(published) \in Nat
        /\ \A i \in DOMAIN Waiting : Waiting[i].topic \in Station =>
             Waiting[i].n \in 1 .. Cardinality(published)
    BY <1>1, WaitingFacts
  <2>2. \A x \in Station, y \in Second :
          db[x][y] # NONE => db[x][y] \in 1 .. Cardinality(published)
    BY <1>1 DEF Typed, Shapes
  <2> QED BY <2>1, <2>2
<1> HIDE DEF n
<1>7. QueueIsOrdered'
  <2>1. CASE Waiting' = Waiting
    BY <2>1 DEF Ordered, QueueIsOrdered
  <2>2. CASE Waiting' = Append(Waiting, m)
    <3>1. SUFFICES ASSUME NEW i \in DOMAIN Waiting', NEW j \in DOMAIN Waiting', i < j,
                          Waiting'[i].topic \in Station, Waiting'[j].topic \in Station
                   PROVE  Waiting'[i].n < Waiting'[j].n
      BY DEF QueueIsOrdered
    <3>2. i \in DOMAIN Waiting /\ Waiting'[i] = Waiting[i]
      BY <1>5, <2>2, <3>1
    <3>3. CASE j \in DOMAIN Waiting
      <4>1. Waiting'[j] = Waiting[j]
        BY <1>5, <2>2, <3>3
      <4> QED BY <3>1, <3>2, <3>3, <4>1 DEF Ordered, QueueIsOrdered
    <3>4. CASE j \notin DOMAIN Waiting
      <4>1. Waiting'[j] = m
        BY <1>5, <2>2, <3>1, <3>4
      <4> QED BY <1>2, <1>6, <3>1, <3>2, <4>1
    <3> QED BY <3>3, <3>4
  <2> QED BY <1>4, <2>1, <2>2
<1>8. StoredIsOlder'
  <2>1. SUFFICES ASSUME NEW i \in DOMAIN Waiting', NEW y \in Second,
                        Waiting'[i].topic \in Station, db[Waiting'[i].topic][y] # NONE
                 PROVE  db[Waiting'[i].topic][y] < Waiting'[i].n
    BY <1>1 DEF StoredIsOlder
  <2>2. CASE i \in DOMAIN Waiting /\ Waiting'[i] = Waiting[i]
    BY <2>1, <2>2 DEF Ordered, StoredIsOlder
  <2>3. CASE Waiting'[i] = m
    BY <1>2, <1>6, <2>1, <2>3
  <2> QED BY <1>4, <1>5, <2>2, <2>3
<1>9. NumbersAreStored'
  <2>1. SUFFICES ASSUME NEW x \in published', x.payload = "numbers", x \notin excused',
                        x \notin Range(Waiting')
                 PROVE  \E y \in Second : /\ x.stamp \in {NONE, y}
                                          /\ db[x.topic][y] # NONE /\ db[x.topic][y] >= x.n
    BY <1>1 DEF NumbersAreStored, Waiting
  <2>2. x # m
    BY <1>1, <1>4, <1>5, <2>1
  <2>3. x \in published /\ x \notin excused /\ x \notin Range(Waiting)
    BY <1>1, <1>4, <1>5, <2>1, <2>2
  <2> QED BY <2>1, <2>3 DEF Ordered, NumbersAreStored, Waiting
<1> QED BY <1>7, <1>8, <1>9 DEF Ordered

\* What waits is excused, when the connection ends.
LEMMA ConnectionEndsKeepsOrdered ==
  ASSUME Ordered, Sound', Disconnect(Arbiter),
         excused' = excused \cup Measurements(queue[Arbiter]),
         UNCHANGED <<db, published>>
  PROVE  Ordered'
<1>1. Typed /\ Waiting' = <<>>
  BY DisconnectEffect DEF Ordered, Sound, Waiting
<1>2. QueueIsOrdered' /\ StoredIsOlder'
  BY <1>1 DEF QueueIsOrdered, StoredIsOlder
<1>3. \A m \in published : m \in Range(Waiting) => m \in excused'
  BY <1>1 DEF Measurements, Typed, TypeOK, Measurement, Waiting
<1>4. NumbersAreStored'
  BY <1>3 DEF Ordered, NumbersAreStored, Waiting
<1> QED BY <1>2, <1>4 DEF Ordered

\* The oldest message leaves; the others move up.
LEMMA DeliveryFacts ==
  ASSUME Ordered, Deliver(Arbiter)
  PROVE  /\ QueueIsOrdered'
         /\ \A i \in DOMAIN Waiting' :
              i + 1 \in DOMAIN Waiting /\ i > 0 /\ Waiting'[i] = Waiting[i + 1]
         /\ 1 \in DOMAIN Waiting /\ Oldest(Arbiter) = Waiting[1]
         /\ Range(Waiting) \subseteq Range(Waiting') \cup {Waiting[1]}
<1>1. /\ Typed /\ queue' \in [Client -> Seq(Message)] /\ Arbiter \in Client
      /\ Len(Waiting) \in Nat \ {0} /\ Len(Waiting') = Len(Waiting) - 1
      /\ \A i \in DOMAIN Waiting' : i + 1 \in DOMAIN Waiting /\ Waiting'[i] = Waiting[i + 1]
      /\ DOMAIN Waiting = 1 .. Len(Waiting) /\ Oldest(Arbiter) = Waiting[1]
  BY DeliverEffect, WaitingFacts DEF Ordered, Sound
<1>2. DOMAIN Waiting' = 1 .. Len(Waiting')
  BY <1>1, LenProperties DEF Waiting
<1>3. \A i \in DOMAIN Waiting' :
        i + 1 \in DOMAIN Waiting /\ i > 0 /\ i \in Nat /\ Waiting'[i] = Waiting[i + 1]
  BY <1>1, <1>2
<1>4. QueueIsOrdered'
  <2>1. \A i, j \in DOMAIN Waiting' : i < j => i + 1 < j + 1
    BY <1>3
  <2> QED BY <1>3, <2>1 DEF Ordered, QueueIsOrdered
<1>5. ASSUME NEW i \in DOMAIN Waiting, i # 1
      PROVE  Waiting[i] \in Range(Waiting')
  <2>1. i - 1 \in DOMAIN Waiting' /\ (i - 1) + 1 = i
    BY <1>1, <1>2, <1>5
  <2>2. Waiting'[i - 1] = Waiting[i]
    BY <1>3, <2>1
  <2> QED BY <2>1, <2>2 DEF Range
<1>6. Range(Waiting) \subseteq Range(Waiting') \cup {Waiting[1]}
  BY <1>5 DEF Range
<1> QED BY <1>1, <1>3, <1>4, <1>6

LEMMA IgnoreKeepsOrdered ==
  ASSUME Ordered, Sound', NEW m, m = Oldest(Arbiter), Ignore,
         IsMeasurement(m) => m.payload = "text"
  PROVE  Ordered'
<1>1. Typed /\ Deliver(Arbiter) /\ UNCHANGED <<db, published, excused>>
  BY DEF Ignore, arbiter, Ordered, Sound
<1>2. /\ QueueIsOrdered'
      /\ \A i \in DOMAIN Waiting' : i + 1 \in DOMAIN Waiting /\ Waiting'[i] = Waiting[i + 1]
      /\ m = Waiting[1] /\ Range(Waiting) \subseteq Range(Waiting') \cup {m}
  BY <1>1, DeliveryFacts
<1>3. StoredIsOlder'
  BY <1>1, <1>2 DEF Ordered, StoredIsOlder
<1>4. m \in published => m.payload = "text"
  BY <1>1, ArbiterAssumption DEF IsMeasurement, Typed, TypeOK, Measurement
<1>5. NumbersAreStored'
  <2>1. \A x \in published : x.payload = "numbers" /\ x \notin Range(Waiting') => x \notin Range(Waiting)
    BY <1>2, <1>4
  <2> QED BY <1>1, <2>1 DEF Ordered, NumbersAreStored, Waiting
<1> QED BY <1>2, <1>3, <1>5 DEF Ordered

LEMMA StoreKeepsOrdered ==
  ASSUME Ordered, Sound', NEW m, m = Oldest(Arbiter), m.payload = "numbers", Store(m)
  PROVE  Ordered'
<1>1. Typed /\ Deliver(Arbiter) /\ UNCHANGED <<published, excused>>
  BY DEF Store, Ordered, Sound
<1>2. PICK t \in Second : m.stamp \in {NONE, t} /\ db' = [db EXCEPT ![m.topic][t] = m.n]
  BY DEF Store
<1>3. /\ QueueIsOrdered' /\ 1 \in DOMAIN Waiting
      /\ \A i \in DOMAIN Waiting' :
           i + 1 \in DOMAIN Waiting /\ 1 < i + 1 /\ Waiting'[i] = Waiting[i + 1]
      /\ m = Waiting[1] /\ Range(Waiting) \subseteq Range(Waiting') \cup {m}
  <2>1. \A i \in DOMAIN Waiting' : i \in Nat
    BY <1>1, DeliverEffect, LenProperties, WaitingFacts DEF Waiting
  <2>2. \A i \in Nat : i > 0 => 1 < i + 1
    OBVIOUS
  <2> QED BY <1>1, <2>1, <2>2, DeliveryFacts
<1>4. m \in published /\ m \in Measurement /\ m.topic \in Station /\ m.n \in Nat /\ m.n # NONE
  BY <1>1, OldestIsPublished, ArbiterAssumption DEF Measurement
<1>5. \A x \in Station, y \in Second :
        db'[x][y] = IF x = m.topic /\ y = t THEN m.n ELSE db[x][y]
  BY <1>1, <1>2, <1>4 DEF Typed, TypeOK
<1>6. StoredIsOlder'
  <2>1. SUFFICES ASSUME NEW i \in DOMAIN Waiting', NEW y \in Second,
                        Waiting'[i].topic \in Station, db'[Waiting'[i].topic][y] # NONE
                 PROVE  db'[Waiting'[i].topic][y] < Waiting'[i].n
    BY DEF StoredIsOlder
  <2>2. i + 1 \in DOMAIN Waiting /\ 1 < i + 1 /\ Waiting'[i] = Waiting[i + 1]
    BY <1>3
  <2>3. CASE Waiting'[i].topic = m.topic /\ y = t
    <3>1. m.n < Waiting[i + 1].n
      BY <1>3, <1>4, <2>1, <2>2 DEF Ordered, QueueIsOrdered
    <3> QED BY <1>5, <2>1, <2>2, <2>3, <3>1
  <2>4. CASE ~(Waiting'[i].topic = m.topic /\ y = t)
    <3>1. db'[Waiting'[i].topic][y] = db[Waiting'[i].topic][y]
      BY <1>5, <2>1, <2>4
    <3> QED BY <2>1, <2>2, <3>1 DEF Ordered, StoredIsOlder
  <2> QED BY <2>3, <2>4
<1>7. NumbersAreStored'
  <2>1. SUFFICES ASSUME NEW x \in published, x.payload = "numbers", x \notin excused,
                        x \notin Range(Waiting')
                 PROVE  \E y \in Second : /\ x.stamp \in {NONE, y}
                                          /\ db'[x.topic][y] # NONE /\ db'[x.topic][y] >= x.n
    BY <1>1 DEF NumbersAreStored, Waiting
  <2>2. CASE x = m
    BY <1>2, <1>4, <1>5, <2>2
  <2>3. CASE x # m
    <3>1. x \notin Range(Waiting)
      BY <1>3, <2>1, <2>3
    <3>2. PICK y \in Second : /\ x.stamp \in {NONE, y}
                              /\ db[x.topic][y] # NONE /\ db[x.topic][y] >= x.n
      BY <2>1, <3>1 DEF Ordered, NumbersAreStored, Waiting
    <3>3. x.topic \in Station /\ x.n \in Nat
      BY <1>1 DEF Typed, TypeOK, Measurement
    <3>4. CASE x.topic = m.topic /\ y = t
      <4>1. db[m.topic][t] < m.n
        BY <1>3, <1>4, <3>2, <3>4 DEF Ordered, StoredIsOlder
      <4>2. db[m.topic][t] \in Nat
        BY <1>1, <1>4, <3>2, <3>4 DEF Typed, TypeOK
      <4>3. db'[x.topic][y] = m.n /\ m.n >= x.n
        BY <1>4, <1>5, <3>2, <3>3, <3>4, <4>1, <4>2
      <4> QED BY <1>4, <3>2, <4>3
    <3>5. CASE ~(x.topic = m.topic /\ y = t)
      <4>1. db'[x.topic][y] = db[x.topic][y]
        BY <1>5, <3>3, <3>5
      <4> QED BY <3>2, <4>1
    <3> QED BY <3>4, <3>5
  <2> QED BY <2>2, <2>3
<1> QED BY <1>3, <1>6, <1>7 DEF Ordered

LEMMA NextKeepsOrdered == ASSUME Ordered, [Next]_vars PROVE Ordered'
<1>1. Sound'
  BY NextKeepsSound DEF Ordered
<1>2. CASE UNCHANGED vars
  BY <1>1, <1>2, OrderedIfUntouched DEF vars, broker, arbiter, Waiting
<1>3. ASSUME NEW s \in Station, NEW p \in Payload, NEW t \in Second \cup {NONE},
             StationPublishes(s, p, t)
      PROVE  Ordered'
  BY <1>1, <1>3, StationPublishesKeepsOrdered
<1>4. ASSUME NEW m \in Foreign, OthersPublish(m) PROVE Ordered'
  BY <1>1, <1>4, OthersPublishKeepsOrdered
<1>5. CASE ArbiterStarts
  BY <1>1, <1>5, OrderedIfUntouched DEF ArbiterStarts, Connect, Waiting
<1>6. CASE ArbiterSubscribes
  BY <1>1, <1>6, ArbiterSubscribesKeepsOrdered
<1>7. CASE ArbiterReconnects
  BY <1>1, <1>7, OrderedIfUntouched DEF ArbiterReconnects, Connect, Waiting, arbiter
<1>8. CASE ArbiterLosesConnection
  BY <1>1, <1>8, ConnectionEndsKeepsOrdered DEF ArbiterLosesConnection
<1>9. CASE KillArbiter
  BY <1>1, <1>9, ConnectionEndsKeepsOrdered DEF KillArbiter, ArbiterEnds
<1>10. CASE OnMessage
  <2> PICK m : m = Oldest(Arbiter)
    OBVIOUS
  <2>1. CASE Ignore /\ (IsMeasurement(m) => m.payload = "text")
    BY <1>1, <2>1, IgnoreKeepsOrdered
  <2>2. CASE ArbiterEnds
    BY <1>1, <2>2, ConnectionEndsKeepsOrdered DEF ArbiterEnds
  <2>3. CASE Store(m) /\ m.payload = "numbers"
    BY <1>1, <2>3, StoreKeepsOrdered
  <2> QED BY <1>10, <2>1, <2>2, <2>3, OnMessageSplits
<1> QED BY <1>2, <1>3, <1>4, <1>5, <1>6, <1>7, <1>8, <1>9, <1>10 DEF Next

\* Whatever numbers reached the arbiter are in the database, or were replaced
\* there by a later message of the same station for the same second, whatever
\* fails and whatever others publish in between (server.py _on_message).
THEOREM NumbersStayStored == Spec => []NumbersAreStored
<1>1. Init => Ordered
  BY InitOrdered
<1>2. Ordered /\ [Next]_vars => Ordered'
  BY NextKeepsOrdered
<1>3. Ordered => NumbersAreStored
  BY DEF Ordered
<1> QED BY <1>1, <1>2, <1>3, PTL DEF Spec
=============================================================================
