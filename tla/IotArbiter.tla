----------------------------- MODULE IotArbiter -----------------------------
(***************************************************************************)
(* The arbiter of Teme/Tema3: subscribes to every topic and stores the     *)
(* numbers the stations publish in InfluxDB.  What raises in _on_message   *)
(* ends the process, and the swarm starts it again.  The client library    *)
(* connects again by itself when the connection is lost, but nobody        *)
(* subscribes again.                                                       *)
(***************************************************************************)
EXTENDS MqttBroker

CONSTANTS
  Arbiter,
  TwoLevels,    \* the topics <name>/<name>
  Station,      \* those that stations publish to
  Second,       \* the times a point can have
  MaxMessages,  \* bound on the messages of the stations
  MaxOthers,    \* bound on those of other programs
  MaxFailures   \* bound on lost connections, kills and failed writes

ASSUME ArbiterAssumption ==
  /\ Arbiter \in Client \ Persistent
  /\ Station \subseteq TwoLevels /\ TwoLevels \subseteq Topic
  /\ Filter[Arbiter] = Topic
  /\ NONE \notin Second /\ NONE \notin 1 .. MaxMessages
  /\ MaxMessages \in Nat /\ MaxOthers \in Nat /\ MaxFailures \in Nat

\* What a station sends: numbers, with or without a time; no numbers; or
\* something that is not a JSON object.
Payload == {"numbers", "text", "broken"}
Measurement == [topic: Station, n: Nat, payload: Payload, stamp: Second \cup {NONE}]

\* What the others send to their topics, whatever their levels: the lines of a
\* chat (Laborator 5), which are no JSON objects.
Foreign == [topic: Topic \ Station, payload: {"broken"}]

VARIABLES
  up,           \* is the process running?
  subscribing,  \* has main yet to call subscribe?
  db,           \* station -> second -> the number of the message stored, or NONE
  failures,
  others,       \* the number of messages the others have sent
  lost,         \* history: has this process lost its connection?
  published,    \* history: the messages of the stations
  excused       \* history: those the arbiter did not get to, or failed on

arbiter == <<up, subscribing, db, failures, others, lost, published, excused>>
vars == <<broker, arbiter>>

Init ==
  /\ BrokerInit
  /\ up = FALSE /\ subscribing = FALSE
  /\ db = [s \in Station |-> [t \in Second |-> NONE]]
  /\ failures = 0 /\ others = 0 /\ lost = FALSE
  /\ published = {} /\ excused = {}

Measurements(seq) == {m \in Range(seq) : m.topic \in Station}

\* test_client.py: a station publishes (QoS 0).
StationPublishes(s, payload, stamp) ==
  /\ Cardinality(published) < MaxMessages
  /\ LET m == [topic |-> s, n |-> Cardinality(published) + 1,
               payload |-> payload, stamp |-> stamp] IN
       /\ Publish(m, FALSE)
       /\ published' = published \cup {m}
       /\ excused' = IF Arbiter \in subs THEN excused ELSE excused \cup {m}
  /\ UNCHANGED <<up, subscribing, db, failures, others, lost>>

\* task23.py: another program leaves a retained message, or an empty one.
OthersPublish(m) ==
  /\ others < MaxOthers
  /\ others' = others + 1
  /\ Publish(m, TRUE) \/ PublishEmpty(m)
  /\ UNCHANGED <<up, subscribing, db, failures, lost, published, excused>>

\* A fault: main does not subscribe.
ArbiterStartsDeaf ==
  /\ ~up
  /\ up' = TRUE /\ lost' = FALSE
  /\ Connect(Arbiter)
  /\ UNCHANGED <<subscribing, db, failures, others, published, excused>>

\* main: connect, subscribe, loop_forever.
ArbiterStarts ==
  /\ ~up
  /\ up' = TRUE /\ subscribing' = TRUE /\ lost' = FALSE
  /\ Connect(Arbiter)
  /\ UNCHANGED <<db, failures, others, published, excused>>

\* A subscribe without a connection is lost: its result is not looked at.
ArbiterSubscribes ==
  /\ up /\ subscribing
  /\ subscribing' = FALSE
  /\ \/ Arbiter \in conn /\ Subscribe(Arbiter)
     \/ Arbiter \notin conn /\ UNCHANGED broker
  /\ UNCHANGED <<up, db, failures, others, lost, published, excused>>

\* loop_forever.
ArbiterReconnects ==
  /\ up /\ ~subscribing
  /\ Connect(Arbiter)
  /\ UNCHANGED arbiter

\* The connection ends, with the messages that are on their way.
ArbiterLosesConnection ==
  /\ Arbiter \in conn /\ failures < MaxFailures
  /\ Disconnect(Arbiter)
  /\ failures' = failures + 1 /\ lost' = TRUE
  /\ excused' = excused \cup Measurements(queue[Arbiter])
  /\ UNCHANGED <<up, subscribing, db, others, published>>

\* A fault: an end does not reset what main does next.
ArbiterEndsSubscribing ==
  /\ Disconnect(Arbiter)
  /\ up' = FALSE
  /\ excused' = excused \cup Measurements(queue[Arbiter])
  /\ UNCHANGED <<subscribing, db, others, lost, published>>

\* The process ends: the message it was at is among those that are lost.
ArbiterEnds ==
  /\ Disconnect(Arbiter)
  /\ up' = FALSE /\ subscribing' = FALSE
  /\ excused' = excused \cup Measurements(queue[Arbiter])
  /\ UNCHANGED <<db, others, lost, published>>
KillArbiter ==
  /\ up /\ failures < MaxFailures
  /\ failures' = failures + 1
  /\ ArbiterEnds

-----------------------------------------------------------------------------
\* A fault: the levels are not looked at.
IsAnything(m) == TRUE

\* _on_message takes every topic of two levels for a station's.
IsMeasurement(m) == m.topic \in TwoLevels

Ignore == Deliver(Arbiter) /\ UNCHANGED arbiter

\* A fault: the time a message has is not used.
StoreNow(m) ==
  /\ Deliver(Arbiter)
  /\ \E t \in Second : db' = [db EXCEPT ![m.topic][t] = m.n]
  /\ UNCHANGED <<up, subscribing, failures, others, lost, published, excused>>

\* A point of the same measurement, tags and time as another replaces it.  A
\* message without a time gets the one at which it is handled.
Store(m) ==
  /\ Deliver(Arbiter)
  /\ \E t \in Second :
       /\ m.stamp \in {NONE, t}
       /\ db' = [db EXCEPT ![m.topic][t] = m.n]
  /\ UNCHANGED <<up, subscribing, failures, others, lost, published, excused>>

\* A fault: what cannot be read is tried again.
OnMessageRetries ==
  /\ up /\ ~subscribing /\ Arbiter \in conn /\ queue[Arbiter] # <<>>
  /\ LET m == Oldest(Arbiter) IN
       \/ (~IsMeasurement(m) \/ m.payload = "text") /\ Ignore
       \/ IsMeasurement(m) /\ m.payload = "broken" /\ UNCHANGED vars
       \/ IsMeasurement(m) /\ m.payload = "numbers" /\ Store(m)

OnMessage ==
  /\ up /\ ~subscribing /\ Arbiter \in conn /\ queue[Arbiter] # <<>>
  /\ LET m == Oldest(Arbiter) IN
       \/ ~IsMeasurement(m) /\ Ignore
       \/ /\ IsMeasurement(m)
          /\ \/ m.payload = "text" /\ Ignore
             \/ m.payload = "broken" /\ ArbiterEnds /\ UNCHANGED failures
             \/ m.payload = "numbers" /\ Store(m)
             \/ /\ m.payload = "numbers" /\ failures < MaxFailures  \* write_points raises
                /\ ArbiterEnds /\ failures' = failures + 1

Next ==
  \/ \E s \in Station, p \in Payload, t \in Second \cup {NONE} : StationPublishes(s, p, t)
  \/ \E m \in Foreign : OthersPublish(m)
  \/ ArbiterStarts \/ ArbiterSubscribes \/ ArbiterReconnects
  \/ ArbiterLosesConnection \/ KillArbiter \/ OnMessage

\* The swarm starts the arbiter again, and loop_forever connects again and
\* handles what it is sent; no station has to publish.
Fairness ==
  /\ WF_vars(ArbiterStarts) /\ WF_vars(ArbiterSubscribes)
  /\ WF_vars(ArbiterReconnects) /\ WF_vars(OnMessage)

Spec == Init /\ [][Next]_vars /\ Fairness

-----------------------------------------------------------------------------
\* The variables have the values the code gives them, and only a process that
\* runs is connected (server.py main).
TypeOK ==
  /\ conn \subseteq Client /\ subs \subseteq conn
  /\ \A c \in Client : Range(queue[c]) \subseteq Foreign \cup published
  /\ \A t \in Topic : retained[t] \in Foreign \cup {NONE}
  /\ up \in BOOLEAN /\ subscribing \in BOOLEAN
  /\ db \in [Station -> [Second -> 1..MaxMessages \cup {NONE}]]
  /\ failures \in 0..MaxFailures /\ others \in 0..MaxOthers /\ lost \in BOOLEAN
  /\ (Arbiter \in conn \/ subscribing) => up
  /\ excused \subseteq published /\ published \subseteq Measurement

\* Whatever numbers reached the arbiter are in the database, or replaced there
\* by a later message of the same station for the same second (server.py
\* _on_message): only what was under way when it failed is lost, and the
\* messages of other programs in between lose nothing.
NumbersAreStored ==
  \A m \in published :
    \/ m.payload # "numbers" \/ m \in excused \/ m \in Range(queue[Arbiter])
    \/ \E t \in Second : /\ m.stamp \in {NONE, t}
                         /\ db[m.topic][t] # NONE /\ db[m.topic][t] >= m.n

\* Once main has subscribed, a connected arbiter gets what the stations send
\* exactly when this process never lost a connection: after a start it always
\* does, after a reconnection never (server.py main).
HearsUnlessReconnected ==
  Arbiter \in conn /\ ~subscribing => (Arbiter \in subs <=> ~lost)

\* The arbiter is sent what is retained at each of its starts, and what it
\* cannot read ends it.  It stays up at last if at last nothing is retained that
\* it would try to read: one of another program does no harm on a topic that
\* has more levels than two, or fewer (server.py _on_message).  Nothing of the
\* kind is promised while a line of a chat stays on a topic of two.
Unreadable == {t \in TwoLevels \ Station : retained[t] # NONE}
ArbiterSettles == <>[](Unreadable = {}) => <>[]up

\* A message sent to the arbiter is handled at last, or lost with the process
\* or the connection: one that is broken does not hold up those behind it
\* (server.py _on_message, loop_forever).
QueueIsHandled ==
  \A k \in 1..MaxMessages :
    (\E m \in Measurements(queue[Arbiter]) : m.n = k)
      ~> (\A m \in Measurements(queue[Arbiter]) : m.n # k)
=============================================================================
