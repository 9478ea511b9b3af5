----------------------------- MODULE MqttBroker -----------------------------
(***************************************************************************)
(* The MQTT broker (eclipse-mosquitto) as its subscribers see it: the      *)
(* arbiter of Teme/Tema3 and the chat of Laborator 5, which both expect it *)
(* at port 1883.  It is not in the repository: this is what the programs   *)
(* rely on.  A persistent session (clean_session=False) keeps its          *)
(* subscription and its messages while the client is away; the last        *)
(* retained message of a topic is sent at each subscription.               *)
(***************************************************************************)
EXTENDS Integers, Sequences, FiniteSets, SequencesExt

CONSTANTS
  Client,      \* the subscribers
  Persistent,  \* those with a persistent session
  Topic,
  Filter,      \* Client -> the topics it subscribes to
  NONE

ASSUME BrokerAssumption ==
  /\ Persistent \subseteq Client
  /\ IsFiniteSet(Topic) /\ Filter \in [Client -> SUBSET Topic]

VARIABLES
  conn,        \* the clients that are connected
  subs,        \* the clients that have a subscription
  queue,       \* client -> the messages for it, oldest first
  retained     \* topic -> its retained message, or NONE

broker == <<conn, subs, queue, retained>>

BrokerInit ==
  /\ conn = {} /\ subs = {}
  /\ queue = [c \in Client |-> <<>>]
  /\ retained = [t \in Topic |-> NONE]

Connect(c) ==
  /\ c \notin conn
  /\ conn' = conn \cup {c}
  /\ UNCHANGED <<subs, queue, retained>>

\* A fault: no session is kept.
DisconnectClean(c) ==
  /\ conn' = conn \ {c} /\ subs' = subs \ {c}
  /\ queue' = [queue EXCEPT ![c] = <<>>]
  /\ UNCHANGED retained

\* The connection of c ends, and with it a session that is not persistent.
Disconnect(c) ==
  /\ conn' = conn \ {c}
  /\ subs' = IF c \in Persistent THEN subs ELSE subs \ {c}
  /\ queue' = IF c \in Persistent THEN queue ELSE [queue EXCEPT ![c] = <<>>]
  /\ UNCHANGED retained

RetainedFor(c) == {retained[t] : t \in Filter[c]} \ {NONE}
Subscribe(c) ==
  /\ c \in conn
  /\ subs' = subs \cup {c}
  /\ queue' = [queue EXCEPT ![c] = @ \o SetToSeq(RetainedFor(c))]
  /\ UNCHANGED <<conn, retained>>

Queued(m) == [c \in Client |-> IF c \in subs /\ m.topic \in Filter[c]
                                 THEN Append(queue[c], m) ELSE queue[c]]
Publish(m, retain) ==
  /\ queue' = Queued(m)
  /\ retained' = IF retain THEN [retained EXCEPT ![m.topic] = m] ELSE retained
  /\ UNCHANGED <<conn, subs>>

\* An empty message, to be retained, leaves the topic without one.
PublishEmpty(m) ==
  /\ queue' = Queued(m)
  /\ retained' = [retained EXCEPT ![m.topic] = NONE]
  /\ UNCHANGED <<conn, subs>>

Oldest(c) == Head(queue[c])
Deliver(c) ==
  /\ c \in conn /\ queue[c] # <<>>
  /\ queue' = [queue EXCEPT ![c] = Tail(@)]
  /\ UNCHANGED <<conn, subs, retained>>
=============================================================================
