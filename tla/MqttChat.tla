------------------------------ MODULE MqttChat ------------------------------
(***************************************************************************)
(* The chat of Laborator 5.  Every participant has a persistent session,   *)
(* subscribes whenever it is connected, and publishes its lines with QoS 2 *)
(* as the retained message of its topic.                                   *)
(***************************************************************************)
EXTENDS MqttBroker

CONSTANTS
  Chatter,
  MaxLines,     \* bounds on the lines each participant types
  MaxStarts     \* bound on the times a participant starts or connects

Line == [topic: Chatter, n: Nat \ {0}]
TypedLine(c, k) == [topic |-> c, n |-> k]

ASSUME ChatAssumption ==
  /\ Chatter = Client /\ Chatter = Persistent /\ Chatter = Topic
  /\ Filter = [c \in Chatter |-> Topic] /\ NONE \notin Line
  /\ MaxLines \in [Chatter -> Nat] /\ MaxStarts \in Nat

VARIABLES
  running,      \* the participants whose process runs
  connecting,   \* those whose on_connect is about to be called
  out,          \* participant -> lines typed that the broker does not have yet
  held,         \* participant -> the line it is receiving, or NONE
  typed,        \* participant -> lines typed
  starts,       \* participant -> starts and connections
  printed,      \* participant -> the lines it has printed
  owed          \* history: participant -> lines sent since its first
                \* subscription that it neither printed nor lost by ending

chat == <<running, connecting, out, held, typed, starts, printed, owed>>
vars == <<broker, chat>>

Init ==
  /\ BrokerInit
  /\ running = {} /\ connecting = {}
  /\ out = [c \in Chatter |-> <<>>]
  /\ held = [c \in Chatter |-> NONE]
  /\ typed = [c \in Chatter |-> 0]
  /\ starts = [c \in Chatter |-> 0]
  /\ printed = [c \in Chatter |-> <<>>]
  /\ owed = [c \in Chatter |-> {}]

\* A fault: nothing connects again.
StartOnly(c) ==
  /\ starts[c] < MaxStarts /\ c \notin running
  /\ Connect(c)
  /\ running' = running \cup {c}
  /\ connecting' = connecting \cup {c}
  /\ starts' = [starts EXCEPT ![c] = @ + 1]
  /\ UNCHANGED <<out, held, typed, printed, owed>>

\* create_client, and the reconnections of the network loop.
StartOrReconnect(c) ==
  /\ starts[c] < MaxStarts
  /\ Connect(c)
  /\ running' = running \cup {c}
  /\ connecting' = connecting \cup {c}
  /\ starts' = [starts EXCEPT ![c] = @ + 1]
  /\ UNCHANGED <<out, held, typed, printed, owed>>

\* _on_connect.
OnConnect(c) ==
  /\ c \in connecting
  /\ connecting' = connecting \ {c}
  /\ Subscribe(c)
  /\ UNCHANGED <<running, out, held, typed, starts, printed, owed>>

LoseConnection(c) ==
  /\ c \in conn /\ starts[c] < MaxStarts
  /\ Disconnect(c)
  /\ connecting' = connecting \ {c}
  /\ UNCHANGED <<running, out, held, typed, starts, printed, owed>>

\* A fault: lines that are not sent yet outlive the process.
EndKeepsLines(c) ==
  /\ c \in running
  /\ running' = running \ {c}
  /\ connecting' = connecting \ {c}
  /\ Disconnect(c)
  /\ held' = [held EXCEPT ![c] = NONE]
  /\ owed' = [owed EXCEPT ![c] = @ \ {held[c]}]
  /\ UNCHANGED <<out, typed, starts, printed>>

\* "exit", or a kill: what is neither sent nor printed is forgotten.
End(c) ==
  /\ c \in running
  /\ running' = running \ {c}
  /\ connecting' = connecting \ {c}
  /\ Disconnect(c)
  /\ out' = [out EXCEPT ![c] = <<>>]
  /\ held' = [held EXCEPT ![c] = NONE]
  /\ owed' = [owed EXCEPT ![c] = @ \ {held[c]}]
  /\ UNCHANGED <<typed, starts, printed>>

\* main: a line is handed to the library.
Type(c) ==
  /\ c \in running /\ typed[c] < MaxLines[c]
  /\ typed' = [typed EXCEPT ![c] = @ + 1]
  /\ out' = [out EXCEPT ![c] = Append(@, TypedLine(c, typed[c] + 1))]
  /\ UNCHANGED <<broker, running, connecting, held, starts, printed, owed>>

\* A fault: the latest line goes first.
SendLatest(c) ==
  /\ c \in conn /\ out[c] # <<>>
  /\ Publish(Last(out[c]), TRUE)
  /\ out' = [out EXCEPT ![c] = Front(@)]
  /\ owed' = [q \in Chatter |-> IF q \in subs \ {c} THEN owed[q] \cup {Last(out[c])}
                                                    ELSE owed[q]]
  /\ UNCHANGED <<running, connecting, held, typed, starts, printed>>

\* The broker has the line, once.
Send(c) ==
  /\ c \in conn /\ out[c] # <<>>
  /\ Publish(Head(out[c]), TRUE)
  /\ out' = [out EXCEPT ![c] = Tail(@)]
  /\ owed' = [q \in Chatter |-> IF q \in subs \ {c} THEN owed[q] \cup {Head(out[c])}
                                                    ELSE owed[q]]
  /\ UNCHANGED <<running, connecting, held, typed, starts, printed>>

\* A fault: QoS 1, the broker may send a line once more.
ReceiveAgain(c) ==
  /\ c \in conn /\ queue[c] # <<>> /\ held[c] = NONE
  /\ held' = [held EXCEPT ![c] = Oldest(c)]
  /\ Deliver(c) \/ (Oldest(c) \notin Range(printed[c]) /\ UNCHANGED broker)
  /\ UNCHANGED <<running, connecting, out, typed, starts, printed, owed>>

\* QoS 2: the library gets the line, and hands it over when it is released.
Receive(c) ==
  /\ held[c] = NONE
  /\ Deliver(c)
  /\ held' = [held EXCEPT ![c] = Oldest(c)]
  /\ UNCHANGED <<running, connecting, out, typed, starts, printed, owed>>

\* _on_message prints the lines that are not its own.
OnMessage(c) ==
  /\ held[c] # NONE /\ c \in conn
  /\ printed' = IF held[c].topic = c THEN printed
                ELSE [printed EXCEPT ![c] = Append(@, held[c])]
  /\ held' = [held EXCEPT ![c] = NONE]
  /\ owed' = [owed EXCEPT ![c] = @ \ {held[c]}]
  /\ UNCHANGED <<broker, running, connecting, out, typed, starts>>

Next ==
  \E c \in Chatter :
    \/ StartOrReconnect(c) \/ OnConnect(c) \/ LoseConnection(c) \/ End(c)
    \/ Type(c) \/ Send(c) \/ Receive(c) \/ OnMessage(c)

\* The network loop of a participant that runs connects again, sends and
\* handles what it is sent; nobody has to start it or to type.
Fairness ==
  \A c \in Chatter :
    /\ WF_vars(c \in running /\ StartOrReconnect(c))
    /\ WF_vars(OnConnect(c)) /\ WF_vars(Send(c))
    /\ WF_vars(Receive(c)) /\ WF_vars(OnMessage(c))

Spec == Init /\ [][Next]_vars /\ Fairness

-----------------------------------------------------------------------------
\* The variables have the values the code gives them, and only a participant
\* that runs is connected, has lines to send or one in its hands.
TypeOK ==
  /\ conn \subseteq running /\ running \subseteq Chatter /\ subs \subseteq Chatter
  /\ connecting \subseteq conn
  /\ \A c \in Chatter :
       /\ retained[c] \in Line \cup {NONE} /\ held[c] \in Line \cup {NONE}
       /\ Range(queue[c]) \cup Range(out[c]) \cup Range(printed[c]) \cup owed[c]
            \subseteq Line
       /\ c \notin running => out[c] = <<>> /\ held[c] = NONE

\* A participant sees the lines of another in the order in which they were
\* typed, though the retained line of a topic comes again at each subscription
\* and the queue of the persistent session is sent before it
\* (task23.py _on_connect, _on_message).
LinesInOrder ==
  \A c \in Chatter : \A i, j \in DOMAIN printed[c] :
    i < j /\ printed[c][i].topic = printed[c][j].topic
      => printed[c][i].n <= printed[c][j].n

\* A line is printed once, as QoS 2 and the persistent session promise, and
\* again only as the retained line of its topic, once for each connection after
\* the first: never more often than the participant connected (task23.py
\* _on_connect, publish).
RepeatsAreRetained ==
  \A c \in Chatter : \A l \in Range(printed[c]) :
    Cardinality({i \in DOMAIN printed[c] : printed[c][i] = l}) <= starts[c]

\* No line sent to a participant since it first subscribed is forgotten while
\* it is away (clean_session=False in task23.py create_client), unless it
\* ended between receiving the line and printing it.
EveryLineIsKept ==
  \A c \in Chatter : owed[c] \subseteq Range(queue[c]) \cup {held[c]}

\* A participant that keeps running prints every line sent to it, whatever
\* connections are lost (task23.py create_client, _on_message).
EveryLineIsRead ==
  \A c, a \in Chatter : \A k \in 1..MaxLines[a] :
    (c \in running /\ TypedLine(a, k) \in owed[c])
      ~> (c \notin running \/ TypedLine(a, k) \notin owed[c])
=============================================================================
