--------------------------- MODULE MqttChatProofs ---------------------------
(***************************************************************************)
(* What holds of the chat for any participants, and any number of lines    *)
(* and of connections: the types, that every line is kept, that lines come *)
(* in order, and that they come again only with a connection.              *)
(***************************************************************************)
EXTENDS MqttChat, SequenceTheorems, FiniteSetTheorems, TLAPS

Shapes ==
  /\ queue \in [Chatter -> Seq(Line)] /\ retained \in [Chatter -> Line \cup {NONE}]
  /\ out \in [Chatter -> Seq(Line)] /\ held \in [Chatter -> Line \cup {NONE}]
  /\ typed \in [Chatter -> Nat] /\ starts \in [Chatter -> Nat]
  /\ printed \in [Chatter -> Seq(Line)] /\ owed \in [Chatter -> SUBSET Line]

Typed == TypeOK /\ Shapes

\* With Typed, the inductive invariant for EveryLineIsKept is that itself.
Kept == Typed /\ EveryLineIsKept

\* The retained line of a topic is the last one sent there.  The lines that
\* its participant has yet to send are newer.
Sent(l) == retained[l.topic] # NONE /\ l.n <= retained[l.topic].n
LastIsRetained ==
  \A c \in Chatter :
    /\ retained[c] # NONE => retained[c].topic = c /\ retained[c].n <= typed[c]
    /\ \A l \in Range(queue[c]) \cup Range(printed[c]) : Sent(l)
    /\ held[c] # NONE => Sent(held[c])
LinesToSend(c) ==
  /\ \A i \in DOMAIN out[c] :
       /\ out[c][i].topic = c /\ out[c][i].n <= typed[c]
       /\ retained[c] # NONE => retained[c].n < out[c][i].n
  /\ \A i, j \in DOMAIN out[c] : i < j => out[c][i].n < out[c][j].n
LinesAreNew == \A c \in Chatter : LinesToSend(c)

Fresh == Typed /\ EveryLineIsKept /\ LastIsRetained /\ LinesAreNew

\* What a participant has printed, has in its hands and is yet to receive come
\* in this order.
NotAfter(l, k) == l.topic = k.topic => l.n <= k.n
Ordered(c) ==
  /\ \A i, j \in DOMAIN queue[c] : i < j => NotAfter(queue[c][i], queue[c][j])
  /\ \A l \in Range(printed[c]), k \in Range(queue[c]) : NotAfter(l, k)
  /\ held[c] # NONE => /\ \A k \in Range(queue[c]) : NotAfter(held[c], k)
                       /\ \A l \in Range(printed[c]) : NotAfter(l, held[c])
  /\ \A i, j \in DOMAIN printed[c] : i < j => NotAfter(printed[c][i], printed[c][j])
AreOrdered == Fresh /\ \A c \in Chatter : Ordered(c)

\* How often a participant got a line, or will: once for each connection on
\* which it subscribed.
Times(s, l) == Cardinality({i \in DOMAIN s : s[i] = l})
One(b) == IF b THEN 1 ELSE 0
Got(c, l) == Times(printed[c], l) + Times(queue[c], l) + One(held[c] = l)
Counted(c) ==
  /\ One(c \in connecting) <= starts[c]
  /\ c \in subs => 1 + One(c \in connecting) <= starts[c]
  /\ \A l \in Line : Got(c, l) + One(c \in connecting) <= starts[c]
AreCounted == Fresh /\ \A c \in Chatter : Counted(c)

-----------------------------------------------------------------------------
\* Facts about sequences, and what the broker's steps do to the queues.
LEMMA SequenceFacts ==
  ASSUME NEW T, NEW s \in Seq(T)
  PROVE  /\ Len(s) \in Nat /\ DOMAIN s = 1 .. Len(s)
         /\ \A i \in DOMAIN s : s[i] \in T
         /\ Range(s) \subseteq T
         /\ \A i \in DOMAIN s : s[i] \in Range(s)
         /\ \A x \in Range(s) : \E i \in DOMAIN s : s[i] = x
BY LenProperties DEF Range

LEMMA AppendFacts ==
  ASSUME NEW T, NEW s \in Seq(T), NEW m \in T
  PROVE  /\ Append(s, m) \in Seq(T)
         /\ Len(s) \in Nat /\ DOMAIN Append(s, m) = 1 .. Len(s) + 1
         /\ \A i \in 1 .. Len(s) : Append(s, m)[i] = s[i]
         /\ Append(s, m)[Len(s) + 1] = m
         /\ Range(Append(s, m)) = Range(s) \cup {m}
<1>1. /\ Append(s, m) \in Seq(T) /\ Len(Append(s, m)) = Len(s) + 1
      /\ \A i \in 1 .. Len(s) : Append(s, m)[i] = s[i]
      /\ Append(s, m)[Len(s) + 1] = m
  BY AppendProperties
<1>2. Len(s) \in Nat /\ DOMAIN s = 1 .. Len(s) /\ DOMAIN Append(s, m) = 1 .. Len(s) + 1
  BY <1>1, LenProperties
<1> QED BY <1>1, <1>2 DEF Range

LEMMA TailFacts ==
  ASSUME NEW T, NEW s \in Seq(T), s # <<>>
  PROVE  /\ Head(s) \in T /\ Head(s) = s[1] /\ 1 \in DOMAIN s /\ Tail(s) \in Seq(T)
         /\ Len(s) \in Nat \ {0} /\ DOMAIN Tail(s) = 1 .. Len(s) - 1
         /\ \A i \in DOMAIN Tail(s) : i + 1 \in DOMAIN s /\ Tail(s)[i] = s[i + 1]
         /\ Range(s) = Range(Tail(s)) \cup {Head(s)}
<1>1. /\ Head(s) \in T /\ Tail(s) \in Seq(T) /\ Len(Tail(s)) = Len(s) - 1
      /\ \A i \in 1 .. Len(Tail(s)) : Tail(s)[i] = s[i + 1]
      /\ Head(s) = s[1]
  BY HeadTailProperties
<1>2. /\ Len(s) \in Nat \ {0} /\ DOMAIN s = 1 .. Len(s)
      /\ DOMAIN Tail(s) = 1 .. Len(s) - 1
  BY <1>1, LenProperties, EmptySeq
<1>3. 1 \in DOMAIN s /\ \A i \in DOMAIN Tail(s) : i + 1 \in DOMAIN s /\ Tail(s)[i] = s[i + 1]
  BY <1>1, <1>2
<1>4. \A i \in DOMAIN s : i = 1 \/ (i - 1 \in DOMAIN Tail(s) /\ Tail(s)[i - 1] = s[i])
  BY <1>2, <1>3
<1>5. Range(s) \subseteq Range(Tail(s)) \cup {Head(s)}
  BY <1>1, <1>4 DEF Range
<1>6. Range(Tail(s)) \cup {Head(s)} \subseteq Range(s)
  BY <1>1, <1>3 DEF Range
<1> QED BY <1>1, <1>2, <1>3, <1>5, <1>6

\* The retained lines are sent as a sequence, each once.
LEMMA RetainedIsSequence ==
  ASSUME Typed, NEW c \in Chatter
  PROVE  LET s == SetToSeq(RetainedFor(c))
         IN  /\ s \in Seq(Line) /\ Range(s) \subseteq RetainedFor(c)
             /\ \A i, j \in DOMAIN s : s[i] = s[j] => i = j
<1> DEFINE S == {retained[t] : t \in Filter[c]}
           f == [t \in Filter[c] |-> retained[t]]
           R == RetainedFor(c)
<1>1. IsFiniteSet(Filter[c]) /\ Filter[c] = Chatter
  BY BrokerAssumption, ChatAssumption
<1>2. f \in Surjection(Filter[c], S)
  BY DEF Surjection
<1>3. IsFiniteSet(S)
  BY <1>1, <1>2, FS_Surjection
<1>4. IsFiniteSet(R) /\ R \subseteq Line
  BY <1>1, <1>3, FS_Subset DEF RetainedFor, Typed, Shapes
<1> HIDE DEF R, S, f
<1>5. PICK g : g \in Bijection(1 .. Cardinality(R), R)
  BY <1>4, FS_CardinalityType DEF ExistsBijection
<1>6. g \in [1 .. Cardinality(R) -> R] /\ IsInjective(g)
  BY <1>5 DEF Bijection, Injection, IsInjective
<1>7. SetToSeq(R) \in [1 .. Cardinality(R) -> R] /\ IsInjective(SetToSeq(R))
  BY <1>6 DEF SetToSeq
<1>8. Cardinality(R) \in Nat
  BY <1>4, FS_CardinalityType
<1>9. SetToSeq(R) \in Seq(R)
  BY <1>7, <1>8, SeqDef
<1>10. SetToSeq(R) \in Seq(Line) /\ Range(SetToSeq(R)) \subseteq R
  BY <1>4, <1>9, SeqMonotonic, SequenceFacts
<1> QED BY <1>7, <1>10 DEF IsInjective, R

\* What is retained is a line of its topic.
LEMMA RetainedLine ==
  ASSUME Typed, NEW c \in Chatter, NEW l \in RetainedFor(c)
  PROVE  l \in Line /\ \E t \in Chatter : l = retained[t] /\ retained[t] # NONE
BY ChatAssumption DEF RetainedFor, Typed, Shapes

LEMMA OnConnectEffect ==
  ASSUME Typed, NEW c \in Chatter, OnConnect(c)
  PROVE  /\ queue' \in [Chatter -> Seq(Line)]
         /\ \A q \in Chatter \ {c} : queue'[q] = queue[q]
         /\ \E s \in Seq(Line) :
              /\ queue'[c] = queue[c] \o s /\ Range(s) \subseteq RetainedFor(c)
              /\ \A i, j \in DOMAIN s : s[i] = s[j] => i = j
         /\ c \in connecting /\ connecting' = connecting \ {c} /\ subs' = subs \cup {c}
         /\ UNCHANGED <<conn, retained, running, out, held, typed, starts, printed, owed>>
<1> DEFINE s == SetToSeq(RetainedFor(c))
<1>1. /\ s \in Seq(Line) /\ Range(s) \subseteq RetainedFor(c)
      /\ \A i, j \in DOMAIN s : s[i] = s[j] => i = j
  BY RetainedIsSequence
<1>2. /\ c \in connecting /\ connecting' = connecting \ {c} /\ subs' = subs \cup {c}
      /\ queue' = [queue EXCEPT ![c] = @ \o s]
      /\ UNCHANGED <<conn, retained, running, out, held, typed, starts, printed, owed>>
  BY DEF OnConnect, Subscribe
<1> HIDE DEF s
<1>3. queue \in [Chatter -> Seq(Line)] /\ queue[c] \o s \in Seq(Line)
  BY <1>1, ConcatProperties DEF Typed, Shapes
<1>4. queue' \in [Chatter -> Seq(Line)] /\ queue'[c] = queue[c] \o s
      /\ \A q \in Chatter \ {c} : queue'[q] = queue[q]
  BY <1>2, <1>3
<1> QED BY <1>1, <1>2, <1>4

\* A persistent session is kept.
LEMMA DisconnectEffect ==
  ASSUME NEW c \in Chatter, Disconnect(c)
  PROVE  conn' = conn \ {c} /\ UNCHANGED <<subs, queue, retained>>
BY ChatAssumption DEF Disconnect

LEMMA SendEffect ==
  ASSUME Typed, NEW c \in Chatter, Send(c)
  PROVE  LET m == Head(out[c]) IN
         /\ m \in Line /\ out[c] # <<>> /\ out' = [out EXCEPT ![c] = Tail(@)]
         /\ out' \in [Chatter -> Seq(Line)] /\ out'[c] = Tail(out[c])
         /\ \A q \in Chatter \ {c} : out'[q] = out[q]
         /\ queue' \in [Chatter -> Seq(Line)]
         /\ \A q \in Chatter : queue'[q] = IF q \in subs THEN Append(queue[q], m) ELSE queue[q]
         /\ retained' = [retained EXCEPT ![m.topic] = m]
         /\ owed' \in [Chatter -> SUBSET Line]
         /\ \A q \in Chatter : owed'[q] = IF q \in subs \ {c} THEN owed[q] \cup {m} ELSE owed[q]
         /\ UNCHANGED <<conn, subs, running, connecting, held, typed, starts, printed>>
<1> DEFINE m == Head(out[c])
<1>1. /\ queue' = [q \in Client |-> IF q \in subs /\ m.topic \in Filter[q]
                                      THEN Append(queue[q], m) ELSE queue[q]]
      /\ retained' = [retained EXCEPT ![m.topic] = m]
      /\ out[c] # <<>> /\ out' = [out EXCEPT ![c] = Tail(@)]
      /\ owed' = [q \in Chatter |-> IF q \in subs \ {c} THEN owed[q] \cup {m} ELSE owed[q]]
      /\ UNCHANGED <<conn, subs, running, connecting, held, typed, starts, printed>>
  BY DEF Send, Publish, Queued
<1>2. /\ out \in [Chatter -> Seq(Line)] /\ queue \in [Chatter -> Seq(Line)]
      /\ owed \in [Chatter -> SUBSET Line]
  BY DEF Typed, Shapes
<1>3. m \in Line /\ Tail(out[c]) \in Seq(Line)
  BY <1>1, <1>2, TailFacts
<1> HIDE DEF m
<1>4. out' \in [Chatter -> Seq(Line)] /\ out'[c] = Tail(out[c])
      /\ \A q \in Chatter \ {c} : out'[q] = out[q]
  BY <1>1, <1>2, <1>3
<1>5. m.topic \in Chatter /\ \A q \in Chatter : Filter[q] = Chatter
  BY <1>3, ChatAssumption DEF Line
<1>6. \A q \in Chatter : queue'[q] = IF q \in subs THEN Append(queue[q], m) ELSE queue[q]
  BY <1>1, <1>5, ChatAssumption
<1>7. \A q \in Chatter : queue[q] \in Seq(Line) /\ Append(queue[q], m) \in Seq(Line)
  BY <1>2, <1>3, AppendProperties
<1>8. queue' \in [Chatter -> Seq(Line)]
  BY <1>1, <1>7, ChatAssumption
<1>9. owed' \in [Chatter -> SUBSET Line]
  BY <1>1, <1>2, <1>3
<1> QED BY <1>1, <1>3, <1>4, <1>6, <1>8, <1>9 DEF m

LEMMA ReceiveEffect ==
  ASSUME Typed, NEW c \in Chatter, Receive(c)
  PROVE  LET m == Head(queue[c]) IN
         /\ m \in Line /\ queue[c] # <<>> /\ held[c] = NONE /\ c \in conn
         /\ queue' \in [Chatter -> Seq(Line)] /\ queue'[c] = Tail(queue[c])
         /\ \A q \in Chatter \ {c} : queue'[q] = queue[q]
         /\ held' = [held EXCEPT ![c] = m]
         /\ UNCHANGED <<conn, subs, retained, running, connecting, out, typed, starts,
                        printed, owed>>
<1>1. /\ queue[c] # <<>> /\ held[c] = NONE /\ c \in conn
      /\ queue' = [queue EXCEPT ![c] = Tail(queue[c])]
      /\ held' = [held EXCEPT ![c] = Head(queue[c])]
      /\ UNCHANGED <<conn, subs, retained, running, connecting, out, typed, starts,
                     printed, owed>>
  BY DEF Receive, Deliver, Oldest
<1>2. queue \in [Chatter -> Seq(Line)]
  BY DEF Typed, Shapes
<1>3. Head(queue[c]) \in Line /\ Tail(queue[c]) \in Seq(Line)
  BY <1>1, <1>2, TailFacts
<1>4. /\ queue' \in [Chatter -> Seq(Line)] /\ queue'[c] = Tail(queue[c])
      /\ \A q \in Chatter \ {c} : queue'[q] = queue[q]
  BY <1>1, <1>2, <1>3
<1> QED BY <1>1, <1>3, <1>4

-----------------------------------------------------------------------------
\* The types, and that every line is kept.

LEMMA InitKept == Init => Kept
<1> SUFFICES ASSUME Init PROVE Kept
  OBVIOUS
<1>1. /\ queue = [c \in Chatter |-> <<>>] /\ retained = [c \in Chatter |-> NONE]
      /\ conn = {} /\ subs = {}
  BY ChatAssumption DEF Init, BrokerInit
<1>2. <<>> \in Seq(Line) /\ Range(<<>>) = {}
  BY EmptySeq DEF Range
<1>3. Shapes
  BY <1>1, <1>2 DEF Init, Shapes
<1>4. TypeOK
  BY <1>1, <1>2 DEF Init, TypeOK
<1>5. EveryLineIsKept
  BY DEF Init, EveryLineIsKept
<1> QED BY <1>3, <1>4, <1>5 DEF Kept, Typed

LEMMA StartKeepsKept == ASSUME Kept, NEW c \in Chatter, StartOrReconnect(c) PROVE Kept'
<1>1. /\ conn' = conn \cup {c} /\ running' = running \cup {c}
      /\ connecting' = connecting \cup {c}
      /\ UNCHANGED <<subs, queue, retained, out, held, typed, printed, owed>>
  BY DEF StartOrReconnect, Connect
<1>2. starts' \in [Chatter -> Nat]
  BY DEF StartOrReconnect, Kept, Typed, Shapes
<1>3. Shapes'
  BY <1>1, <1>2 DEF Kept, Typed, Shapes
<1>4. TypeOK'
  BY <1>1 DEF Kept, Typed, TypeOK
<1>5. EveryLineIsKept'
  BY <1>1 DEF Kept, EveryLineIsKept
<1> QED BY <1>3, <1>4, <1>5 DEF Kept, Typed

LEMMA OnConnectKeepsKept == ASSUME Kept, NEW c \in Chatter, OnConnect(c) PROVE Kept'
<1>1. /\ queue' \in [Chatter -> Seq(Line)]
      /\ \A q \in Chatter \ {c} : queue'[q] = queue[q]
      /\ connecting' = connecting \ {c} /\ subs' = subs \cup {c}
      /\ UNCHANGED <<conn, retained, running, out, held, typed, starts, printed, owed>>
  BY OnConnectEffect DEF Kept
<1>2. Shapes'
  BY <1>1 DEF Kept, Typed, Shapes
<1>3. TypeOK'
  <2>1. \A q \in Chatter : Range(queue'[q]) \subseteq Line
    BY <1>1, SequenceFacts
  <2> QED BY <1>1, <2>1 DEF Kept, Typed, TypeOK
<1>4. EveryLineIsKept'
  <2>1. PICK s \in Seq(Line) : queue'[c] = queue[c] \o s
    BY OnConnectEffect DEF Kept
  <2>2. Range(queue[c]) \subseteq Range(queue'[c])
    <3>1. queue[c] \in Seq(Line)
      BY DEF Kept, Typed, Shapes
    <3>2. /\ Len(queue[c]) \in Nat /\ DOMAIN queue[c] = 1 .. Len(queue[c]) /\ Len(s) \in Nat
          /\ DOMAIN queue'[c] = 1 .. Len(queue[c]) + Len(s)
          /\ \A i \in 1 .. Len(queue[c]) : queue'[c][i] = queue[c][i]
      BY <2>1, <3>1, ConcatProperties, LenProperties
    <3> QED BY <3>2 DEF Range
  <2> QED BY <1>1, <2>2 DEF Kept, EveryLineIsKept
<1> QED BY <1>2, <1>3, <1>4 DEF Kept, Typed

LEMMA LoseConnectionKeepsKept ==
  ASSUME Kept, NEW c \in Chatter, LoseConnection(c) PROVE Kept'
<1>1. /\ conn' = conn \ {c} /\ connecting' = connecting \ {c}
      /\ UNCHANGED <<subs, queue, retained, running, out, held, typed, starts, printed, owed>>
  BY DisconnectEffect DEF LoseConnection
<1>2. Shapes'
  BY <1>1 DEF Kept, Typed, Shapes
<1>3. TypeOK'
  BY <1>1 DEF Kept, Typed, TypeOK
<1>4. EveryLineIsKept'
  BY <1>1 DEF Kept, EveryLineIsKept
<1> QED BY <1>2, <1>3, <1>4 DEF Kept, Typed

LEMMA EndEffect ==
  ASSUME Typed, NEW c \in Chatter, End(c)
  PROVE  /\ running' = running \ {c} /\ conn' = conn \ {c} /\ connecting' = connecting \ {c}
         /\ UNCHANGED <<subs, queue, retained, typed, starts, printed>>
         /\ out' \in [Chatter -> Seq(Line)] /\ held' \in [Chatter -> Line \cup {NONE}]
         /\ owed' \in [Chatter -> SUBSET Line]
         /\ out'[c] = <<>> /\ held'[c] = NONE /\ owed'[c] = owed[c] \ {held[c]}
         /\ \A q \in Chatter \ {c} : /\ out'[q] = out[q] /\ held'[q] = held[q]
                                     /\ owed'[q] = owed[q]
<1>1. <<>> \in Seq(Line)
  BY EmptySeq
<1> QED BY <1>1, DisconnectEffect DEF End, Typed, Shapes

LEMMA EndKeepsKept == ASSUME Kept, NEW c \in Chatter, End(c) PROVE Kept'
<1>1. /\ running' = running \ {c} /\ conn' = conn \ {c} /\ connecting' = connecting \ {c}
      /\ UNCHANGED <<subs, queue, retained, typed, starts, printed>>
      /\ out' \in [Chatter -> Seq(Line)] /\ held' \in [Chatter -> Line \cup {NONE}]
      /\ owed' \in [Chatter -> SUBSET Line]
      /\ out'[c] = <<>> /\ held'[c] = NONE /\ owed'[c] = owed[c] \ {held[c]}
      /\ \A q \in Chatter \ {c} : /\ out'[q] = out[q] /\ held'[q] = held[q]
                                  /\ owed'[q] = owed[q]
  BY EndEffect DEF Kept
<1>2. Shapes'
  BY <1>1 DEF Kept, Typed, Shapes
<1>3. TypeOK'
  <2>1. \A q \in Chatter : q \notin running' => out'[q] = <<>> /\ held'[q] = NONE
    BY <1>1 DEF Kept, Typed, TypeOK
  <2>2. \A q \in Chatter : Range(out'[q]) \subseteq Line
    BY <1>2, SequenceFacts DEF Shapes
  <2> QED BY <1>1, <2>1, <2>2 DEF Kept, Typed, TypeOK
<1>4. EveryLineIsKept'
  BY <1>1 DEF Kept, EveryLineIsKept
<1> QED BY <1>2, <1>3, <1>4 DEF Kept, Typed

LEMMA TypeEffect ==
  ASSUME Typed, NEW c \in Chatter, Type(c)
  PROVE  /\ c \in running /\ typed' \in [Chatter -> Nat] /\ typed'[c] = typed[c] + 1
         /\ TypedLine(c, typed[c] + 1) \in Line
         /\ out' \in [Chatter -> Seq(Line)]
         /\ out'[c] = Append(out[c], TypedLine(c, typed[c] + 1))
         /\ \A q \in Chatter \ {c} : out'[q] = out[q] /\ typed'[q] = typed[q]
         /\ UNCHANGED <<broker, running, connecting, held, starts, printed, owed>>
<1>0. typed[c] \in Nat /\ out[c] \in Seq(Line)
  BY DEF Typed, Shapes
<1>1. TypedLine(c, typed[c] + 1) \in Line
  <2>1. typed[c] + 1 \in Nat \ {0}
    BY <1>0
  <2> QED BY <2>1 DEF TypedLine, Line
<1>2. Append(out[c], TypedLine(c, typed[c] + 1)) \in Seq(Line)
  BY <1>0, <1>1, AppendProperties
<1> QED BY <1>0, <1>1, <1>2 DEF Type, Typed, Shapes

LEMMA TypeKeepsKept == ASSUME Kept, NEW c \in Chatter, Type(c) PROVE Kept'
<1>1. /\ c \in running /\ typed' \in [Chatter -> Nat] /\ out' \in [Chatter -> Seq(Line)]
      /\ \A q \in Chatter \ {c} : out'[q] = out[q]
      /\ UNCHANGED <<conn, subs, queue, retained, running, connecting, held, starts,
                     printed, owed>>
  BY TypeEffect DEF Kept, broker
<1>2. Shapes'
  BY <1>1 DEF Kept, Typed, Shapes
<1>3. TypeOK'
  <2>1. \A q \in Chatter : Range(out'[q]) \subseteq Line
    BY <1>2, SequenceFacts DEF Shapes
  <2> QED BY <1>1, <2>1 DEF Kept, Typed, TypeOK
<1>4. EveryLineIsKept'
  BY <1>1 DEF Kept, EveryLineIsKept
<1> QED BY <1>2, <1>3, <1>4 DEF Kept, Typed

LEMMA SendKeepsKept == ASSUME Kept, NEW c \in Chatter, Send(c) PROVE Kept'
<1> DEFINE m == Head(out[c])
<1>1. /\ m \in Line /\ out[c] # <<>> /\ out' \in [Chatter -> Seq(Line)]
      /\ \A q \in Chatter \ {c} : out'[q] = out[q]
      /\ queue' \in [Chatter -> Seq(Line)]
      /\ \A q \in Chatter : queue'[q] = IF q \in subs THEN Append(queue[q], m) ELSE queue[q]
      /\ retained' = [retained EXCEPT ![m.topic] = m] /\ owed' \in [Chatter -> SUBSET Line]
      /\ \A q \in Chatter : owed'[q] = IF q \in subs \ {c} THEN owed[q] \cup {m} ELSE owed[q]
      /\ UNCHANGED <<conn, subs, running, connecting, held, typed, starts, printed>>
  BY SendEffect DEF Kept
<1> HIDE DEF m
<1>2. c \in running
  BY <1>1 DEF Kept, Typed, TypeOK
<1>3. retained' \in [Chatter -> Line \cup {NONE}]
  BY <1>1 DEF Kept, Typed, Shapes
<1>4. Shapes'
  BY <1>1, <1>3 DEF Kept, Typed, Shapes
<1>5. TypeOK'
  <2>1. \A q \in Chatter : Range(out'[q]) \cup Range(queue'[q]) \cup owed'[q] \subseteq Line
    BY <1>4, SequenceFacts DEF Shapes
  <2>2. \A q \in Chatter : q \notin running' => out'[q] = <<>> /\ held'[q] = NONE
    BY <1>1, <1>2 DEF Kept, Typed, TypeOK
  <2>3. \A q \in Chatter : retained'[q] \in Line \cup {NONE}
    BY <1>3
  <2> QED BY <1>1, <2>1, <2>2, <2>3 DEF Kept, Typed, TypeOK
<1>6. EveryLineIsKept'
  <2>1. ASSUME NEW q \in Chatter
        PROVE  Range(queue'[q]) = IF q \in subs THEN Range(queue[q]) \cup {m} ELSE Range(queue[q])
    <3>1. queue[q] \in Seq(Line)
      BY DEF Kept, Typed, Shapes
    <3>2. Range(Append(queue[q], m)) = Range(queue[q]) \cup {m}
      BY <1>1, <3>1, AppendFacts
    <3> QED BY <1>1, <3>2
  <2> QED BY <1>1, <2>1 DEF Kept, EveryLineIsKept
<1> QED BY <1>4, <1>5, <1>6 DEF Kept, Typed

LEMMA ReceiveKeepsKept == ASSUME Kept, NEW c \in Chatter, Receive(c) PROVE Kept'
<1> DEFINE m == Head(queue[c])
<1>1. /\ m \in Line /\ queue[c] # <<>> /\ held[c] = NONE /\ c \in conn
      /\ queue' \in [Chatter -> Seq(Line)] /\ queue'[c] = Tail(queue[c])
      /\ \A q \in Chatter \ {c} : queue'[q] = queue[q]
      /\ held' = [held EXCEPT ![c] = m]
      /\ UNCHANGED <<conn, subs, retained, running, connecting, out, typed, starts, printed, owed>>
  BY ReceiveEffect DEF Kept
<1>2. Range(queue[c]) = Range(queue'[c]) \cup {m}
  BY <1>1, TailFacts DEF Kept, Typed, Shapes
<1> HIDE DEF m
<1>3. held' \in [Chatter -> Line \cup {NONE}] /\ held'[c] = m
      /\ \A q \in Chatter \ {c} : held'[q] = held[q]
  BY <1>1 DEF Kept, Typed, Shapes
<1>4. Shapes'
  BY <1>1, <1>3 DEF Kept, Typed, Shapes
<1>5. TypeOK'
  <2>1. \A q \in Chatter : Range(queue'[q]) \subseteq Line /\ held'[q] \in Line \cup {NONE}
    BY <1>3, <1>4, SequenceFacts DEF Shapes
  <2>2. c \in running /\ \A q \in Chatter : q \notin running' => out'[q] = <<>> /\ held'[q] = NONE
    BY <1>1, <1>3 DEF Kept, Typed, TypeOK
  <2> QED BY <1>1, <2>1, <2>2 DEF Kept, Typed, TypeOK
<1>6. EveryLineIsKept'
  <2>1. NONE \notin owed[c]
    BY ChatAssumption DEF Kept, Typed, Shapes
  <2> QED BY <1>1, <1>2, <1>3, <2>1 DEF Kept, EveryLineIsKept
<1> QED BY <1>4, <1>5, <1>6 DEF Kept, Typed

LEMMA OnMessageEffect ==
  ASSUME Typed, NEW c \in Chatter, OnMessage(c)
  PROVE  /\ held[c] \in Line /\ held[c] # NONE /\ c \in conn
         /\ held' \in [Chatter -> Line \cup {NONE}] /\ held'[c] = NONE
         /\ printed' \in [Chatter -> Seq(Line)]
         /\ printed'[c] = IF held[c].topic = c THEN printed[c] ELSE Append(printed[c], held[c])
         /\ owed' \in [Chatter -> SUBSET Line] /\ owed'[c] = owed[c] \ {held[c]}
         /\ \A q \in Chatter \ {c} : /\ held'[q] = held[q] /\ printed'[q] = printed[q]
                                     /\ owed'[q] = owed[q]
         /\ UNCHANGED <<conn, subs, queue, retained, running, connecting, out, typed, starts>>
<1>1. held[c] \in Line /\ held[c] # NONE /\ c \in conn /\ printed[c] \in Seq(Line)
  BY DEF OnMessage, Typed, Shapes
<1>2. Append(printed[c], held[c]) \in Seq(Line)
  BY <1>1, AppendProperties
<1> QED BY <1>1, <1>2 DEF OnMessage, broker, Typed, Shapes

LEMMA OnMessageKeepsKept == ASSUME Kept, NEW c \in Chatter, OnMessage(c) PROVE Kept'
<1>1. /\ held' \in [Chatter -> Line \cup {NONE}] /\ held'[c] = NONE
      /\ printed' \in [Chatter -> Seq(Line)]
      /\ owed' \in [Chatter -> SUBSET Line] /\ owed'[c] = owed[c] \ {held[c]}
      /\ \A q \in Chatter \ {c} : held'[q] = held[q] /\ owed'[q] = owed[q]
      /\ UNCHANGED <<conn, subs, queue, retained, running, connecting, out, typed, starts>>
  BY OnMessageEffect DEF Kept
<1>2. Shapes'
  BY <1>1 DEF Kept, Typed, Shapes
<1>3. TypeOK'
  <2>1. \A q \in Chatter : /\ Range(printed'[q]) \cup owed'[q] \subseteq Line
                           /\ held'[q] \in Line \cup {NONE}
    BY <1>2, SequenceFacts DEF Shapes
  <2>2. \A q \in Chatter : q \notin running' => out'[q] = <<>> /\ held'[q] = NONE
    BY <1>1 DEF Kept, Typed, TypeOK
  <2> QED BY <1>1, <2>1, <2>2 DEF Kept, Typed, TypeOK
<1>4. EveryLineIsKept'
  BY <1>1 DEF Kept, EveryLineIsKept
<1> QED BY <1>2, <1>3, <1>4 DEF Kept, Typed

LEMMA NextKeepsKept == ASSUME Kept, [Next]_vars PROVE Kept'
<1>1. CASE UNCHANGED vars
  <2>1. Shapes' /\ EveryLineIsKept'
    BY <1>1 DEF vars, broker, chat, Kept, Typed, Shapes, EveryLineIsKept
  <2>2. TypeOK'
    BY <1>1 DEF vars, broker, chat, Kept, Typed, TypeOK
  <2> QED BY <2>1, <2>2 DEF Kept, Typed
<1>2. ASSUME NEW c \in Chatter,
             \/ StartOrReconnect(c) \/ OnConnect(c) \/ LoseConnection(c) \/ End(c)
             \/ Type(c) \/ Send(c) \/ Receive(c) \/ OnMessage(c)
      PROVE  Kept'
  BY <1>2, StartKeepsKept, OnConnectKeepsKept, LoseConnectionKeepsKept, EndKeepsKept,
     TypeKeepsKept, SendKeepsKept, ReceiveKeepsKept, OnMessageKeepsKept
<1> QED BY <1>1, <1>2 DEF Next

\* The variables always have the values the code gives them, and only a
\* participant that runs is connected or has lines in its hands (task23.py).
THEOREM ChatTypeCorrect == Spec => []TypeOK
<1>1. Init => Kept
  BY InitKept
<1>2. Kept /\ [Next]_vars => Kept'
  BY NextKeepsKept
<1>3. Kept => TypeOK
  BY DEF Kept, Typed
<1> QED BY <1>1, <1>2, <1>3, PTL DEF Spec

\* No line sent to a participant since it first subscribed is forgotten while
\* it is away, unless it ended with the line in its hands (clean_session=False
\* in task23.py create_client).
THEOREM LinesStayKept == Spec => []EveryLineIsKept
<1>1. Init => Kept
  BY InitKept
<1>2. Kept /\ [Next]_vars => Kept'
  BY NextKeepsKept
<1>3. Kept => EveryLineIsKept
  BY DEF Kept
<1> QED BY <1>1, <1>2, <1>3, PTL DEF Spec

-----------------------------------------------------------------------------
\* The last line of a topic is the one retained, and new lines are newer.

Mine(c) == Range(queue[c]) \cup Range(printed[c]) \cup ({held[c]} \ {NONE})

LEMMA TypedFacts ==
  ASSUME Typed, NEW c \in Chatter
  PROVE  /\ queue[c] \in Seq(Line) /\ printed[c] \in Seq(Line) /\ out[c] \in Seq(Line)
         /\ held[c] \in Line \cup {NONE} /\ retained[c] \in Line \cup {NONE}
         /\ typed[c] \in Nat /\ starts[c] \in Nat
         /\ Range(queue[c]) \subseteq Line /\ Range(printed[c]) \subseteq Line
         /\ Mine(c) \subseteq Line
         /\ retained[c] # NONE => retained[c].n \in Nat
         /\ \A l \in Line : l.topic \in Chatter /\ l.n \in Nat
<1>1. /\ queue[c] \in Seq(Line) /\ printed[c] \in Seq(Line) /\ out[c] \in Seq(Line)
      /\ held[c] \in Line \cup {NONE} /\ retained[c] \in Line \cup {NONE}
      /\ typed[c] \in Nat /\ starts[c] \in Nat
  BY DEF Typed, Shapes
<1>2. Range(queue[c]) \subseteq Line /\ Range(printed[c]) \subseteq Line
  BY <1>1, SequenceFacts
<1>3. \A l \in Line : l.topic \in Chatter /\ l.n \in Nat
  BY DEF Line
<1> QED BY <1>1, <1>2, <1>3 DEF Mine

LEMMA MineIsSent ==
  ASSUME Fresh, NEW c \in Chatter, NEW l \in Mine(c) \cup RetainedFor(c)
  PROVE  l \in Line /\ Sent(l) /\ l.topic \in Chatter /\ l.n \in Nat
<1>1. l \in Line
  BY TypedFacts, RetainedLine DEF Fresh
<1>2. l.topic \in Chatter /\ l.n \in Nat
  BY <1>1 DEF Line
<1>3. CASE l \in Mine(c)
  BY <1>1, <1>2, <1>3 DEF Mine, Fresh, LastIsRetained
<1>4. CASE l \in RetainedFor(c)
  BY <1>1, <1>2, <1>4, RetainedLine DEF Fresh, LastIsRetained, Sent
<1> QED BY <1>1, <1>2, <1>3, <1>4

\* A step that sends nothing: lines are moved or dropped, or come from those
\* retained.
LEMMA FreshIfNotSent ==
  ASSUME Fresh, Kept', UNCHANGED <<retained, typed>>,
         \A q \in Chatter : out'[q] = out[q] \/ out'[q] = <<>>,
         \A q \in Chatter : Mine(q)' \subseteq Mine(q) \cup RetainedFor(q)
  PROVE  Fresh'
<1>1. ASSUME NEW q \in Chatter, NEW l \in Mine(q)'
      PROVE  Sent(l)'
  <2>1. Sent(l)
    BY <1>1, MineIsSent
  <2> QED BY <2>1 DEF Sent
<1>2. LastIsRetained'
  <2>1. ASSUME NEW q \in Chatter
        PROVE  /\ retained'[q] # NONE => retained'[q].topic = q /\ retained'[q].n <= typed'[q]
               /\ \A l \in Range(queue'[q]) \cup Range(printed'[q]) : Sent(l)'
               /\ held'[q] # NONE => \A l \in {held'[q]} : Sent(l)'
    BY <1>1 DEF Mine, Fresh, LastIsRetained
  <2> QED BY <2>1 DEF LastIsRetained, Sent
<1>3. LinesAreNew'
  <2>1. ASSUME NEW q \in Chatter, out'[q] = <<>> PROVE LinesToSend(q)'
    BY <2>1 DEF LinesToSend
  <2>2. ASSUME NEW q \in Chatter, out'[q] = out[q] PROVE LinesToSend(q)'
    BY <2>2 DEF LinesToSend, Fresh, LinesAreNew
  <2> QED BY <2>1, <2>2 DEF LinesAreNew
<1> QED BY <1>2, <1>3 DEF Fresh, Kept

LEMMA TypeKeepsFresh == ASSUME Fresh, Kept', NEW c \in Chatter, Type(c) PROVE Fresh'
<1> DEFINE m == TypedLine(c, typed[c] + 1)
<1>1. /\ typed' \in [Chatter -> Nat] /\ typed'[c] = typed[c] + 1 /\ m \in Line
      /\ out'[c] = Append(out[c], m)
      /\ \A q \in Chatter \ {c} : out'[q] = out[q] /\ typed'[q] = typed[q]
      /\ UNCHANGED <<queue, retained, held, printed>>
  BY TypeEffect DEF Fresh, broker
<1>2. m.topic = c /\ m.n = typed[c] + 1
  BY DEF TypedLine
<1> HIDE DEF m
<1>3. \A q \in Chatter : typed[q] \in Nat /\ (retained[q] # NONE => retained[q].n \in Nat)
  BY TypedFacts DEF Fresh
<1>4. \A q \in Chatter : typed'[q] \in Nat /\ typed[q] <= typed'[q]
  BY <1>1, <1>3
<1>5. LastIsRetained'
  <2>1. \A q \in Chatter : retained[q] # NONE => retained[q].topic = q /\ retained[q].n <= typed'[q]
    BY <1>3, <1>4 DEF Fresh, LastIsRetained
  <2> QED BY <1>1, <2>1 DEF Fresh, LastIsRetained, Sent
<1>6. LinesToSend(c)'
  <2>1. /\ Len(out[c]) \in Nat /\ DOMAIN out[c] = 1 .. Len(out[c])
        /\ \A i \in DOMAIN out[c] : out[c][i] \in Line
    BY SequenceFacts, TypedFacts DEF Fresh
  <2>2. /\ DOMAIN out'[c] = 1 .. Len(out[c]) + 1
        /\ \A i \in 1 .. Len(out[c]) : out'[c][i] = out[c][i]
        /\ out'[c][Len(out[c]) + 1] = m
    BY <1>1, AppendFacts, TypedFacts DEF Fresh
  <2>3. \A i \in DOMAIN out[c] : /\ out[c][i].topic = c /\ out[c][i].n <= typed[c]
                                 /\ retained[c] # NONE => retained[c].n < out[c][i].n
                                 /\ out[c][i].n \in Nat
    BY <2>1, TypedFacts DEF Fresh, LinesAreNew, LinesToSend
  <2>4. retained[c] # NONE => retained[c].n <= typed[c]
    BY DEF Fresh, LastIsRetained
  <2>5. ASSUME NEW i \in DOMAIN out'[c]
        PROVE  /\ out'[c][i].topic = c /\ out'[c][i].n <= typed'[c]
               /\ retained'[c] # NONE => retained'[c].n < out'[c][i].n
    <3>1. CASE i \in DOMAIN out[c]
      BY <1>1, <1>3, <1>4, <2>1, <2>2, <2>3, <3>1
    <3>2. CASE i = Len(out[c]) + 1
      BY <1>1, <1>2, <1>3, <2>2, <2>4, <3>2
    <3> QED BY <2>1, <2>2, <3>1, <3>2
  <2>6. ASSUME NEW i \in DOMAIN out'[c], NEW j \in DOMAIN out'[c], i < j
        PROVE  out'[c][i].n < out'[c][j].n
    <3>1. i \in DOMAIN out[c] /\ out'[c][i] = out[c][i]
      BY <2>1, <2>2, <2>6
    <3>2. CASE j \in DOMAIN out[c]
      BY <2>1, <2>2, <2>6, <3>1, <3>2 DEF Fresh, LinesAreNew, LinesToSend
    <3>3. CASE j = Len(out[c]) + 1
      BY <1>2, <1>3, <2>2, <2>3, <3>1, <3>3
    <3> QED BY <2>1, <2>2, <3>2, <3>3
  <2> QED BY <2>5, <2>6 DEF LinesToSend
<1>7. \A q \in Chatter \ {c} : LinesToSend(q)'
  BY <1>1 DEF Fresh, LinesAreNew, LinesToSend
<1> QED BY <1>5, <1>6, <1>7 DEF Fresh, LinesAreNew, Kept

\* A line that is sent is newer than all that was: nobody has it.
LEMMA SentIsNew ==
  ASSUME Fresh, NEW c \in Chatter, out[c] # <<>>, NEW m, m = Head(out[c])
  PROVE  /\ m \in Line /\ m.topic = c /\ m.n \in Nat /\ m.n <= typed[c]
         /\ retained[c] # NONE => retained[c].n < m.n
         /\ \A q \in Chatter : \A l \in Mine(q) : NotAfter(l, m) /\ l # m
<1>1. m \in Line /\ m = out[c][1] /\ 1 \in DOMAIN out[c]
  BY TailFacts, TypedFacts DEF Fresh
<1>2. /\ m.topic = c /\ m.n \in Nat /\ m.n <= typed[c]
      /\ retained[c] # NONE => retained[c].n < m.n
  BY <1>1, TypedFacts DEF Fresh, LinesAreNew, LinesToSend
<1>3. ASSUME NEW q \in Chatter, NEW l \in Mine(q), l.topic = c
      PROVE  l.n < m.n
  <2>1. retained[c] # NONE /\ l.n <= retained[c].n /\ l.n \in Nat
    BY <1>3, MineIsSent DEF Sent
  <2>2. retained[c].n \in Nat
    BY <2>1, TypedFacts DEF Fresh
  <2> QED BY <1>2, <2>1, <2>2
<1>4. \A q \in Chatter : \A l \in Mine(q) : l.n \in Nat
  BY MineIsSent
<1> QED BY <1>1, <1>2, <1>3, <1>4 DEF NotAfter

LEMMA SendKeepsFresh == ASSUME Fresh, Kept', NEW c \in Chatter, Send(c) PROVE Fresh'
<1> PICK m : m = Head(out[c])
  OBVIOUS
<1>1. /\ m \in Line /\ out[c] # <<>> /\ out'[c] = Tail(out[c])
      /\ \A q \in Chatter \ {c} : out'[q] = out[q]
      /\ \A q \in Chatter : queue'[q] = IF q \in subs THEN Append(queue[q], m) ELSE queue[q]
      /\ retained' = [retained EXCEPT ![m.topic] = m]
      /\ UNCHANGED <<held, typed, printed>>
  BY SendEffect DEF Fresh
<1>2. /\ m.topic = c /\ m.n \in Nat /\ m.n <= typed[c]
      /\ retained[c] # NONE => retained[c].n < m.n
  BY <1>1, SentIsNew
<1>3. /\ out[c] \in Seq(Line) /\ m = out[c][1] /\ 1 \in DOMAIN out[c]
      /\ Len(out[c]) \in Nat /\ DOMAIN out'[c] = 1 .. Len(out[c]) - 1
      /\ \A i \in DOMAIN out'[c] : i + 1 \in DOMAIN out[c] /\ out'[c][i] = out[c][i + 1]
  BY <1>1, TailFacts, TypedFacts DEF Fresh
<1>4. /\ retained'[c] = m /\ m # NONE
      /\ \A q \in Chatter \ {c} : retained'[q] = retained[q]
  BY <1>1, <1>2, ChatAssumption DEF Fresh, Typed, Shapes
<1>5. ASSUME NEW q \in Chatter, NEW l \in Mine(q)
      PROVE  Sent(l)'
  <2>1. Sent(l) /\ l.topic \in Chatter /\ l.n \in Nat
    BY <1>5, MineIsSent
  <2>2. CASE l.topic = c
    <3>1. retained[c].n \in Nat
      BY <2>1, <2>2, TypedFacts DEF Fresh, Sent
    <3> QED BY <1>2, <1>4, <2>1, <2>2, <3>1 DEF Sent
  <2>3. CASE l.topic # c
    BY <1>4, <2>1, <2>3 DEF Sent
  <2> QED BY <2>2, <2>3
<1>6. Sent(m)'
  BY <1>2, <1>4 DEF Sent
<1>7. ASSUME NEW q \in Chatter, NEW l \in Range(queue'[q]) PROVE l = m \/ l \in Range(queue[q])
  <2>1. Range(Append(queue[q], m)) = Range(queue[q]) \cup {m}
    BY <1>1, AppendFacts, TypedFacts DEF Fresh
  <2> QED BY <1>1, <1>7, <2>1
<1>8. LastIsRetained'
  <2>1. ASSUME NEW q \in Chatter
        PROVE  /\ retained'[q] # NONE => retained'[q].topic = q /\ retained'[q].n <= typed'[q]
               /\ \A l \in Range(queue'[q]) \cup Range(printed'[q]) : Sent(l)'
               /\ held'[q] # NONE => \A l \in {held'[q]} : Sent(l)'
    BY <1>1, <1>2, <1>4, <1>5, <1>6, <1>7 DEF Mine, Fresh, LastIsRetained
  <2> QED BY <2>1 DEF LastIsRetained, Sent
<1>9. LinesToSend(c)'
  <2>1. \A i \in DOMAIN out'[c] : i \in Nat /\ 1 < i + 1 /\ \A j \in DOMAIN out'[c] : i < j => i + 1 < j + 1
    BY <1>3
  <2>2. /\ \A i \in DOMAIN out[c] : out[c][i].topic = c /\ out[c][i].n <= typed[c]
        /\ \A i, j \in DOMAIN out[c] : i < j => out[c][i].n < out[c][j].n
    BY DEF Fresh, LinesAreNew, LinesToSend
  <2> QED BY <1>1, <1>3, <1>4, <2>1, <2>2 DEF LinesToSend
<1>10. \A q \in Chatter \ {c} : LinesToSend(q)'
  BY <1>1, <1>4 DEF Fresh, LinesAreNew, LinesToSend
<1> QED BY <1>8, <1>9, <1>10 DEF Fresh, LinesAreNew, Kept

\* A sequence continued.
LEMMA ConcatFacts ==
  ASSUME NEW q \in Seq(Line), NEW s \in Seq(Line)
  PROVE  /\ Len(q) \in Nat /\ Len(s) \in Nat /\ DOMAIN q = 1 .. Len(q) /\ DOMAIN s = 1 .. Len(s)
         /\ DOMAIN (q \o s) = 1 .. Len(q) + Len(s)
         /\ \A i \in DOMAIN q : i \in DOMAIN (q \o s) /\ (q \o s)[i] = q[i]
         /\ \A i \in DOMAIN (q \o s) : i \notin DOMAIN q =>
              i - Len(q) \in DOMAIN s /\ (q \o s)[i] = s[i - Len(q)]
         /\ \A j \in DOMAIN s : /\ Len(q) + j \in DOMAIN (q \o s) /\ Len(q) + j \notin DOMAIN q
                                /\ (q \o s)[Len(q) + j] = s[j]
         /\ Range(q \o s) = Range(q) \cup Range(s)
<1>1. /\ Len(q) \in Nat /\ Len(s) \in Nat /\ DOMAIN q = 1 .. Len(q) /\ DOMAIN s = 1 .. Len(s)
      /\ DOMAIN (q \o s) = 1 .. Len(q) + Len(s)
      /\ \A i \in 1 .. Len(q) + Len(s) :
           (q \o s)[i] = IF i <= Len(q) THEN q[i] ELSE s[i - Len(q)]
  BY ConcatProperties, LenProperties
<1>2. \A i \in DOMAIN q : i \in DOMAIN (q \o s) /\ (q \o s)[i] = q[i]
  BY <1>1
<1>3. \A i \in DOMAIN (q \o s) : i \notin DOMAIN q =>
        i - Len(q) \in DOMAIN s /\ (q \o s)[i] = s[i - Len(q)]
  BY <1>1
<1>4. \A j \in DOMAIN s : /\ Len(q) + j \in DOMAIN (q \o s) /\ Len(q) + j \notin DOMAIN q
                          /\ (q \o s)[Len(q) + j] = s[j]
  <2>1. \A j \in DOMAIN s : (Len(q) + j) - Len(q) = j /\ Len(q) + j > Len(q)
    BY <1>1
  <2> QED BY <1>1, <2>1
<1>5. Range(q \o s) \subseteq Range(q) \cup Range(s)
  BY <1>2, <1>3 DEF Range
<1>6. Range(q) \cup Range(s) \subseteq Range(q \o s)
  BY <1>2, <1>4 DEF Range
<1> QED BY <1>1, <1>2, <1>3, <1>4, <1>5, <1>6

LEMMA OnConnectMoves ==
  ASSUME Typed, NEW c \in Chatter, OnConnect(c), NEW q \in Chatter
  PROVE  Mine(q)' \subseteq Mine(q) \cup RetainedFor(q)
<1>1. PICK s \in Seq(Line) : queue'[c] = queue[c] \o s /\ Range(s) \subseteq RetainedFor(c)
  BY OnConnectEffect
<1>2. /\ \A p \in Chatter \ {c} : queue'[p] = queue[p]
      /\ UNCHANGED <<held, printed>>
  BY OnConnectEffect
<1>3. Range(queue'[c]) = Range(queue[c]) \cup Range(s)
  BY <1>1, ConcatFacts, TypedFacts
<1> QED BY <1>1, <1>2, <1>3 DEF Mine

LEMMA ReceiveMoves ==
  ASSUME Typed, NEW c \in Chatter, Receive(c), NEW q \in Chatter
  PROVE  Mine(q)' \subseteq Mine(q)
<1>1. /\ queue[c] # <<>> /\ queue'[c] = Tail(queue[c])
      /\ \A p \in Chatter \ {c} : queue'[p] = queue[p]
      /\ held' = [held EXCEPT ![c] = Head(queue[c])] /\ printed' = printed
      /\ held \in [Chatter -> Line \cup {NONE}]
  BY ReceiveEffect DEF Typed, Shapes
<1>2. Range(queue[c]) = Range(Tail(queue[c])) \cup {Head(queue[c])}
  BY <1>1, TailFacts, TypedFacts
<1> QED BY <1>1, <1>2 DEF Mine

LEMMA OnMessageMoves ==
  ASSUME Typed, NEW c \in Chatter, OnMessage(c), NEW q \in Chatter
  PROVE  Mine(q)' \subseteq Mine(q)
<1>1. /\ held[c] \in Line /\ held[c] # NONE /\ held'[c] = NONE
      /\ printed'[c] = IF held[c].topic = c THEN printed[c] ELSE Append(printed[c], held[c])
      /\ \A p \in Chatter \ {c} : held'[p] = held[p] /\ printed'[p] = printed[p]
      /\ queue' = queue
  BY OnMessageEffect
<1>2. Range(Append(printed[c], held[c])) = Range(printed[c]) \cup {held[c]}
  BY <1>1, AppendFacts, TypedFacts
<1>3. Range(printed'[c]) \subseteq Range(printed[c]) \cup {held[c]}
  BY <1>1, <1>2
<1> QED BY <1>1, <1>3 DEF Mine

LEMMA NextKeepsFresh == ASSUME Fresh, [Next]_vars PROVE Fresh'
<1>1. Kept' /\ Typed
  BY NextKeepsKept DEF Fresh, Kept
<1>2. CASE UNCHANGED vars
  BY <1>1, <1>2, FreshIfNotSent DEF vars, broker, chat, Mine
<1>3. ASSUME NEW c \in Chatter, StartOrReconnect(c) \/ LoseConnection(c)
      PROVE  Fresh'
  <2>1. UNCHANGED <<queue, retained, typed, out, held, printed>>
    BY <1>3, DisconnectEffect DEF StartOrReconnect, Connect, LoseConnection
  <2> QED BY <1>1, <2>1, FreshIfNotSent DEF Mine
<1>4. ASSUME NEW c \in Chatter, OnConnect(c) PROVE Fresh'
  <2>1. UNCHANGED <<retained, typed, out>>
    BY <1>1, <1>4, OnConnectEffect
  <2> QED BY <1>1, <1>4, <2>1, OnConnectMoves, FreshIfNotSent
<1>5. ASSUME NEW c \in Chatter, End(c) PROVE Fresh'
  <2>1. /\ UNCHANGED <<queue, retained, typed, printed>>
        /\ \A q \in Chatter : out'[q] = out[q] \/ out'[q] = <<>>
        /\ \A q \in Chatter : held'[q] = held[q] \/ held'[q] = NONE
    BY <1>1, <1>5, EndEffect
  <2>2. \A q \in Chatter : Mine(q)' \subseteq Mine(q)
    BY <2>1 DEF Mine
  <2> QED BY <1>1, <2>1, <2>2, FreshIfNotSent
<1>6. ASSUME NEW c \in Chatter, Type(c) PROVE Fresh'
  BY <1>1, <1>6, TypeKeepsFresh
<1>7. ASSUME NEW c \in Chatter, Send(c) PROVE Fresh'
  BY <1>1, <1>7, SendKeepsFresh
<1>8. ASSUME NEW c \in Chatter, Receive(c) PROVE Fresh'
  <2>1. UNCHANGED <<retained, typed, out>>
    BY <1>1, <1>8, ReceiveEffect
  <2> QED BY <1>1, <1>8, <2>1, ReceiveMoves, FreshIfNotSent
<1>9. ASSUME NEW c \in Chatter, OnMessage(c) PROVE Fresh'
  <2>1. UNCHANGED <<retained, typed, out>>
    BY <1>1, <1>9, OnMessageEffect
  <2> QED BY <1>1, <1>9, <2>1, OnMessageMoves, FreshIfNotSent
<1> QED BY <1>2, <1>3, <1>4, <1>5, <1>6, <1>7, <1>8, <1>9 DEF Next

-----------------------------------------------------------------------------
\* The lines come in order.

LEMMA InitOrdered == Init => AreOrdered
<1> SUFFICES ASSUME Init PROVE AreOrdered
  OBVIOUS
<1>1. /\ Kept /\ retained = [c \in Chatter |-> NONE]
      /\ \A c \in Chatter : /\ queue[c] = <<>> /\ printed[c] = <<>> /\ out[c] = <<>>
                            /\ held[c] = NONE
  BY ChatAssumption, InitKept DEF Init, BrokerInit
<1>2. Range(<<>>) = {}
  BY DEF Range
<1>3. Fresh
  BY <1>1, <1>2 DEF Fresh, Kept, LastIsRetained, LinesAreNew, LinesToSend
<1>4. \A c \in Chatter : Ordered(c)
  BY <1>1, <1>2 DEF Ordered
<1> QED BY <1>3, <1>4 DEF AreOrdered

LEMMA OrderedIfSame ==
  ASSUME NEW q, Ordered(q), queue'[q] = queue[q], held'[q] = held[q], printed'[q] = printed[q]
  PROVE  Ordered(q)'
BY DEF Ordered

LEMMA OrderedIfContinued ==
  ASSUME Typed, NEW q \in Chatter, Ordered(q), NEW s \in Seq(Line), queue'[q] = queue[q] \o s,
         held'[q] = held[q], printed'[q] = printed[q],
         \A l \in Mine(q), k \in Range(s) : NotAfter(l, k),
         \A i, j \in DOMAIN s : i < j => NotAfter(s[i], s[j])
  PROVE  Ordered(q)'
<1>1. /\ Len(queue[q]) \in Nat /\ DOMAIN queue[q] = 1 .. Len(queue[q])
      /\ DOMAIN s = 1 .. Len(s) /\ Len(s) \in Nat
      /\ DOMAIN queue'[q] = 1 .. Len(queue[q]) + Len(s)
      /\ \A i \in DOMAIN queue[q] : queue'[q][i] = queue[q][i]
      /\ \A i \in DOMAIN queue'[q] : i \notin DOMAIN queue[q] =>
           i - Len(queue[q]) \in DOMAIN s /\ queue'[q][i] = s[i - Len(queue[q])]
      /\ Range(queue'[q]) = Range(queue[q]) \cup Range(s)
  BY ConcatFacts, TypedFacts
<1>2. ASSUME NEW i \in DOMAIN queue'[q], NEW j \in DOMAIN queue'[q], i < j
      PROVE  NotAfter(queue'[q][i], queue'[q][j])
  <2>1. CASE j \in DOMAIN queue[q]
    <3>1. i \in DOMAIN queue[q]
      BY <1>1, <1>2, <2>1
    <3> QED BY <1>1, <1>2, <2>1, <3>1 DEF Ordered
  <2>2. CASE j \notin DOMAIN queue[q] /\ i \in DOMAIN queue[q]
    <3>1. queue'[q][j] \in Range(s) /\ queue'[q][i] \in Mine(q)
      BY <1>1, <2>2 DEF Range, Mine
    <3> QED BY <3>1
  <2>3. CASE j \notin DOMAIN queue[q] /\ i \notin DOMAIN queue[q]
    <3>1. i - Len(queue[q]) < j - Len(queue[q])
      BY <1>1, <1>2
    <3> QED BY <1>1, <2>3, <3>1
  <2> QED BY <2>1, <2>2, <2>3
<1>3. \A l \in Range(printed[q]), k \in Range(queue'[q]) : NotAfter(l, k)
  BY <1>1 DEF Ordered, Mine
<1>4. held[q] # NONE => \A k \in Range(queue'[q]) : NotAfter(held[q], k)
  BY <1>1 DEF Ordered, Mine
<1> QED BY <1>2, <1>3, <1>4 DEF Ordered

LEMMA OnConnectKeepsOrdered ==
  ASSUME Fresh, NEW c \in Chatter, OnConnect(c), NEW q \in Chatter, Ordered(q)
  PROVE  Ordered(q)'
<1>1. Typed /\ UNCHANGED <<held, printed>> /\ \A p \in Chatter \ {c} : queue'[p] = queue[p]
  BY OnConnectEffect DEF Fresh
<1>2. CASE q # c
  BY <1>1, <1>2, OrderedIfSame
<1>3. CASE q = c
  <2>1. PICK s \in Seq(Line) : queue'[c] = queue[c] \o s /\ Range(s) \subseteq RetainedFor(c)
    BY <1>1, OnConnectEffect
  <2>2. ASSUME NEW l, NEW k \in RetainedFor(c), l \in Line, Sent(l), l.topic = k.topic
        PROVE  l.n <= k.n
    <3>1. PICK t \in Chatter : k = retained[t] /\ retained[t] # NONE
      BY <1>1, <2>2, RetainedLine
    <3>2. k.topic = t
      BY <3>1 DEF Fresh, LastIsRetained
    <3> QED BY <2>2, <3>1, <3>2 DEF Sent
  <2>3. \A l \in Mine(c) \cup RetainedFor(c), k \in RetainedFor(c) : NotAfter(l, k)
    BY <2>2, MineIsSent DEF NotAfter
  <2>4. \A i \in DOMAIN s : s[i] \in RetainedFor(c)
    BY <2>1 DEF Range
  <2> QED BY <1>1, <1>3, <2>1, <2>3, <2>4, OrderedIfContinued
<1> QED BY <1>2, <1>3

LEMMA SendKeepsOrdered ==
  ASSUME Fresh, NEW c \in Chatter, Send(c), NEW q \in Chatter, Ordered(q)
  PROVE  Ordered(q)'
<1> PICK m : m = Head(out[c])
  OBVIOUS
<1>1. /\ Typed /\ m \in Line /\ out[c] # <<>>
      /\ queue'[q] = IF q \in subs THEN Append(queue[q], m) ELSE queue[q]
      /\ UNCHANGED <<held, printed>>
  BY SendEffect DEF Fresh
<1>2. CASE q \notin subs
  BY <1>1, <1>2, OrderedIfSame
<1>3. CASE q \in subs
  <2>1. <<m>> \in Seq(Line) /\ queue'[q] = queue[q] \o <<m>>
    <3>1. queue[q] \in Seq(Line)
      BY <1>1, TypedFacts
    <3>2. <<m>> \in Seq(Line)
      BY <1>1
    <3>3. Append(queue[q], m) = queue[q] \o <<m>>
      BY <1>1, <3>1, AppendIsConcat
    <3> QED BY <1>1, <1>3, <3>2, <3>3
  <2>2. Range(<<m>>) = {m} /\ DOMAIN <<m>> = {1}
    BY DEF Range
  <2>3. \A l \in Mine(q) : NotAfter(l, m)
    BY <1>1, SentIsNew
  <2>4. \A i, j \in DOMAIN <<m>> : ~(i < j)
    BY <2>2
  <2> QED BY <1>1, <2>1, <2>2, <2>3, <2>4, OrderedIfContinued
<1> QED BY <1>2, <1>3

LEMMA ReceiveKeepsOrdered ==
  ASSUME Fresh, NEW c \in Chatter, Receive(c), NEW q \in Chatter, Ordered(q)
  PROVE  Ordered(q)'
<1>1. /\ Typed /\ queue[c] # <<>> /\ queue'[c] = Tail(queue[c])
      /\ \A p \in Chatter \ {c} : queue'[p] = queue[p] /\ held'[p] = held[p]
      /\ held'[c] = Head(queue[c]) /\ printed' = printed
  BY ReceiveEffect DEF Fresh, Typed, Shapes
<1>2. CASE q # c
  BY <1>1, <1>2, OrderedIfSame
<1>3. CASE q = c
  <2>1. /\ Head(queue[c]) = queue[c][1] /\ 1 \in DOMAIN queue[c] /\ Len(queue[c]) \in Nat
        /\ DOMAIN queue'[c] = 1 .. Len(queue[c]) - 1
        /\ \A i \in DOMAIN queue'[c] : i + 1 \in DOMAIN queue[c] /\ queue'[c][i] = queue[c][i + 1]
        /\ Range(queue[c]) = Range(queue'[c]) \cup {Head(queue[c])}
    BY <1>1, TailFacts, TypedFacts
  <2>2. \A i \in DOMAIN queue'[c] : 1 < i + 1 /\ \A j \in DOMAIN queue'[c] : i < j => i + 1 < j + 1
    BY <2>1
  <2>3. \A i, j \in DOMAIN queue'[c] : i < j => NotAfter(queue'[c][i], queue'[c][j])
    BY <1>3, <2>1, <2>2 DEF Ordered
  <2>4. \A k \in Range(queue'[c]) : NotAfter(held'[c], k)
    BY <1>1, <1>3, <2>1, <2>2 DEF Ordered, Range
  <2>5. \A l \in Range(printed[c]) : /\ NotAfter(l, held'[c])
                                      /\ \A k \in Range(queue'[c]) : NotAfter(l, k)
    BY <1>1, <1>3, <2>1 DEF Ordered
  <2> QED BY <1>1, <1>3, <2>3, <2>4, <2>5 DEF Ordered
<1> QED BY <1>2, <1>3

LEMMA OnMessageKeepsOrdered ==
  ASSUME Fresh, NEW c \in Chatter, OnMessage(c), NEW q \in Chatter, Ordered(q)
  PROVE  Ordered(q)'
<1>1. /\ Typed /\ held[c] \in Line /\ held[c] # NONE /\ held'[c] = NONE
      /\ printed'[c] = IF held[c].topic = c THEN printed[c] ELSE Append(printed[c], held[c])
      /\ \A p \in Chatter \ {c} : held'[p] = held[p] /\ printed'[p] = printed[p]
      /\ queue' = queue
  BY OnMessageEffect DEF Fresh
<1>2. CASE q # c
  BY <1>1, <1>2, OrderedIfSame
<1>3. CASE q = c /\ printed'[c] = printed[c]
  BY <1>1, <1>3 DEF Ordered
<1>4. CASE q = c /\ printed'[c] = Append(printed[c], held[c])
  <2>1. /\ Len(printed[c]) \in Nat /\ DOMAIN printed[c] = 1 .. Len(printed[c])
        /\ DOMAIN printed'[c] = 1 .. Len(printed[c]) + 1
        /\ \A i \in 1 .. Len(printed[c]) : printed'[c][i] = printed[c][i]
        /\ printed'[c][Len(printed[c]) + 1] = held[c]
        /\ Range(printed'[c]) = Range(printed[c]) \cup {held[c]}
    BY <1>1, <1>4, AppendFacts, SequenceFacts, TypedFacts
  <2>2. ASSUME NEW i \in DOMAIN printed'[c], NEW j \in DOMAIN printed'[c], i < j
        PROVE  NotAfter(printed'[c][i], printed'[c][j])
    <3>1. i \in DOMAIN printed[c] /\ printed'[c][i] = printed[c][i]
      BY <2>1, <2>2
    <3>2. CASE j \in DOMAIN printed[c]
      BY <1>4, <2>1, <2>2, <3>1, <3>2 DEF Ordered
    <3>3. CASE j = Len(printed[c]) + 1
      <4>1. printed[c][i] \in Range(printed[c]) /\ printed'[c][j] = held[c]
        BY <2>1, <3>1, <3>3 DEF Range
      <4> QED BY <1>1, <1>4, <3>1, <4>1 DEF Ordered
    <3> QED BY <2>1, <3>2, <3>3
  <2> QED BY <1>1, <1>4, <2>1, <2>2 DEF Ordered
<1> QED BY <1>1, <1>2, <1>3, <1>4

LEMMA NextKeepsOrdered == ASSUME AreOrdered, [Next]_vars PROVE AreOrdered'
<1>1. Fresh /\ Fresh' /\ Typed
  BY NextKeepsFresh DEF AreOrdered, Fresh
<1>2. ASSUME NEW q \in Chatter PROVE Ordered(q)'
  <2>0. Ordered(q)
    BY DEF AreOrdered
  <2>1. CASE UNCHANGED vars
    BY <2>0, <2>1, OrderedIfSame DEF vars, broker, chat
  <2>2. ASSUME NEW c \in Chatter, StartOrReconnect(c) \/ LoseConnection(c) \/ Type(c)
        PROVE  Ordered(q)'
    <3>1. UNCHANGED <<queue, held, printed>>
      BY <2>2, DisconnectEffect DEF StartOrReconnect, Connect, LoseConnection, Type, broker
    <3> QED BY <2>0, <3>1, OrderedIfSame
  <2>3. ASSUME NEW c \in Chatter, End(c) PROVE Ordered(q)'
    <3>1. UNCHANGED <<queue, printed>> /\ (held'[q] = held[q] \/ held'[q] = NONE)
      BY <1>1, <2>3, EndEffect
    <3> QED BY <2>0, <3>1 DEF Ordered
  <2>4. ASSUME NEW c \in Chatter, OnConnect(c) \/ Send(c) \/ Receive(c) \/ OnMessage(c)
        PROVE  Ordered(q)'
    BY <1>1, <2>0, <2>4, OnConnectKeepsOrdered, SendKeepsOrdered, ReceiveKeepsOrdered,
       OnMessageKeepsOrdered
  <2> QED BY <2>1, <2>2, <2>3, <2>4 DEF Next
<1> QED BY <1>1, <1>2 DEF AreOrdered

\* A participant sees the lines of another in the order in which they were
\* typed, though retained lines come again with each subscription (task23.py
\* _on_connect, _on_message).
THEOREM LinesStayInOrder == Spec => []LinesInOrder
<1>1. Init => AreOrdered
  BY InitOrdered
<1>2. AreOrdered /\ [Next]_vars => AreOrdered'
  BY NextKeepsOrdered
<1>3. AreOrdered => LinesInOrder
  BY DEF AreOrdered, Ordered, LinesInOrder, NotAfter
<1> QED BY <1>1, <1>2, <1>3, PTL DEF Spec

-----------------------------------------------------------------------------
\* A line comes again only with a connection.

LEMMA OneType == ASSUME NEW b \in BOOLEAN PROVE One(b) \in {0, 1} /\ (b <=> One(b) = 1)
BY DEF One

LEMMA TimesType ==
  ASSUME NEW s \in Seq(Line), NEW l
  PROVE  /\ IsFiniteSet({i \in DOMAIN s : s[i] = l}) /\ Times(s, l) \in Nat
         /\ l \notin Range(s) => Times(s, l) = 0
<1> DEFINE A == {i \in DOMAIN s : s[i] = l}
<1>1. Len(s) \in Nat /\ DOMAIN s = 1 .. Len(s)
  BY SequenceFacts
<1>2. IsFiniteSet(1 .. Len(s)) /\ A \subseteq 1 .. Len(s)
  BY <1>1, FS_Interval
<1>3. IsFiniteSet(A) /\ Cardinality(A) \in Nat
  BY <1>2, FS_Subset, FS_CardinalityType
<1>4. l \notin Range(s) => A = {}
  BY DEF Range
<1> QED BY <1>3, <1>4, FS_EmptySet DEF Times

LEMMA TimesConcat ==
  ASSUME NEW q \in Seq(Line), NEW s \in Seq(Line), NEW l,
         \A i, j \in DOMAIN s : s[i] = s[j] => i = j
  PROVE  Times(q \o s, l) = Times(q, l) + One(l \in Range(s))
<1> DEFINE A == {i \in DOMAIN q : q[i] = l}
           B == {i \in DOMAIN (q \o s) : (q \o s)[i] = l}
<1>1. /\ Len(q) \in Nat
      /\ \A i \in DOMAIN q : i \in DOMAIN (q \o s) /\ (q \o s)[i] = q[i]
      /\ \A i \in DOMAIN (q \o s) : i \notin DOMAIN q =>
           i - Len(q) \in DOMAIN s /\ (q \o s)[i] = s[i - Len(q)]
      /\ \A j \in DOMAIN s : /\ Len(q) + j \in DOMAIN (q \o s) /\ Len(q) + j \notin DOMAIN q
                             /\ (q \o s)[Len(q) + j] = s[j]
      /\ DOMAIN s \subseteq Int /\ DOMAIN (q \o s) \subseteq Int
  BY ConcatFacts
<1>2. IsFiniteSet(A) /\ Cardinality(A) \in Nat
  BY TimesType DEF Times
<1>0. Times(q, l) = Cardinality(A) /\ Times(q \o s, l) = Cardinality(B)
  BY DEF Times
<1>3. CASE l \notin Range(s)
  <2>1. B = A
    BY <1>1, <1>3 DEF Range
  <2>2. One(l \in Range(s)) = 0
    BY <1>3 DEF One
  <2> HIDE DEF A, B
  <2> QED BY <1>0, <1>2, <2>1, <2>2
<1>4. CASE l \in Range(s)
  <2>1. PICK j \in DOMAIN s : s[j] = l
    BY <1>4 DEF Range
  <2>2. Len(q) + j \in B /\ Len(q) + j \notin A
    BY <1>1, <2>1
  <2>3. ASSUME NEW i \in B, i \notin A PROVE i = Len(q) + j
    <3>1. i \notin DOMAIN q /\ i \in DOMAIN (q \o s)
      BY <1>1, <2>3
    <3>2. i - Len(q) \in DOMAIN s /\ s[i - Len(q)] = l
      BY <1>1, <2>3, <3>1
    <3>3. i - Len(q) = j
      BY <2>1, <3>2
    <3> QED BY <1>1, <2>1, <3>1, <3>3
  <2>4. B = A \cup {Len(q) + j}
    BY <1>1, <2>2, <2>3
  <2>5. Cardinality(B) = Cardinality(A) + 1
    BY <1>2, <2>2, <2>4, FS_AddElement
  <2>6. One(l \in Range(s)) = 1
    BY <1>4 DEF One
  <2> HIDE DEF A, B
  <2> QED BY <1>0, <2>5, <2>6
<1> QED BY <1>3, <1>4

LEMMA TimesAppend ==
  ASSUME NEW q \in Seq(Line), NEW m \in Line, NEW l
  PROVE  Times(Append(q, m), l) = Times(q, l) + One(m = l)
<1>1. <<m>> \in Seq(Line) /\ DOMAIN <<m>> = {1} /\ Range(<<m>>) = {m}
  BY DEF Range
<1>2. Append(q, m) = q \o <<m>>
  BY AppendIsConcat
<1>3. \A i, j \in DOMAIN <<m>> : <<m>>[i] = <<m>>[j] => i = j
  BY <1>1
<1>4. Times(q \o <<m>>, l) = Times(q, l) + One(l \in Range(<<m>>))
  BY <1>1, <1>3, TimesConcat
<1>5. (l \in Range(<<m>>)) <=> (m = l)
  BY <1>1
<1> QED BY <1>2, <1>4, <1>5 DEF One

LEMMA TimesTail ==
  ASSUME NEW s \in Seq(Line), s # <<>>, NEW l
  PROVE  Times(s, l) = Times(Tail(s), l) + One(Head(s) = l)
<1> DEFINE A == {i \in DOMAIN Tail(s) : Tail(s)[i] = l}
           B == {i \in DOMAIN s : s[i] = l}
           f == [i \in A |-> i + 1]
<1>1. /\ Head(s) = s[1] /\ 1 \in DOMAIN s /\ Tail(s) \in Seq(Line)
      /\ Len(s) \in Nat \ {0} /\ DOMAIN Tail(s) = 1 .. Len(s) - 1 /\ DOMAIN s = 1 .. Len(s)
      /\ \A i \in DOMAIN Tail(s) : i + 1 \in DOMAIN s /\ Tail(s)[i] = s[i + 1]
  BY TailFacts, SequenceFacts
<1>2. IsFiniteSet(A) /\ IsFiniteSet(B) /\ Cardinality(A) \in Nat
  BY <1>1, TimesType DEF Times
<1>0. Times(Tail(s), l) = Cardinality(A) /\ Times(s, l) = Cardinality(B)
  BY DEF Times
<1>3. \A i \in A : i \in Int /\ i + 1 \in B \ {1}
  BY <1>1
<1>4. \A i \in B \ {1} : i - 1 \in A /\ (i - 1) + 1 = i
  <2>1. ASSUME NEW i \in B \ {1} PROVE i - 1 \in A /\ (i - 1) + 1 = i
    <3>1. i - 1 \in DOMAIN Tail(s) /\ (i - 1) + 1 = i
      BY <1>1, <2>1
    <3> QED BY <1>1, <2>1, <3>1
  <2> QED BY <2>1
<1>5. f \in Bijection(A, B \ {1})
  <2>1. f \in [A -> B \ {1}]
    BY <1>3
  <2>2. \A a, b \in A : f[a] = f[b] => a = b
    BY <1>3
  <2>3. \A i \in B \ {1} : \E a \in A : f[a] = i
    BY <1>4
  <2> QED BY <2>1, <2>2, <2>3 DEF Bijection, Injection, Surjection, IsInjective
<1> HIDE DEF f, A, B
<1>6. Cardinality(B \ {1}) = Cardinality(A)
  BY <1>2, <1>5, FS_Bijection DEF ExistsBijection
<1>7. Cardinality(B) \in Nat /\ Cardinality(B \ {1}) = IF 1 \in B THEN Cardinality(B) - 1 ELSE Cardinality(B)
  BY <1>2, FS_RemoveElement, FS_CardinalityType
<1>8. (1 \in B) <=> (Head(s) = l)
  BY <1>1 DEF B
<1> QED BY <1>0, <1>2, <1>6, <1>7, <1>8 DEF One

LEMMA GotType ==
  ASSUME Typed, NEW c \in Chatter, NEW l
  PROVE  /\ Got(c, l) \in Nat /\ Times(printed[c], l) \in Nat /\ Times(queue[c], l) \in Nat
         /\ One(held[c] = l) \in {0, 1}
         /\ One(c \in connecting) \in {0, 1} /\ starts[c] \in Nat
<1>1. Times(printed[c], l) \in Nat /\ Times(queue[c], l) \in Nat /\ starts[c] \in Nat
  BY TimesType, TypedFacts
<1>2. One(held[c] = l) \in {0, 1} /\ One(c \in connecting) \in {0, 1}
  BY DEF One
<1> QED BY <1>1, <1>2 DEF Got

LEMMA GotSame ==
  ASSUME Typed, NEW c \in Chatter, NEW l, queue'[c] = queue[c], held'[c] = held[c],
         printed'[c] = printed[c]
  PROVE  Got(c, l)' = Got(c, l) /\ Got(c, l)' <= Got(c, l)
<1>1. Got(c, l)' = Got(c, l)
  BY DEF Got, Times, One
<1> QED BY <1>1, GotType

\* A step that gives c no line once more, and neither connects it nor
\* subscribes.
LEMMA CountedIfNoMore ==
  ASSUME Typed, Typed', NEW c \in Chatter, Counted(c), starts'[c] = starts[c],
         c \in connecting' => c \in connecting, c \in subs' => c \in subs,
         \A l \in Line : Got(c, l)' <= Got(c, l)
  PROVE  Counted(c)'
<1>1. /\ One(c \in connecting) \in {0, 1} /\ One(c \in connecting)' \in {0, 1}
      /\ One(c \in connecting)' <= One(c \in connecting) /\ starts[c] \in Nat
  BY GotType DEF One
<1>2. \A l \in Line : Got(c, l) \in Nat /\ Got(c, l)' \in Nat
  <2>1. ASSUME NEW l \in Line PROVE Got(c, l)' \in Nat
    <3>1. /\ queue'[c] \in Seq(Line) /\ printed'[c] \in Seq(Line)
      BY DEF Typed, Shapes
    <3>2. Times(queue'[c], l) \in Nat /\ Times(printed'[c], l) \in Nat
      BY <3>1, TimesType
    <3> QED BY <3>2 DEF Got, One
  <2> QED BY <2>1, GotType
<1>3. \A l \in Line : Got(c, l)' + One(c \in connecting)' <= starts'[c]
  BY <1>1, <1>2 DEF Counted
<1> QED BY <1>1, <1>3 DEF Counted

LEMMA InitCounted == Init => AreCounted
<1> SUFFICES ASSUME Init PROVE AreCounted
  OBVIOUS
<1>1. /\ subs = {} /\ connecting = {}
      /\ \A c \in Chatter : /\ queue[c] = <<>> /\ printed[c] = <<>> /\ held[c] = NONE
                            /\ starts[c] = 0
  BY ChatAssumption DEF Init, BrokerInit
<1>2. <<>> \in Seq(Line) /\ Range(<<>>) = {}
  BY EmptySeq DEF Range
<1>3. ASSUME NEW c \in Chatter, NEW l \in Line PROVE Got(c, l) = 0
  <2>1. Times(<<>>, l) = 0
    BY <1>2, TimesType
  <2>2. One(held[c] = l) = 0
    BY <1>1, ChatAssumption DEF One
  <2> QED BY <1>1, <2>1, <2>2 DEF Got
<1>4. \A c \in Chatter : One(c \in connecting) = 0
  BY <1>1 DEF One
<1>5. \A c \in Chatter : Counted(c)
  BY <1>1, <1>3, <1>4 DEF Counted
<1>6. Fresh
  BY InitOrdered DEF AreOrdered
<1> QED BY <1>5, <1>6 DEF AreCounted

LEMMA StartKeepsCounted ==
  ASSUME Typed, NEW c \in Chatter, StartOrReconnect(c), NEW q \in Chatter, Counted(q)
  PROVE  Counted(q)'
<1>1. /\ c \notin connecting /\ connecting' = connecting \cup {c}
      /\ starts' = [starts EXCEPT ![c] = @ + 1] /\ starts \in [Chatter -> Nat]
      /\ UNCHANGED <<subs, queue, held, printed>>
  BY DEF StartOrReconnect, Connect, Typed, TypeOK, Shapes
<1>2. \A l : Got(q, l)' = Got(q, l)
  BY <1>1 DEF Got, Times, One
<1>3. /\ \A l \in Line : Got(q, l) \in Nat /\ Got(q, l) + One(q \in connecting) <= starts[q]
      /\ One(q \in connecting) \in {0, 1} /\ One(q \in connecting) <= starts[q]
      /\ q \in subs => 1 + One(q \in connecting) <= starts[q]
      /\ starts[q] \in Nat
  BY GotType DEF Counted
<1>4. /\ One(q \in connecting)' \in {0, 1}
      /\ q = c => One(q \in connecting) = 0 /\ starts'[q] = starts[q] + 1
      /\ q # c => One(q \in connecting)' = One(q \in connecting) /\ starts'[q] = starts[q]
  BY <1>1 DEF One
<1>5. \A l \in Line : Got(q, l)' + One(q \in connecting)' <= starts'[q]
  BY <1>2, <1>3, <1>4
<1>6. One(q \in connecting)' <= starts'[q]
  BY <1>3, <1>4
<1>7. q \in subs' => 1 + One(q \in connecting)' <= starts'[q]
  BY <1>1, <1>3, <1>4
<1> QED BY <1>5, <1>6, <1>7 DEF Counted

LEMMA OnConnectKeepsCounted ==
  ASSUME Typed, Typed', NEW c \in Chatter, OnConnect(c), NEW q \in Chatter, Counted(q)
  PROVE  Counted(q)'
<1>1. /\ c \in connecting /\ connecting' = connecting \ {c} /\ subs' = subs \cup {c}
      /\ \A p \in Chatter \ {c} : queue'[p] = queue[p]
      /\ UNCHANGED <<held, printed, starts>>
  BY OnConnectEffect
<1>2. CASE q # c
  <2>1. \A l \in Line : Got(q, l)' <= Got(q, l)
    BY <1>1, <1>2, GotSame
  <2> QED BY <1>1, <1>2, <2>1, CountedIfNoMore
<1>3. CASE q = c
  <2>1. PICK s \in Seq(Line) :
          queue'[c] = queue[c] \o s /\ \A i, j \in DOMAIN s : s[i] = s[j] => i = j
    BY OnConnectEffect
  <2>2. One(c \in connecting) = 1 /\ One(c \in connecting)' = 0
    BY <1>1 DEF One
  <2>3. ASSUME NEW l \in Line PROVE Got(c, l)' <= Got(c, l) + 1 /\ Got(c, l) \in Nat /\ Got(c, l)' \in Nat
    <3>1. Times(queue'[c], l) = Times(queue[c], l) + One(l \in Range(s))
      BY <2>1, TimesConcat, TypedFacts
    <3>2. One(l \in Range(s)) \in {0, 1}
      BY DEF One
    <3>3. One(held[c] = l)' = One(held[c] = l) /\ Times(printed[c], l)' = Times(printed[c], l)
      BY <1>1
    <3>4. Times(queue[c], l)' = Times(queue'[c], l)
      BY DEF Times
    <3>5. /\ Times(printed[c], l) \in Nat /\ Times(queue[c], l) \in Nat
          /\ One(held[c] = l) \in {0, 1}
      BY GotType
    <3> QED BY <3>1, <3>2, <3>3, <3>4, <3>5 DEF Got
  <2>4. starts'[c] = starts[c] /\ starts[c] \in Nat
    BY <1>1, GotType
  <2>5. \A l \in Line : Got(c, l)' + One(c \in connecting)' <= starts'[c]
    BY <1>3, <2>2, <2>3, <2>4 DEF Counted
  <2>6. 1 + One(c \in connecting)' <= starts'[c] /\ One(c \in connecting)' <= starts'[c]
    BY <1>3, <2>2, <2>4 DEF Counted
  <2> QED BY <1>3, <2>5, <2>6 DEF Counted
<1> QED BY <1>2, <1>3

LEMMA SendKeepsCounted ==
  ASSUME Fresh, Typed', NEW c \in Chatter, Send(c), NEW q \in Chatter, Counted(q)
  PROVE  Counted(q)'
<1> PICK m : m = Head(out[c])
  OBVIOUS
<1>1. /\ Typed /\ m \in Line /\ out[c] # <<>>
      /\ queue'[q] = IF q \in subs THEN Append(queue[q], m) ELSE queue[q]
      /\ UNCHANGED <<held, printed, starts, subs, connecting>>
  BY SendEffect DEF Fresh
<1>2. CASE q \notin subs
  <2>1. \A l \in Line : Got(q, l)' <= Got(q, l)
    BY <1>1, <1>2, GotSame
  <2> QED BY <1>1, <2>1, CountedIfNoMore
<1>3. CASE q \in subs
  <2>1. ASSUME NEW l \in Line PROVE Got(q, l)' = Got(q, l) + One(m = l) /\ Got(q, l) \in Nat
    <3>1. Times(queue'[q], l) = Times(queue[q], l) + One(m = l)
      BY <1>1, <1>3, TimesAppend, TypedFacts
    <3>2. One(m = l) \in {0, 1}
      BY DEF One
    <3>3. One(held[q] = l)' = One(held[q] = l) /\ Times(printed[q], l)' = Times(printed[q], l)
      BY <1>1
    <3>4. Times(queue[q], l)' = Times(queue'[q], l)
      BY DEF Times
    <3>5. /\ Times(printed[q], l) \in Nat /\ Times(queue[q], l) \in Nat
          /\ One(held[q] = l) \in {0, 1}
      BY <1>1, GotType
    <3> QED BY <3>1, <3>2, <3>3, <3>4, <3>5 DEF Got
  <2>2. Got(q, m) = 0
    <3>1. m \notin Range(queue[q]) /\ m \notin Range(printed[q]) /\ m # held[q]
      <4>1. m \notin Mine(q) /\ m # NONE
        BY <1>1, SentIsNew, ChatAssumption
      <4> QED BY <4>1 DEF Mine
    <3>2. Times(queue[q], m) = 0 /\ Times(printed[q], m) = 0
      BY <1>1, <3>1, TimesType, TypedFacts
    <3>3. One(held[q] = m) = 0
      BY <3>1 DEF One
    <3> QED BY <3>2, <3>3 DEF Got
  <2>3. /\ One(q \in connecting)' = One(q \in connecting) /\ One(q \in connecting) \in {0, 1}
        /\ starts'[q] = starts[q] /\ starts[q] \in Nat
    BY <1>1, GotType
  <2>4. ASSUME NEW l \in Line PROVE Got(q, l)' + One(q \in connecting)' <= starts'[q]
    <3>1. CASE l = m
      <4>1. Got(q, l)' = 1
        BY <2>1, <2>2, <3>1 DEF One
      <4> QED BY <1>3, <2>3, <4>1 DEF Counted
    <3>2. CASE l # m
      <4>1. Got(q, l)' = Got(q, l)
        BY <2>1, <3>2 DEF One
      <4> QED BY <2>3, <4>1 DEF Counted
    <3> QED BY <3>1, <3>2
  <2> QED BY <1>1, <2>3, <2>4 DEF Counted
<1> QED BY <1>2, <1>3

LEMMA ReceiveKeepsCounted ==
  ASSUME Typed, Typed', NEW c \in Chatter, Receive(c), NEW q \in Chatter, Counted(q)
  PROVE  Counted(q)'
<1>1. /\ queue[c] # <<>> /\ queue'[c] = Tail(queue[c]) /\ held[c] = NONE
      /\ \A p \in Chatter \ {c} : queue'[p] = queue[p] /\ held'[p] = held[p]
      /\ held'[c] = Head(queue[c])
      /\ UNCHANGED <<printed, starts, subs, connecting>>
  BY ReceiveEffect DEF Typed, Shapes
<1>2. ASSUME NEW l \in Line PROVE Got(q, l)' <= Got(q, l)
  <2>1. CASE q # c
    BY <1>1, <2>1, GotSame
  <2>2. CASE q = c
    <3>1. Times(queue[c], l) = Times(queue'[c], l) + One(Head(queue[c]) = l)
      BY <1>1, TimesTail, TypedFacts
    <3>2. One(held[c] = l) = 0
      BY <1>1, ChatAssumption DEF One
    <3>3. One(held[c] = l)' = One(Head(queue[c]) = l) /\ Times(queue[c], l)' = Times(queue'[c], l)
          /\ Times(printed[c], l)' = Times(printed[c], l)
      BY <1>1 DEF One, Times
    <3>4. Times(queue'[c], l) \in Nat /\ One(Head(queue[c]) = l) \in Nat
      <4>1. queue'[c] \in Seq(Line)
        BY DEF Typed, Shapes
      <4> QED BY <4>1, TimesType DEF One
    <3>5. /\ Times(printed[c], l) \in Nat /\ Times(queue[c], l) \in Nat
          /\ One(held[c] = l) \in {0, 1}
      BY GotType
    <3> QED BY <2>2, <3>1, <3>2, <3>3, <3>4, <3>5 DEF Got
  <2> QED BY <2>1, <2>2
<1> QED BY <1>1, <1>2, CountedIfNoMore

LEMMA OnMessageKeepsCounted ==
  ASSUME Typed, Typed', NEW c \in Chatter, OnMessage(c), NEW q \in Chatter, Counted(q)
  PROVE  Counted(q)'
<1>1. /\ held[c] \in Line /\ held'[c] = NONE
      /\ printed'[c] = IF held[c].topic = c THEN printed[c] ELSE Append(printed[c], held[c])
      /\ \A p \in Chatter \ {c} : held'[p] = held[p] /\ printed'[p] = printed[p]
      /\ UNCHANGED <<queue, starts, subs, connecting>>
  BY OnMessageEffect
<1>2. ASSUME NEW l \in Line PROVE Got(q, l)' <= Got(q, l)
  <2>1. CASE q # c
    BY <1>1, <2>1, GotSame
  <2>2. CASE q = c
    <3>1. Times(Append(printed[c], held[c]), l) = Times(printed[c], l) + One(held[c] = l)
      BY <1>1, TimesAppend, TypedFacts
    <3>2. Times(printed[c], l) \in Nat /\ One(held[c] = l) \in {0, 1} /\ Times(queue[c], l) \in Nat
      BY GotType
    <3>3. Times(printed'[c], l) <= Times(printed[c], l) + One(held[c] = l) /\ Times(printed'[c], l) \in Nat
      BY <1>1, <3>1, <3>2
    <3>4. One(held[c] = l)' = 0
      BY <1>1, ChatAssumption DEF One
    <3>5. Times(printed[c], l)' = Times(printed'[c], l) /\ Times(queue[c], l)' = Times(queue[c], l)
      BY <1>1 DEF Times
    <3> QED BY <2>2, <3>2, <3>3, <3>4, <3>5 DEF Got
  <2> QED BY <2>1, <2>2
<1> QED BY <1>1, <1>2, CountedIfNoMore

LEMMA NextKeepsCounted == ASSUME AreCounted, [Next]_vars PROVE AreCounted'
<1>1. Fresh /\ Fresh' /\ Typed /\ Typed'
  BY NextKeepsFresh DEF AreCounted, Fresh
<1>2. ASSUME NEW q \in Chatter PROVE Counted(q)'
  <2>0. Counted(q)
    BY DEF AreCounted
  <2>1. CASE UNCHANGED <<queue, held, printed, starts, subs>> /\ connecting' \subseteq connecting
    <3>1. \A l \in Line : Got(q, l)' <= Got(q, l)
      BY <1>1, <2>1, GotSame
    <3> QED BY <1>1, <2>0, <2>1, <3>1, CountedIfNoMore
  <2>2. CASE UNCHANGED vars
    BY <2>1, <2>2 DEF vars, broker, chat
  <2>3. ASSUME NEW c \in Chatter, LoseConnection(c) \/ Type(c) PROVE Counted(q)'
    <3>1. UNCHANGED <<queue, held, printed, starts, subs>> /\ connecting' \subseteq connecting
      BY <2>3, DisconnectEffect DEF LoseConnection, Type, broker
    <3> QED BY <2>1, <3>1
  <2>4. ASSUME NEW c \in Chatter, End(c) PROVE Counted(q)'
    <3>1. /\ UNCHANGED <<queue, printed, starts, subs>> /\ connecting' \subseteq connecting
          /\ held'[q] = held[q] \/ held'[q] = NONE
      BY <1>1, <2>4, EndEffect
    <3>2. ASSUME NEW l \in Line PROVE Got(q, l)' <= Got(q, l)
      <4>1. One(held[q] = l)' \in {0, 1} /\ One(held[q] = l)' <= One(held[q] = l)
        BY <3>1, ChatAssumption DEF One
      <4>2. Times(printed[q], l)' = Times(printed[q], l) /\ Times(queue[q], l)' = Times(queue[q], l)
        BY <3>1
      <4>3. /\ Times(printed[q], l) \in Nat /\ Times(queue[q], l) \in Nat
            /\ One(held[q] = l) \in {0, 1}
        BY <1>1, GotType
      <4> QED BY <4>1, <4>2, <4>3 DEF Got
    <3>3. starts'[q] = starts[q]
      BY <3>1
    <3> QED BY <1>1, <2>0, <3>1, <3>2, <3>3, CountedIfNoMore
  <2>5. ASSUME NEW c \in Chatter,
               \/ StartOrReconnect(c) \/ OnConnect(c) \/ Send(c) \/ Receive(c) \/ OnMessage(c)
        PROVE  Counted(q)'
    BY <1>1, <2>0, <2>5, StartKeepsCounted, OnConnectKeepsCounted, SendKeepsCounted,
       ReceiveKeepsCounted, OnMessageKeepsCounted
  <2> QED BY <2>2, <2>3, <2>4, <2>5 DEF Next
<1> QED BY <1>1, <1>2 DEF AreCounted

\* A line is printed once, and again only as the retained line of its topic:
\* never more often than its reader connected (task23.py _on_connect, publish).
THEOREM RepeatsStayRetained == Spec => []RepeatsAreRetained
<1>1. Init => AreCounted
  BY InitCounted
<1>2. AreCounted /\ [Next]_vars => AreCounted'
  BY NextKeepsCounted
<1>3. AreCounted => RepeatsAreRetained
  <2> SUFFICES ASSUME AreCounted, NEW c \in Chatter, NEW l \in Range(printed[c])
               PROVE  Times(printed[c], l) <= starts[c]
    BY DEF RepeatsAreRetained, Times
  <2>1. Typed /\ Counted(c)
    BY DEF AreCounted, Fresh
  <2>2. l \in Line
    BY <2>1, TypedFacts
  <2>3. Got(c, l) + One(c \in connecting) <= starts[c]
    BY <2>1, <2>2 DEF Counted
  <2> QED BY <2>1, <2>3, GotType DEF Got
<1> QED BY <1>1, <1>2, <1>3, PTL DEF Spec
=============================================================================
