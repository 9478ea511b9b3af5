----------------------------- MODULE RpcDbSystem -----------------------------
(***************************************************************************)
(* The clients of Teme/Tema1 at work with the server.  A client reads a    *)
(* command, makes the call and waits for its result; the result is the     *)
(* server's reply, or NULL when the call times out or the connection is    *)
(* lost.  A call that timed out is still executed when the server gets to  *)
(* it, and its late reply is skipped: it answers another call (xid).       *)
(*                                                                         *)
(* A client that has ended may be started again, as a new process with a   *)
(* connection of its own.  A server that is killed is started again at     *)
(* once; the connections to the old process stay broken, since the client  *)
(* makes its handle only once.                                             *)
(***************************************************************************)
EXTENDS RpcDbServer, Sequences, FiniteSets

CONSTANTS
  Client,
  Command,      \* the commands the users give: records with a field op
  UninitKeys,   \* what a client's key may be before its first login
  Timeouts,     \* can a call time out?
  MaxPending    \* bound: requests of one client that wait at the server

VARIABLES
  pc,           \* "off", "idle", "segv", or the operation being waited for
  sess_key,     \* the client's key
  logged_in,    \* does the client take itself to be logged in?
  connected,    \* is its connection with the server alive?
  chan,         \* its requests the server has yet to execute, oldest first
  box,          \* the reply to the call it waits for, or NONE
  owner         \* history: the client whose login made the session, or NONE
                \* when that client process is gone

clientVars == <<pc, sess_key, logged_in, connected>>
netVars == <<chan, box, owner>>
sysVars == <<vars, clientVars, netVars>>

Answer == [ok: BOOLEAN, val: Content \cup Key \cup {NONE}]

ASSUME SystemAssumption ==
  /\ \A cmd \in Command :
       /\ cmd.op \in Operation
       /\ cmd.op = "login" => cmd.user \in User
       /\ cmd.op \in {"add_update", "read_entry", "del", "get_stats"} => cmd.id \in Id
       /\ cmd.op = "add_update" => cmd.method \in {"ADD", "UPDATE"} /\ cmd.val \in Value
  /\ UninitKeys \subseteq AnyKey
  /\ Timeouts \in BOOLEAN
  /\ MaxPending \in Nat \ {0}
  /\ NONE \notin Client \cup Answer

Waiting(c) == pc[c] \in Operation

SysInit ==
  /\ Init
  /\ pc = [c \in Client |-> "off"]
  /\ sess_key = [c \in Client |-> INVALID_KEY]
  /\ logged_in = [c \in Client |-> FALSE]
  /\ connected = [c \in Client |-> FALSE]
  /\ chan = [c \in Client |-> <<>>]
  /\ box = [c \in Client |-> NONE]
  /\ owner = [k \in Key |-> NONE]

Disown(c) == owner' = [k \in Key |-> IF owner[k] = c THEN NONE ELSE owner[k]]

-----------------------------------------------------------------------------
\* A client process starts; its predecessor's requests are out of the way.
Start(c) ==
  /\ pc[c] \in {"off", "segv"} /\ chan[c] = <<>>
  /\ pc' = [pc EXCEPT ![c] = "idle"]
  /\ \E k \in UninitKeys : sess_key' = [sess_key EXCEPT ![c] = k]
  /\ logged_in' = [logged_in EXCEPT ![c] = FALSE]
  /\ connected' = [connected EXCEPT ![c] = TRUE]
  /\ UNCHANGED <<vars, netVars>>

\* The exit command or the end of the input, without a logout.  It stands
\* also for the SIGPIPE of a second call on a broken connection.
Exit(c) ==
  /\ pc[c] = "idle"
  /\ pc' = [pc EXCEPT ![c] = "off"]
  /\ connected' = [connected EXCEPT ![c] = FALSE]
  /\ Disown(c)
  /\ UNCHANGED <<vars, sess_key, logged_in, chan, box>>

\* The commands the client refuses without calling the server.
RefusedLocally(c, cmd) ==
  \/ cmd.op = "login" /\ logged_in[c]
  \/ cmd.op \in {"read_entry", "del", "get_stats"} /\ sess_key[c] = INVALID_KEY

\* Bounds: a client's requests at the server, and no more logins at the server
\* than it has keys left.
WithinBounds(c, cmd) ==
  /\ Len(chan[c]) < MaxPending
  /\ cmd.op = "login" =>
       key + 1 + Cardinality({p \in Client \X (1 .. MaxPending) :
                                /\ p[2] <= Len(chan[p[1]])
                                /\ chan[p[1]][p[2]].cmd.op = "login"})
         \in Key

Send(c, cmd) ==
  /\ pc[c] = "idle"
  /\ ~RefusedLocally(c, cmd)
  /\ WithinBounds(c, cmd)
  /\ pc' = [pc EXCEPT ![c] = cmd.op]
  /\ chan' = IF connected[c]
               THEN [chan EXCEPT ![c] = Append(@, [cmd |-> cmd, key |-> sess_key[c]])]
               ELSE chan
  /\ UNCHANGED <<vars, sess_key, logged_in, connected, box, owner>>

\* Two faults: a client that takes any key for a login, and one that is logged
\* in by any reply.
ReceiveAnyKey(c) ==
  /\ Waiting(c) /\ box[c] # NONE
  /\ sess_key' = IF pc[c] = "login" THEN [sess_key EXCEPT ![c] = box[c].val]
                                    ELSE sess_key
  /\ pc' = [pc EXCEPT ![c] = "idle"]
  /\ box' = [box EXCEPT ![c] = NONE]
  /\ UNCHANGED <<vars, logged_in, connected, chan, owner>>
ReceiveLogsIn(c) ==
  /\ Waiting(c) /\ box[c] # NONE
  /\ sess_key' = IF pc[c] = "login" /\ box[c].ok
                   THEN [sess_key EXCEPT ![c] = box[c].val] ELSE sess_key
  /\ logged_in' = [logged_in EXCEPT ![c] = pc[c] = "login" \/ (@ /\ pc[c] # "logout")]
  /\ pc' = [pc EXCEPT ![c] = "idle"]
  /\ box' = [box EXCEPT ![c] = NONE]
  /\ UNCHANGED <<vars, connected, chan, owner>>

\* What the client does with the reply to its call.
Receive(c) ==
  /\ Waiting(c) /\ box[c] # NONE
  /\ sess_key' = IF pc[c] = "login"
                   THEN [sess_key EXCEPT
                           ![c] = IF box[c].ok THEN box[c].val ELSE INVALID_KEY]
                   ELSE sess_key
  /\ logged_in' = CASE pc[c] = "login"  -> [logged_in EXCEPT ![c] = box[c].ok]
                    [] pc[c] = "logout" -> [logged_in EXCEPT ![c] = FALSE]
                    [] OTHER            -> logged_in
  /\ pc' = [pc EXCEPT ![c] = "idle"]
  /\ box' = [box EXCEPT ![c] = NONE]
  /\ UNCHANGED <<vars, connected, chan, owner>>

\* The call returns NULL.  login_cmd turns it into a key; del_cmd follows it,
\* and so does main for a load: the continue that should skip the rest only
\* ends the do-while of ASSERT.
ReceiveNull(c) ==
  /\ Waiting(c)
  /\ Timeouts \/ (~connected[c] /\ box[c] = NONE)
  /\ sess_key' = IF pc[c] = "login" THEN [sess_key EXCEPT ![c] = UINT_MAX]
                                    ELSE sess_key
  /\ logged_in' = CASE pc[c] = "login"  -> [logged_in EXCEPT ![c] = TRUE]
                    [] pc[c] = "logout" -> [logged_in EXCEPT ![c] = FALSE]
                    [] OTHER            -> logged_in
  /\ IF pc[c] \in {"del", "load"}
       THEN /\ pc' = [pc EXCEPT ![c] = "segv"]
            /\ connected' = [connected EXCEPT ![c] = FALSE]
            /\ Disown(c)
       ELSE /\ pc' = [pc EXCEPT ![c] = "idle"]
            /\ UNCHANGED <<connected, owner>>
  /\ box' = [box EXCEPT ![c] = NONE]
  /\ UNCHANGED <<vars, chan>>

-----------------------------------------------------------------------------
Handle(cmd, k) ==
  \/ cmd.op = "login" /\ login(cmd.user)
  \/ cmd.op = "logout" /\ logout(k)
  \/ cmd.op = "add_update" /\ add_update(k, cmd.id, cmd.method, cmd.val)
  \/ cmd.op = "read_entry" /\ read_entry(k, cmd.id)
  \/ cmd.op = "del" /\ del(k, cmd.id)
  \/ cmd.op = "load" /\ load(k)
  \/ cmd.op = "store" /\ store(k)
  \/ cmd.op = "get_stats" /\ get_stats(k, cmd.id)
  \/ cmd.op = "get_stats_all" /\ get_stats_all(k)

\* A fault: a handler that returns NULL, and so sends no reply, on an error.
ServeSilently(c) ==
  /\ chan[c] # <<>>
  /\ Handle(Head(chan[c]).cmd, Head(chan[c]).key)
  /\ chan' = [chan EXCEPT ![c] = Tail(@)]
  /\ box' = IF resp'.ok THEN [box EXCEPT ![c] = [ok |-> TRUE, val |-> resp'.val]]
                        ELSE box
  /\ UNCHANGED <<clientVars, owner>>

\* svc_run executes the oldest request of a connection and replies.
Serve(c) ==
  /\ chan[c] # <<>>
  /\ Handle(Head(chan[c]).cmd, Head(chan[c]).key)
  /\ chan' = [chan EXCEPT ![c] = Tail(@)]
  /\ box' = IF Waiting(c) /\ Len(chan[c]) = 1
              THEN [box EXCEPT ![c] = [ok |-> resp'.ok, val |-> resp'.val]]
              ELSE box
  /\ owner' = IF key' = key THEN owner
              ELSE [owner EXCEPT ![key'] = IF pc[c] \in {"off", "segv"}
                                             THEN NONE ELSE c]
  /\ UNCHANGED clientVars

\* The server process is killed, perhaps in the middle of a store, and some
\* of the replies it was sending are lost with it.
KillServer ==
  /\ \/ Crash
     \/ \E c \in Client : /\ chan[c] # <<>>
                          /\ Head(chan[c]).cmd.op = "store"
                          /\ CrashInStore(Head(chan[c]).key)
  /\ chan' = [c \in Client |-> <<>>]
  /\ connected' = [c \in Client |-> FALSE]
  /\ owner' = [k \in Key |-> NONE]
  /\ \E lost \in SUBSET Client :
        box' = [c \in Client |-> IF c \in lost THEN NONE ELSE box[c]]
  /\ UNCHANGED <<pc, sess_key, logged_in>>

SysNext ==
  \/ \E c \in Client :
       \/ Start(c) \/ Exit(c) \/ Receive(c) \/ ReceiveNull(c) \/ Serve(c)
       \/ \E cmd \in Command : Send(c, cmd)
  \/ KillServer

SysSpec == SysInit /\ [][SysNext]_sysVars

\* svc_run polls every connection, and a waiting call reads its socket until
\* there is a reply or the connection is seen to be broken.  Users owe nothing.
Fairness ==
  \A c \in Client : /\ WF_sysVars(Serve(c))
                    /\ WF_sysVars(Receive(c))
                    /\ WF_sysVars(ReceiveNull(c))

FairSysSpec == SysSpec /\ Fairness

-----------------------------------------------------------------------------
SysTypeOK ==
  /\ pc \in [Client -> {"off", "idle", "segv"} \cup Operation]
  /\ sess_key \in [Client -> AnyKey]
  /\ logged_in \in [Client -> BOOLEAN]
  /\ connected \in [Client -> BOOLEAN]
  /\ chan \in [Client -> Seq([cmd: Command, key: AnyKey])]
  /\ box \in [Client -> Answer \cup {NONE}]
  /\ owner \in [Key -> Client \cup {NONE}]

\* Teme/Tema1/README.md: the key in each request lets the server identify
\* correctly the client that made it.  Whatever timed out, was executed late
\* or was interrupted by a restart, a request that finds a session finds the
\* one its sender logged in to, never another client's.
RequestsReachOwnSession ==
  \A c \in Client : \A i \in DOMAIN chan[c] :
     LET k == chan[c][i].key
     IN  chan[c][i].cmd.op # "login" /\ Live(k) =>
           owner[k] = IF pc[c] \in {"off", "segv"} THEN NONE ELSE c

\* What a client believes is what the server knows, as long as its connection
\* lives: between two commands it takes itself to be logged in exactly when
\* it has a session, which is then the only one and the one its key names.
ClientKnowsItsSession ==
  \A c \in Client :
     pc[c] = "idle" /\ connected[c] =>
        {k \in Key : Live(k) /\ owner[k] = c}
           = IF logged_in[c] THEN {sess_key[c]} ELSE {}

\* Teme/Tema1/src/rpc_db_client.cpp:99 and 104 report a del and a load that
\* failed and read on: no failed call ends the client.
FailedCallsAreReported == \A c \in Client : pc[c] # "segv"

\* Every call returns: no client waits for ever, even if the server is killed
\* while the request is queued, executed or being answered.
EveryCallReturns == \A c \in Client : Waiting(c) ~> ~Waiting(c)
============================================================================
