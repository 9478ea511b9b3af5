# A TLA+ verification of SPRC

SPRC is a collection of distributed programs: laboratory exercises
(`Laboratoare/`) and three larger assignments (`Teme/`). The programs that keep
state and serve others are specified here in TLA+, checked by TLC on small
instances, and proved with TLAPS for every size.
Paths below are relative to the repository.

1. [The system](#1-the-system)
2. [The modules and how they follow the code](#2-the-modules-and-how-they-follow-the-code)
3. [What is checked](#3-what-is-checked)
4. [Where the code disagrees with what is said of it](#4-where-the-code-disagrees-with-what-is-said-of-it)
5. [What is proved](#5-what-is-proved)
6. [What is not modelled](#6-what-is-not-modelled)
7. [Plan](#7-plan)

## 1. The system

| component | state | operations | what makes it correct |
|---|---|---|---|
| **RPC database server** `Teme/Tema1/src/rpc_db_server.cpp`, `client_data.*`, `data_entry.*` | session counter `key`, `active_users`, `db` (key → database of entries with statistics), one `<user>.rpcdb` file per user | `login logout add_update read_entry del load store get_stats get_stats_all` | one session per user; keys never reused; a request touches its owner's data only; a load gives back what was stored; statistics are those of the data |
| **RPC database clients** `rpc_db_client.cpp`, `client_utils.cpp` | `key`, `logged_in`, the connection | one call per command; a call returns a reply or NULL | the client's idea of its session is right; no call is lost for ever or ends the client |
| **LFU web cache** `Laboratoare/Laborator6` | `Hashtable` of pages in memory, one file per page | `requestURL` (purge, look up, fetch, write, make room), reading the files at a start | pages served were not fetched too long ago; a cached page survives a restart; the size limit is kept; the least accessed page goes first |
| **movies server** `Laboratoare/Laborator3/movies_server.py` | the dict `MOVIES` | `GET POST` of all, `GET PUT DELETE` of one, reset, each in a thread | a request that nobody's write disturbs is atomic; a list holds what is there, unless the dict is rebuilt under it |
| **meteorology API** `Teme/Tema2/src`, `db/init-db.sql` | three MySQL tables; one connection, transaction and cursor shared by all threads | `get_post`, `del_put` on each table | what was answered with success stays saved; a request alone is atomic, and its answer its own |
| **IoT arbiter** `Teme/Tema3/src/server.py` and its stations | MQTT subscription, InfluxDB points | start, subscribe, `_on_message` | every number that reaches it is stored; it stays up unless it is sent again and again what it cannot read |
| **MQTT chat** `Laboratoare/Laborator5/task23.py` | persistent MQTT session | connect, subscribe, publish, print | every line is printed, in order, once but for retained ones |
| **closest-prime server** `Laboratoare/Laborator2/lab_vechi/closest_prime` | the sieve, the static result | `get_closest_prime` | the prime returned is the closest; every call ends |
| other RPC exercises, HTTP clients, containers, dashboards | none | | |

How they interact. In Tema 1 each client has one TCP connection and at most one
call in progress; `svc_run` serves the requests of all the connections one
after the other in a single thread. The server process is started and killed
from outside (`run_tests.sh` kills it after every test) and finds its files
again; nothing in it is synchronised with the disk. The web cache is one thread that
is started and killed with its program and shares only the disk with the next run.
The two REST servers serve each request in a thread of Flask:
the threads of the movies server share a dict, those of the meteorology API a
database connection. The arbiter and the chat are clients of an MQTT broker,
which both expect at the same port; the network loop of their library (paho)
calls their callbacks one at a time. The closest-prime server is single-threaded
as the database server is.

Where it is hard:

- *keys and sessions*: two structures record who is logged in; a client may
  send a key long after the server that issued it is gone;
- *calls*: a call that timed out is executed later; a kill loses queued
  requests and replies; the client treats NULL in a different way for each
  command;
- *files*: `store` overwrites in place, `load` trusts the header, and what it
  reads past the end is left over or uninitialised memory;
- *statistics*: carried from write to write, never taken back by `del` or
  `update`, and counted in different units before and after a `load`;
- *cache*: frequencies and dates live in memory and on disk and are written
  only when a page is fetched; several pages may share a file name; eviction
  must stop, but not too early;
- *failed writes*: a page is in memory and not, or not whole, on the disk;
- *threads*: between the test of an id and its use, between two steps of an
  iteration, between a statement and its commit or the rows it found;
- *reconnections*: who subscribes again, what is kept meanwhile, and what the
  broker sends once more;
- *ends of a range*: the search for a prime below 2, below 0 and at `INT_MAX`.

`PROJECT.json` lists these hazards one by one, at their lines, with the
properties that cover them.

## 2. The modules and how they follow the code

```
UserDatabases   <- - refinement - -  RpcDbServerImplements
                                            | EXTENDS
                                       RpcDbServer   <-- EXTENDS --  RpcDbSystem

MeteoTables  <-- EXTENDS -- MeteoApi   MoviesServer

MqttBroker   <-- EXTENDS -- IotArbiter WebCache           RpcDbStats
             <-- EXTENDS -- MqttChat

PrimeNumbers <-- EXTENDS -- ClosestPrime
```

The proofs about the RPC database are in `RpcDbProofs`, which EXTENDS
`RpcDbSystem` and `RpcDbServerImplements`: first those of the server alone, with
the refinement, then those of the server with its clients, which build on them.
The proofs about any other module `M` are in `MProofs`, which EXTENDS it:
`RpcDbStatsProofs`, `WebCacheProofs`, `MoviesServerProofs`, `MeteoApiProofs`,
`IotArbiterProofs`, `MqttChatProofs` and `ClosestPrimeProofs`.

Each module `M` that is model-checked has an `MCM` which holds only the values
of its constants; each `.cfg` of `MCM` is one run. Every module has operators
described as *faults*: changed forms of its actions, which no behaviour uses,
kept to see that each property would notice such a change.

### RpcDbServer: the server

| code | model |
|---|---|
| `static u_long key` | `key`, in `0 .. UINT_MAX - 1` |
| `active_users` | `active_users` |
| `db`, `ClientData` | `db`: `Key -> [user, data, counted]` or `NONE` |
| `num_elem` | `counted`: only whether it is zero, all that the handlers test |
| a `DataEntry` | a member of `Value`; `EMPTY` for length 0; `JUNK` for bytes no client sent |
| `<user>.rpcdb` | `disk[user]`: which entries are in the file, and how much of it was written (`extent`) |
| a handler | one action of the same name: `svc_run` runs one at a time |
| `ASSERT(..., return &resp)` | `Refuse`, one disjunct per early return |
| kill of the process | `Crash` between handlers, `CrashInStore` inside the one handler that writes |

`resp` is the reply of the last handler, with the user it was for.

*Files.* A `store` writes the number of entries, the statistics, then the
entries, skipping those of length 0 (which it has counted). So its file is
`"complete"`, or `"cut"` when an entry was skipped. A killed store leaves any
prefix (`PartialImages`): without even the number (`"empty"`), between two
entries (`"cut"`), inside an entry (`"torn"`); the order of the entries is that
of an `unordered_map`, hence any subset. Nobody looks at the state of the stream,
so where `WritesFail` a store that the disk refuses replies OK all the same, and
leaves the old file or such a prefix (`Left`).

*Loading.* `Loaded(f)` is what the read loop of `load` can build. After a read
past the end, `id` keeps its value, and `file_data.len` that of the entry
before: `emplace` of an id that is present changes nothing. Before the first
entry `id` is uninitialised and the length 0. In a torn entry the values that
were not read are uninitialised. Uninitialised data is any id, and the content
`JUNK` or `EMPTY`. A length that is itself torn could make `new` fail; that
outcome is a crash, which is possible in every state anyway.

### UserDatabases and RpcDbServerImplements: the promise

`UserDatabases` is the server as a user sees it: no keys, counters or files;
each user opens an empty database, changes it entry by entry, saves it whole,
and gets back what was saved last, unless the server was killed or the disk
refused it while saving (`WritesFail`; what is saved is then `DAMAGED`, and loads
as any database, or as an error). It is as strict as the README of Tema 1
(lines 27-29 and 33-35): statistics of an empty database, and saving a database
that is empty or has an entry without values, are errors. `USpec` is that promise.

The server breaks it in two places, which the module names and keeps apart:
`StatsOfNothing`, statistics of a database whose entries were all deleted, and
`StoreWithoutValues`, a save of entries without values, which damages the file.
`LapsingSpec` is the promise with these two lapses.
`RpcDbServerImplements` maps the server to it: a user's database is that of the
session that is theirs (`openBar`), what is saved is what a complete file holds
(`savedBar`), and `KeepsPromisesButTwo` says that every step of the server is a
step of `UserDatabases` or one of the lapses. Section 4
shows how the lapses happen; the second has a run of its own.

### RpcDbSystem: clients at work

Extends `RpcDbServer` with clients. `pc`, `sess_key`, `logged_in` and
`connected` are the client's variables; `chan` holds the requests that wait in
its connection and `box` the reply to the call in progress.

- `Send`: a command that makes a call. `RefusedLocally` are the commands that
  return before any call: a login while logged in; `read`, `del`, `get_stat`
  with the key 0.
- `Serve`: `svc_run` takes the oldest request of a connection and runs the
  whole handler. The reply reaches the client only if it still waits for this
  very call: `clnt_call` skips replies with another transaction id.
- `Receive` / `ReceiveNull`: the call returned a reply / NULL. `login_cmd`
  turns NULL into `UINT_MAX`, which `main` takes for a key; a failed `del` or
  `load` is followed through NULL (`pc = "segv"`); logout clears `logged_in`
  whatever the answer.
- `KillServer`: all the connections break; requests that were not executed are
  gone, and any of the replies on their way. A new server is started at once.
  The client made its handle once, so it never connects again; its second call on a
  broken connection may end it by SIGPIPE, which `Exit` stands for.
- `Start`: a client process begins with the key its uninitialised variable
  holds, a member of `UninitKeys`.

`owner` is a history variable: whose login made each session. `Timeouts` says
whether calls may time out (25 seconds in the RPC library). The library and
`svc_run` are not in the repository; `Serve` and the two ways a call returns
are modelled from how the clients use them.

### RpcDbStats: the numbers

One user's `ClientData` with actual integers. Averages are exact rationals in
lowest terms and medians are kept doubled. `UpdateStats` is `update_stats` with
the running weighted average; `Median2` is the `nth_element` computation, on
`Sorted`, which gives each value the place that its rank is; the references it is
checked against (`LowerMedian`, `UpperMedian`, `Mean`) count and divide instead;
`load` reads the *number of entries* into `num_elem`, which until then counted
*values*. A history field, `drift`, records whether the statistics can still be
exact. Whole files only; `login`, `logout` and a stored file give sequences of
sessions.

### WebCache: the cache of Laborator 6

`cache` and `files` are the two copies of the pages. The `content` of a page is
represented by the time at which it was fetched, which the program does not see;
`writeDate` is the date that it does see, and writes and reads back. `requestURL`
is two steps, with time and kills in between: `RequestURL` arrives and purges what
is too old, and `RequestHit`, `RequestFails` or `RequestMiss` looks the page up.
`request` holds the url and the time of arrival meanwhile, and `served` how old the
content was then. A page's age counts from the end of its download, where
`setContent` stamps it. The loop that makes room is
one `Evict` per round, since a kill may come in between (`pending` is the page
it makes room for). Ties between pages of equal frequency are decided by the
enumeration of the `Hashtable`: any. `Kill` is a kill at any point: of the
purge (some of the old files deleted), of the writing of a page (its old file
deleted, the truncated new one deleted by `init` at the next start), of the
eviction. The program is started again at once and reads the files
(`ReadBack`), of which `init` deletes those that are not whole (`KeepWhole`).
A write may fail (`Update`): `updateEntry` has deleted the old file by then, and
leaves none or the first part of the new one, which counts in the size on disk.
The history variable `unwritten` holds the pages whose own write failed.
`formName` is a constant: what is proved of the cache says whether it needs names to
differ. The clock (`System.currentTimeMillis`) is assumed not to go back.

### MoviesServer: threads over a dict

`pc` says which use of `MOVIES` a thread makes next, one action each: the
membership test (`CheckId`), then the look-up, assignment or deletion;
`FindId`, then `Post`; `List`, then one `ListItem` per step of the iteration. A
dict keeps its insertion order, and `del` leaves a hole that an iterator steps
over, so `MOVIES` is a sequence of entries some of which are deleted. An
insertion that finds no room behind the last entry (`usable`) makes the table
anew: the entries that are left move up over the holes (`Compacted`), and
`Usable` says how many have room in a table made for so many. An iterator goes by
position and does not notice, as long as the dict has as many movies as it had at
first: it may then pass over a movie that was there all the time. It also stops
with an exception when it meets more entries than there were (`ListItem`). A reset
binds the name to another dict, and an iterator over the old one goes on there.
A body that is no JSON (`BROKEN`) is answered 400 by `request.json`.
`calm`, `seen`, `kept` and `moved` are history: what a request found while nobody
wrote, what a list must and may hold, and whether entries moved under it.

### MeteoTables and MeteoApi: threads over one connection

`MeteoTables` is `init-db.sql`: rows, unique and foreign keys, the cascade of a
delete. In `MeteoApi` a handler is one action per call on the cursor or the
connection: the statement (`Select`, `Insert`, `Update`, `Delete`), the test of
`rowcount`, `Commit`, the query for the id, the fetch. `now` is what the
connection sees and `committed` what survives it; `cr` is the cursor with what
the last statement of *any* thread left in it. `Fail` is a call that raises:
because the connection is gone (`LoseConnection`, after which it never comes
back, as `db` is made once) or because another thread is in a call on it. MySQL
ends an idle connection by itself. `Kill` starts the process anew. A
statement that fails takes the rows of the cursor with it. A connection may also
be lost when the commit is done and not yet heard of (`CommitUnheard`).
`before` and `wrote` are history: the tables a request found while it was alone, and
the rows it left in the tables that nobody has written since.

### MqttBroker, IotArbiter and MqttChat: subscribers of a broker

`MqttBroker` is the broker as its subscribers rely on it: sessions, which end
with the connection unless they are persistent, the queue of each, retained
messages, which come at each subscription. It is external, and each of its
operations is used by the actions of the two programs.

`IotArbiter` is the server of Tema 3: it connects, subscribes, and `loop_forever`
connects again when it must. Since the subscription is made in `main`, not in
`on_connect`, and the session is clean, it is not made again. `OnMessage` is
`_on_message` with its outcomes: ignored for its topic, nothing to store, stored
(a point of the same time is replaced), or an exception, of `loads` or of
`write_points`, that ends the process; the swarm starts it again. The other
programs of the broker (`OthersPublish`) leave retained lines that are no JSON, or
clear them, on any topic that is no station's, those of two levels (`TwoLevels`)
included: `_on_message` takes `chat/ana`, where the chat of Laborator 5 would
leave a line, for a station's. `published`
and `excused` are history: what the stations sent, and what the arbiter did
not get to or failed on.

`MqttChat` is `task23.py`: a persistent session at QoS 2, `on_connect` subscribes each
time, lines are retained. A line goes from `out` (typed, in the library) through
the broker to `held` (received, not released yet) and `printed`. `owed` is
history: what was sent to a participant since it first subscribed and is neither
printed nor lost by its own end.

### ClosestPrime: the sieve and the search

`Sieve` is `generate_primes`: a number is set when an odd number of pairs toggle
it, then the multiples of the squares of those still set are cleared in turn. A
server action per request or per step of the search; `ret` is the static result
that all replies share. `IS_PRIME` of a negative odd number reads before the
array: either value, or the server ends (`SearchCrashes`). A call that
fails returns NULL, which the client follows (`CallFails`). `PrimeNumbers` models
nothing: it says what a prime is and states Atkin's theorem, which the sieve is an
application of.

## 3. What is checked

| run | instance | shows |
|---|---|---|
| `server_users` | 2 users, 2 ids, 2 arrays, 2 keys, kills, failing writes | `TypeOK`, `EntriesAreCounted`, `KeysAreNotReused`, `OneDatabasePerRequest`, and `KeepsPromisesButTwo`: the server implements `UserDatabases` but for two lapses, with every file a killed store, or one that the disk refuses, can leave |
| `system_timeouts` | 2 clients, 2 users, 3 keys, timeouts, 2 requests per connection, kills | `SysTypeOK`, `RequestsReachOwnSession`, `SessionsMatchUsers` |
| `system_calls` | 2 clients, 1 user, 2 keys, no timeouts, kills, fairness | `ClientKnowsItsSession`, `EveryCallReturns` |
| `stats_drift` | 2 ids, 4 arrays of lengths 1 to 4, 4 writes | `EntryStatsAreExact`, `MedianIsRecalculated`, `StatsAreOrdered`, `ExactUntilDrift` |
| `cache_restarts` | 3 pages, distinct names, one as large as the cache, time between purge and lookup, kills, up to 2 failed writes at a time | `TypeOK`, `ServedIsFresh`, `CachedIsOnDisk`, `FilesAreCached`, `RoomIsMade`, `LeastAccessedFirst` |
| `movies_threads` | 2 threads, 3 movies, tables of 2 and 4 entries, 2 names, all requests | `UndisturbedIsAtomic`, `ListIsRegular` |
| `meteo_threads` | 2 threads, 10 requests on all three tables, failing statements, lost connections, kills | `SuccessIsKept`, `AloneIsAtomic` |
| `iot_failures` | 1 station, 2 other topics (one of two levels), 2 messages, 2 of others, 2 failures, fairness | `TypeOK`, `NumbersAreStored`, `HearsUnlessReconnected`, `ArbiterSettles`, `QueueIsHandled` |
| `chat_reconnects` | 2 participants, 2 lines and 1, 2 starts each, fairness | `TypeOK`, `LinesInOrder`, `RepeatsAreRetained`, `EveryLineIsKept`, `EveryLineIsRead` |
| `prime_search` | 2 clients, `INT_MAX` = 1009, 35 numbers, fairness | `TypeOK`, `SieveIsRight`, `AnswerIsClosest`, `EveryCallEnds` |

Each property is stated in words above its definition. The main ones, and what
it takes to break them:

- `SessionsMatchUsers`: the two records of who is logged in agree, and nobody
  has two sessions. A single handler that updates one of them on some path is
  enough, and shows only at a later login.
- `RequestsReachOwnSession`: no request executed late, after a timeout, a
  logout, another login or a restart of the server finds a session of another
  client. It holds because keys are not reused in one process
  (`KeysAreNotReused`) and a client never connects to the next.
- `ClientKnowsItsSession`: the client's `logged_in` and `key` are the server's
  record of its session. True only without timeouts: the run says so by
  `Timeouts = FALSE`.
- `KeepsPromisesButTwo`: everything at once, for one user's data, but for the two
  lapses.
- `ExactUntilDrift` and `StatsAreOrdered`: the statistics are exact until an
  entry is updated, deleted, or added after a load, and even then min ≤ average
  ≤ max, min ≤ median ≤ max, and every value lies between min and max.
- `ServedIsFresh`: what is served had not been fetched longer than
  `maxTimeToKeepPage` before it was asked for. It takes the purge before the lookup
  and a date that is the content's own, in memory and after every restart.
- `CachedIsOnDisk`: a page in memory has its whole file, unless its own write
  failed: no purge, eviction, kill or failed write of another page takes it.
- `RoomIsMade`: when the loop ends, the files fit or only the new page is left,
  including when a kill came in between and when no page is left to evict; the
  loop gives up early only at a page whose write had failed.
- `UndisturbedIsAtomic`, `AloneIsAtomic`: under which condition a request of the
  two REST servers is atomic, against what it should do and answer. For the
  movies it is that nobody writes meanwhile; for the meteorology API, that
  nobody does anything at all, since the cursor is shared. The second also says
  that nothing is left over, in cursor, transaction or connection, from
  overlapping requests that went wrong before.
- `ListIsRegular`: a list that is answered, while others add, rename, delete and
  reset, invents nothing and, unless an insertion moved the entries under it, misses
  nothing that was there all the time. That exception is needed (section 4).
- `SuccessIsKept`: with one transaction for all, what a request wrote is saved as
  it left it when its success is answered, and only another's write to the same row
  may have changed that: no error of another undoes it. That is why the handlers
  must not roll back.
- `ArbiterSettles`: if at last no line stays retained on a topic that the arbiter
  takes for a station's, it stays up at last. While one stays it does not.
- `HearsUnlessReconnected`: exactly when the arbiter hears the stations.
- `RepeatsAreRetained` with `EveryLineIsRead` and `EveryLineIsKept`: the chat
  prints every line, and how often it may repeat one.
- `AnswerIsClosest`: a client prints the prime closest to *its* number, or -1;
  whoever else called, gave up, or found no memory.

**Bounds, and why they are enough.** *Keys* (`UINT_MAX`): three sessions of one process let a
user log in, out and in again while another is in (`system_timeouts`), and two let a
late request meet another session; every process counts anew; the counter stops
short of its maximum and `WithinBounds` keeps the clients' logins below it. *Users, ids,
arrays*: the handlers only compare them; a second one of each shows that only
the right one is touched, and two ids give files that are cut before, between and
inside entries. `OneHasData` bounds `server_users`: one user has a file and one, perhaps
another, has entries in memory; a step that gives a second user some is checked
and not followed. *`MaxPending`*: two requests in a connection are one executed late and the
next call. *`MaxWrites`*: four writes are an add, one that drifts, and one
after a load, on two entries. *`MaxClock`, `MaxFrequency`*: a page can expire, be
fetched again and expire once more; frequencies differ by more than one.
*Pages*: three, of which one needs two evictions. Users, ids, arrays and clients are
symmetric in the safety runs (no handler treats one apart); the runs with
fairness use no symmetry. *Threads*: two; every hazard of the REST servers is
between one request and one other, and each can serve several in turn.
*`MaxMovies`, `Usable`*: three movies, in tables of 2 and 4 entries where CPython's
hold 5 and 10: few requests fill one with a hole in it, so that the next insertion
moves entries under a list; the proof has any sizes. *`MaxId`*: a country that is
deleted and one after it; a chain of three tables for the cascade.
*`MaxUnwritten`*: two pages that are not whole while a third makes room.
*`MaxMessages`, `MaxOthers`, `MaxFailures`*: two messages of a station, each of which may be
broken or fail, the one behind the other; a line on a topic of two levels that is
left and cleared; a lost connection and a kill. *`MaxStarts`,
`MaxLines`*: a line retained and repeated after a reconnection, with another
line before or after it. *`INT_MAX`*: 1009 is a prime as 2^31 - 1 is, its root
rounds up to `MAX_SQRT`, the numbers reach both ends and a gap of 14, and 1009
has numbers of every residue the sieve tells apart, squares of primes up to 31
among them.

**Deadlock** is checked where the program can always go on: it can be killed or asked
again. `iot_failures`, `chat_reconnects` and `prime_search` stop when the
messages, starts and calls of the instance are used up, which is no deadlock of
the programs.

**Fairness** is assumed in four runs. In `system_calls`: `WF(Serve)`: `svc_run` polls
all the connections and no handler blocks. `WF(Receive)` and `WF(ReceiveNull)`:
`clnt_call` reads its socket until a reply comes or the connection is seen
broken. Users owe nothing: `Send`, `Start` and `Exit` have no fairness, and a
kill has none either: with `Timeouts = FALSE` a call returns because it is
answered or its connection breaks. The users of this run give all the commands
but add and update. Databases stay empty, which no call's return depends on,
while every way a client treats the end of a call occurs; in
`system_timeouts` they log in and out and add, which is what decides whom a
request reaches. Kills inside a store that has something to write are in the runs of
the server.

In `iot_failures`: the swarm restarts the arbiter (`ArbiterStarts`), `main` goes
on to subscribe, and `loop_forever` connects again and handles what it is sent.
In `chat_reconnects`: the network thread of a participant *that runs* connects
again (not the whole of `StartOrReconnect`: nobody must start a program),
subscribes, sends, receives and calls back; people need not type, and
connections need not break. In `prime_search`: the server handles the next
request and goes on searching, and a client notices a broken connection; a call
that does not break need not time out.

## 4. Where the code disagrees with what is said of it

Two have a run that checks a property and finds it violated:

| run | property | what happens |
|---|---|---|
| `failed_load` | `FailedCallsAreReported` | a load without a reply: the `continue` meant for the command loop ends the `do { } while (0)` of `ASSERT`, and NULL is dereferenced |
| `store_without_values` | `NoStoreWithoutValues` | a load of a file that a killed store left makes an entry of length 0 (a client itself refuses to send one); the next store counts it, skips it (`rpc_db_server.cpp:264`) and replies OK, where `README.md:33-35` promises an ERROR |

The others are behaviours of the models, and were seen there, but have no run of
their own:

- Tema 1. A login without a reply leaves the client logged in with the key
  `UINT_MAX`, and it cannot log in any more (`rpc_db_client.cpp:68`). A client
  that never logged in sends an uninitialised key, which could be another's
  (`rpc_db_client.cpp:40`; the instances let it be one that names no session). A
  `del` without a reply ends the client as a load does (`client_utils.cpp:83`).
  The average of a database is not that of its data after an update, or after a
  delete or a load and an add (`client_data.cpp:22`), where
  `Teme/Tema1/README.md:20-22` speaks of recalculation. After a login, an add and
  a delete `get_stats_all` answers OK, with the statistics of nothing, as `num_elem`
  is still positive (`rpc_db_server.cpp:326`), where lines 27-29 of that README
  promise an ERROR: the lapse `StatsOfNothing`. `store` replies OK too when
  the disk takes nothing.
- Laborator 6. Two pages that differ in the query have one file
  (`WebCacheFile.java:184`): only the second is there after a restart, and
  evicting the second frees nothing, at which the loop gives up
  (`WebCache.java:123`); so it does at a page that was not written. Frequencies
  on disk are those of the fetch, so a restart forgets the hits.
- Laborator 3. Of two POSTs at once one may overwrite the other's movie. A
  request whose movie is deleted under it, and a list during which the dict changes
  size, end with an exception, status 500. A list may be answered 200 and miss a
  movie that was there all the time: of the movies 1 to 5 it has passed 1 and 2 when
  1 is deleted and another added, the entries move up to 2, 3, 4, 5, 1, and it goes
  on after 3.
- Tema 2. A PUT that changes nothing is answered 404, as `rowcount` counts changed
  rows. A request may get the id, the rows or the row count of another's
  statement. After a lost connection every POST is answered 409 until the
  server is started again.
- Tema 3. After a reconnection the arbiter hears nothing until it is started
  again; a payload that is not JSON, or a failed write, loses the messages
  queued behind it. A line of the chat that stays retained on a topic of two
  levels ends the arbiter at each of its starts.
- Laborator 2. A negative number is looked up before the array; a call that
  times out, as the first may while the sieve is made, ends its client.

## 5. What is proved

`RpcDbProofs` proves of `RpcDbServer`, for every set of users, ids and
arrays and every number of keys, with failing writes or without:

| theorem | states |
|---|---|
| `TypeCorrect` | `Spec => []TypeOK` |
| `OneSessionPerUser` | `Spec => [](SessionsMatchUsers /\ NextKeyIsFree)` |
| `StatsForEntries` | `Spec => []EntriesAreCounted` |
| `KeysIssuedOnce` | `Spec => KeysAreNotReused` |
| `OneOwnerPerRequest` | `Spec => OneDatabasePerRequest` |
| `PromisesButTwoKept` | `Spec => KeepsPromisesButTwo`: `RpcDbServer` implements `UserDatabases` but for its two lapses |

The assumption is `ServerAssumption`: `UINT_MAX` is a positive number, `WritesFail` a boolean, and
`NONE`, `EMPTY`, `JUNK` are no values of the types they are told apart from; for
`PromisesButTwoKept` also `MappingAssumption`: `NONE` is no database, and `DAMAGED` is
not `NONE`. TLC evaluates them in the runs.

The inductive invariant is `Sound`, the conjunction of the four parts.
`SessionsMatchUsers` is not inductive: a login that stores its session under a
key that is in use would erase somebody's session and leave them marked. What
excludes this is `NextKeyIsFree`, every session's key is at most `key`. Both need
the types, and the type of `db` after a `load` needs `LoadedIsData`: whatever
is in a damaged file, what the loop builds is a non-empty database of the
type. There is one lemma per handler; those of the handlers that only reply go
through `OnlyReplies`, and `add_update`, `del` and `load`, which change the
entries of one session, through `ChangeKeepsSound`. `KeysIssuedOnce` is an
action property: `EndedStaysEnded` shows of each step that a key at most `key`
without a session gets none, from `Sound`. `OneOwnerPerRequest` is one too:
`StepHasOneUser` shows that a step is about one user; that a login takes nobody
else's session needs `NextKeyIsFree` again.

For `PromisesButTwoKept` each step is mapped to one of `UserDatabases`, the lapses
included. This uses
`Sound`, by which `openBar` is well defined (one session per user), and one
invariant more, `FilesHaveEntries`: a whole file is never that of an empty
database. Without it a load that takes "no entries" for an error would break the promise
to give back what was saved. There is one lemma per handler; those of
`add_update`, `del`, `load` and `logout` map the change of one session to that of
one user's database.

It proves of `RpcDbSystem`, for any clients, commands and
length of the channels:

| theorem | states |
|---|---|
| `SystemTypeCorrect` | `SysSpec => []SysTypeOK` |
| `ServerInSystem` | `SysSpec => Spec` |
| `SystemKeepsPromisesButTwo` | `SysSpec => KeepsPromisesButTwo` |
| `OwnSessionOnly` | `UninitKeys \cap Key = {}` implies `SysSpec => []RequestsReachOwnSession` |
| `ClientsKnowTheirSessions` | that and `~Timeouts` imply `SysSpec => []ClientKnowsItsSession` |

`SystemAssumption` says that commands are well-formed. The hypothesis on
`UninitKeys` is the one the instances are under: the code does send whatever
its uninitialised key holds, and a value that is another's session would be
taken for it (section 4). `~Timeouts` is needed: a login that timed out is executed later and
makes a session that its client knows nothing of.

`ServerInSystem` is the step from each component to the whole: every step of
the clients leaves the server's variables alone or is one of its handlers, so
the theorems about `RpcDbServer` hold of the composed system too,
`PromisesButTwoKept` first of all (`SystemKeepsPromisesButTwo`). It needs
the types of what is in the channels, and those need `CallsMatch`: the last request of a
connection is the call that its client waits for, so the reply has the type the
client will use it as. `RequestsReachOwnSession` speaks of the requests that
wait; `KeysAreOwned` makes it inductive by following the keys to wherever they
can be: with a client, in a reply, in a request that waits. It speaks of
clients that are connected, and leaves out those whose connection broke with an
earlier server: the next one issues the old keys again. `SessionsAreKnown` says what a client will
believe after the answer on its way; with `KeysAreOwned` it is inductive.

`RpcDbStatsProofs` proves of `RpcDbStats`, for any arrays of integers and any number of
ids and writes:

| theorem | states |
|---|---|
| `EntriesAreExact` | `Spec => []EntryStatsAreExact` |
| `MedianNeverDrifts` | `Spec => []MedianIsRecalculated` |
| `StatsStayOrdered` | `Spec => []StatsAreOrdered` |
| `ExactUntilSomethingIsLost` | `Spec => []ExactUntilDrift` |
| `MedianIsTrue` | of any non-empty list of integers, `Median2` is `TrueMedian2` |

`StatsAssumption` is the assumption: arrays are non-empty lists of values strictly
between `-INFINITY` and `INFINITY`, where the minimum and the maximum start, and
`NONE` is no entry. The arithmetic is exact, as in the model.

The inductive invariant, `Sound`, says the same of the session and of the file
(`SoundData`), since a load makes the one the other: nothing was written yet, or
the statistics are `Bounded` and `Exact`. `Bounded` is stronger than
`StatsAreOrdered`: it also holds of a database whose entries are all gone, on
whose average and bounds the next write builds, and needs `num_elem` to be
positive, which after a load it is only because no file is stored of an empty
database. `Exact` relates all five statistics to the data unless `drift`
is `"all"`. The average is the hard part: `WeightedTotal` shows that the weighted
average of two means is the mean of all, `WeightedBounds` that any weights keep
it between bounds, and `LowestIsCanonical` that the same rational has the same
lowest terms, however it was computed, which takes division with remainder
(`Division`) and that the least denominator divides every other. What `+`,
minimum and maximum give when folded over a list is shown from the definition of
the fold (`FoldExists`, then `TotalRun`, `LeastRun`, `GreatestRun`), with
`FlattenRun` and `FlattenAdd` for the values of all the entries together. For the median,
`SortedPlaces` shows that ranks take each place once, `SortedCounts` how many
values are on either side of a place, and `MediansArePlaced` that these are the
medians defined by counting.

`WebCacheProofs` proves of `WebCache`, for any pages, sizes, limits and clock:

| theorem | states |
|---|---|
| `PagesAreFresh` | `Spec => []ServedIsFresh` |
| `NoFileIsLeft` | `Spec => []FilesAreCached` |
| `CacheTypeCorrect` | `Spec => []TypeOK` |
| `PagesAreOnDisk` | `NamesDiffer` implies `Spec => []CachedIsOnDisk` |
| `LeastAccessedGoesFirst` | `Spec => LeastAccessedFirst` |
| `RoomIsMadeForPages` | `NamesDiffer` implies `Spec => RoomIsMade` |

All but those with `NamesDiffer` hold for any `formName`, also one that gives two
pages the same file, which the code does for pages that differ in their query. The
assumption is `CacheAssumption`: types of the constants, that there are finitely
many file names, and that `NONE` is no page and no entry. `ServedIsFresh` speaks of when
content was fetched, which no guard of the
program looks at. What makes it inductive is `StampsAreTrue`, that every entry and
every file carries the date of its own content, through evictions, failed writes and
restarts, and `LookupIsFresh`, that no page is too old for the request that has
purged and not looked up yet, however much time passes in between (a kill ends the
request). `DropKeeps` says once what is left when pages and their
files go, and serves the purge and the eviction.
`CachedIsOnDisk`, the converse of `FilesAreCached`, is false where two pages
share a file, so `PagesAreOnDisk` assumes `NamesDiffer`. It is shown on its own,
with the invariant above as support: that a file belongs to the page of its name
is what makes the files that purge, eviction, a failed write and a start delete
those of the pages that go (`DropKeepsOnDisk`). `LeastAccessedFirst` takes an
invariant of its own, `FrequenciesCount`: until the first kill every page's
frequency is one more than its accesses, so that comparing the one is comparing
the other. `RoomIsMade` needs no invariant beyond these, but
a fact about sums: `SizeOnDisk` adds up the files in some order, and
`LessRoom` shows that it falls when one file goes and no other grows
(`SumExists`: the recursive definition does define a sum over a finite set;
`SizeIsSum`: `SizeOnDisk` is that sum). So a round of the loop that frees nothing has evicted a page that
`CachedIsOnDisk` does not speak of, one whose write failed
(`EvictionMakesRoom`); and where no other page is left, `FilesAreCached` leaves no
file but that of the new page. With shared names it is false: the loop gives up
when it evicts a page whose file went with another's (section 4).

`MoviesServerProofs` proves of `MoviesServer`, for any number of threads and
of movies:

| theorem | states |
|---|---|
| `ListsStayRegular` | `Spec => []ListIsRegular` |
| `UndisturbedStaysAtomic` | `Spec => []UndisturbedIsAtomic` |

`DictAssumption` is that a table made for some movies has room for one more.
The invariant common to both is `Sound`: what a thread found fits the step it is
at (`Handling`), ids are unique, and there is `Room`: every request that may
add a movie is below `MaxMovies`, so that `FirstAvailable` is always an id, which
takes the least-number principle (`LeastNumber`) and a count
(`FirstAvailableFacts`). `EachRegular` says of a list half-way that it holds
what was there all the time among the entries it went over, and `EachCalm` that
what an undisturbed request found is what the movies still are; of a list, that
it is in order what it went over (`InOrder`, which a list keeps as the next
entry is appended, and its end is all there is). `CompactedFacts` shows that moving the
entries up keeps the movies; what it does not keep is their places
(`SamePlaces`), and that only where a hole was left: there `moved` is set.

`MeteoApiProofs` proves of `MeteoApi`, for any requests, ids and number of threads:

| theorem | states |
|---|---|
| `SuccessStaysKept` | `Spec => []SuccessIsKept` |
| `AloneStaysAtomic` | `Spec => []AloneIsAtomic` |

`TablesAssumption` has the ids start at 1 without a gap (they are
`AUTO_INCREMENT`), and `RequestAssumption` what Flask's routes give a handler.
`Handling` says which request can be at which call. For `SuccessIsKept` the
invariant is `EachKept`: what a request wrote is in the tables that the connection
sees until it commits, while that lives, and in the committed ones afterwards; a
request whose connection was lost before its commit cannot answer with success. For
`AloneIsAtomic` the tables must be known to satisfy their constraints, those the
connection sees and, as a kill returns to them, the committed ones: `BothWhole`,
which also has ids below the next one, by which an inserted row replaces none.
`DeletedIsWhole` and `WrittenIsWhole` are the lemmas about the
cascade (`Deleted`, over a chain of three tables) and about a row written
without a conflict. `EachAlone` says at each call of a request that is alone
what tables, cursor and id hold; that no invariant links those to anything
before it began is the content of the theorem.

`IotArbiterProofs` proves of `IotArbiter`, for any stations, other topics,
messages and failures:

| theorem | states |
|---|---|
| `ArbiterTypeCorrect` | `Spec => []TypeOK` |
| `HearsUnlessItReconnected` | `Spec => []HearsUnlessReconnected` |
| `NumbersStayStored` | `Spec => []NumbersAreStored` |

`Told` adds that a running arbiter without a connection has lost one, and that
before it subscribes it has not. `NumbersAreStored` takes the order of messages: a
point is replaced by one of the same second, which must not be older, so
`QueueIsOrdered` and `StoredIsOlder` are part of the invariant: a queue holds
the stations' messages in the order they were sent, and what is stored was sent
before them. `BrokerAssumption` (`Topic` and what each client asks for are
finite) and `ArbiterAssumption` are the assumptions.

`MqttChatProofs` proves of `MqttChat`, for any participants, lines and starts:

| theorem | states |
|---|---|
| `ChatTypeCorrect` | `Spec => []TypeOK` |
| `LinesStayKept` | `Spec => []EveryLineIsKept` |
| `LinesStayInOrder` | `Spec => []LinesInOrder` |
| `RepeatsStayRetained` | `Spec => []RepeatsAreRetained` |

`EveryLineIsKept` is inductive with the types. The order of what is *printed*
needs that of all that is yet to be: `Ordered` relates queue, hand and
printed lines, `LastIsRetained` says that the retained line, which a
subscription sends after the queue, is the last one of its topic that was sent at all, and
`LinesAreNew` that what its author has yet to send is newer. For the repetitions
`Counted` bounds how often a line is printed, held and queued *together*, with one
connection in reserve for a participant that is about to subscribe.

`ClosestPrimeProofs` proves of `ClosestPrime`, for any `INT_MAX`, numbers and
clients, under the hypothesis `AtkinsTheorem`:

| theorem | states |
|---|---|
| `SieveFindsPrimes` | `AtkinsTheorem` implies `Spec => []SieveIsRight` |
| `SearchTypeCorrect` | `AtkinsTheorem` implies `Spec => []TypeOK` |
| `ClosestIsAnswered` | `AtkinsTheorem` implies `Spec => []AnswerIsClosest` |

`IntAssumption` has the numbers be ints, `INT_MAX` a prime above 3 and `MAX_SQRT` its
root, rounded up; `SieveAssumption` says that a pointer to a sieve is not NULL.
`AtkinsTheorem` is three theorems of Atkin and Bernstein about the number of ways
to write a number without a square factor by a quadratic form. They are number theory and speak of
nothing in the program; the run evaluates them up to 120.

That they make the sieve right is proved. `TogglersAreAll`: the loops up to
`MAX_SQRT` miss no pair that gives a number up to `INT_MAX`. `SquareFreeIsSet`:
whatever its residue, a number without a square factor is set first if and only
if it is an odd prime. `TurnOfPrimes`: when the loop comes to a number, it is set
still if and only if it is prime, so the turns clear just the multiples of the
squares of the primes from 5 on (`TurnClears`); a multiple of 9 is never set. `SieveIsPrimes`: a number
up to `INT_MAX` with a square factor has that of a prime up to `MAX_SQRT`, whose
turn comes (`SquareOfPrime`, `RootBound`).

`Centred` (the search is as far
below the number as above) and `Passed` (no prime lies in between) make the answer
the closest; the search cannot leave the array since `INT_MAX` stops it. `Asked`
ties a request to the number of its client, who may have given up, and `Typed`
has `ret` be -1 as long as there is no sieve, when it is replied as it is.

Only model-checked:

- liveness under fairness (`EveryCallReturns`, `ArbiterSettles`,
  `QueueIsHandled`, `EveryLineIsRead`, `EveryCallEnds`), which TLAPS does not do;
- the hypothesis of `ClosestPrimeProofs`, `AtkinsTheorem`: evaluated up to 120 by
  the run, which also checks its consequence `SieveIsRight` with `INT_MAX` = 1009.

Induction over data is possible where the statement is about a set: the
induction theorems of the library take an operator, which none of the provers
here instantiates, but `LeastNumber` (a set of numbers has a least one) and
`Counting` (a set with 0 and, with each k - 1, k, has all) do instead. On these rest
`FirstAvailableFacts` of the movies, the sums, folds and ranks of the statistics
and the cache, and the turns of the sieve.

## 6. What is not modelled

- Of Tema 1: rounding of floats; memory (the leak in the move assignment of
  `DataEntry`); the wrap-around of the 32-bit key; blank input lines, which
  repeat the last command with empty arguments; `sleep`.
- Of Laborator 6: the repair of the working directory in the constructor of
  `WebCacheFile`; a `File.delete` that fails (`WebCacheFile.java:151`, `172`), which
  would leave a file that no page in memory has; how long a download takes; the driver
  `ClientTest`, whose unit conversions are one
  expression each (`convertTime`, `ClientTest.java:93`, has a wrong factor: a
  minute is 1000 seconds).
- Of Laborator 3: ids that are no numbers (an exception before any state is
  touched); JSON bodies that are no objects; more than one process of Flask.
- Of Tema 2: the filters of GET by date and coordinates (`if lat:` takes 0 for
  none); the text of the statements; what overlapping calls do to the protocol
  of the connection beyond some order, an error or the end of the process.
- Of Tema 3 and Laborator 5: the broker's own restarts and limits on queues; the
  messages of the QoS 2 handshake; two participants with the default client id,
  who would disconnect each other. The two programs could share a broker, and
  `IotArbiter` has the messages that the chat would leave there (`Foreign`).
- Of the closest prime: the packing of bits in bytes; the size of 2^31 - 1
  itself; `--low` below `INT_MIN`, for a number far below zero whose search goes on.
- Some outcomes are in the models, and named by the property they would break as
  its exception, since the code does let them happen: what a request may do that
  others disturb (`calm`, `before`), a movie that a list passes over when entries moved
  (`moved`), messages lost with the arbiter's process or connection (`excused`) or
  replaced by one of the same second, an arbiter that a retained line ends
  (`Unreadable`), the 404 of a PUT without change, a client whose key was never set
  (`UninitKeys`), and calls that time out (`Timeouts`), for which
  `ClientKnowsItsSession` is not stated. `PROJECT.json` notes it at each of these
  hazards.
- Not at all: the HTTP clients of Laborator 1 (scripts against a service that
  is not here), the stateless RPC exercises of Laborator 2, containers,
  dashboards and test data.

## 7. Plan

Done:

1. `RpcDbServer`, its runs, and its invariants proved (`RpcDbProofs`).
2. `UserDatabases` and the refinement, checked.
3. `RpcDbSystem`: the clients, timeouts and kills, composed with the server.
4. `RpcDbStats` and `WebCache`, the latter with failing writes and its invariants
   proved (`WebCacheProofs`).
5. `MoviesServer`: request threads step by step over `MOVIES`.
6. `MeteoTables` and `MeteoApi`: threads over one cursor and one transaction.
7. `MqttBroker` with `IotArbiter` and `MqttChat`.
8. `ClosestPrime`.

9. Proofs about the composed system, the refinement, the two REST servers, the
   two MQTT clients and the search for a prime.

10. Proofs about the sums, folds and ranks: the statistics (`RpcDbStatsProofs`)
    and the loop of the cache that makes room.

11. The sieve: that its loops are right, from Atkin's theorem.

Left: liveness and Atkin's theorem itself, which stay with TLC.
