----------------------- MODULE RpcDbServerImplements -----------------------
(***************************************************************************)
(* RpcDbServer keeps the promises of UserDatabases but for the two lapses  *)
(* that module names: the database of a user is the one of their session,  *)
(* whatever its key, and what is saved is what their file holds when all   *)
(* of it was written.                                                      *)
(***************************************************************************)
EXTENDS RpcDbServer

CONSTANT DAMAGED

\* A database is neither of the marks for the lack of one.
ASSUME MappingAssumption == NONE \notin Data /\ DAMAGED # NONE

SessionOf(u) == {k \in Key : Live(k) /\ db[k].user = u}

openBar ==
  [u \in User |-> IF SessionOf(u) = {} THEN NONE
                  ELSE db[CHOOSE k \in SessionOf(u) : TRUE].data]

savedBar ==
  [u \in User |-> IF disk[u] = NONE THEN NONE
                  ELSE IF disk[u].extent = "complete" THEN disk[u].ents
                  ELSE DAMAGED]

\* A key means nothing to a user: the reply to login tells only its success.
replyBar == [resp EXCEPT !.val = IF resp.op = "login" THEN NONE ELSE @]

UDB == INSTANCE UserDatabases
         WITH open <- openBar, saved <- savedBar, reply <- replyBar

\* Every handler, and every crash, is one step of what the server promises or
\* one of the two lapses: no request reaches another user's database, a load
\* returns what the last store saved, and a kill loses at most the file that
\* was being written.
KeepsPromisesButTwo == UDB!LapsingSpec

\* "Serverul refuza sa scrie pe disc o baza de date goala sau intrari fara
\* valori" (Tema1/README.md:33): a store that answers OK was of a database
\* all of whose entries have values.
NoStoreWithoutValues ==
  resp.op = "store" /\ resp.ok => UDB!Storable(openBar[resp.user])
============================================================================
