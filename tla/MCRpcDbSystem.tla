---------------------------- MODULE MCRpcDbSystem ----------------------------
(***************************************************************************)
(* Instances of RpcDbSystem for TLC: which commands the users give.        *)
(***************************************************************************)
EXTENDS RpcDbSystem, TLC

Login == [op: {"login"}, user: User]
Put == [op: {"add_update"}, id: Id, method: {"ADD"}, val: Value]
OnEntry(ops) == [op: ops, id: Id]
Plain(ops) == [op: ops]

\* Who may touch what: sessions are opened, used, left and opened again.
SessionCommands == Login \cup Put \cup Plain({"logout"})

\* All the commands but add and update: whether the databases have anything in
\* them does not matter to the return of a call.
CallCommands ==
  Login \cup OnEntry({"read_entry", "del", "get_stats"})
    \cup Plain({"logout", "load", "store", "get_stats_all"})

\* The command a client may not survive.
LoadCommands == Login \cup Plain({"load"})

\* Clients are alike, and so are users.
Symmetry == Permutations(Client) \cup Permutations(User)

\* Uninitialised keys that name no session.
NoSession == {INVALID_KEY, UINT_MAX}
=============================================================================
