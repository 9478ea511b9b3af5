----------------------- MODULE MCRpcDbServerImplements -----------------------
(***************************************************************************)
(* Instances of RpcDbServer for TLC, with the promise it should keep.      *)
(***************************************************************************)
EXTENDS RpcDbServerImplements, TLC

Symmetry == Permutations(User) \cup Permutations(Id) \cup Permutations(Value)

\* A bound: of all the users, one has a file and one has entries in memory, who
\* may be another.  A step to a state with more is checked and not followed.
Entries(k) == {i \in Id : db[k] # NONE /\ db[k].data[i] # NONE}
OneHasData ==
  /\ \A u, v \in User : disk[u] # NONE /\ disk[v] # NONE => u = v
  /\ \A k, l \in Key : Entries(k) # {} /\ Entries(l) # {} => k = l
=============================================================================
