---------------------------- MODULE MCRpcDbStats ----------------------------
(***************************************************************************)
(* Instances of RpcDbStats for TLC.  The arrays have odd and even lengths, *)
(* repeated, unsorted and negative values.                                 *)
(***************************************************************************)
EXTENDS RpcDbStats

Arrays == {<<3>>, <<4, -1>>, <<2, 2, 1>>, <<3, -2, 5, 3>>}
=============================================================================
