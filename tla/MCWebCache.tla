----------------------------- MODULE MCWebCache -----------------------------
(***************************************************************************)
(* Instance of WebCache for TLC: the pages of different sites, one as      *)
(* large as the cache itself.                                              *)
(***************************************************************************)
EXTENDS WebCache, TLC

CONSTANTS a, b, c, fa, fb, fc

Names == (a :> fa) @@ (b :> fb) @@ (c :> fc)
Sizes == (a :> 1) @@ (b :> 1) @@ (c :> 3)
=============================================================================
