----------------------------- MODULE MCMeteoApi -----------------------------
(***************************************************************************)
(* Instances of MeteoApi for TLC.                                          *)
(***************************************************************************)
EXTENDS MeteoApi, TLC

CONSTANTS t1, t2, k, l, s1, s2

RowOf(up, key, val) == [up |-> up, key |-> key, val |-> val]
Post(table, body) == [method |-> "POST", table |-> table, of |-> NONE, id |-> NONE, body |-> body]
Put(table, id, body) == [method |-> "PUT", table |-> table, of |-> table, id |-> id, body |-> body]
Del(table, id) == [method |-> "DELETE", table |-> table, of |-> table, id |-> id, body |-> NONE]
Get(table, of, id) == [method |-> "GET", table |-> table, of |-> of, id |-> id, body |-> NONE]

\* One chain of tables, from a country to its temperatures.
Requests ==
  {Post("Tari", RowOf(NONE, k, k)), Post("Orase", RowOf(1, k, k)),
   Post("Temperaturi", RowOf(1, k, k)),
   Put("Tari", 1, RowOf(NONE, l, k)), Put("Tari", 1, RowOf(NONE, k, k)),
   Put("Temperaturi", 1, RowOf(1, k, l)), Put("Orase", 1, BAD),
   Del("Tari", 1), Del("Orase", BAD), Get("Temperaturi", "Tari", 1)}
MaxIds == [t \in Table |-> IF t = "Tari" THEN 2 ELSE 1]
Threads == Permutations({t1, t2})
=============================================================================
