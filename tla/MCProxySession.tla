--------------------------- MODULE MCProxySession ---------------------------
(***************************************************************************)
(* ProxySession on small sets.  Identities are model values; the safety     *)
(* runs treat each set as symmetric, since the specification never tells   *)
(* one proxy, game_conn_t or socket from another.                           *)
(***************************************************************************)
EXTENDS ProxySession, TLC

Symmetry == Permutations(Proxy) \cup Permutations(Game) \cup Permutations(Wsi)

=============================================================================
