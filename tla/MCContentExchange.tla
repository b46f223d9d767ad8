------------------------- MODULE MCContentExchange -------------------------
(* Small instances of ContentExchange.  A second new connection is made only  *)
(* to a coordinator opened again, whose connections count from one.           *)
EXTENDS ContentExchange, TLC

MCNext == Next /\ (budget'.connections = 0 => budget'.last <= MaxConnection)
MCSpec == Init /\ [][MCNext]_vars

\* Images and readings are interchangeable; the players are not, for only
\* some have a bridge.
Symmetry == Permutations(PNG) \union Permutations(Properties)
=============================================================================
