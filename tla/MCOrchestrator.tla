--------------------------- MODULE MCOrchestrator ---------------------------
(***************************************************************************)
(* A small estate: h1, h2 in one shard, h3 in another; h2 is reported by   *)
(* its name, nb.                                                           *)
(*   Wide: the whole estate, with more batches than workers.               *)
(*   Narrow: h3's shard and the named host nb, with h3 to deepen.          *)
(*   Listed: discover switched off, hosts to deepen listed.                *)
(*   Quiet: more shards than may run live, no deepen.                      *)
(***************************************************************************)
EXTENDS Orchestrator, TLC

CONSTANTS h1, h2, h3, nb

Names == (h2 :> nb) @@ (h1 :> h1) @@ (h3 :> h3) @@ (nb :> nb)

Wide == [shards |-> <<{h1, h2}, {h3}>>, hosts |-> {nb}, deepenHosts |-> {}, batch |-> 2,
         maxShards |-> 2, maxWorkers |-> 1, discover |-> TRUE, deepen |-> TRUE]
Narrow == [shards |-> <<{h3}>>, hosts |-> {nb}, deepenHosts |-> {h3}, batch |-> 2,
           maxShards |-> 1, maxWorkers |-> 2, discover |-> TRUE, deepen |-> TRUE]
Listed == [Wide EXCEPT !.discover = FALSE, !.deepenHosts = {h1, h2}]
Quiet == [Wide EXCEPT !.maxShards = 1, !.deepen = FALSE]

AllScopes == {Wide, Narrow, Listed, Quiet}
TwoScopes == {Wide, Narrow}
=============================================================================
