------------------------- MODULE MCCrawlHostGroups -------------------------
(***************************************************************************)
(* Two groups, two URIs, two prefetch threads and two sessions are enough  *)
(* for the races: two threads on one group, a late harvester beside a new  *)
(* fetch, a move between groups.  A second retry is refused, so a URI is   *)
(* retried once.  All groups, URIs, threads and tokens are alike.          *)
(***************************************************************************)
EXTENDS CrawlHostGroups, TLC

SameSequence == [u \in Uris |-> 1]
\* All URIs belong to the one execution, or each to one of its own (Executions = Uris).
OneExecution == [u \in Uris |-> CHOOSE e \in Executions : TRUE]
OwnExecution == [u \in Uris |-> u]

Symmetry ==
    Permutations(Chgs) \cup Permutations(Uris) \cup Permutations(Handlers) \cup Permutations(Tokens)
=============================================================================
