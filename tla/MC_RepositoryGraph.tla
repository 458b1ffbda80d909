-------------------------- MODULE MC_RepositoryGraph --------------------------
(***************************************************************************)
(* TLC instances of module RepositoryGraph: the graph W beside at most one *)
(* other client of the service.                                            *)
(***************************************************************************)
EXTENDS RepositoryGraph

CONSTANT MaxDisturbances  \* bound: restarts and other clients' calls together

MCNext ==
  /\ GraphNext
  /\ calls' + restarts' <= MaxDisturbances

MCSpec == GraphInit /\ [][MCNext]_allVars /\ GraphFairness
=============================================================================
