---------------------------- MODULE MCWazuhSync ----------------------------
(***************************************************************************)
(* Two replicas (replicaCount in helm/trust-soc/values.yaml), two alerts   *)
(* and batches of one, so that a burst is cut.  The indexer starts empty   *)
(* or with alerts that are older than the reach of the first query.        *)
(***************************************************************************)
EXTENDS WazuhSync

MCPast == {-(Lookback + Overlap + 1)}
=============================================================================
