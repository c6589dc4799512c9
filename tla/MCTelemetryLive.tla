-------------------------- MODULE MCTelemetryLive --------------------------
(***************************************************************************)
(* The same service under fair scheduling.  The log events of the source   *)
(* are accepted without counting as heartbeats, so a silent source can go  *)
(* on being set healthy; two requests and the evaluation contend for its   *)
(* row.                                                                    *)
(***************************************************************************)
EXTENDS Telemetry

CONSTANTS s1, a, b

Ev(type, seq, prev, hash) ==
    [source_id |-> s1, event_type |-> type, sequence |-> seq,
     previous_hash |-> prev, event_hash |-> hash, hash_valid |-> TRUE,
     signature_valid |-> TRUE, fields_complete |-> TRUE, latency |-> 0]

MCPayload == {Ev("heartbeat", 1, NoHash, a), Ev("log", 2, a, b)}
=============================================================================
