---------------------------- MODULE MCTelemetry ----------------------------
(***************************************************************************)
(* One source, two requests at a time and the heartbeat evaluation.  The  *)
(* requests of s1 hold two events that compete for the first place of the  *)
(* chain (a, b), their successors (aa, bb), a forgery and an event with a   *)
(* missing field; any of them may be sent at any time and again.           *)
(***************************************************************************)
EXTENDS Telemetry

CONSTANTS s1, a, b, aa, bb, c

Ev(s, type, seq, prev, hash, signed, complete) ==
    [source_id |-> s, event_type |-> type, sequence |-> seq,
     previous_hash |-> prev, event_hash |-> hash, hash_valid |-> TRUE,
     signature_valid |-> signed, fields_complete |-> complete, latency |-> 0]

MCHash == {a, b, aa, bb, c}
MCPayload ==
    {Ev(s1, "heartbeat", 1, NoHash, a, TRUE, TRUE),
     Ev(s1, "log", 1, NoHash, b, TRUE, TRUE),
     Ev(s1, "log", 2, a, aa, TRUE, TRUE),
     Ev(s1, "canary", 2, b, bb, TRUE, FALSE),
     Ev(s1, "log", 2, a, c, FALSE, TRUE)}
=============================================================================
