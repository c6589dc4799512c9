----------------------------- MODULE TrustScore -----------------------------
(***************************************************************************)
(* The pure part of ingestion: the four integrity checks of an event       *)
(* (services/integrity.py) and the trust score with its status band        *)
(* (services/trust_score.py).                                              *)
(*                                                                         *)
(* Scores are whole percents.  The two digest checks are facts about a     *)
(* request (hash_valid, signature_valid), since what they compare is       *)
(* computed from the request and the source's secret alone.                *)
(***************************************************************************)
EXTENDS Integers

Least(a, b) == IF a < b THEN a ELSE b
Greatest(a, b) == IF a > b THEN a ELSE b

\* An event is compared with the head of the chain its source row holds.
VerifyEvent(event, row) ==
    [hash_valid      |-> event.hash_valid,
     signature_valid |-> event.signature_valid,
     chain_valid     |-> event.previous_hash = row.last_event_hash,
     sequence_valid  |-> event.sequence = row.last_sequence + 1]

Valid(result) ==
    /\ result.hash_valid
    /\ result.signature_valid
    /\ result.chain_valid
    /\ result.sequence_valid

Weight(holds, w) == IF holds THEN w ELSE 0

\* Mutant: weights that do not add up to 100.
CalculateTrustScoreOverweight(integrity, chain, complete, latency_ratio) ==
    20 + Weight(integrity, 25) + Weight(chain, 25) + Weight(complete, 25)
       + Greatest(0, Least(10, latency_ratio))

\* The weights of calculate_trust_score.  latency_ratio comes in tenths; the
\* heartbeat ratio is 1 in the only call the code makes.
CalculateTrustScore(integrity, chain, complete, latency_ratio) ==
    20 + Weight(integrity, 25) + Weight(chain, 25) + Weight(complete, 20)
       + Greatest(0, Least(10, latency_ratio))

ScoreStatus(score) ==
    IF score >= 90 THEN "healthy"
    ELSE IF score >= 70 THEN "degraded"
    ELSE "critical"

\* latency is the event's age in tenths of the 300 seconds after which an
\* event counts as fully late.
LatencyRatio(latency) == Greatest(0, 10 - Least(latency, 10))

EventScore(event, result) ==
    CalculateTrustScore(result.hash_valid /\ result.signature_valid,
                        result.chain_valid /\ result.sequence_valid,
                        event.fields_complete,
                        LatencyRatio(event.latency))
=============================================================================
