----------------------------- MODULE ChainedLog -----------------------------
(***************************************************************************)
(* What the ingestion service promises about the events it stores: for     *)
(* each source a log that only grows, one entry at a time, where entry     *)
(* number i carries sequence i and the hash of entry i - 1.  Nothing here  *)
(* says how requests arrive, how often, in which order or how they are     *)
(* locked; Telemetry and Collector are shown to implement this module.     *)
(***************************************************************************)
EXTENDS Naturals, Sequences

CONSTANTS
    Chain,    \* the chains that are kept, one for each telemetry source
    Entry,    \* records with (at least) sequence, previous_hash, event_hash
    Genesis   \* the previous_hash of a chain's first entry

VARIABLE log

Tip(chain) == IF chain = <<>> THEN Genesis ELSE chain[Len(chain)].event_hash

Init == log = [c \in Chain |-> <<>>]

Extend(c, e) ==
    /\ e.sequence = Len(log[c]) + 1
    /\ e.previous_hash = Tip(log[c])
    /\ log' = [log EXCEPT ![c] = Append(@, e)]

Next == \E c \in Chain, e \in Entry : Extend(c, e)

Spec == Init /\ [][Next]_log
=============================================================================
