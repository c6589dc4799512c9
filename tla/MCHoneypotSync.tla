--------------------------- MODULE MCHoneypotSync ---------------------------
(***************************************************************************)
(* Two replicas, an event, and an alert that may become worse once.  No    *)
(* attacker: it is overwritten like an alert and counted like an event.    *)
(***************************************************************************)
EXTENDS HoneypotSync

MCMaxValue == [i \in Item |-> IF i \in Alert THEN 2 ELSE 1]
=============================================================================
