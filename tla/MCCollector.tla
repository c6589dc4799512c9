---------------------------- MODULE MCCollector ----------------------------
(***************************************************************************)
(* One agent with up to four events, three failed calls and one crash:     *)
(* enough for the same event to fail twice, for a heartbeat to overtake a  *)
(* spooled event, and for a crash between the commit and its answer.       *)
(***************************************************************************)
EXTENDS Collector
=============================================================================
