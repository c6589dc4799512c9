----------------------------- MODULE MCPlatform -----------------------------
(***************************************************************************)
(* Two replicas and one slot, so that evaluation and simulation wait for   *)
(* each other.  They do so for a source of either feed alike: simulations  *)
(* are asked for where the honeypot is the feed, which has fewer states.   *)
(* Some agents never connected, and some have no date.  The rule of the    *)
(* first start names the source types the repository's default rules name; *)
(* the one an analyst creates needs either feed, and a field that only the *)
(* Wazuh agents deliver.                                                   *)
(***************************************************************************)
EXTENDS Platform

MCDating == {"dated", "missing"}

MCNewStatus == {"never_connected"}

MCDefault == {[types |-> {"sysmon", "windows_event", "wazuh"},
               fields |-> {"process_name", "user"}]}

MCRuleInput == {[types |-> {"wazuh_agent", "honeypot"}, fields |-> {"agent.id"}]}

MCNext == Next /\ (feed = "wazuh" => run' = "none")

MCFairSpec == Init /\ [][MCNext]_vars /\ Fairness
=============================================================================
