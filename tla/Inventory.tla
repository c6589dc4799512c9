----------------------------- MODULE Inventory -----------------------------
(***************************************************************************)
(* What the platform shows of a monitored system that an integration       *)
(* feeds: the asset and the telemetry source the synchronization keeps for *)
(* it, the detection rules, the periodic evaluation of heartbeats, and the *)
(* analyses that read them (blindness map, portal).                        *)
(*                                                                         *)
(* Covered: one Wazuh agent or the honeypot, whichever of the two feeds is *)
(* enabled, with one synchronization at a time, the remote system down or  *)
(* answering what cannot be parsed, and the unlocked reads of evaluation,  *)
(* synchronization and requests.  Not covered: trust scores (Telemetry),   *)
(* alerts (AlertOps, HoneypotSync) and the state row of the integration    *)
(* (WazuhSync, HoneypotSync).                                              *)
(***************************************************************************)
EXTENDS Naturals

CONSTANTS
    NewStatus,   \* what Wazuh says of an agent it has not heard of yet
    Dating,      \* how it dates the last sign of life (lastKeepAlive or dateAdd)
    RuleInput,   \* rules that analysts create
    Default,     \* the rules of the first start
    None         \* no value, no row

Feed == {"wazuh", "honeypot"}
Status == {"healthy", "degraded", "critical", "unknown"}
AgentStatus == NewStatus \cup {"active", "disconnected"}

\* The time since a heartbeat, in the classes the evaluation tells apart: up to
\* 1.5 of the expected intervals, up to 3, more.
Age == 0..2

\* The columns of a rule the blindness map reads.
RuleRow == [types : SUBSET STRING, fields : SUBSET STRING]

SourceRow == [status : Status, age : Age \cup {None}]

ASSUME RuleAssumption == RuleInput \cup Default \subseteq RuleRow /\ Default # {}
ASSUME DatingAssumption == Dating \subseteq {"dated", "missing", "garbled"}
ASSUME NoneAssumption == None \notin Age /\ None \notin SourceRow

VARIABLES
    feed,     \* the integration the settings enable
    remote,   \* its API: "ok", "down", or "malformed" answers
    agent,    \* the Wazuh agent: what its manager says of it and the time since
              \* its last sign of life; None once it is removed
    asset,    \* is there a row of assets with its hostname?
    source,   \* its row of telemetry_sources, or None
    rules,    \* detection_rules
    sync,     \* the synchronization
    check     \* the evaluation: what it will write, or None

inventory == <<feed, remote, agent, asset, source, rules, sync, check>>

\* A synchronization: where it is, the status it will write (None to leave it
\* alone), the age of the heartbeat it will write, whether that is taken to be
\* the present, and whether it has found the asset.
Idle == [pc |-> "idle", status |-> None, age |-> None, now |-> FALSE, asset |-> FALSE]

InventoryInit ==
    /\ feed \in Feed /\ remote = "ok"
    /\ \/ feed = "honeypot" /\ agent = None
       \/ feed = "wazuh" /\ agent \in [status : NewStatus, date : Dating, seen : {0}]
    /\ asset = FALSE /\ source = None /\ rules = {}
    /\ sync = Idle /\ check = None

------------------------------------------------------------------------------
(* The environment                                                         *)

Older(age) == IF age \in 0..1 THEN age + 1 ELSE age

\* Time passes for every stamp, those in flight included.
Tick ==
    /\ agent' = IF agent = None THEN None ELSE [agent EXCEPT !.seen = Older(@)]
    /\ source' = IF source = None THEN None ELSE [source EXCEPT !.age = Older(@)]
    /\ sync' = [sync EXCEPT !.age = Older(@)]
    /\ UNCHANGED <<feed, remote, asset, rules, check>>

RemoteChanges ==
    /\ remote' \in {"ok", "down"} \cup (IF feed = "honeypot" THEN {"malformed"} ELSE {})
    /\ remote' # remote
    /\ UNCHANGED <<feed, agent, asset, source, rules, sync, check>>

AgentMoves(new) ==
    /\ agent # None
    /\ agent' = new
    /\ UNCHANGED <<feed, remote, asset, source, rules, sync, check>>

KeepAlive ==
    \E date \in Dating : AgentMoves([status |-> "active", date |-> date, seen |-> 0])

\* It says that it stops, or the manager misses it for longer than 3 intervals.
Disconnect == agent # None /\ agent.status = "active"
              /\ AgentMoves([agent EXCEPT !.status = "disconnected"])

Remove == AgentMoves(None)

------------------------------------------------------------------------------
(* The synchronization                                                     *)

\* Mutant: the status of the agent is stored as Wazuh words it.
MappedVerbatim(status) == status

\* source_status
Mapped(status) ==
    CASE status = "active" -> "healthy"
      [] status \in {"pending", "enrolling"} -> "degraded"
      [] status \in {"disconnected", "never_connected"} -> "critical"
      [] OTHER -> "unknown"

\* Where Wazuh gives no date, an active agent has just been seen; what
\* parse_timestamp cannot read is the present too.
TakenAsNow(a) == a.date = "garbled" \/ (a.date = "missing" /\ a.status = "active")

\* Mutant: an active agent counts as seen when it was fetched, date or not.
LastSeenWhenFetched(a) ==
    IF a.status = "active" THEN 0 ELSE IF a.date = "dated" THEN a.seen ELSE None

\* The date that comes from Wazuh, None where the present or NULL is stored.
LastSeen(a) == IF a.date = "dated" THEN a.seen ELSE None

\* What the API answers; an answer that cannot be parsed ends the honeypot's
\* synchronization without a trace, a Wazuh API that is down ends that of Wazuh
\* before it touches the inventory.
Fetch ==
    /\ sync.pc = "idle"
    /\ \/ /\ feed = "wazuh" /\ remote = "ok" /\ agent # None
          /\ sync' = [Idle EXCEPT !.pc = "load", !.status = Mapped(agent.status),
                                  !.age = LastSeen(agent), !.now = TakenAsNow(agent)]
       \/ /\ feed = "honeypot" /\ remote = "ok"
          /\ sync' = [Idle EXCEPT !.pc = "load", !.status = "healthy", !.now = TRUE]
       \/ /\ feed = "honeypot" /\ remote = "down"
          /\ sync' = [Idle EXCEPT !.pc = "load", !.status = "critical"]
    /\ UNCHANGED <<feed, remote, agent, asset, source, rules, check>>

\* The rows are selected without a lock; SQLAlchemy will write the columns that
\* differ from what was selected.  The heartbeat of the honeypot is the time of
\* its transaction.
Load ==
    /\ sync.pc = "load"
    /\ sync' = [sync EXCEPT
          !.pc = "commit", !.asset = asset,
          !.age = IF sync.now THEN 0 ELSE @,
          !.status = IF source # None /\ @ = source.status THEN None ELSE @]
    /\ UNCHANGED <<feed, remote, agent, asset, source, rules, check>>

\* uq_asset_org_hostname: both inserted the asset.
Conflict(loaded) == ~loaded /\ asset

\* A failed call to the honeypot brings no heartbeat and leaves the last one; a
\* Wazuh agent without a date loses the one it had.
Heartbeat == IF source # None /\ feed = "honeypot" /\ ~sync.now THEN source.age ELSE sync.age

\* Mutant: a source that exists keeps its status.
WrittenOnce == [status |-> IF source = None THEN sync.status ELSE source.status,
                age |-> Heartbeat]

Written == [status |-> IF source # None /\ sync.status = None THEN source.status ELSE sync.status,
            age |-> Heartbeat]

\* A conflict rolls the transaction back: the next synchronization repeats it.
Commit ==
    /\ sync.pc = "commit"
    /\ sync' = Idle
    /\ IF Conflict(sync.asset)
       THEN UNCHANGED <<asset, source>>
       ELSE asset' = TRUE /\ source' = Written
    /\ UNCHANGED <<feed, remote, agent, rules, check>>

------------------------------------------------------------------------------
(* The periodic evaluation                                                 *)

\* Mutant: a source that has stopped is only late.
VerdictLate == CASE source.age = None -> "unknown"
                 [] source.age # None /\ source.age >= 1 -> "degraded"
                 [] OTHER -> source.status

Verdict == CASE source.age = None -> "unknown"
             [] source.age = 2 -> "critical"
             [] source.age = 1 -> "degraded"
             [] OTHER -> source.status

\* The task reads without a lock; a verdict that changes nothing writes nothing.
BeginCheck ==
    /\ check = None /\ source # None
    /\ Verdict # source.status
    /\ check' = Verdict
    /\ UNCHANGED <<feed, remote, agent, asset, source, rules, sync>>

CommitCheck ==
    /\ check # None
    /\ source' = [source EXCEPT !.status = check]
    /\ check' = None
    /\ UNCHANGED <<feed, remote, agent, asset, rules, sync>>

------------------------------------------------------------------------------
(* Requests                                                                *)

\* create_asset: whether the name is found, or inserted by another transaction
\* between check and commit, a request for an asset that exists changes nothing.
CreateAsset ==
    /\ ~asset
    /\ asset' = TRUE
    /\ UNCHANGED <<feed, remote, agent, source, rules, sync, check>>

CreateRule(rule) ==
    /\ rule \notin rules
    /\ rules' = rules \cup {rule}
    /\ UNCHANGED <<feed, remote, agent, asset, source, sync, check>>

------------------------------------------------------------------------------
(* What the analyses show                                                  *)

\* The source_type and expected_fields each integration gives its source.
SourceType == IF feed = "wazuh" THEN "wazuh_agent" ELSE "honeypot"

Expected == IF feed = "wazuh" THEN {"agent.id", "agent.name", "agent.status"}
            ELSE {"events", "alerts", "attackers", "stats"}

Available == IF source.status = "healthy" THEN Expected ELSE {}

\* build_blindness_finding: the rules that the source cannot feed.
Affected ==
    {rule \in rules : /\ SourceType \in rule.types
                      /\ \/ source.status \in {"critical", "unknown"}
                         \/ ~(rule.fields \subseteq Available)}

\* list_portal_assets: the worst source of the asset decides.
SourceHealth(statuses) ==
    CASE "critical" \in statuses -> "critical"
      [] "critical" \notin statuses /\ "degraded" \in statuses -> "degraded"
      [] statuses = {"healthy"} -> "healthy"
      [] OTHER -> "unknown"
=============================================================================
