------------------------------ MODULE Platform ------------------------------
(***************************************************************************)
(* The processes of a deployment around the inventory and the simulations: *)
(* replicas of the API that bootstrap the database when they start and     *)
(* then serve requests and synchronize, and the Celery worker whose slots  *)
(* evaluations and simulations share.  Processes die at any time and are   *)
(* started again (restart: unless-stopped).                                *)
(***************************************************************************)
EXTENDS Inventory, Simulation

CONSTANTS
    Replica,  \* replicas of the API
    Slots     \* --concurrency of the worker

ASSUME PlatformAssumption == Slots \in Nat \ {0}

VARIABLES
    org,     \* are the organization, its administrator and its rules stored?
    api      \* each replica: "down", "inserting" or "serving"

processes == <<org, api>>
vars == <<inventory, simulation, processes>>

Init ==
    /\ InventoryInit /\ SimulationInit
    /\ org = FALSE /\ api = [r \in Replica |-> "down"]

Serving == \E r \in Replica : api[r] = "serving"

------------------------------------------------------------------------------
(* Start-up                                                                *)

\* Mutant: what is stored is not looked up first.
BootBlind(r) ==
    /\ api[r] = "down"
    /\ api' = [api EXCEPT ![r] = "inserting"]
    /\ UNCHANGED <<inventory, simulation, org>>

\* bootstrap finds the organization and has nothing to insert, or not.
Boot(r) ==
    /\ api[r] = "down"
    /\ api' = [api EXCEPT ![r] = IF org THEN "serving" ELSE "inserting"]
    /\ UNCHANGED <<inventory, simulation, org>>

\* One commit stores organization, administrator and rules.  If another replica
\* was faster, the unique name ends the start and the process.
InsertDefaults(r) ==
    /\ api[r] = "inserting"
    /\ IF org
       THEN /\ api' = [api EXCEPT ![r] = "down"]
            /\ UNCHANGED <<org, rules>>
       ELSE /\ api' = [api EXCEPT ![r] = "serving"]
            /\ org' = TRUE /\ rules' = Default
    /\ UNCHANGED <<feed, remote, agent, asset, source, sync, check,
                   simulation>>

------------------------------------------------------------------------------
(* Work of the processes                                                   *)

Environment ==
    /\ Tick \/ RemoteChanges \/ KeepAlive \/ Disconnect \/ Remove
    /\ UNCHANGED <<simulation, processes>>

\* The loop of the replica whose settings leave it on, or a request to
\* synchronize (POST /integrations/wazuh/sync, /honeypot/sync) at any replica.
Synchronize ==
    /\ Serving
    /\ Fetch \/ Load \/ Commit
    /\ UNCHANGED <<simulation, processes>>

Request ==
    /\ Serving
    /\ CreateAsset \/ \E rule \in RuleInput : CreateRule(rule)
    /\ UNCHANGED <<simulation, processes>>

\* create_simulation answers 404 without the source.
Authorize ==
    /\ Serving /\ source # None
    /\ CreateRun
    /\ UNCHANGED <<inventory, processes>>

Dispatch ==
    /\ Serving
    /\ Send \/ LoseTask
    /\ UNCHANGED <<inventory, processes>>

SlotFree ==
    LET busy == (IF check # None THEN 1 ELSE 0) + (IF Executing THEN 1 ELSE 0)
    IN  busy < Slots

Evaluate ==
    /\ (SlotFree /\ BeginCheck) \/ CommitCheck
    /\ UNCHANGED <<simulation, processes>>

Simulate ==
    /\ (SlotFree /\ Claim) \/ StartRun \/ FinishRun \/ Return
    /\ UNCHANGED <<inventory, processes>>

------------------------------------------------------------------------------
(* Crashes                                                                 *)

\* A replica dies with the synchronization and the request it has in hand; they
\* survive where another replica may have them.  One whose insert comes too late
\* ends its start by itself, killed or not.
KillReplica(r) ==
    /\ api[r] = "serving" \/ (api[r] = "inserting" /\ ~org)
    /\ api' = [api EXCEPT ![r] = "down"]
    /\ LET others == \E s \in Replica \ {r} : api[s] = "serving"
       IN  /\ sync' = Idle \/ (others /\ UNCHANGED sync)
           /\ LoseTask \/ ((others \/ task # "unsent") /\ UNCHANGED simulation)
    /\ UNCHANGED <<feed, remote, agent, asset, source, rules, check, org>>

\* Its supervisor starts the worker again; an idle one leaves nothing behind.
KillWorker ==
    /\ check # None \/ Executing
    /\ check' = None
    /\ DropTask
    /\ UNCHANGED <<feed, remote, agent, asset, source, rules, sync, processes>>

Next ==
    \/ Environment \/ Synchronize \/ Request \/ Authorize \/ Dispatch
    \/ Evaluate \/ Simulate
    \/ \E r \in Replica : Boot(r) \/ InsertDefaults(r) \/ KillReplica(r)
    \/ KillWorker

Spec == Init /\ [][Next]_vars

(* Time passes, replicas are started again, and each goes on with what it   *)
(* has begun: the synchronization loop, the scheduler, the sending of a     *)
(* committed run.  The broker's queue is first in, first out, so that a     *)
(* simulation gets a slot in the end; the worker is not killed in every     *)
(* evaluation, and some time nobody kills a replica.                        *)
Fairness ==
    /\ WF_vars(Tick /\ UNCHANGED <<simulation, processes>>)
    /\ \A r \in Replica : WF_vars(Boot(r)) /\ WF_vars(InsertDefaults(r))
    /\ WF_vars(Synchronize) /\ WF_vars(Dispatch) /\ SF_vars(Simulate)
    /\ WF_vars(Evaluate) /\ SF_vars(CommitCheck /\ UNCHANGED <<simulation, processes>>)
    /\ <>[][\A r \in Replica : ~KillReplica(r)]_vars

FairSpec == Spec /\ Fairness

------------------------------------------------------------------------------
(* Properties                                                              *)

TypeOK ==
    /\ feed \in Feed /\ remote \in {"ok", "down", "malformed"}
    /\ agent \in [status : AgentStatus, date : Dating, seen : Age] \cup {None}
    /\ asset \in BOOLEAN
    /\ source \in SourceRow \cup {None}
    /\ source # None => asset
    /\ rules \subseteq Default \cup RuleInput
    /\ sync \in [pc : {"idle", "load", "commit"}, status : Status \cup {None},
                 age : Age \cup {None}, now : BOOLEAN, asset : BOOLEAN]
    /\ check \in Status \cup {None} /\ (check # None => source # None)
    /\ run \in {"none", "queued", "running", "completed"}
    /\ task \in {"none", "unsent", "sent", "claimed", "started", "finished", "done", "lost"}
    /\ org = (rules # {})
    /\ api \in [Replica -> {"down", "inserting", "serving"}]
    /\ ~org => ~Serving

\* The heartbeat of a source is younger than its agent's last sign of life.
Ahead == /\ agent # None /\ source # None /\ source.age # None
         /\ source.age < agent.seen

\* A source turns younger than its agent only where Wazuh gave no date that can
\* be read: however late a synchronization commits what it has fetched, dates
\* alone let nobody look alive who is silent, and a source that looks too young
\* is set right by the next of them (_upsert_agents, services/wazuh_sync.py).
HeartbeatAheadOnlyByFallback ==
    [][/\ ~Ahead /\ Ahead' => sync.now
       /\ sync.pc = "commit" /\ sync' = Idle /\ source' # source /\ Ahead' => sync.now]_vars

\* Every view agrees that the source is gone: its status, the health of its
\* asset, and the blindness of the rules that need it.  A source that never had
\* a heartbeat is critical to the synchronization and unknown to the evaluation.
Reported ==
    /\ source.status \in (IF source.age = None THEN {"critical", "unknown"} ELSE {"critical"})
    /\ SourceHealth({source.status}) = source.status
    /\ {rule \in rules : SourceType \in rule.types} \subseteq Affected

\* A date that cannot be read makes even a disconnected agent one that has just
\* been seen, and the evaluation turns its source from critical to degraded.
Silent == /\ feed = "wazuh"
          /\ \/ agent = None
             \/ agent.status = "disconnected" /\ agent.date # "garbled"

\* A feed that stays down, answers garbage for ever, or an agent that is gone is
\* reported in the end and from then on, by the synchronization or, where that
\* leaves no trace, by the evaluation, whatever both had in flight.
SilenceReported ==
    (<>[](remote # "ok") \/ <>[]Silent) => <>[](source = None \/ Reported)

\* Once feed and agent are back the source turns healthy again and again, and
\* then blinds only the rules whose fields it never delivers.
RecoversAgain ==
    <>[](remote = "ok" /\ (feed = "wazuh" => agent # None /\ agent.status = "active"))
    => []<>(/\ source # None /\ source.status = "healthy"
            /\ \A rule \in Affected : ~(rule.fields \subseteq Expected))

\* A run ends, unless its task was lost: with the request between commit and
\* sending, or with the worker that had started it (create_simulation,
\* _execute_simulation).
RunSettles == []<>(run \in {"none", "completed"} \/ task = "lost")

\* No second delivery of the task reopens a completed run.
FinishedStaysFinished == [][run = "completed" => run' = "completed"]_vars

\* Replicas that start together cannot keep each other from serving
\* (bootstrap.py, lifespan of main.py).
EveryReplicaServes == <>[](\A r \in Replica : api[r] = "serving")
=============================================================================
