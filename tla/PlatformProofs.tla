--------------------------- MODULE PlatformProofs ---------------------------
(***************************************************************************)
(* Theorems about Platform for any number of replicas and slots, any rules *)
(* and any number of crashes.                                              *)
(***************************************************************************)
EXTENDS Platform, TLAPS

AgentRow == [status : AgentStatus, date : Dating, seen : Age]

SyncRow == [pc : {"idle", "load", "commit"}, status : Status \cup {None},
            age : Age \cup {None}, now : BOOLEAN, asset : BOOLEAN]

EnvInv ==
    /\ feed \in Feed /\ remote \in {"ok", "down", "malformed"}
    /\ agent \in AgentRow \cup {None}

SourceInv ==
    /\ asset \in BOOLEAN
    /\ source \in SourceRow \cup {None}
    /\ source # None => asset
    /\ check \in Status \cup {None}
    /\ check # None => source # None

\* A synchronization that leaves the status alone has loaded a source, and no
\* source is ever removed.
SyncInv ==
    /\ sync \in SyncRow
    /\ sync.pc = "load" => sync.status \in Status
    /\ sync.pc = "commit" => sync.status \in Status \/ source # None

\* A date that a synchronization has fetched and is about to store is not
\* younger than the agent's last sign of life.
AgeInv ==
    /\ sync.pc # "idle" /\ ~sync.now /\ agent # None /\ sync.age # None
       => sync.age >= agent.seen
    /\ feed = "honeypot" => agent = None

\* The task of a completed run has nothing left to do.
RunInv ==
    /\ run \in {"none", "queued", "running", "completed"}
    /\ task \in {"none", "unsent", "sent", "claimed", "started", "finished", "done", "lost"}
    /\ run = "completed" => task \in {"finished", "done"}

StartInv ==
    /\ rules \subseteq Default \cup RuleInput
    /\ org \in BOOLEAN /\ org = (rules # {})
    /\ api \in [Replica -> {"down", "inserting", "serving"}]
    /\ ~org => ~Serving

IInv == EnvInv /\ SourceInv /\ SyncInv /\ AgeInv /\ RunInv /\ StartInv

------------------------------------------------------------------------------

LEMMA InitInv == Init => IInv
<1>. SUFFICES ASSUME Init PROVE IInv
  OBVIOUS
<1>. USE NoneAssumption DEF Init, InventoryInit, SimulationInit
<1>1. EnvInv
  BY DEF EnvInv, AgentRow, AgentStatus, Feed, Age
<1>2. SourceInv /\ RunInv
  BY DEF SourceInv, RunInv
<1>3. SyncInv /\ AgeInv
  BY DEF SyncInv, AgeInv, SyncRow, Idle
<1>4. StartInv
  BY DEF StartInv, Serving
<1>5. QED
  BY <1>1, <1>2, <1>3, <1>4 DEF IInv

\* An age class moves up or stays, and so keeps its place behind another one.
LEMMA OlderKeepsOrder ==
    /\ \A a \in Age : Older(a) \in Age
    /\ \A a \in Age \cup {None} : Older(a) \in Age \cup {None}
    /\ \A a, b \in Age : a >= b => Older(a) >= Older(b)
BY NoneAssumption DEF Older, Age

\* Nothing about the run and the start changes while the inventory moves.
LEMMA QuietInv ==
    ASSUME RunInv, StartInv, UNCHANGED <<simulation, processes, rules>>
    PROVE  RunInv' /\ StartInv'
BY DEF RunInv, StartInv, Serving, simulation, processes

LEMMA TickInv ==
    ASSUME IInv, Tick, UNCHANGED <<simulation, processes>>
    PROVE  IInv'
<1>. USE DEF IInv, Tick
<1>1. RunInv' /\ StartInv'
  BY QuietInv
<1>2. EnvInv'
  BY OlderKeepsOrder DEF EnvInv, AgentRow
<1>3. source # None => source' \in SourceRow /\ source' # None
  BY OlderKeepsOrder, NoneAssumption DEF SourceInv, SourceRow
<1>4. SourceInv'
  BY <1>3 DEF SourceInv
<1>5. SyncInv'
  BY <1>3, OlderKeepsOrder DEF SyncInv, SyncRow
<1>6. AgeInv'
  <2>1. agent # None => agent'.seen = Older(agent.seen) /\ agent.seen \in Age
    BY DEF EnvInv, AgentRow
  <2>2. /\ sync'.age = Older(sync.age) /\ sync'.pc = sync.pc /\ sync'.now = sync.now
        /\ sync.age \in Age \cup {None}
    BY DEF SyncInv, SyncRow
  <2>3. sync'.age # None => sync.age \in Age
    BY <2>2, NoneAssumption DEF Older, Age
  <2>4. agent = None => agent' = None
    OBVIOUS
  <2>5. QED
    BY <2>1, <2>2, <2>3, <2>4, OlderKeepsOrder, NoneAssumption DEF AgeInv
<1>7. QED
  BY <1>1, <1>2, <1>4, <1>5, <1>6

\* The agent and the API of the feed move on their own.
LEMMA RemoteInv ==
    ASSUME IInv, RemoteChanges \/ KeepAlive \/ Disconnect \/ Remove,
           UNCHANGED <<simulation, processes>>
    PROVE  IInv'
<1>. USE DEF IInv, RemoteChanges, KeepAlive, Disconnect, Remove, AgentMoves
<1>1. UNCHANGED <<feed, asset, source, rules, sync, check>>
  OBVIOUS
<1>2. RunInv' /\ StartInv' /\ SourceInv' /\ SyncInv'
  BY <1>1, QuietInv DEF SourceInv, SyncInv
<1>3. EnvInv'
  BY DEF EnvInv, AgentRow, AgentStatus, Age, Feed
<1>4. agent' = None \/ (agent # None /\ agent'.seen \in {0, agent.seen})
  BY DEF EnvInv, AgentRow
<1>5. AgeInv'
  BY <1>1, <1>4 DEF AgeInv, Age, EnvInv, AgentRow, SyncInv, SyncRow
<1>6. QED
  BY <1>2, <1>3, <1>5

LEMMA FetchInv ==
    ASSUME IInv, Fetch, UNCHANGED <<simulation, processes>>
    PROVE  IInv'
<1>. USE DEF IInv
<1>1. UNCHANGED <<feed, remote, agent, asset, source, rules, check>>
  BY DEF Fetch
<1>2. RunInv' /\ StartInv' /\ EnvInv' /\ SourceInv'
  BY <1>1, QuietInv DEF EnvInv, SourceInv
<1>3. agent # None => /\ Mapped(agent.status) \in Status
                      /\ LastSeen(agent) \in {agent.seen, None}
                      /\ TakenAsNow(agent) \in BOOLEAN
                      /\ agent.seen \in Age
  BY DEF EnvInv, AgentRow, Mapped, LastSeen, TakenAsNow, Status
<1>4. /\ sync'.pc = "load" /\ sync'.status \in Status /\ sync' \in SyncRow
      /\ feed = "wazuh" => agent # None /\ sync'.age \in {agent.seen, None}
  BY <1>3 DEF Fetch, SyncRow, Idle, Status, Feed
<1>5. SyncInv'
  BY <1>4 DEF SyncInv
<1>6. AgeInv'
  BY <1>1, <1>3, <1>4 DEF AgeInv, Age, EnvInv, Feed
<1>7. QED
  BY <1>2, <1>5, <1>6

LEMMA LoadInv ==
    ASSUME IInv, Load, UNCHANGED <<simulation, processes>>
    PROVE  IInv'
<1>. USE DEF IInv
<1>1. UNCHANGED <<feed, remote, agent, asset, source, rules, check>>
  BY DEF Load
<1>2. RunInv' /\ StartInv' /\ EnvInv' /\ SourceInv'
  BY <1>1, QuietInv DEF EnvInv, SourceInv
<1>3. /\ sync'.pc = "commit" /\ sync' \in SyncRow
      /\ sync'.status \in Status \/ source # None
      /\ sync'.now = sync.now /\ (~sync.now => sync'.age = sync.age)
  <2>1. sync.pc = "load" /\ sync.status \in Status /\ sync \in SyncRow /\ asset \in BOOLEAN
    BY DEF Load, SyncInv, SourceInv
  <2>2. sync' = [sync EXCEPT !.pc = "commit", !.asset = asset,
                             !.age = sync'.age, !.status = sync'.status]
    BY <2>1 DEF Load, SyncRow
  <2>3. /\ sync'.age \in Age \cup {None}
        /\ ~sync.now => sync'.age = sync.age
    BY <2>1 DEF Load, SyncRow, Age
  <2>4. sync'.status \in Status \/ (sync'.status = None /\ source # None)
    BY <2>1 DEF Load, SyncRow
  <2>5. QED
    BY <2>1, <2>2, <2>3, <2>4 DEF SyncRow
<1>4. SyncInv'
  BY <1>1, <1>3 DEF SyncInv
<1>5. AgeInv'
  BY <1>1, <1>3 DEF AgeInv, Load
<1>6. QED
  BY <1>2, <1>4, <1>5

LEMMA CommitInv ==
    ASSUME IInv, Commit, UNCHANGED <<simulation, processes>>
    PROVE  IInv'
<1>. USE DEF IInv
<1>1. /\ UNCHANGED <<feed, remote, agent, rules, check>>
      /\ sync' = Idle /\ sync.pc = "commit"
  BY DEF Commit
<1>2. RunInv' /\ StartInv' /\ EnvInv'
  BY <1>1, QuietInv DEF EnvInv
<1>3. SyncInv'
  BY <1>1 DEF SyncInv, SyncRow, Idle
<1>4. Written \in SourceRow
  BY <1>1 DEF Written, Heartbeat, SyncInv, SyncRow, SourceInv, SourceRow
<1>5. SourceInv'
  BY <1>1, <1>4, NoneAssumption DEF Commit, SourceInv
<1>6. AgeInv'
  BY <1>1 DEF AgeInv, Idle
<1>7. QED
  BY <1>2, <1>3, <1>5, <1>6

LEMMA CheckInv ==
    ASSUME IInv, BeginCheck \/ CommitCheck, UNCHANGED <<simulation, processes>>
    PROVE  IInv'
<1>. USE DEF IInv
<1>1. UNCHANGED <<feed, remote, agent, asset, rules, sync>>
  BY DEF BeginCheck, CommitCheck
<1>2. RunInv' /\ StartInv' /\ EnvInv'
  BY <1>1, QuietInv DEF EnvInv
<1>3. CASE BeginCheck
  <2>1. Verdict \in Status /\ source # None
    BY <1>3 DEF BeginCheck, Verdict, SourceInv, SourceRow, Status
  <2>2. SourceInv' /\ SyncInv' /\ AgeInv'
    BY <1>1, <1>3, <2>1 DEF BeginCheck, SourceInv, SyncInv, AgeInv
  <2>3. QED
    BY <1>2, <2>2
<1>4. CASE CommitCheck
  <2>1. /\ source # None /\ source' \in SourceRow
        /\ source'.age = source.age
    BY <1>4 DEF CommitCheck, SourceInv, SourceRow
  <2>2. source' # None
    BY <2>1, NoneAssumption
  <2>3. SourceInv' /\ SyncInv' /\ AgeInv'
    BY <1>1, <1>4, <2>1, <2>2 DEF CommitCheck, SourceInv, SyncInv, AgeInv
  <2>4. QED
    BY <1>2, <2>3
<1>5. QED
  BY <1>3, <1>4

LEMMA RequestInv ==
    ASSUME IInv, Request
    PROVE  IInv'
<1>. USE DEF IInv
<1>1. UNCHANGED <<feed, remote, agent, source, sync, check, simulation, processes>>
  BY DEF Request, CreateAsset, CreateRule
<1>2. EnvInv' /\ RunInv' /\ SyncInv' /\ AgeInv'
  BY <1>1 DEF EnvInv, RunInv, SyncInv, AgeInv, simulation
<1>3. asset' \in {asset, TRUE}
  BY DEF Request, CreateAsset, CreateRule
<1>4. SourceInv'
  BY <1>1, <1>3 DEF SourceInv
<1>5. org
  BY DEF Request, StartInv
<1>6. StartInv'
  BY <1>1, <1>5 DEF StartInv, Serving, processes, Request, CreateAsset, CreateRule
<1>7. QED
  BY <1>2, <1>4, <1>6

\* Steps of the run leave the inventory alone and never leave "completed".
LEMMA SimulationInv ==
    ASSUME IInv, Authorize \/ Dispatch \/ Simulate
    PROVE  IInv' /\ (run = "completed" => run' = "completed")
<1>. USE DEF IInv
<1>1. UNCHANGED <<inventory, processes>>
  BY DEF Authorize, Dispatch, Simulate
<1>2. EnvInv' /\ SourceInv' /\ SyncInv' /\ AgeInv' /\ StartInv'
  BY <1>1 DEF inventory, processes, EnvInv, SourceInv, SyncInv, AgeInv, StartInv, Serving
<1>3. RunInv' /\ (run = "completed" => run' = "completed")
  BY DEF RunInv, Authorize, Dispatch, Simulate, CreateRun, Send, LoseTask, Claim,
         StartRun, FinishRun, Return
<1>4. QED
  BY <1>2, <1>3

LEMMA ReplicaInv ==
    ASSUME IInv, NEW r \in Replica, Boot(r) \/ InsertDefaults(r) \/ KillReplica(r)
    PROVE  IInv' /\ (run = "completed" => run' = "completed")
<1>. USE DEF IInv
<1>1. UNCHANGED <<feed, remote, agent, asset, source, check>>
  BY DEF Boot, InsertDefaults, KillReplica, inventory
<1>2. EnvInv' /\ SourceInv'
  BY <1>1 DEF EnvInv, SourceInv
<1>3. sync' = sync \/ sync' = Idle
  BY DEF Boot, InsertDefaults, KillReplica, inventory
<1>4. SyncInv' /\ AgeInv'
  <2>1. CASE sync' = sync
    BY <1>1, <2>1 DEF SyncInv, AgeInv
  <2>2. CASE sync' = Idle
    <3>1. sync' \in SyncRow /\ sync'.pc = "idle"
      BY <2>2 DEF Idle, SyncRow
    <3>2. QED
      BY <1>1, <3>1 DEF SyncInv, AgeInv
  <2>3. QED
    BY <1>3, <2>1, <2>2
<1>5. RunInv' /\ (run = "completed" => run' = "completed")
  BY DEF RunInv, Boot, InsertDefaults, KillReplica, LoseTask, simulation
<1>6. StartInv'
  <2>1. CASE Boot(r)
    BY <2>1 DEF Boot, StartInv, Serving, inventory
  <2>2. CASE InsertDefaults(r)
    BY <2>2, RuleAssumption DEF InsertDefaults, StartInv, Serving
  <2>3. CASE KillReplica(r)
    BY <2>3 DEF KillReplica, StartInv, Serving
  <2>4. QED
    BY <2>1, <2>2, <2>3
<1>7. QED
  BY <1>2, <1>4, <1>5, <1>6

LEMMA WorkerInv ==
    ASSUME IInv, KillWorker
    PROVE  IInv' /\ run' = run
<1>. USE DEF IInv
<1>1. /\ UNCHANGED <<feed, remote, agent, asset, source, rules, sync, processes>>
      /\ check' = None /\ run' = run /\ task' = Dropped
  BY DEF KillWorker, DropTask
<1>2. EnvInv' /\ SourceInv' /\ SyncInv' /\ AgeInv'
  BY <1>1 DEF EnvInv, SourceInv, SyncInv, AgeInv
<1>3. RunInv'
  BY <1>1 DEF RunInv, Dropped, Executing
<1>4. StartInv'
  BY <1>1 DEF StartInv, Serving, processes
<1>5. QED
  BY <1>1, <1>2, <1>3, <1>4

LEMMA StutterInv ==
    ASSUME IInv, UNCHANGED vars
    PROVE  IInv' /\ run' = run
BY DEF IInv, vars, inventory, simulation, processes, EnvInv, SourceInv, SyncInv, AgeInv,
       RunInv, StartInv, Serving

LEMMA StepInv ==
    ASSUME IInv, [Next]_vars
    PROVE  IInv' /\ (run = "completed" => run' = "completed")
<1>1. CASE Environment
  BY <1>1, TickInv, RemoteInv DEF Environment, simulation
<1>2. CASE Synchronize
  BY <1>2, FetchInv, LoadInv, CommitInv DEF Synchronize, simulation
<1>3. CASE Request
  BY <1>3, RequestInv DEF Request, simulation
<1>4. CASE Authorize \/ Dispatch \/ Simulate
  BY <1>4, SimulationInv
<1>5. CASE Evaluate
  BY <1>5, CheckInv DEF Evaluate, simulation
<1>6. CASE \E r \in Replica : Boot(r) \/ InsertDefaults(r) \/ KillReplica(r)
  BY <1>6, ReplicaInv
<1>7. CASE KillWorker
  BY <1>7, WorkerInv
<1>8. CASE UNCHANGED vars
  BY <1>8, StutterInv
<1>9. QED
  BY <1>1, <1>2, <1>3, <1>4, <1>5, <1>6, <1>7, <1>8 DEF Next

\* The invariant of the platform, for any replicas, slots and rules.
THEOREM Invariance == Spec => []IInv
<1>1. IInv /\ [Next]_vars => IInv'
  BY StepInv
<1>2. QED
  BY <1>1, InitInv, PTL DEF Spec

------------------------------------------------------------------------------

\* Types, whatever dies and however often: in particular nobody serves requests
\* before the organization is stored, and each source has its asset.
THEOREM TypeCorrect == Spec => []TypeOK
<1>1. IInv => TypeOK
  BY DEF IInv, EnvInv, SourceInv, SyncInv, RunInv, StartInv, TypeOK, AgentRow, SyncRow
<1>2. QED
  BY <1>1, Invariance, PTL

\* What the property says of a step.
OnlyByFallback ==
    /\ ~Ahead /\ Ahead' => sync.now
    /\ sync.pc = "commit" /\ sync' = Idle /\ source' # source /\ Ahead' => sync.now

\* Time moves stored stamps and the agent's alike, and a sign of life or the
\* removal of the agent ends the lead of a source.
LEMMA EnvironmentAhead ==
    ASSUME IInv, Environment
    PROVE  OnlyByFallback
<1>. USE DEF IInv, Environment
<1>1. CASE Tick
  <2>1. agent # None => agent'.seen = Older(agent.seen) /\ agent.seen \in Age
    BY <1>1 DEF Tick, EnvInv, AgentRow
  <2>2. source # None => source'.age = Older(source.age) /\ source.age \in Age \cup {None}
    BY <1>1 DEF Tick, SourceInv, SourceRow
  <2>3. (agent = None => agent' = None) /\ (source = None => source' = None)
    BY <1>1 DEF Tick
  <2>4. source # None /\ source'.age # None => source.age \in Age
    BY <2>2, NoneAssumption DEF Older, Age
  <2>5. Ahead' => Ahead
    BY <2>1, <2>2, <2>3, <2>4, OlderKeepsOrder, NoneAssumption DEF Ahead, Age
  <2>6. sync'.pc = sync.pc
    BY <1>1 DEF Tick, SyncInv, SyncRow
  <2>7. QED
    BY <2>5, <2>6 DEF OnlyByFallback, Idle
<1>2. CASE RemoteChanges \/ KeepAlive \/ Disconnect \/ Remove
  <2>1. UNCHANGED <<source, sync>>
    BY <1>2 DEF RemoteChanges, KeepAlive, Disconnect, Remove, AgentMoves
  <2>2. agent' = None \/ (agent # None /\ agent'.seen \in {0, agent.seen})
    BY <1>2 DEF RemoteChanges, KeepAlive, Disconnect, Remove, AgentMoves, EnvInv, AgentRow
  <2>3. source # None => source.age \in Age \cup {None}
    BY DEF SourceInv, SourceRow
  <2>4. Ahead' => Ahead
    BY <2>1, <2>2, <2>3 DEF Ahead, Age
  <2>5. QED
    BY <2>1, <2>4 DEF OnlyByFallback
<1>3. QED
  BY <1>1, <1>2

\* A synchronization writes the date it has fetched as it is.
LEMMA SynchronizeAhead ==
    ASSUME IInv, Synchronize
    PROVE  OnlyByFallback
<1>. USE DEF IInv, Synchronize
<1>1. CASE Fetch \/ Load
  <2>1. UNCHANGED <<source, agent>>
    BY <1>1 DEF Fetch, Load
  <2>2. QED
    BY <2>1 DEF OnlyByFallback, Ahead
<1>2. CASE Commit
  <2>1. sync.pc = "commit" /\ UNCHANGED agent
    BY <1>2 DEF Commit
  <2>2. CASE source' = source
    BY <2>1, <2>2 DEF OnlyByFallback, Ahead
  <2>3. CASE source' = Written /\ agent # None /\ ~sync.now
    <3>1. feed = "wazuh"
      BY <2>3 DEF AgeInv, EnvInv, Feed
    <3>2. Written.age = sync.age
      BY <3>1 DEF Written, Heartbeat
    <3>3. sync.age # None => sync.age >= agent.seen
      BY <2>1, <2>3 DEF AgeInv
    <3>4. sync.age \in Age \cup {None} /\ agent.seen \in Age
      BY <2>3 DEF SyncInv, SyncRow, EnvInv, AgentRow
    <3>5. ~Ahead'
      BY <2>1, <2>3, <3>2, <3>3, <3>4 DEF Ahead, Age
    <3>6. QED
      BY <3>5 DEF OnlyByFallback
  <2>4. CASE agent = None \/ sync.now
    BY <2>1, <2>4 DEF OnlyByFallback, Ahead, SyncInv, SyncRow
  <2>5. QED
    BY <1>2, <2>2, <2>3, <2>4 DEF Commit
<1>3. QED
  BY <1>1, <1>2

\* Whatever dies and however late a synchronization commits what it has fetched,
\* only a date that Wazuh left out or garbled lets a source look younger than the
\* last sign of life of its agent.
THEOREM HeartbeatHonest == Spec => HeartbeatAheadOnlyByFallback
<1>1. ASSUME IInv, [Next]_vars
      PROVE  [OnlyByFallback]_vars
  <2>1. CASE Environment
    BY <1>1, <2>1, EnvironmentAhead
  <2>2. CASE Synchronize
    BY <1>1, <2>2, SynchronizeAhead
  <2>3. CASE Evaluate
    <3>1. UNCHANGED <<agent, sync>>
      BY <2>3 DEF Evaluate, BeginCheck, CommitCheck
    <3>2. \/ source' = source
          \/ /\ source # None
             /\ source' # None => source'.age = source.age
      BY <1>1, <2>3 DEF Evaluate, BeginCheck, CommitCheck, IInv, SourceInv, SourceRow
    <3>3. Ahead' => Ahead
      BY <3>1, <3>2 DEF Ahead
    <3>4. QED
      BY <3>1, <3>3 DEF OnlyByFallback, Idle
  <2>4. CASE \/ Request \/ Authorize \/ Dispatch \/ Simulate \/ KillWorker
            \/ \E r \in Replica : Boot(r) \/ InsertDefaults(r) \/ KillReplica(r)
    <3>1. UNCHANGED <<agent, source>>
      BY <2>4 DEF Request, CreateAsset, CreateRule, Authorize, Dispatch, Simulate,
                  KillWorker, Boot, InsertDefaults, KillReplica, inventory
    <3>2. QED
      BY <3>1 DEF OnlyByFallback, Ahead
  <2>5. QED
    BY <1>1, <2>1, <2>2, <2>3, <2>4 DEF Next
<1>2. QED
  BY <1>1, Invariance, PTL DEF Spec, HeartbeatAheadOnlyByFallback, OnlyByFallback

\* A completed run stays completed, whatever is delivered, lost or killed.
THEOREM CompletedRunsStay == Spec => FinishedStaysFinished
<1>1. IInv /\ [Next]_vars => [run = "completed" => run' = "completed"]_vars
  BY StepInv
<1>2. QED
  BY <1>1, Invariance, PTL DEF Spec, FinishedStaysFinished
=============================================================================
