# TRUST-SOC: specification and verification

TLA+ modules of the parts of TRUST-SOC where correctness depends on the order
of steps: several processes write the same rows, calls get lost, processes die.
Each module is read off the source under `src/`; `PROJECT.json` names, for
every definition, the lines it stands for.

## 1. The system

| Component | State | Operations | Interacts with |
|---|---|---|---|
| Collector agent (`agents/collector/trust_agent`) | sequence and last hash in memory and in the state file, spool file | heartbeat, send, flush, restart | calls `POST /telemetry/ingest`; looks at the status code only |
| Telemetry ingestion (`routers/telemetry.py`, `services/integrity.py`, `services/trust_score.py`) | `telemetry_sources` (status, score, last heartbeat, head of the chain), `telemetry_events` | verify, quarantine, accept, 409 | shares source rows with the heartbeat evaluation and the synchronizations |
| Heartbeat evaluation (`worker.py`) | none of its own | read all sources, lower status and score of late ones | writes source rows from a snapshot |
| Alert correlation (`services/alert_operations.py`) | `security_alerts`, `alert_groups`, `security_incidents` | apply policy, upsert group, open incident | called in the transaction of a synchronization |
| Analysts' requests (`routers/operations.py`) | the same tables, `noise_policies` | update group, create and update incident, create, update and delete policy | race the synchronization and each other |
| Wazuh synchronization (`services/wazuh_sync.py`) | `integration_states` (status, cursor, counters), process-local lock | fetch agents and alerts, one transaction for a batch, record an error | indexer, correlation, assets and sources |
| Honeypot synchronization (`services/honeypot_sync.py`) | honeypot events, alerts and attackers, integration state | fetch all, insert or overwrite, failure path | correlation, one asset and source |
| Assets, rules (`routers/assets.py`, `routers/rules.py`) | `assets`, `detection_rules` | create | the synchronizations keep assets too; start-up inserts rules |
| Blindness, portal (`services/blindness.py`, `routers/portal.py`) | none | which rules a source blinds, health of assets | read sources, rules, assets |
| Simulations (`routers/simulations.py`, `worker.py`) | `simulation_runs` | authorize, enqueue, execute | broker, slots of the worker |
| Start-up (`main.py`, `bootstrap.py`) | organization, administrator, default rules | bootstrap, start the loops | replicas race each other |
| Authentication (`security.py`, `dependencies.py`, `routers/auth.py`) | users, written once | login, refresh, check | every request |
| Reconstruction, overview, audit, web, deployment | rows written once | lists, counters | read only |

Hard behaviours: transactions at READ COMMITTED that read without locks and
write back columns later (evaluation, correlation, analysts); the one place
with a row lock (ingestion), on which the hash chain depends; an agent that
retries over an unreliable network and infers delivery from a status code;
files that survive crashes at different moments; synchronizations guarded
by a lock of their process only, with calls to other systems between reading a
cursor and moving it; a status that three writers set by different rules; tasks
that are acknowledged before they are done.  What makes each component correct:

- ingestion: the stored events of a source are a gapless hash chain whose head
  the source row holds; replays are stopped; only an accepted complete event
  makes a source healthy; every request is answered;
- evaluation: never disturbs the chain; silence ends in `critical`;
- agent: what it signs is delivered or kept, and it stays on the chain;
- correlation: a group counts its alerts exactly, keeps its incident, and
  gets one when it crosses a threshold;
- Wazuh intake: no alert is passed over silently, none stored twice, and the
  status recovers from failures and dead processes;
- honeypot intake: the rows end as what the honeypot shows, nothing is counted
  twice;
- inventory: a silent source is shown as such by every view, and recovers;
- simulations: a run ends unless its task was lost, and stays ended;
- start-up: every replica comes to serve.

The list of hazards, each at its line, is in `PROJECT.json`.

## 2. Modules

| Module | Models |
|---|---|
| `ChainedLog` | abstract: per source a log that grows by one entry at a time, entry *i* carrying sequence *i* and the hash of the entry before |
| `TrustScore` | the checks of an event, the score and its band |
| `Telemetry` | ingest requests and heartbeat evaluation over shared rows; implements `ChainedLog` |
| `Collector` | agent, network and the chain the service keeps; implements `ChainedLog` end to end |
| `AlertOps` | synchronization, analysts and policies over alerts, groups and incidents |
| `AlertIntake` | abstract: alerts become visible, are stored once, and a mark passes only what is settled |
| `WazuhSync` | state row, cursor, query and transaction of several processes; implements `AlertIntake` |
| `HoneypotSync` | several processes that copy what the honeypot shows |
| `Inventory` | asset, source and rules of a monitored system: synchronization, evaluation, requests, blindness map and portal |
| `Simulation` | the run and its task |
| `Platform` | start-up, replicas and worker around `Inventory` and `Simulation` |
| `TelemetryProofs`, `CollectorProofs`, `AlertOpsProofs`, `WazuhSyncProofs`, `HoneypotSyncProofs`, `PlatformProofs` | theorems about each of these modules |
| `MCTelemetry`, `MCTelemetryLive`, `MCCollector`, `MCAlertOps`, `MCWazuhSync`, `MCHoneypotSync`, `MCPlatform` | instances for TLC |

`Telemetry`. A request is `Begin`, then `SelectForUpdate` (the row is read and
locked in one step, waiting while another holds it) or `RejectUnknown`, then
`Quarantine`, `Accept` or `Abort`; commit and release of the lock are one step.
The evaluation is `WorkerRead` (no lock), one `WorkerUpdate` for each row with
a changed column (its lock), `WorkerCommit`, or `WorkerAbort`. SQLAlchemy puts
only changed columns into an UPDATE: `Merge` is that rule, and the mutant that
drops it breaks the chain. `active` is never cleared by any code and is left
out. The rows the two synchronizations keep for Wazuh agents and the honeypot
have no events and are not rows of this module.

`Collector`. The digest of an event is its place among those signed, so two
events never share one. Since `Telemetry` shows ingestion to be serialised by
the row lock, a call is one step of the service here. `Fail` covers timeouts,
connection errors and statuses other than 200; a call given up by the agent may
be lost or arrive later (`late`). `Crash` may come between any two steps. A
state file is replaced atomically (`tmp.replace`); failing writes and torn
spool lines are not modelled.

`AlertOps`. A transaction is a session holding rows as loaded and as changed;
its commit applies `Merge` to each. A synchronization takes the process's lock,
reads the policies once, upserts alert by alert (a row already in the session
is not read again) and commits; a broken unique constraint or foreign key
leaves only `SyncFail`. A request reads (`UpdateAlertGroup`, `CreateIncident`,
`CreateNoisePolicy`), runs its UPDATE of `security_alerts` (`Execute`, which
reaches the alerts committed by then) and commits (`CommitRequest`);
`UpdateIncident` and `Propagate` are the load and the two UPDATEs of
`update_incident`. Row locks of UPDATE statements need no variable: the values
written come from an earlier read, so their order is that of the commits.
Deadlocks of such locks end in a rollback, which is `SyncFail` or `EndRequest`.
The integration is part of a group's fingerprint, so the honeypot's alerts fall
into groups that the Wazuh synchronization does not write.
Risk scores, SLA dates, time stamps and MITRE lists are left out, as are the
`suppression_policy_id` columns (the foreign key is kept as `used`).

`WazuhSync`. A synchronization is one transaction that sets `syncing` (`Begin`,
or `FindNoState` and `CreateState` for the first), the calls and the reading of
the cursor (`ReadCursor`), the query (`AlertsSince`: the newest alerts of the
index after the cursor less five minutes, at most a batch), and one transaction
(`UpsertAlerts` selects what is known, `LoadState`, `Commit`). `Fail` is the
except branch, a transaction of its own, reached from the calls and from any
failure of the last transaction. The loop and the request
`POST /integrations/wazuh/sync` call the same function, so both are `Begin`.
Agents, groups and incidents of the same transaction are in `Inventory` and
`AlertOps`. The refinement maps the cursor less the overlap to the mark of
`AlertIntake`; it needs `OverlapAssumption`: five minutes cover the delay of
the index plus a synchronization. What is given up (older than a full batch of
stored alerts, or than the first look-back) is what the code gives up.

`HoneypotSync`. `Fetch` or `FetchFails`, `LoadState`, then `LoadItems` or, on
the failure path, `LoadSource`, and `Commit` or `CommitFailure`. An answer that
does not parse and a broken constraint end in `Rollback`, a deadlock or the end
of the process in `Abort`; neither records anything. `SetSeverity` is
`update_incident` of an analyst, whose value the next copy overwrites.

`Inventory`. The age of a heartbeat is kept in the classes the evaluation
distinguishes (up to 1.5 intervals, up to 3, more), and `Tick` ages stored and
fetched stamps alike. A synchronization stores the date Wazuh gives
(`lastKeepAlive`, else `dateAdd`), the present for an active agent that has
none and for any agent whose date `parse_timestamp` cannot read
(`TakenAsNow`), and NULL otherwise; `date` says which of these an agent has.
The honeypot's source is dated at each good synchronization and keeps its date
when a call fails. `feed` says which integration the settings enable: with
Wazuh, an API that is down leaves no trace in the source; with the honeypot, it
makes the source critical, and an answer that cannot be parsed leaves no trace.
`Conflict` is the unique host name, on which a whole synchronization is rolled
back. A source that an integration creates while its API is down has no
heartbeat: the evaluation calls it unknown, each synchronization critical, and
both count as reported. `Affected` and `SourceHealth` are the blindness map and
the portal as functions of the rows.

`Simulation`, `Platform`. The task is acknowledged when it starts (Celery's
default), so a worker that dies loses it; one still in the queue is delivered
again. Redis delivers a task a second time if it waits unacknowledged for
longer than an hour, which tasks this short do not. `Boot` and `InsertDefaults`
are the look-up and the one commit of `bootstrap`; the three look-ups agree,
since what they find was stored together. `Synchronize` is the loop, or a
`POST` to a route of `routers/integrations.py`, at any replica that serves: one
at a time, since several at once are the subject of `WazuhSync` and
`HoneypotSync`; a replica that dies takes it along or, if it ran at another,
does not. The worker is started
again at once: the time it is down is a time in which it takes no step.

## 3. Runs

| Run | Instance | Shows |
|---|---|---|
| `telemetry` | 1 source, 2 requests at a time, 5 payloads (two rivals for place 1, their successors, one forged, one incomplete), clock to 4 | chain, replay protection, refinement of `ChainedLog`, health only by an accepted event |
| `telemetry_live` | 1 source, 2 requests, heartbeat and log payloads, clock to 4, fairness | every request is answered; silence turns critical |
| `telemetry_status` | as `telemetry` | expected violation: late but critical sources are shown degraded |
| `collector` | 4 events, 3 failed calls, 1 crash, fairness | healing of one failure, state file on the chain, refinement, permanent lock-out, draining |
| `collector_reuse`, `collector_spool` | no crash | expected violations: a sequence used twice; a spooled event dropped |
| `alerts` | 2 groups, 3 alerts, repetition threshold 2, 2 policies, 1 transaction open at a time | exact counts and escalation over sequences of whole requests, two groups apart |
| `alert_races` | 1 group, 3 alerts, 2 callers of the sync in one process, 1 analyst, 2 transactions open | with overlaps: exact counts, links kept, a second incident or a stale copy only by a race on the link, no incident ahead of its group, escalation |
| `alert_refused` | as `alerts` | expected violation: suppression refused after the incident was closed |
| `wazuh` | 2 replicas, batches of 1, 2 alerts, clock to 2, fairness | refinement of `AlertIntake`, every alert settled, counter never ahead, status recovers |
| `honeypot` | 2 replicas, 1 event, 1 alert that gets worse, fairness | counters never ahead, groups move by insertion only, convergence after any disturbance |
| `platform` | 2 replicas, 1 slot, one source of either feed, agents with and without a date, 1 simulation, fairness | silence is reported by every view and from then on, recovery, a source ahead of its agent only where a date is missing, runs end, replicas serve |

Every property of a passing run has a mutant in `PROJECT.json`, a plausible
bug that TLC finds by that property.

Bounds. Properties of `Telemetry` are per source, and rows of different sources
are only touched together by the evaluation, whose step on each is independent:
one source is enough. Two requests are enough to race, with the worker a third
writer. Three ticks exceed three heartbeat periods of one tick; a fourth lets
something happen after. In `Collector` two failures in a row are what forks the
chain; three let the fork meet one more lost call, and four events give the
lock-out time to show. In `AlertOps` the rules differ at the first alert, at
the repetition threshold (2) and at the level threshold (12), and each is
reached from both sides; `MaxIncidents = 2` is one more than a group needs.
`Concurrency` bounds the open transactions of the instances: 1 in `alerts`, which
has two groups and more inputs, and 2 in `alert_races`. Two overlapping
analysts are left to the proofs, which bound nothing.
In `WazuhSync` two alerts and batches of one make a burst that is cut; with an
overlap and a synchronization time of one tick each, an alert can fall between
query and cursor; alerts that are in the index at the start are older than the
first query reaches, and the clock goes to 2 so that two synchronizations
follow each other. `IndexDelay` is 0: indexing may lag by any number of steps
but not by a tick. With `IndexDelay = 1`, `Overlap = 2` and `MaxTime = 3` the
same properties hold too (981,675 states), in about four minutes. In `HoneypotSync` two replicas hold stale rows of each other,
an event is counted in the metadata and an alert in the group; attackers are
written like alerts and counted like events and are left out of the instance.
In `Platform` the slot is scarcer than in the compose file (2), so that
evaluation and simulation wait for each other; one run and one source are
enough, as neither is touched by steps on another. The run is asked for where
the honeypot is the feed: a simulation needs some source to exist and shares
the slot with its evaluation, neither of which depends on the feed. Agents
start as never connected (`pending` and unknown statuses only change what the
first rows say), dated or not. A date that cannot be read is left to the proof
of `HeartbeatHonest` and excluded where `SilenceReported` speaks of
disconnected agents: such an agent is stored as just seen, so its source is
turned from critical to degraded by an evaluation when the next
synchronization is late.

Races on an incident. The check of `incident_id` and the insert are apart and
nothing serialises requests and synchronization, so a group can get two
incidents, an incident can miss a count, and a group can cross a threshold
without one. The properties state what is left, in any overlap: each of these
happens only in the commit of a transaction that had read the group before
another changed it (`OneIncidentUnlessRaced`, `IncidentFollowsUnlessRaced`,
`EscalatesUnlessRaced`; for the first two only a change of the link counts), and
even then no incident, orphaned ones included, shows more than its group, and
no alert names a stranger's incident (`IncidentNeverAhead`).

Fairness. `Telemetry`: a request that has begun continues (weak fairness),
waiting for a row lock is strongly fair because PostgreSQL queues the waiters
of a row, Celery beat starts the evaluation every minute (`worker.py:21-26`),
and its process dies only finitely often. `Collector`: the agent's loop and the
service go on; failures are bounded, so from some time on calls succeed. `WazuhSync`, `HoneypotSync`: the loops call again after every
interval and a started synchronization goes on; Wazuh does not fail every call
for ever, nor the database every last transaction (strong fairness of the two
calls and of the commit, each over all processes together), the honeypot's quiet is a premise of `Converges`;
processes die finitely often and are restarted (`compose.yaml:7`). `Platform`:
time passes, loops, scheduler and restarts go on, the broker's queue is first
in, first out (strong fairness for a waiting simulation), the worker does not
die in every evaluation, replicas die finitely often. That the remote side
stays silent or well is a premise of the two properties about it. No liveness
is claimed for `AlertOps`.

Deadlock is checked in every run.

## 4. Proofs

TLAPS checks the theorems for every value of the constants, under the named
assumptions of the modules (types of payloads, null values outside the types,
natural bounds). Every invariant, action property and refinement that a passing
run checks is also a theorem. The inductive invariants were checked by TLC on
the instances of section 3, or on smaller ones of the same modules, before
they were proved.

`TelemetryProofs`: `TypeCorrect`, `ChainIntegrity`, `ConstraintNeverHit`,
`ImplementsChainedLog`, `HealthyIsEarned`. `ChainIntact` is not inductive,
since a handler writes back the row it read; the invariant adds `RowLocked` (a
handler that verifies holds the lock and its row is the committed one) and
`RowsPersist` (a row read by the worker still exists). The worker may run at
any time without a lock because `Merge` cannot touch the head's columns.

`CollectorProofs`: `TypeCorrect`, `ImplementsChainedLog`, `LockOutIsPermanent`,
`StateFileTrue`, `OneFailureIsHealed`. `IInv` relates every event anywhere
(memory, files, network) to the history of signed events; the digest of an
event identifies it, so the service can only append what extends its head. For
the lock-out: once neither the files nor the network hold an event that is, or
extends, the head, each agent step only builds on acknowledged events, none of
which is the head. The last two rest on `JInv`, which is layered: while no
number has been signed twice, what was signed is itself a chain and the service
holds all of it but at most the last event (`ChainInv`); if moreover the agent
has never crashed, exactly the event that is not yet acknowledged waits, in the
spool, in the list being resent or in the call (`WaitInv`); and a single
failure cannot have made the agent sign a number twice, because the flush comes
before the next heartbeat (`HealInv`). `OneFailureIsHealed` therefore needs no
hypothesis about forks: their absence is what the last layer proves.

`AlertOpsProofs` has four invariants, since its properties hold under
different conditions; none bounds how many transactions are open:

- `IInv`, without a hypothesis, for `TypeCorrect` and `LinkKept`. A commit writes
  rows of a session that may be stale, so the property of the tables is not
  inductive: every link in a session must resolve in the tables or in the
  session's own inserts (`SessionLinked`), and an incident that one session
  inserts must be in no other (`ApartInv`).
- `OwnInv`, without a hypothesis, for `OneIncident`: an incident belongs to a
  group that has one (`Owned`), and a session inserts an incident only for a
  group that it read without one (`SessionOwns`). A commit that inserts one for a
  group that has one by then is thus the race the property names.
- `CountInv`, for `CountsExact`, under `OneProcess`: all callers of the
  synchronization share one process, hence one `_sync_lock`. What a
  synchronization holds of a group summarises the stored alerts and those it is
  about to insert, and nobody has moved the counters since it read them:
  requests of analysts never change them. With several processes the property
  is false, which is why it needs the hypothesis.
- `FollowInv`, for `IncidentHonest`, `IncidentFollows` and `Escalation`, under
  `OneProcess`: no incident shows more than its group (`Behind`), nor will one
  that a request is about to insert (`RequestBehind`). What a synchronization
  holds of a group is ahead of what it read, an incident it holds for that group
  shares the counter, and a group it has counted over a threshold holds an
  incident or is suppressed (`SyncFollows`). `Merge` writes only what differs
  from the row read, so what the tables show after the commit is that, column by
  column, unless another transaction changed the row in between.

`WazuhSyncProofs`: `TypeCorrect`, `CounterHonest`, `ImplementsAlertIntake`. The
mark moves at a commit and its safety was decided by a query before, so the
invariant says of every open synchronization that its hits, together with what
is stored, already answer for all alerts before the mark it will set
(`SyncInv`, `Covered`); an alert that is not indexed is recent (`IndexInv`).
`OverlapAssumption` is used where the code relies on the five minutes: what is
indexed between query and commit lies behind the new mark, never before it.
The theorem holds for any number of processes: a commit of another may move the
mark in between, but only adds to what is stored.

`HoneypotSyncProofs`: `TypeCorrect`, `CountsHonest`, `GroupOnlyByInsertion`. No
row is ever deleted, so a count that was not ahead when it was read is not ahead
when it is written back, and the constraint keeps two synchronizations from
counting the same row.

`PlatformProofs`: `TypeCorrect`, `HeartbeatHonest`, `CompletedRunsStay`. The
invariant carries the order of the ages through the synchronization: a date in
flight is no younger than the agent it came from, since time passes for both,
so that only a synchronization that took the present for a missing or garbled
date (`now`) can put a source ahead of its agent; and the task of a completed
run has nothing left to do.

Only model-checked: what needs fairness or a leads-to (`EveryRequestAnswered`,
`SilentSourceTurnsCritical`, `SpoolDrains`, `EveryAlertSettled`, `ConnectsAgain`,
`Converges`, `SilenceReported`, `RecoversAgain`, `RunSettles`,
`EveryReplicaServes`), which is out of the prover's reach, and the four expected
violations.

## 5. Disagreements found

- `worker.py:88` lifts a critical source to degraded when it is late but not
  yet silent (`telemetry_status`).
- A sequence number is used again while an event waits in the spool, although
  events are described as carrying a monotonic sequence (`collector_reuse`).
- A spooled event that the service quarantines is dropped from the spool,
  because the answer is 200 (`collector_spool`).
- Closing an incident does not lift the refusal to suppress its group, which
  the refusal itself promises (`alert_refused`).

One more thing a reader of the blindness map should know, though nothing in the
repository says otherwise: the rules of the first start name the source type
`wazuh` (`bootstrap.py:49`), the synchronization creates sources of the type
`wazuh_agent` (`wazuh_sync.py:190`), so that a lost agent blinds no default rule.

## 6. Plan

What is left:

1. Lemmas about `TrustScore` and about the pieces of the blindness map, which
   so far hold only through the modules that use them.
2. `Scoring`: risk, severity, aggregation windows and reconstruction as
   operators, checked over bounded inputs and bounded by theorems.

Not modelled, and why:

- authentication: no code changes a user once it is created (neither role, nor
  activity, nor `token_version`), so the validity of a token is a pure function
  of the token and the clock, and there is no order of steps to get wrong;
- reconstruction and the scores of findings: pure functions, floating point;
- reads: dashboards, lists and counters query what other modules model; their
  several SELECTs may see different commits, which no document excludes;
- torn spool lines: the module writes files in one step;
- web portal, logging, metrics, audit rows, migrations, deployment files: they
  keep no state the properties are about.
