------------------------------ MODULE Telemetry ------------------------------
(***************************************************************************)
(* Telemetry ingestion and heartbeat evaluation over one database.         *)
(*                                                                         *)
(* Concurrent requests of POST /telemetry/ingest (routers/telemetry.py)    *)
(* each run one transaction: they lock the row of their source (SELECT ..  *)
(* FOR UPDATE), verify the event against the head of the chain that row    *)
(* holds, and commit either a quarantine or a new event with a new head.   *)
(* The periodic task evaluate_heartbeats (worker.py) reads all the rows    *)
(* without a lock, decides, and then writes the columns it changed: its    *)
(* UPDATEs take the row locks one by one and are visible at its commit.    *)
(***************************************************************************)
EXTENDS TrustScore, Sequences

CONSTANTS
    Source,          \* identities of telemetry sources
    Handler,         \* requests that can be in progress at the same time
    Payload,         \* the requests a sender may make, genuine or not
    Hash,            \* event digests
    NoHash,          \* the previous_hash of a source's first event
    NoSource,        \* no row in telemetry_sources
    NoTime,          \* last_heartbeat_at of a source never heard of
    NoPayload,       \* the payload of an idle handler
    Free,            \* a row lock nobody holds
    Worker,          \* the heartbeat evaluation as a lock holder
    ExpectedHeartbeat, \* expected_heartbeat_seconds, in clock ticks
    MaxTime          \* bound on the clock

Status == {"healthy", "degraded", "critical", "unknown"}

SourceRow ==
    [status : Status, trust_score : 0..100, last_heartbeat_at : Nat \cup {NoTime},
     last_sequence : Nat, last_event_hash : Hash \cup {NoHash}]

PayloadType ==
    [source_id : Source, event_type : {"heartbeat", "canary", "log"},
     sequence : Nat, previous_hash : Hash \cup {NoHash}, event_hash : Hash,
     hash_valid : BOOLEAN, signature_valid : BOOLEAN,
     fields_complete : BOOLEAN, latency : Nat]

ASSUME PayloadAssumption == Payload \subseteq PayloadType
ASSUME NullAssumption ==
    /\ NoSource \notin SourceRow
    /\ NoTime \notin Nat
    /\ NoPayload \notin PayloadType
ASSUME HolderAssumption ==
    /\ Free \notin Handler \cup {Worker}
    /\ Worker \notin Handler
ASSUME TimeAssumption == ExpectedHeartbeat \in Nat /\ MaxTime \in Nat

VARIABLES
    source,    \* telemetry_sources: the committed row of each source
    events,    \* telemetry_events: the committed rows, per source, as inserted
    lock,      \* who holds the lock of each source's row
    handler,   \* the ingest requests in progress
    worker,    \* the heartbeat evaluation
    now        \* the server's clock

vars == <<source, events, lock, handler, worker, now>>

Registered == {s \in Source : source[s] # NoSource}

IdleHandler == [pc |-> "idle", payload |-> NoPayload, row |-> NoSource, at |-> 0]
IdleWorker  == [pc |-> "idle", read |-> [s \in Source |-> NoSource], at |-> 0]

NewRow ==
    [status |-> "unknown", trust_score |-> 0, last_heartbeat_at |-> NoTime,
     last_sequence |-> 0, last_event_hash |-> NoHash]

Init ==
    /\ source = [s \in Source |-> NoSource]
    /\ events = [s \in Source |-> <<>>]
    /\ lock = [s \in Source |-> Free]
    /\ handler = [h \in Handler |-> IdleHandler]
    /\ worker = IdleWorker
    /\ now = 0

\* POST /sources: the row appears with the column defaults.
CreateSource(s) ==
    /\ source[s] = NoSource
    /\ source' = [source EXCEPT ![s] = NewRow]
    /\ UNCHANGED <<events, lock, handler, worker, now>>

------------------------------------------------------------------------------
(* Ingestion                                                               *)

Begin(h, p) ==
    /\ handler[h].pc = "idle"
    /\ handler' = [handler EXCEPT ![h] =
                     [IdleHandler EXCEPT !.pc = "selecting", !.payload = p]]
    /\ UNCHANGED <<source, events, lock, worker, now>>

\* 404: no such source.
RejectUnknown(h) ==
    /\ handler[h].pc = "selecting"
    /\ source[handler[h].payload.source_id] = NoSource
    /\ handler' = [handler EXCEPT ![h] = IdleHandler]
    /\ UNCHANGED <<source, events, lock, worker, now>>

\* Mutant: a plain SELECT, which neither waits for the row's lock nor takes it.
SelectUnlocked(h) ==
    LET s == handler[h].payload.source_id IN
    /\ handler[h].pc = "selecting"
    /\ source[s] # NoSource
    /\ handler' = [handler EXCEPT ![h] =
                     [@ EXCEPT !.pc = "verifying", !.row = source[s], !.at = now]]
    /\ UNCHANGED <<source, events, lock, worker, now>>

\* The SELECT .. FOR UPDATE returns: the row is read as last committed.
SelectForUpdate(h) ==
    LET s == handler[h].payload.source_id IN
    /\ handler[h].pc = "selecting"
    /\ source[s] # NoSource
    /\ lock[s] = Free
    /\ lock' = [lock EXCEPT ![s] = h]
    /\ handler' = [handler EXCEPT ![h] =
                     [@ EXCEPT !.pc = "verifying", !.row = source[s], !.at = now]]
    /\ UNCHANGED <<source, events, worker, now>>

\* Mutant: the session goes back to the pool with its transaction open.
FinishLeakingLock(h) ==
    /\ handler' = [handler EXCEPT ![h] = IdleHandler]
    /\ UNCHANGED lock

\* The end of a handler's transaction, and of its lock on the row.
Finish(h) ==
    /\ lock' = [lock EXCEPT ![handler[h].payload.source_id] = Free]
    /\ handler' = [handler EXCEPT ![h] = IdleHandler]

\* Mutant: the head of the chain moves on over an event that was not stored.
QuarantinedRowAdvancing(row, p) ==
    [row EXCEPT !.trust_score = EventScore(p, VerifyEvent(p, row)),
                !.status = "critical",
                !.last_sequence = p.sequence,
                !.last_event_hash = p.event_hash]

\* The row an invalid event leaves: a new score, and critical whatever the score.
QuarantinedRow(row, p) ==
    [row EXCEPT !.trust_score = EventScore(p, VerifyEvent(p, row)),
                !.status = "critical"]

\* The row an accepted event leaves.
AcceptedRow(row, p, at) ==
    LET score == EventScore(p, VerifyEvent(p, row)) IN
    [last_heartbeat_at |-> IF p.event_type \in {"heartbeat", "canary"}
                           THEN at ELSE row.last_heartbeat_at,
     trust_score       |-> score,
     status            |-> ScoreStatus(score),
     last_sequence     |-> p.sequence,
     last_event_hash   |-> p.event_hash]

Quarantine(h) ==
    LET p == handler[h].payload
        row == handler[h].row
    IN
    /\ handler[h].pc = "verifying"
    /\ ~Valid(VerifyEvent(p, row))
    /\ source' = [source EXCEPT ![p.source_id] = QuarantinedRow(row, p)]
    /\ Finish(h)
    /\ UNCHANGED <<events, worker, now>>

\* The unique constraint on (source_id, sequence) of telemetry_events.
Duplicate(p) ==
    \E i \in DOMAIN events[p.source_id] :
        events[p.source_id][i].sequence = p.sequence

\* The commit inserts the event and moves the head; if the insert breaks the
\* unique constraint everything is rolled back and the answer is 409.
Accept(h) ==
    LET p == handler[h].payload
        row == handler[h].row
    IN
    /\ handler[h].pc = "verifying"
    /\ Valid(VerifyEvent(p, row))
    /\ IF Duplicate(p)
       THEN UNCHANGED <<source, events>>
       ELSE /\ source' = [source EXCEPT ![p.source_id] =
                            AcceptedRow(row, p, handler[h].at)]
            /\ events' = [events EXCEPT ![p.source_id] = Append(@, p)]
    /\ Finish(h)
    /\ UNCHANGED <<worker, now>>

\* The process or its connection dies before the commit: a rollback.
Abort(h) ==
    /\ handler[h].pc = "verifying"
    /\ Finish(h)
    /\ UNCHANGED <<source, events, worker, now>>

------------------------------------------------------------------------------
(* Heartbeat evaluation                                                    *)

\* Mutant: silence is only ever taken for a delay.
EvaluateNeverCritical(row, at) ==
    IF row.last_heartbeat_at = NoTime THEN
        [row EXCEPT !.status = "unknown", !.trust_score = Least(@, 20)]
    ELSE IF 2 * (at - row.last_heartbeat_at) > 3 * ExpectedHeartbeat THEN
        [row EXCEPT !.status = "degraded", !.trust_score = Least(@, 75)]
    ELSE row

\* Mutant: a heartbeat in time repairs the status of its source.
EvaluateRestoring(row, at) ==
    IF row.last_heartbeat_at = NoTime THEN
        [row EXCEPT !.status = "unknown", !.trust_score = Least(@, 20)]
    ELSE IF at - row.last_heartbeat_at > 3 * ExpectedHeartbeat THEN
        [row EXCEPT !.status = "critical", !.trust_score = Least(@, 40)]
    ELSE [row EXCEPT !.status = "healthy"]

\* What the loop body of evaluate_heartbeats makes of a row it has read.
Evaluate(row, at) ==
    IF row.last_heartbeat_at = NoTime THEN
        [row EXCEPT !.status = "unknown", !.trust_score = Least(@, 20)]
    ELSE IF at - row.last_heartbeat_at > 3 * ExpectedHeartbeat THEN
        [row EXCEPT !.status = "critical", !.trust_score = Least(@, 40)]
    ELSE IF 2 * (at - row.last_heartbeat_at) > 3 * ExpectedHeartbeat THEN
        [row EXCEPT !.status = "degraded", !.trust_score = Least(@, 75)]
    ELSE row

\* The rows with a changed column: only those are part of the flush.
Dirty ==
    {s \in Source : /\ worker.read[s] # NoSource
                    /\ Evaluate(worker.read[s], worker.at) # worker.read[s]}

\* One SELECT of all the rows, without a lock; the clock is read after it.
WorkerRead ==
    /\ worker.pc \in {"idle", "dead"}
    /\ worker' = [pc |-> "flushing", read |-> source, at |-> now]
    /\ UNCHANGED <<source, events, lock, handler, now>>

\* The UPDATE of one row waits for, and takes, the row's lock.
WorkerUpdate(s) ==
    /\ worker.pc = "flushing"
    /\ s \in Dirty
    /\ lock[s] = Free
    /\ lock' = [lock EXCEPT ![s] = Worker]
    /\ UNCHANGED <<source, events, handler, worker, now>>

\* Mutant: the whole row is written back as it was read and evaluated.
MergeWholeRow(row, read, new) == new

\* Only the columns that differ from what was read are in the UPDATE; the
\* others keep what is committed now.
Merge(row, read, new) ==
    [row EXCEPT
       !.status = IF new.status # read.status THEN new.status ELSE @,
       !.trust_score = IF new.trust_score # read.trust_score
                       THEN new.trust_score ELSE @]

ReleaseWorker ==
    lock' = [s \in Source |-> IF lock[s] = Worker THEN Free ELSE lock[s]]

WorkerCommit ==
    /\ worker.pc = "flushing"
    /\ \A s \in Dirty : lock[s] = Worker
    /\ source' = [s \in Source |->
                    IF s \in Dirty
                    THEN Merge(source[s], worker.read[s],
                               Evaluate(worker.read[s], worker.at))
                    ELSE source[s]]
    /\ ReleaseWorker
    /\ worker' = IdleWorker
    /\ UNCHANGED <<events, handler, now>>

\* The task dies before its commit; the next one starts in a minute.
WorkerAbort ==
    /\ worker.pc = "flushing"
    /\ ReleaseWorker
    /\ worker' = [IdleWorker EXCEPT !.pc = "dead"]
    /\ UNCHANGED <<source, events, handler, now>>

Tick ==
    /\ now < MaxTime
    /\ now' = now + 1
    /\ UNCHANGED <<source, events, lock, handler, worker>>

------------------------------------------------------------------------------

Ingest(h) ==
    \/ \E p \in Payload : Begin(h, p)
    \/ RejectUnknown(h)
    \/ SelectForUpdate(h)
    \/ Quarantine(h)
    \/ Accept(h)
    \/ Abort(h)

EvaluateHeartbeats ==
    \/ WorkerRead
    \/ \E s \in Source : WorkerUpdate(s)
    \/ WorkerCommit
    \/ WorkerAbort

Next ==
    \/ \E s \in Source : CreateSource(s)
    \/ \E h \in Handler : Ingest(h)
    \/ EvaluateHeartbeats
    \/ Tick

(* A request that has begun is carried to its end and the periodic task    *)
(* runs again and again; its process dies only finitely often.  Waiting    *)
(* for a row lock is strongly fair: the database queues the waiters of a   *)
(* lock.  Nothing makes senders send or sources register.                  *)
Fairness ==
    /\ \A h \in Handler :
         /\ WF_vars(RejectUnknown(h))
         /\ SF_vars(SelectForUpdate(h))
         /\ WF_vars(Quarantine(h) \/ Accept(h))
    /\ WF_vars(WorkerRead)
    /\ \A s \in Source : SF_vars(WorkerUpdate(s))
    /\ WF_vars(WorkerCommit)
    /\ <>[][~WorkerAbort]_vars

Spec == Init /\ [][Next]_vars
FairSpec == Spec /\ Fairness

------------------------------------------------------------------------------
(* Properties                                                              *)

TypeOK ==
    /\ source \in [Source -> SourceRow \cup {NoSource}]
    /\ events \in [Source -> Seq(Payload)]
    /\ lock \in [Source -> Handler \cup {Worker, Free}]
    /\ handler \in [Handler -> [pc : {"idle", "selecting", "verifying"},
                                payload : Payload \cup {NoPayload},
                                row : SourceRow \cup {NoSource},
                                at : Nat]]
    /\ worker \in [pc : {"idle", "flushing", "dead"},
                   read : [Source -> SourceRow \cup {NoSource}],
                   at : Nat]
    /\ now \in Nat

\* The last stored event of a source: what its row must point at.
HeadHash(s) ==
    IF events[s] = <<>> THEN NoHash ELSE events[s][Len(events[s])].event_hash

\* The stored events of every source are numbered without a gap, each holds
\* the hash of the one before it, all of them passed both digest checks, and
\* the row of the source points at the last one: under concurrent, replayed
\* and forged requests, rollbacks, and evaluations that write the row back.
ChainIntact ==
    \A s \in Source :
        /\ \A i \in 1..Len(events[s]) :
             /\ events[s][i].sequence = i
             /\ events[s][i].previous_hash =
                  IF i = 1 THEN NoHash ELSE events[s][i - 1].event_hash
             /\ events[s][i].hash_valid /\ events[s][i].signature_valid
        /\ source[s] = NoSource => events[s] = <<>>
        /\ source[s] # NoSource =>
             /\ source[s].last_sequence = Len(events[s])
             /\ source[s].last_event_hash = HeadHash(s)

\* A request that passed verification never meets the unique constraint: the
\* row lock is held from the read of last_sequence to the commit, so the 409
\* branch of the handler is a second line of defence that nothing reaches.
ReplayStoppedBeforeTheConstraint ==
    \A h \in Handler :
        /\ handler[h].pc = "verifying"
        /\ Valid(VerifyEvent(handler[h].payload, handler[h].row))
        => ~Duplicate(handler[h].payload)

\* A source turns healthy only by a stored, complete event: neither the
\* periodic task, working from rows read before, nor a quarantine restores it.
HealthyOnlyByAcceptedEvent ==
    [][\A s \in Registered :
          source[s].status # "healthy" /\ source'[s].status = "healthy" =>
             /\ Len(events'[s]) = Len(events[s]) + 1
             /\ events'[s][Len(events'[s])].fields_complete]_vars

\* Every request in progress is answered: no handler waits for ever for a row
\* lock that other handlers and the periodic task take again and again.
EveryRequestAnswered ==
    \A h \in Handler : handler[h].pc # "idle" ~> handler[h].pc = "idle"

Silent(s) ==
    /\ source[s] # NoSource
    /\ source[s].last_heartbeat_at # NoTime
    /\ now - source[s].last_heartbeat_at > 3 * ExpectedHeartbeat

\* A source without a heartbeat for three periods is marked critical, or
\* sends a heartbeat, even if other events of it keep being accepted.
SilentSourceTurnsCritical ==
    \A s \in Source :
        Silent(s) ~> (~Silent(s) \/ source[s].status = "critical")

Log == INSTANCE ChainedLog
         WITH Chain <- Source, Entry <- Payload, Genesis <- NoHash, log <- events

\* The stored events form the abstract append-only chained log.
LogSpec == Log!Spec

\* What the tests say of a score's band: the status shown for a source is
\* never better than the band its trust score falls in.
Rank(status) ==
    CASE status = "healthy" -> 2 [] status = "degraded" -> 1 [] OTHER -> 0
StatusNoBetterThanScore ==
    \A s \in Registered :
        Rank(source[s].status) <= Rank(ScoreStatus(source[s].trust_score))
==============================================================================
