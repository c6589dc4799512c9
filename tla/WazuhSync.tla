----------------------------- MODULE WazuhSync -----------------------------
(***************************************************************************)
(* The Wazuh synchronization (services/wazuh_sync.py) as several processes *)
(* of the API run it: the row of integration_states that holds its status, *)
(* cursor and counter, the query for the newest alerts after the cursor,   *)
(* the transaction that stores them, failures at each call, and crashes.   *)
(*                                                                         *)
(* Covered: one organization, replicas, alerts that the indexer shows only *)
(* some time after they were raised, bursts larger than a batch, unique    *)
(* constraints.  Not covered: the agents (Inventory), groups and incidents *)
(* (AlertOps), a database that is down.                                    *)
(***************************************************************************)
EXTENDS Integers, Sequences, FiniteSets

CONSTANTS
    Process,     \* replicas of the API, each with its own _sync_lock
    Batch,       \* wazuh_alert_batch_size
    Overlap,     \* the five minutes the query reaches behind the cursor
    Lookback,    \* wazuh_alert_lookback_hours, for the first query
    IndexDelay,  \* an alert is indexed at most so long after it was raised
    SyncTime,    \* a synchronization takes at most so long from query to commit
    Past,        \* times before the first process starts, of alerts already indexed
    MaxAlerts,   \* bound on the alerts raised
    MaxTime,     \* bound on the clock
    None         \* no value, no row

ASSUME BoundAssumption ==
    /\ {Overlap, Lookback, IndexDelay, SyncTime} \subseteq Nat
    /\ {Batch, MaxAlerts, MaxTime} \subseteq Nat
    /\ Batch > 0
ASSUME PastAssumption == Past \subseteq {t \in Int : t < 0}

\* What the five minutes have to cover for the cursor to miss nothing.
ASSUME OverlapAssumption == IndexDelay + SyncTime <= Overlap /\ SyncTime <= Lookback

Alert == 1..MaxAlerts
Time == 0..MaxTime
Stamp == Past \cup Time
Status == {"unknown", "syncing", "connected", "error"}

\* integration_states: status, last_success_at, synchronized_alerts.
StateRow == [status : Status, last_success : Time \cup {None}, alerts : Nat]

ASSUME NoneAssumption == None \notin Int \cup StateRow

VARIABLES
    now,      \* the clock
    raised,   \* when each alert was raised, in that order
    indexed,  \* alerts the indexer returns
    stored,   \* security_alerts
    state,    \* the row of integration_states, or None
    sync,     \* the synchronization each process runs
    first     \* history: the first cursor

vars == <<now, raised, indexed, stored, state, sync, first>>

\* A synchronization: where it is, the beginning of its query, the hits (from
\* "load" on, those it inserts), the state row it has loaded, and the time its
\* query was answered or, from "commit" on, the new cursor.
Idle == [pc |-> "idle", since |-> None, hits |-> {}, row |-> None, at |-> None]

Init ==
    /\ now = 0
    /\ raised \in {h \in UNION {[1..n -> Past] : n \in 0..MaxAlerts} :
                     \A i \in DOMAIN h, j \in DOMAIN h : i <= j => h[i] <= h[j]}
    /\ indexed = 1..Len(raised) /\ stored = {}
    /\ state = None /\ first = None
    /\ sync = [p \in Process |-> Idle]

------------------------------------------------------------------------------
(* The environment: the clock, the monitored hosts, the indexer.           *)

Tick ==
    /\ now < MaxTime
    /\ \A a \in 1..Len(raised) : a \in indexed \/ now < raised[a] + IndexDelay
    /\ \A p \in Process : sync[p].pc \in {"upsert", "load", "commit"} =>
                             now < sync[p].at + SyncTime
    /\ now' = now + 1
    /\ UNCHANGED <<raised, indexed, stored, state, sync, first>>

Raise ==
    /\ Len(raised) < MaxAlerts
    /\ raised' = Append(raised, now)
    /\ UNCHANGED <<now, indexed, stored, state, sync, first>>

Index(a) ==
    /\ a \in 1..Len(raised) /\ a \notin indexed
    /\ indexed' = indexed \cup {a}
    /\ UNCHANGED <<now, raised, stored, state, sync, first>>

------------------------------------------------------------------------------
(* A synchronization                                                       *)

\* sync_wazuh: a call that finds the lock of its process taken changes nothing.
LockFree(p) == sync[p].pc = "idle"

\* Mutant: a counter without a default value.
NewStateUncounted == [status |-> "unknown", last_success |-> None, alerts |-> None]

NewState == [status |-> "unknown", last_success |-> None, alerts |-> 0]

Step(p, new) == sync' = [sync EXCEPT ![p] = new]

Environment == <<now, raised, indexed>>

\* Mutant: a synchronization that another one seems to run is not repeated.
BeginUnlessSyncing(p) ==
    /\ LockFree(p)
    /\ state # None /\ state.status # "syncing"
    /\ state' = [state EXCEPT !.status = "syncing"]
    /\ Step(p, [Idle EXCEPT !.pc = "connect"])
    /\ UNCHANGED <<Environment, stored, first>>

\* The first transaction reads the state row FOR UPDATE, sets "syncing" and
\* commits: with the row locked, nothing comes in between.
Begin(p) ==
    /\ LockFree(p)
    /\ state # None
    /\ state' = [state EXCEPT !.status = "syncing"]
    /\ Step(p, [Idle EXCEPT !.pc = "connect"])
    /\ UNCHANGED <<Environment, stored, first>>

\* There is no row yet, and none to lock.
FindNoState(p) ==
    /\ LockFree(p)
    /\ state = None
    /\ Step(p, [Idle EXCEPT !.pc = "create"])
    /\ UNCHANGED <<Environment, stored, state, first>>

\* The insert: if another process has inserted the row since, the unique
\* constraint ends the synchronization before it can record an error.
CreateState(p) ==
    /\ sync[p].pc = "create"
    /\ IF state = None
       THEN /\ state' = [NewState EXCEPT !.status = "syncing"]
            /\ Step(p, [Idle EXCEPT !.pc = "connect"])
       ELSE /\ Step(p, Idle)
            /\ UNCHANGED state
    /\ UNCHANGED <<Environment, stored, first>>

\* Mutant: the query begins at the cursor itself.
SinceCursor == IF state.last_success # None THEN state.last_success
               ELSE now - Lookback - Overlap

Since == (IF state.last_success # None THEN state.last_success ELSE now - Lookback)
            - Overlap

\* Manager and indexer have answered; the cursor is read.
ReadCursor(p) ==
    /\ sync[p].pc = "connect"
    /\ Step(p, [sync[p] EXCEPT !.pc = "fetch", !.since = Since])
    /\ UNCHANGED <<Environment, stored, state, first>>

\* The newest hits of a query, at most Batch; ties are broken at will.
Newest(hits, answer) ==
    /\ Cardinality(answer) = IF Cardinality(hits) < Batch THEN Cardinality(hits) ELSE Batch
    /\ \A a \in answer, b \in hits \ answer : raised[a] >= raised[b]

AlertsSince(p) ==
    /\ sync[p].pc = "fetch"
    /\ \E answer \in SUBSET {a \in indexed : raised[a] >= sync[p].since} :
          /\ Newest({a \in indexed : raised[a] >= sync[p].since}, answer)
          /\ Step(p, [sync[p] EXCEPT !.pc = "upsert", !.since = None,
                                   !.hits = answer, !.at = now])
    /\ UNCHANGED <<Environment, stored, state, first>>

\* _upsert_alerts selects the hits that are stored and inserts the others.
UpsertAlerts(p) ==
    /\ sync[p].pc = "upsert"
    /\ Step(p, [sync[p] EXCEPT !.pc = "load", !.hits = @ \ stored])
    /\ UNCHANGED <<Environment, stored, state, first>>

\* The state row is loaded, without a lock, and the new cursor is taken, which
\* differs from whatever cursor was loaded.
LoadState(p) ==
    /\ sync[p].pc = "load"
    /\ Step(p, [sync[p] EXCEPT !.pc = "commit", !.at = now,
                                   !.row = [state EXCEPT !.last_success = None]])
    /\ UNCHANGED <<Environment, stored, state, first>>

\* Mutant: alerts without the constraint.
NoConstraint(p) == TRUE

\* The unique constraint on the external_id of the alerts.
Unique(p) == sync[p].hits \cap stored = {}

\* SQLAlchemy's UPDATE holds the columns whose value has changed since the load.
Merge(row, read, new) ==
    [c \in DOMAIN row |-> IF new[c] = read[c] THEN row[c] ELSE new[c]]

Connected(p) ==
    [status |-> "connected", last_success |-> sync[p].at,
     alerts |-> sync[p].row.alerts + Cardinality(sync[p].hits)]

Commit(p) ==
    /\ sync[p].pc = "commit"
    /\ Unique(p)
    /\ stored' = stored \cup sync[p].hits
    /\ state' = Merge(state, sync[p].row, Connected(p))
    /\ first' = IF first = None THEN sync[p].at ELSE first
    /\ Step(p, Idle)
    /\ UNCHANGED Environment

\* A call to Wazuh fails, the constraint is broken, or the database ends the
\* transaction: it is rolled back and another one records the error.  The cursor
\* stays where it was.
Fail(p) ==
    /\ sync[p].pc \in {"connect", "fetch", "commit"}
    /\ state' = [state EXCEPT !.status = "error"]
    /\ Step(p, Idle)
    /\ UNCHANGED <<Environment, stored, first>>

\* A process dies: what it has not committed is gone, and nothing tells the row
\* that it stopped.  The cluster or compose restarts it.
Crash(p) ==
    /\ sync[p].pc \notin {"idle", "down"}
    /\ Step(p, [Idle EXCEPT !.pc = "down"])
    /\ UNCHANGED <<Environment, stored, state, first>>

Restart(p) ==
    /\ sync[p].pc = "down"
    /\ Step(p, Idle)
    /\ UNCHANGED <<Environment, stored, state, first>>

Next ==
    \/ Tick \/ Raise \/ \E a \in Alert : Index(a)
    \/ \E p \in Process :
          Begin(p) \/ FindNoState(p) \/ CreateState(p) \/ ReadCursor(p) \/ AlertsSince(p)
          \/ UpsertAlerts(p) \/ LoadState(p) \/ Commit(p) \/ Fail(p) \/ Crash(p)
          \/ Restart(p)

Spec == Init /\ [][Next]_vars

(* The loop of each process starts a synchronization again and again and a  *)
(* started one goes on; Wazuh does not fail every call for ever nor the     *)
(* database every transaction, and some time nobody kills a process any     *)
(* more.                                                                    *)
Fairness ==
    /\ \A p \in Process :
          WF_vars(Begin(p) \/ FindNoState(p) \/ CreateState(p)
                  \/ UpsertAlerts(p) \/ LoadState(p) \/ Commit(p) \/ Restart(p)
                  \/ (sync[p].pc = "commit" /\ Fail(p)))
    /\ SF_vars(\E p \in Process : ReadCursor(p))
    /\ SF_vars(\E p \in Process : AlertsSince(p))
    /\ SF_vars(\E p \in Process : Commit(p))
    /\ <>[][\A p \in Process : ~Crash(p)]_vars

FairSpec == Spec /\ Fairness

------------------------------------------------------------------------------
(* Properties                                                              *)

SyncRecord ==
    [pc : {"idle", "create", "connect", "fetch", "upsert", "load", "commit", "down"},
     since : Int \cup {None}, hits : SUBSET Alert,
     row : StateRow \cup {None}, at : Time \cup {None}]

TypeOK ==
    /\ now \in Time /\ raised \in Seq(Stamp) /\ Len(raised) <= MaxAlerts
    /\ indexed \subseteq 1..Len(raised) /\ stored \subseteq indexed
    /\ state \in StateRow \cup {None}
    /\ sync \in [Process -> SyncRecord]
    /\ first \in Time \cup {None}
    /\ \A p \in Process : state = None => sync[p].pc \in {"idle", "create", "down"}

Stamped(set) == {<<a, raised[a]>> : a \in set}

Intake ==
    INSTANCE AlertIntake
        WITH Alerts <- Alert \X Stamp, Unset <- None,
             visible <- Stamped(indexed), stored <- Stamped(stored), reach <- IF first = None THEN None ELSE first - Overlap - Lookback,
             mark <- IF state = None \/ state.last_success = None THEN None
                     ELSE state.last_success - Overlap

\* Whatever fails, dies or overlaps, the cursor passes an alert only when it is
\* stored, when a batch of alerts as recent as it is stored, or when the first
\* query did not reach back to it; and no alert is indexed behind the cursor.
IntakeSpec == Intake!Spec

\* synchronized_alerts is never ahead of the alerts stored.  With several
\* processes it may fall behind: each adds to the value it has read.
CounterNeverAhead == state # None => state.alerts <= Cardinality(stored)

\* Stored, or given up: behind a full batch of stored alerts that are as recent,
\* or before what the first query had to reach back to.
Settled(a) ==
    \/ a \in stored
    \/ Cardinality({b \in stored : raised[b] >= raised[a]}) >= Batch
    \/ first # None /\ raised[a] < first - Overlap - Lookback

\* Every alert the indexer returns is settled in the end; and as a settled alert
\* stays settled, again and again there is none left.
EveryAlertSettled == []<>(\A a \in indexed : Settled(a))

\* The status comes back to "connected" after failures and after a process that
\* died and left "syncing" behind.
ConnectsAgain == []<>(state # None /\ state.status = "connected")
=============================================================================
