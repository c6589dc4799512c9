---------------------------- MODULE HoneypotSync ----------------------------
(***************************************************************************)
(* The honeypot synchronization (services/honeypot_sync.py) as several     *)
(* processes of the API run it.  It keeps no cursor: each run fetches the  *)
(* honeypot's events, open alerts and attackers, inserts what it does not  *)
(* know, overwrites the alerts and attackers it knows, and marks the       *)
(* integration and the telemetry source of the honeypot, in one            *)
(* transaction that reads without locks.                                   *)
(*                                                                         *)
(* Covered: one organization, the failure path, items that cannot be       *)
(* parsed, deadlocks, unique constraints, analysts who set a severity.     *)
(* Not covered: paging (the honeypot returns at most 100 items of a kind), *)
(* the correlation beyond the counter of one group (AlertOps), the         *)
(* heartbeat of the source (Inventory).                                    *)
(***************************************************************************)
EXTENDS Integers, FiniteSets

CONSTANTS
    Process,   \* replicas of the API, each with its own _sync_lock
    Event,     \* items that never change
    Alert,     \* items with a severity, all of one alert group
    Attacker,  \* items with a risk
    MaxValue,  \* the highest severity or risk each item reaches
    SeverityInput, \* severities analysts give to the alerts
    None       \* no row, no value

Item == Event \cup Alert \cup Attacker

\* What the honeypot shows of an item: nothing, its severity or risk, or
\* something that cannot be parsed.  (Only open alerts are asked for; the row of
\* a closed one stays as it is.)
Absent == 0
Malformed == -1
Value == 1..4
Shown == {Absent, Malformed} \cup Value

ASSUME ItemAssumption ==
    /\ SeverityInput \subseteq Value
    /\ IsFiniteSet(Item) /\ MaxValue \in [Item -> Value]
    /\ \A e \in Event : MaxValue[e] = 1
    /\ Event \cap (Alert \cup Attacker) = {} /\ Alert \cap Attacker = {}

VARIABLES
    item,    \* what the honeypot shows of each item
    row,     \* honeypot_events, security_alerts, honeypot_attackers
    count,   \* occurrence_count of the alert group, 0 while there is none
    state,   \* the row of integration_states, or None
    source,  \* the status of the telemetry source "Honeypot SOC API", or None
    sync     \* the synchronization each process runs

vars == <<item, row, count, state, source, sync>>

\* integration_states; metadata_json is one column and is written whole.
StateRow == [status : {"connected", "error"}, alerts : Nat,
             metadata : [api_connected : BOOLEAN, events : Nat, attackers : Nat]]

SourceStatus == {"healthy", "critical"}

ASSUME NoneAssumption == None \notin StateRow \cup SourceStatus

NewState == [status |-> "unknown", alerts |-> 0,
             metadata |-> [api_connected |-> FALSE, events |-> 0, attackers |-> 0]]

\* A synchronization: where it is, whether the honeypot answered, the answer
\* (once the items are loaded, what is written of it), the items it inserts, and
\* the state, the source and the counter of the group as they were loaded.
Idle == [pc |-> "idle", ok |-> FALSE, answer |-> [i \in Item |-> Absent], created |-> {},
         state |-> None, source |-> None, count |-> 0]

Init ==
    /\ item = [i \in Item |-> Absent]
    /\ row = [i \in Item |-> Absent]
    /\ count = 0 /\ state = None /\ source = None
    /\ sync = [p \in Process |-> Idle]

------------------------------------------------------------------------------
(* The honeypot and the analysts                                           *)

Show(i, v) ==
    /\ item' = [item EXCEPT ![i] = v]
    /\ UNCHANGED <<row, count, state, source, sync>>

\* A new item, or an alert or attacker that has become worse.
Rise(i) ==
    /\ item[i] \in {Absent} \cup Value
    /\ \E v \in Value : v > item[i] /\ v <= MaxValue[i] /\ Show(i, v)

\* A time stamp or a number that cannot be parsed, until somebody repairs it.
Garble(a) == item[a] = Absent /\ Show(a, Malformed)
Repair(a) == item[a] = Malformed /\ Show(a, 1)

\* update_incident sets the severity of every alert of its group.
SetSeverity(v) ==
    /\ \E a \in Alert : row[a] # Absent /\ row[a] # v
    /\ row' = [i \in Item |-> IF i \in Alert /\ row[i] # Absent THEN v ELSE row[i]]
    /\ UNCHANGED <<item, count, state, source, sync>>

------------------------------------------------------------------------------
(* A synchronization                                                       *)

Step(p, new) == sync' = [sync EXCEPT ![p] = new]

Unwritten == <<item, row, count, state, source>>

\* A call that finds the lock of its process taken changes nothing.  The five
\* requests run together; one that fails, or a health that is not "ok", takes
\* the failure path.
Fetch(p) ==
    /\ sync[p].pc = "idle"
    /\ Step(p, [Idle EXCEPT !.pc = "state", !.ok = TRUE, !.answer = item])
    /\ UNCHANGED Unwritten

FetchFails(p) ==
    /\ sync[p].pc = "idle"
    /\ Step(p, [Idle EXCEPT !.pc = "state"])
    /\ UNCHANGED Unwritten

LoadState(p) ==
    /\ sync[p].pc = "state"
    /\ Step(p, [sync[p] EXCEPT !.pc = "load", !.state = state])
    /\ UNCHANGED Unwritten

\* _upsert_honeypot_inventory on the failure path.
LoadSource(p) ==
    /\ sync[p].pc = "load" /\ ~sync[p].ok
    /\ Step(p, [sync[p] EXCEPT !.pc = "commit", !.source = source])
    /\ UNCHANGED Unwritten

Given(p) == {i \in Item : sync[p].answer[i] # Absent}

\* Mutant: nothing is parsed.
ParsesNothing(p) == TRUE

Parses(p) == \A i \in Given(p) : sync[p].answer[i] \in Value

\* Mutant: a known alert or attacker is left as it was stored first.
WritesOnce(i, v) == row[i] = Absent

\* An event that is known is skipped; a known alert or attacker is overwritten
\* unless its columns have the values already.
Writes(i, v) == row[i] = Absent \/ (i \notin Event /\ row[i] # v)

\* _upsert_honeypot_inventory, then _upsert_event, _upsert_alert and
\* _upsert_attacker for each item: what they load, in one step.
LoadItems(p) ==
    /\ sync[p].pc = "load" /\ sync[p].ok /\ Parses(p)
    /\ Step(p, [sync[p] EXCEPT
                  !.pc = "commit", !.source = source, !.count = count,
                  !.created = {i \in Given(p) : row[i] = Absent},
                  !.answer = [i \in Item |-> IF i \in Given(p) /\ Writes(i, @[i])
                                            THEN @[i] ELSE Absent]])
    /\ UNCHANGED Unwritten

\* Mutant: what is overwritten counts as created.
Written(p, kind) == {i \in kind : sync[p].answer[i] # Absent}

Created(p, kind) == sync[p].created \cap kind

\* Mutant: a known alert that comes again is counted again.
CountedEvery(p) == {a \in Alert : sync[p].answer[a] # Absent}

\* upsert_alert_group is called for the alerts inserted and no others.
Counted(p) == Created(p, Alert)

GroupCount(p) ==
    IF Counted(p) = {} THEN count ELSE sync[p].count + Cardinality(Counted(p))

Loaded(p) == IF sync[p].state = None THEN NewState ELSE sync[p].state

\* The success path counts what it has created.
Connected(p) ==
    [status |-> "connected",
     alerts |-> Loaded(p).alerts + Cardinality(Created(p, Alert)),
     metadata |->
        [api_connected |-> TRUE,
         events |-> Loaded(p).metadata.events + Cardinality(Created(p, Event)),
         attackers |-> Loaded(p).metadata.attackers + Cardinality(Created(p, Attacker))]]

\* The failure path keeps the counters in the metadata.
Failed(p) ==
    [Loaded(p) EXCEPT !.status = "error", !.metadata.api_connected = FALSE]

\* SQLAlchemy inserts a new row whole and of a loaded one writes the columns
\* that have changed.
Merge(current, read, new) ==
    IF read = None THEN new
    ELSE [c \in DOMAIN new |-> IF new[c] = read[c] THEN current[c] ELSE new[c]]

\* The unique constraints: nobody has inserted one of the new rows meanwhile.
Unique(p) ==
    /\ sync[p].state = None => state = None
    /\ sync[p].source = None => source = None
    /\ \A i \in sync[p].created : row[i] = Absent
    /\ (Counted(p) # {} /\ sync[p].count = 0) => count = 0

Mark(p, status) == IF sync[p].source = status THEN source ELSE status

Commit(p) ==
    /\ sync[p].pc = "commit" /\ sync[p].ok
    /\ Unique(p)
    /\ row' = [i \in Item |-> IF sync[p].answer[i] # Absent THEN sync[p].answer[i] ELSE row[i]]
    /\ count' = GroupCount(p)
    /\ state' = Merge(state, sync[p].state, Connected(p))
    /\ source' = Mark(p, "healthy")
    /\ Step(p, Idle)
    /\ UNCHANGED item

CommitFailure(p) ==
    /\ sync[p].pc = "commit" /\ ~sync[p].ok
    /\ Unique(p)
    /\ state' = Merge(state, sync[p].state, Failed(p))
    /\ source' = Mark(p, "critical")
    /\ Step(p, Idle)
    /\ UNCHANGED <<item, row, count>>

InTransaction(p) == sync[p].pc \in {"load", "commit"}

\* An exception outside the try block rolls everything back and records
\* nothing: an item that does not parse or a broken constraint.
Raised == [Idle EXCEPT !.pc = "raised"]

Rollback(p) ==
    /\ \/ sync[p].pc = "load" /\ sync[p].ok /\ ~Parses(p)
       \/ sync[p].pc = "commit" /\ ~Unique(p)
    /\ Step(p, Raised)
    /\ UNCHANGED Unwritten

\* So does PostgreSQL when it ends a deadlock (the success path locks the source
\* before the state, the failure path the state before the source), and the end
\* of the process.
Abort(p) ==
    /\ InTransaction(p)
    /\ Step(p, Raised)
    /\ UNCHANGED Unwritten

\* honeypot_sync_loop logs the exception and waits for its next turn.
Retry(p) ==
    /\ sync[p].pc = "raised"
    /\ Step(p, Idle)
    /\ UNCHANGED Unwritten

Next ==
    \/ \E i \in Item : Rise(i)
    \/ \E a \in Alert : Garble(a) \/ Repair(a)
    \/ \E v \in SeverityInput : SetSeverity(v)
    \/ \E p \in Process :
          Fetch(p) \/ FetchFails(p) \/ LoadState(p) \/ LoadSource(p) \/ LoadItems(p)
          \/ Commit(p) \/ CommitFailure(p) \/ Rollback(p) \/ Abort(p)
          \/ Retry(p)

Spec == Init /\ [][Next]_vars

(* The loop of each process starts a synchronization again and again and a  *)
(* started one goes on.                                                     *)
Fairness ==
    \A p \in Process : WF_vars(Fetch(p) \/ LoadState(p) \/ LoadSource(p) \/ LoadItems(p)
                               \/ Commit(p) \/ CommitFailure(p) \/ Rollback(p)
                               \/ Retry(p))

FairSpec == Spec /\ Fairness

------------------------------------------------------------------------------
(* Properties                                                              *)

TypeOK ==
    /\ item \in [Item -> Shown]
    /\ row \in [Item -> {Absent} \cup Value]
    /\ count \in Nat
    /\ state \in StateRow \cup {None}
    /\ source \in SourceStatus \cup {None}
    /\ sync \in [Process -> [pc : {"idle", "state", "load", "commit", "raised"},
                             ok : BOOLEAN, answer : [Item -> Shown],
                             created : SUBSET Item, state : StateRow \cup {None},
                             source : SourceStatus \cup {None}, count : Nat]]

Known(kind) == {i \in kind : row[i] # Absent}

\* Every synchronization returns what the ones before returned, and two may
\* insert at the same time: no counter is ever ahead of the rows it counts.
CountsNeverAhead ==
    /\ count <= Cardinality(Known(Alert))
    /\ state # None =>
         /\ state.alerts <= Cardinality(Known(Alert))
         /\ state.metadata.events <= Cardinality(Known(Event))
         /\ state.metadata.attackers <= Cardinality(Known(Attacker))

\* The group moves only with an insertion: an alert that comes again with a
\* higher severity is overwritten, but neither counted again nor escalated.
GroupMovesOnlyByInsertion ==
    [][count' # count => \E a \in Alert : row[a] = Absent /\ row'[a] # Absent]_vars

\* What the honeypot shows and the source and state of a working integration.
UpToDate ==
    /\ \A i \in Item : item[i] \in Value => row[i] = item[i]
    /\ state # None /\ state.status = "connected" /\ state.metadata.api_connected
    /\ source = "healthy"

Disturbed ==
    \/ item' # item
    \/ \E v \in SeverityInput : SetSeverity(v)
    \/ \E p \in Process : Abort(p) \/ FetchFails(p)

\* Once the honeypot answers, nothing malformed is left and nobody interferes,
\* the rows take over what it shows, the state is connected and the source is
\* healthy for good, whatever stale transactions were open; a severity that an
\* analyst or a policy gave an alert is overwritten as well.
Converges ==
    <>[][~Disturbed]_vars /\ <>[](\A i \in Item : item[i] # Malformed) => <>[]UpToDate
=============================================================================
