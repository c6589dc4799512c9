------------------------------ MODULE AlertOps ------------------------------
(***************************************************************************)
(* Alert correlation, incidents and noise policies over one database.      *)
(*                                                                         *)
(* The Wazuh synchronization (services/wazuh_sync.py) inserts a batch of   *)
(* alerts in one transaction and, for each of them, upserts its alert      *)
(* group and perhaps an incident (services/alert_operations.py).  Analysts *)
(* work on the same rows through routers/operations.py.  No transaction    *)
(* locks what it reads: it reads what is committed, decides, and at its    *)
(* commit overwrites the columns it changed.                               *)
(*                                                                         *)
(* An UPDATE waits for the row lock of another and keeps its own to the    *)
(* commit.  As the values written come from an earlier read, that order is *)
(* the order of the commits, and the locks need no variable.               *)
(***************************************************************************)
EXTENDS Integers, FiniteSets

CONSTANTS
    Alert,           \* alerts of the indexer, by external_id
    Group,           \* fingerprints
    GroupOf,         \* the fingerprint of each alert
    Level,           \* the Wazuh rule level of each alert
    Policy,          \* noise policies, by name
    PolicyPayload,   \* the policies an analyst may create
    SyncTask,        \* callers of sync_wazuh: the loop and POST /wazuh/sync
    Process,         \* processes of the API
    ProcessOf,       \* the process each sync task runs in
    Handler,         \* requests of analysts that can be open at a time
    GroupInput,      \* statuses PATCH /alert-groups may set
    IncidentInput,   \* statuses PATCH /incidents may set; Unset sets none
    SeverityInput,   \* severities PATCH /incidents may set; None sets none
    MinRuleLevel,    \* auto_incident_min_rule_level
    RepetitionThreshold, \* auto_incident_repetition_threshold
    BatchSize,       \* wazuh_alert_batch_size
    Concurrency,     \* bound on the transactions open at the same time
    MaxIncidents,    \* bound on the incidents ever created
    NoRow            \* no such row

GroupStatus == {"new", "acknowledged", "investigating", "suppressed", "resolved"}
IncidentStatus == {"open", "acknowledged", "investigating", "contained",
                   "resolved", "closed"}

\* SEVERITY_ORDER: low, medium, high, critical.
Severity == 1..4
None == 0
Unset == "unset"
Incident == 1..MaxIncidents
IncidentLink == Incident \cup {None}

GroupRow == [status : GroupStatus, severity : Severity, max_rule_level : Nat,
             occurrence_count : Nat, incident_id : IncidentLink]
AlertRow == [status : GroupStatus, severity : Severity, incident_id : IncidentLink]
IncidentRow == [group : Group, status : IncidentStatus, severity : Severity,
                occurrence_count : Nat]
PolicyRow == [action : {"suppress", "downgrade"}, target_severity : Severity \cup {None},
              subjects : SUBSET (Alert \cup Group), severities : SUBSET Severity,
              enabled : BOOLEAN, expires : BOOLEAN]

ASSUME AlertAssumption ==
    GroupOf \in [Alert -> Group] /\ Level \in [Alert -> Nat] /\ IsFiniteSet(Alert)
ASSUME InputAssumption ==
    /\ PolicyPayload \subseteq PolicyRow
    /\ GroupInput \subseteq GroupStatus
    /\ IncidentInput \subseteq IncidentStatus \cup {Unset}
    /\ SeverityInput \subseteq Severity \cup {None}
ASSUME ProcessAssumption == ProcessOf \in [SyncTask -> Process]
ASSUME NumberAssumption ==
    /\ MinRuleLevel \in Nat
    /\ RepetitionThreshold \in Nat \ {0, 1}
    /\ BatchSize \in Nat
    /\ Concurrency \in Nat
    /\ MaxIncidents \in Nat
ASSUME NoRowAssumption ==
    NoRow \notin GroupRow \cup AlertRow \cup IncidentRow \cup PolicyRow

VARIABLES
    alert,     \* security_alerts
    group,     \* alert_groups
    incident,  \* security_incidents
    policy,    \* noise_policies
    lapsed,    \* the expires_at of temporary policies has passed
    sync,      \* the transaction of each synchronization
    request    \* the transaction of each analyst's request

vars == <<alert, group, incident, policy, lapsed, sync, request>>

Stored == {a \in Alert : alert[a] # NoRow}
AlertsOf(g) == {a \in Stored : GroupOf[a] = g}

NoGroups == [g \in Group |-> NoRow]
NoIncidents == [i \in Incident |-> NoRow]

\* A session: the rows as they were loaded and as they are to be written.
IdleSync ==
    [pc |-> "idle", batch |-> {}, policies |-> [p \in Policy |-> NoRow], used |-> {},
     alerts |-> [a \in Alert |-> NoRow], readGroup |-> NoGroups, group |-> NoGroups,
     readIncident |-> NoIncidents, incident |-> NoIncidents]

\* An analyst's request: also the columns its UPDATE of security_alerts sets,
\* for the alerts of which groups, and the rows that UPDATE has reached.
NoColumns == [status |-> Unset, severity |-> None, incident_id |-> None]
IdleRequest ==
    [pc |-> "idle", name |-> Unset, readGroup |-> NoGroups, group |-> NoGroups,
     readIncident |-> NoIncidents, incident |-> NoIncidents, policy |-> NoRow,
     columns |-> NoColumns, targets |-> {}, alerts |-> {}]

Init ==
    /\ alert = [a \in Alert |-> NoRow]
    /\ group = NoGroups
    /\ incident = NoIncidents
    /\ policy = [p \in Policy |-> NoRow]
    /\ lapsed = FALSE
    /\ sync = [t \in SyncTask |-> IdleSync]
    /\ request = [h \in Handler |-> IdleRequest]

Open == {t \in SyncTask : sync[t].pc # "idle"}
        \cup {h \in Handler : request[h].pc # "idle"}

\* Incidents that exist or that an open transaction has loaded or will insert.
Taken ==
    {i \in Incident :
       \/ incident[i] # NoRow
       \/ \E t \in SyncTask : sync[t].incident[i] # NoRow
       \/ \E h \in Handler : request[h].incident[i] # NoRow}

Fresh == {i \in Incident \ Taken : \A j \in Incident \ Taken : i <= j}

------------------------------------------------------------------------------
(* What a transaction writes                                               *)

\* Mutant: a loaded row is written back as a whole.
MergeWholeRow(row, read, new) == IF new = NoRow THEN row ELSE new

\* Only changed columns are part of the UPDATE of a loaded row; a row that
\* was not loaded is inserted, or left alone if there is none.
Merge(row, read, new) ==
    IF new = NoRow THEN row
    ELSE IF read = NoRow THEN new
    ELSE [c \in DOMAIN row |-> IF new[c] = read[c] THEN row[c] ELSE new[c]]

WriteGroups(session) ==
    group' = [g \in Group |->
                Merge(group[g], session.readGroup[g], session.group[g])]

WriteIncidents(session) ==
    incident' = [i \in Incident |->
                   Merge(incident[i], session.readIncident[i], session.incident[i])]

NewIncident(g, row) ==
    [group |-> g, status |-> "open", severity |-> row.severity,
     occurrence_count |-> row.occurrence_count]

------------------------------------------------------------------------------
(* Noise policies                                                          *)

\* policy_matches: the conditions on rule, endpoint, title and rule groups
\* select the subjects of a policy, alerts and groups.
Matches(p, subject, severity) ==
    /\ p.enabled /\ ~(p.expires /\ lapsed)
    /\ subject \in p.subjects
    /\ p.severities # {} => severity \in p.severities

SeverityFromLevel(level) ==
    IF level >= 15 THEN 4 ELSE IF level >= 12 THEN 3 ELSE IF level >= 7 THEN 2 ELSE 1

\* apply_policy: the severity of an alert after the policy, if one, applied.
AlertSeverity(a, p) ==
    IF p # NoRow /\ p.action = "downgrade" /\ p.target_severity # None
    THEN p.target_severity
    ELSE SeverityFromLevel(Level[a])

Suppresses(p) == p # NoRow /\ p.action = "suppress"

------------------------------------------------------------------------------
(* Synchronization                                                         *)

\* Mutant: any number of synchronizations at a time in one process.
SyncLockFree(t) == sync[t].pc = "idle"

\* _sync_lock of the process; a caller that finds it taken does nothing.
SyncLock(t) ==
    \A u \in SyncTask : ProcessOf[u] = ProcessOf[t] => sync[u].pc = "idle"

\* The hits of the indexer are fetched, and those already stored skipped; the
\* enabled policies are read once for the whole batch.
SyncStart(t) ==
    /\ SyncLock(t)
    /\ Cardinality(Open) < Concurrency
    /\ \E batch \in SUBSET (Alert \ Stored) :
         /\ batch # {} /\ Cardinality(batch) <= BatchSize
         /\ sync' = [sync EXCEPT ![t] =
              [IdleSync EXCEPT
                 !.pc = "upserting", !.batch = batch,
                 !.policies = [p \in Policy |->
                    IF policy[p] # NoRow /\ policy[p].enabled
                    THEN policy[p] ELSE NoRow]]]
    /\ UNCHANGED <<alert, group, incident, policy, lapsed, request>>

\* Mutant: the counter starts at the second alert of a group.
UpsertedGroupUncounted(row, a, p) ==
    IF row = NoRow
    THEN [status |-> IF Suppresses(p) THEN "suppressed" ELSE "new",
          severity |-> AlertSeverity(a, p), max_rule_level |-> Level[a],
          occurrence_count |-> 0, incident_id |-> None]
    ELSE [row EXCEPT
            !.occurrence_count = @ + 1,
            !.max_rule_level = IF Level[a] > @ THEN Level[a] ELSE @,
            !.severity = IF AlertSeverity(a, p) > @ THEN AlertSeverity(a, p) ELSE @,
            !.status = IF Suppresses(p) THEN "suppressed" ELSE @]

\* The first part of upsert_alert_group.
UpsertedGroup(row, a, p) ==
    IF row = NoRow
    THEN [status |-> IF Suppresses(p) THEN "suppressed" ELSE "new",
          severity |-> AlertSeverity(a, p), max_rule_level |-> Level[a],
          occurrence_count |-> 1, incident_id |-> None]
    ELSE [row EXCEPT
            !.occurrence_count = @ + 1,
            !.max_rule_level = IF Level[a] > @ THEN Level[a] ELSE @,
            !.severity = IF AlertSeverity(a, p) > @ THEN AlertSeverity(a, p) ELSE @,
            !.status = IF Suppresses(p) THEN "suppressed" ELSE @]

\* Mutant: the repetition rule asks for one alert more.
MeetsAboveThreshold(row) ==
    \/ row.max_rule_level >= MinRuleLevel
    \/ row.occurrence_count > RepetitionThreshold /\ row.severity >= 2

MeetsThreshold(row) ==
    \/ row.max_rule_level >= MinRuleLevel
    \/ row.occurrence_count >= RepetitionThreshold /\ row.severity >= 2

\* Mutant: the repetition rule leaves out the groups that are just medium.
EscalatesAboveMedium(row) ==
    /\ row.status # "suppressed"
    /\ row.incident_id = None
    /\ \/ row.max_rule_level >= MinRuleLevel
       \/ row.occurrence_count >= RepetitionThreshold /\ row.severity > 2

\* auto_incident.
Escalates(row) ==
    /\ row.status # "suppressed"
    /\ row.incident_id = None
    /\ MeetsThreshold(row)

\* Mutant: the new counters stay with the group.
IncidentUnrefreshed(seen, row) ==
    [seen EXCEPT !.severity = IF row.severity > @ THEN row.severity ELSE @]

\* What a further alert of the group makes of its incident.
RefreshedIncident(seen, row) ==
    [seen EXCEPT !.occurrence_count = row.occurrence_count,
                 !.severity = IF row.severity > @ THEN row.severity ELSE @]

\* A row the session has loaded keeps its state in the session, whatever
\* was committed since; any other is loaded now.
LoadedGroup(t, g) == IF sync[t].group[g] # NoRow THEN sync[t].group[g] ELSE group[g]
LoadedIncident(t, i) ==
    IF sync[t].incident[i] # NoRow THEN sync[t].incident[i] ELSE incident[i]
FirstRead(kept, now, row) == IF kept # NoRow THEN row ELSE now

\* One alert of the batch, with the first policy in the list that matches it.
Upsert(t, a, q, p) ==
    LET g == GroupOf[a]
        s == sync[t]
        row == UpsertedGroup(LoadedGroup(t, g), a, p)
        session(newRow, newIncident, i) ==
            [s EXCEPT
               !.batch = @ \ {a},
               !.used = @ \cup q,
               !.alerts[a] = [status |-> IF Suppresses(p) THEN "suppressed" ELSE "new",
                              severity |-> AlertSeverity(a, p), incident_id |-> i],
               !.readGroup[g] = FirstRead(s.group[g], group[g], @),
               !.group[g] = newRow,
               !.readIncident = IF i = None THEN @ ELSE
                   [s.readIncident EXCEPT
                      ![i] = FirstRead(s.incident[i], incident[i], s.readIncident[i])],
               !.incident = IF i = None THEN @ ELSE [@ EXCEPT ![i] = newIncident]]
    IN
    /\ sync[t].pc = "upserting"
    /\ a \in sync[t].batch
    /\ \/ /\ Escalates(row)
          /\ \E i \in Fresh :
               sync' = [sync EXCEPT ![t] =
                 session([row EXCEPT !.status = "investigating", !.incident_id = i],
                         NewIncident(g, row), i)]
       \/ /\ ~Escalates(row)
          /\ row.incident_id = None
          /\ sync' = [sync EXCEPT ![t] = session(row, NoRow, None)]
       \/ /\ row.incident_id # None
          /\ LET i == row.incident_id IN
             sync' = [sync EXCEPT ![t] =
               session(row, RefreshedIncident(LoadedIncident(t, i), row), i)]
    /\ UNCHANGED <<alert, group, incident, policy, lapsed, request>>

Applicable(t, a) ==
    {p \in Policy : /\ sync[t].policies[p] # NoRow
                    /\ Matches(sync[t].policies[p], a, SeverityFromLevel(Level[a]))}

SyncAlert(t) ==
    \E a \in sync[t].batch :
        IF Applicable(t, a) = {} THEN Upsert(t, a, {}, NoRow)
        ELSE \E p \in Applicable(t, a) : Upsert(t, a, {p}, sync[t].policies[p])

\* The unique constraints and the foreign keys to noise_policies hold.
SyncConsistent(s) ==
    /\ \A a \in Alert : s.alerts[a] # NoRow => alert[a] = NoRow
    /\ \A g \in Group : s.group[g] # NoRow /\ s.readGroup[g] = NoRow => group[g] = NoRow
    /\ \A p \in s.used : policy[p] # NoRow

SyncCommit(t) ==
    /\ sync[t].pc = "upserting"
    /\ sync[t].batch = {}
    /\ SyncConsistent(sync[t])
    /\ alert' = [a \in Alert |-> Merge(alert[a], NoRow, sync[t].alerts[a])]
    /\ WriteGroups(sync[t])
    /\ WriteIncidents(sync[t])
    /\ sync' = [sync EXCEPT ![t] = IdleSync]
    /\ UNCHANGED <<policy, lapsed, request>>

\* Any exception, a broken constraint among them, rolls all of it back.
SyncFail(t) ==
    /\ sync[t].pc = "upserting"
    /\ sync' = [sync EXCEPT ![t] = IdleSync]
    /\ UNCHANGED <<alert, group, incident, policy, lapsed, request>>

------------------------------------------------------------------------------
(* Analysts' requests                                                      *)

Begin(h, session) ==
    /\ request[h].pc = "idle"
    /\ Cardinality(Open) < Concurrency
    /\ request' = [request EXCEPT ![h] = session]
    /\ UNCHANGED <<alert, group, incident, policy, lapsed, sync>>

\* A session that has loaded one group and changes it.
Changing(g, row, columns) ==
    [IdleRequest EXCEPT !.pc = "executing",
                        !.readGroup[g] = group[g], !.group[g] = row,
                        !.columns = columns, !.targets = {g}]

\* PATCH /alert-groups/{id}, with the 409 for a group that has an incident.
UpdateAlertGroup(h, g, status) ==
    /\ group[g] # NoRow
    /\ IF status = "suppressed" /\ group[g].incident_id # None
       THEN Begin(h, [IdleRequest EXCEPT !.pc = "refused", !.targets = {g}])
       ELSE Begin(h, Changing(g, [group[g] EXCEPT !.status = status],
                              [NoColumns EXCEPT !.status = status]))

\* Mutant: every request opens an incident of its own.
CreateAnotherIncident(h, g) ==
    /\ group[g] # NoRow
    /\ \E i \in Fresh :
         Begin(h, [Changing(g, [group[g] EXCEPT !.incident_id = i,
                                                !.status = "investigating"],
                            [NoColumns EXCEPT !.incident_id = i])
                   EXCEPT !.incident[i] = NewIncident(g, group[g])])

\* POST /alert-groups/{id}/incident returns the incident the group has, or
\* creates it; either way all the alerts of the group are linked to it.
CreateIncident(h, g) ==
    /\ group[g] # NoRow
    /\ \/ /\ group[g].incident_id # None
          /\ Begin(h, Changing(g, group[g],
                       [NoColumns EXCEPT !.incident_id = group[g].incident_id]))
       \/ /\ group[g].incident_id = None
          /\ \E i \in Fresh :
               Begin(h, [Changing(g, [group[g] EXCEPT !.incident_id = i,
                                                      !.status = "investigating"],
                                  [NoColumns EXCEPT !.incident_id = i])
                         EXCEPT !.incident[i] = NewIncident(g, group[g])])

\* POST /noise-policies applies the policy to all the groups it matches, with
\* no look at their incidents, and to their alerts.
CreateNoisePolicy(h, p, payload) ==
    LET matched == {g \in Group : group[g] # NoRow
                                  /\ Matches(payload, g, group[g].severity)}
        changed(row) ==
            IF payload.action = "suppress" THEN [row EXCEPT !.status = "suppressed"]
            ELSE IF payload.target_severity # None
            THEN [row EXCEPT !.severity = payload.target_severity]
            ELSE row
    IN
    /\ policy[p] = NoRow
    /\ payload.action = "downgrade" => payload.target_severity # None
    /\ Begin(h, [IdleRequest EXCEPT
         !.pc = "executing", !.name = p, !.policy = payload, !.targets = matched,
         !.readGroup = [g \in Group |-> IF g \in matched THEN group[g] ELSE NoRow],
         !.group = [g \in Group |-> IF g \in matched THEN changed(group[g]) ELSE NoRow],
         !.columns = IF payload.action = "suppress"
                     THEN [NoColumns EXCEPT !.status = "suppressed"]
                     ELSE [NoColumns EXCEPT !.severity = payload.target_severity]])

\* The UPDATE of security_alerts reaches the rows committed by now.
Execute(h) ==
    /\ request[h].pc = "executing"
    /\ request' = [request EXCEPT ![h].pc = "committing",
                     ![h].alerts = {a \in Stored : GroupOf[a] \in request[h].targets}]
    /\ UNCHANGED <<alert, group, incident, policy, lapsed, sync>>

SetColumns(row, columns) ==
    [row EXCEPT
       !.status = IF columns.status # Unset THEN columns.status ELSE @,
       !.severity = IF columns.severity # None THEN columns.severity ELSE @,
       !.incident_id = IF columns.incident_id # None THEN columns.incident_id ELSE @]

\* The name of a policy is unique.
CommitRequest(h) ==
    LET s == request[h] IN
    /\ s.pc = "committing"
    /\ s.policy # NoRow => policy[s.name] = NoRow
    /\ WriteGroups(s)
    /\ WriteIncidents(s)
    /\ alert' = [a \in Alert |-> IF a \in s.alerts THEN SetColumns(alert[a], s.columns)
                                 ELSE alert[a]]
    /\ policy' = IF s.policy # NoRow THEN [policy EXCEPT ![s.name] = s.policy]
                 ELSE policy
    /\ request' = [request EXCEPT ![h] = IdleRequest]
    /\ UNCHANGED <<lapsed, sync>>

\* Mutant: groups and alerts get the incident's status as it is.
GroupStatusUntranslated(status) == status

\* group_status of update_incident.
GroupStatusFor(status) ==
    CASE status = "open" -> "new"
      [] status \in {"contained", "resolved", "closed"} -> "resolved"
      [] OTHER -> status

\* PATCH /incidents/{id}: the incident is loaded and changed in the session.
UpdateIncident(h, i, status, severity) ==
    /\ incident[i] # NoRow
    /\ Begin(h, [IdleRequest EXCEPT
         !.pc = "propagating",
         !.readIncident[i] = incident[i],
         !.incident[i] = [incident[i] EXCEPT
            !.status = IF status # Unset THEN status ELSE @,
            !.severity = IF severity # None THEN severity ELSE @],
         !.columns = [NoColumns EXCEPT
            !.status = GroupStatusFor(status),
            !.incident_id = i]])

\* Its status reaches all the groups and alerts linked to it.  The first
\* UPDATE keeps the groups' rows locked up to the commit: one step.
Propagate(h) ==
    LET s == request[h]
        linked(row) == row # NoRow /\ row.incident_id = s.columns.incident_id
        propagated(row) ==
            IF linked(row) THEN SetColumns(row, [s.columns EXCEPT !.severity = None])
            ELSE row
    IN
    /\ s.pc = "propagating"
    /\ group' = [g \in Group |-> propagated(group[g])]
    /\ alert' = [a \in Alert |-> propagated(alert[a])]
    /\ WriteIncidents(s)
    /\ request' = [request EXCEPT ![h] = IdleRequest]
    /\ UNCHANGED <<policy, lapsed, sync>>

\* The 409 is answered, or the transaction fails and is rolled back.
EndRequest(h) ==
    /\ request[h].pc # "idle"
    /\ request' = [request EXCEPT ![h] = IdleRequest]
    /\ UNCHANGED <<alert, group, incident, policy, lapsed, sync>>

\* PATCH /noise-policies/{id}: the columns a payload may change.
UpdateNoisePolicy(p, new) ==
    /\ policy[p] # NoRow
    /\ policy' = [policy EXCEPT ![p] =
                    [new EXCEPT !.subjects = policy[p].subjects,
                                !.severities = policy[p].severities]]
    /\ UNCHANGED <<alert, group, incident, lapsed, sync, request>>

DeleteNoisePolicy(p) ==
    /\ policy[p] # NoRow
    /\ policy' = [policy EXCEPT ![p] = NoRow]
    /\ UNCHANGED <<alert, group, incident, lapsed, sync, request>>

\* Time passes the expires_at of the temporary policies.
Lapse ==
    /\ ~lapsed
    /\ \E payload \in PolicyPayload : payload.expires
    /\ lapsed' = TRUE
    /\ UNCHANGED <<alert, group, incident, policy, sync, request>>

------------------------------------------------------------------------------

Synchronize(t) ==
    \/ SyncStart(t)
    \/ SyncAlert(t)
    \/ SyncCommit(t)
    \/ SyncFail(t)

Analyst(h) ==
    \/ \E g \in Group : \/ \E status \in GroupInput : UpdateAlertGroup(h, g, status)
                        \/ CreateIncident(h, g)
    \/ \E i \in Incident, status \in IncidentInput, severity \in SeverityInput :
         UpdateIncident(h, i, status, severity)
    \/ \E p \in Policy, payload \in PolicyPayload : CreateNoisePolicy(h, p, payload)
    \/ Execute(h)
    \/ CommitRequest(h)
    \/ Propagate(h)
    \/ EndRequest(h)

Next ==
    \/ \E t \in SyncTask : Synchronize(t)
    \/ \E h \in Handler : Analyst(h)
    \/ \E p \in Policy : \/ \E new \in PolicyPayload : UpdateNoisePolicy(p, new)
                         \/ DeleteNoisePolicy(p)
    \/ Lapse

Spec == Init /\ [][Next]_vars

------------------------------------------------------------------------------
(* Properties                                                              *)

SessionGroups == [Group -> GroupRow \cup {NoRow}]
SessionIncidents == [Incident -> IncidentRow \cup {NoRow}]

SyncSession ==
    [pc : {"idle", "upserting"}, batch : SUBSET Alert,
     policies : [Policy -> PolicyRow \cup {NoRow}], used : SUBSET Policy,
     alerts : [Alert -> AlertRow \cup {NoRow}],
     readGroup : SessionGroups, group : SessionGroups,
     readIncident : SessionIncidents, incident : SessionIncidents]

Columns ==
    [status : GroupStatus \cup {Unset}, severity : Severity \cup {None},
     incident_id : IncidentLink]

RequestSession ==
    [pc : {"idle", "refused", "executing", "committing", "propagating"},
     name : Policy \cup {Unset}, policy : PolicyPayload \cup {NoRow},
     readGroup : SessionGroups, group : SessionGroups,
     readIncident : SessionIncidents, incident : SessionIncidents,
     columns : Columns, targets : SUBSET Group, alerts : SUBSET Alert]

TypeOK ==
    /\ alert \in [Alert -> AlertRow \cup {NoRow}]
    /\ group \in SessionGroups
    /\ incident \in SessionIncidents
    /\ policy \in [Policy -> PolicyRow \cup {NoRow}]
    /\ lapsed \in BOOLEAN
    /\ sync \in [SyncTask -> SyncSession]
    /\ request \in [Handler -> RequestSession]

\* A group counts exactly the alerts stored for it and has the highest of
\* their rule levels, whatever transactions of analysts, rolled back syncs
\* and repeated fetches come in between: no count is lost and none is doubled.
GroupSummarisesItsAlerts ==
    \A g \in Group :
        /\ group[g] = NoRow => AlertsOf(g) = {}
        /\ group[g] # NoRow =>
             /\ group[g].occurrence_count = Cardinality(AlertsOf(g))
             /\ \A a \in AlertsOf(g) : Level[a] <= group[g].max_rule_level
             /\ \E a \in AlertsOf(g) : Level[a] = group[g].max_rule_level

\* A group that has an incident is never without one again, although every
\* transaction on it works from rows it read before: a link that one of them
\* commits is not undone by another that knew of none.
IncidentLinkKept ==
    [][\A g \in Group :
         group[g] # NoRow /\ group[g].incident_id # None =>
            /\ group'[g] # NoRow
            /\ group'[g].incident_id # None
            /\ incident'[group'[g].incident_id].group = g]_vars

\* The transactions that end in a step, and those of them that had read of the
\* group g what another has overwritten since: any column, or its incident.
Ended == {sync[t] : t \in {u \in SyncTask : sync[u].pc # "idle" /\ sync'[u].pc = "idle"}}
         \cup {request[h] : h \in {k \in Handler : /\ request[k].pc # "idle"
                                                   /\ request'[k].pc = "idle"}}
Raced(g) == \E s \in Ended : s.readGroup[g] # NoRow /\ s.readGroup[g] # group[g]
LinkRaced(g) ==
    \E s \in Ended : /\ s.readGroup[g] # NoRow
                     /\ s.readGroup[g].incident_id # group[g].incident_id

\* A group that has an incident gets a second one only from a transaction that
\* had read the group before the first was committed: requests repeated, alerts
\* arriving after the case is closed and policies coming and going open none
\* (create_incident_for_group).
OneIncidentUnlessRaced ==
    [][\A i \in Incident :
         /\ incident[i] = NoRow /\ incident'[i] # NoRow
         /\ \E j \in Incident : /\ incident[j] # NoRow
                                /\ incident[j].group = incident'[i].group
         => LinkRaced(incident'[i].group)]_vars

\* A synchronization that counts for a group with an incident brings the copy of
\* the counter in the incident up to date, unless the incident was linked while
\* the synchronization was open (upsert_alert_group).
IncidentFollowsUnlessRaced ==
    [][\A g \in Group :
         /\ group'[g] # NoRow /\ group'[g].incident_id # None
         /\ group[g] = NoRow \/ group'[g].occurrence_count # group[g].occurrence_count
         => \/ incident'[group'[g].incident_id].occurrence_count
                 = group'[g].occurrence_count
            \/ LinkRaced(g)]_vars

\* However transactions overlap, no incident, not even one its group is no
\* longer linked to, shows more alerts than the group has, and an alert that
\* names an incident names one of its own group.
IncidentNeverAhead ==
    /\ \A i \in Incident : incident[i] # NoRow =>
         LET row == group[incident[i].group] IN
            row # NoRow /\ incident[i].occurrence_count <= row.occurrence_count
    /\ \A a \in Stored : alert[a].incident_id # None =>
         LET row == incident[alert[a].incident_id] IN
            row # NoRow /\ row.group = GroupOf[a]

\* A synchronization that counts for a group and leaves it not suppressed leaves
\* it with an incident when an alert of it reaches the level, or when it has as
\* many alerts as count for a repetition and is of at least medium severity: at
\* the first such alert, and also when the group was over a threshold before and
\* only just unsuppressed.  Only a change of the group while the synchronization
\* was open may keep it from that.
EscalatesUnlessRaced ==
    [][\A g \in Group :
         /\ group'[g] # NoRow
         /\ group[g] = NoRow \/ group'[g].occurrence_count # group[g].occurrence_count
         /\ group'[g].status # "suppressed"
         /\ \/ \E a \in AlertsOf(g)' : Level[a] >= MinRuleLevel
            \/ Cardinality(AlertsOf(g)') >= RepetitionThreshold
               /\ group'[g].severity \in {2, 3, 4}
         => group'[g].incident_id # None \/ Raced(g)]_vars

\* What the 409 of update_alert_group tells the analyst: it is the open
\* incident that is in the way, and resolving or closing it removes it.
RefusedOnlyWhileIncidentOpen ==
    \A h \in Handler :
        request[h].pc = "refused" =>
            \A g \in request[h].targets :
                incident[group[g].incident_id].status \notin {"resolved", "closed"}
=============================================================================
