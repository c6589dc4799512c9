-------------------------- MODULE AlertOpsProofs --------------------------
(***************************************************************************)
(* What holds of alert groups and incidents for any number of alerts,      *)
(* groups, policies, synchronizations and analysts.                        *)
(*                                                                         *)
(* Two invariants assume nothing of the deployment.  IInv: an incident     *)
(* link resolves, in the tables and in every open session.  OwnInv: an     *)
(* incident was opened for a group that had none when it was read, and the *)
(* group has one ever since.  The other two are for an API in one process, *)
(* where _sync_lock leaves one synchronization open at a time, among any   *)
(* number of analysts' requests.  CountInv: the counters are those of the  *)
(* stored alerts and of the staged ones.  FollowInv: the incident a        *)
(* synchronization has touched shows the counter of its group, and no      *)
(* other incident shows more.                                              *)
(***************************************************************************)
EXTENDS AlertOps, FiniteSetTheorems, TLAPS

------------------------------------------------------------------------------
(* Links                                                                   *)

\* Incident i is in the rows inc and belongs to the group g.
LinksTo(inc, i, g) == inc[i] # NoRow /\ inc[i].group = g

\* The incident of a group exists and is the group's own.
Linked(grp, inc) ==
    \A g \in Group :
        grp[g] # NoRow /\ grp[g].incident_id # None =>
            LinksTo(inc, grp[g].incident_id, g)

\* A session s over the tables grp and inc: what it has loaded is still
\* there, what it inserts is not, it clears no link, and its links resolve.
SessionLinked(s, grp, inc) ==
    /\ \A g \in Group : s.group[g] # NoRow =>
         /\ s.readGroup[g] # NoRow =>
              /\ grp[g] # NoRow
              /\ s.readGroup[g].incident_id # None => s.group[g].incident_id # None
         /\ s.group[g].incident_id # None =>
              \/ LinksTo(inc, s.group[g].incident_id, g)
              \/ LinksTo(s.incident, s.group[g].incident_id, g)
    /\ \A i \in Incident : s.incident[i] # NoRow =>
         IF s.readIncident[i] = NoRow THEN inc[i] = NoRow
         ELSE /\ inc[i] # NoRow
              /\ s.readIncident[i].group = inc[i].group
              /\ s.incident[i].group = inc[i].group

SameSummary(row, read) ==
    /\ row.occurrence_count = read.occurrence_count
    /\ row.max_rule_level = read.max_rule_level

\* An analyst's session has loaded every group it writes and moves no counter.
RequestLoads(s) ==
    \A g \in Group : s.group[g] # NoRow =>
        s.readGroup[g] # NoRow /\ SameSummary(s.group[g], s.readGroup[g])

\* An incident that the session s inserts is in no other session r.
Apart(s, r) ==
    \A i \in Incident :
        s.incident[i] # NoRow /\ s.readIncident[i] = NoRow => r.incident[i] = NoRow

SessionInv ==
    /\ \A t \in SyncTask : SessionLinked(sync[t], group, incident)
    /\ \A h \in Handler : SessionLinked(request[h], group, incident)
                          /\ RequestLoads(request[h])

ApartInv ==
    /\ \A t, u \in SyncTask : t # u => Apart(sync[t], sync[u])
    /\ \A h, k \in Handler : h # k => Apart(request[h], request[k])
    /\ \A t \in SyncTask, h \in Handler :
         Apart(sync[t], request[h]) /\ Apart(request[h], sync[t])

\* The alerts an analyst's UPDATE has reached stay stored.
ReachedInv == \A h \in Handler : request[h].alerts \subseteq Stored

IInv == TypeOK /\ Linked(group, incident) /\ SessionInv /\ ApartInv /\ ReachedInv

------------------------------------------------------------------------------
(* Counters                                                                *)

OneProcess == \A t, u \in SyncTask : ProcessOf[t] = ProcessOf[u]

\* The counter and the highest rule level of row are those of the alerts A.
Summarises(row, A) ==
    /\ row.occurrence_count = Cardinality(A)
    /\ \A a \in A : Level[a] <= row.max_rule_level
    /\ \E a \in A : Level[a] = row.max_rule_level

\* The alerts of the group g among the rows alr, a table's or a session's.
Of(alr, g) == {a \in Alert : alr[a] # NoRow /\ GroupOf[a] = g}

SyncAlone ==
    \A t, u \in SyncTask : sync[t].pc # "idle" /\ sync[u].pc # "idle" => t = u

\* A synchronization's session: the alerts to come and those it holds are not
\* stored, its rows summarise the stored and the staged alerts, and no one has
\* moved the counters it loaded.
SyncCounts(s, alr, grp) ==
    /\ \A a \in s.batch : alr[a] = NoRow /\ s.alerts[a] = NoRow
    /\ \A a \in Alert : s.alerts[a] # NoRow => alr[a] = NoRow
    /\ \A g \in Group :
         IF s.group[g] = NoRow THEN Of(s.alerts, g) = {}
         ELSE /\ Summarises(s.group[g], Of(alr, g) \cup Of(s.alerts, g))
              /\ IF s.readGroup[g] = NoRow THEN grp[g] = NoRow
                 ELSE grp[g] # NoRow /\ SameSummary(grp[g], s.readGroup[g])

TablesCount(alr, grp) ==
    \A g \in Group : IF grp[g] = NoRow THEN Of(alr, g) = {}
                      ELSE Summarises(grp[g], Of(alr, g))

CountInv ==
    /\ TablesCount(alert, group)
    /\ SyncAlone
    /\ \A t \in SyncTask : sync[t].pc # "idle" =>
         SyncCounts(sync[t], alert, group)

------------------------------------------------------------------------------
(* Incidents of a group                                                    *)

\* The group of an incident has one.
Owned(grp, inc) ==
    \A i \in Incident : inc[i] # NoRow =>
        grp[inc[i].group] # NoRow /\ grp[inc[i].group].incident_id # None

\* A session inserts an incident for a group it links, and that had none when
\* the session read it.
SessionOwns(s) ==
    \A i \in Incident : s.incident[i] # NoRow /\ s.readIncident[i] = NoRow =>
        LET g == s.incident[i].group IN
        /\ s.group[g] # NoRow /\ s.group[g].incident_id # None
        /\ s.readGroup[g] # NoRow => s.readGroup[g].incident_id = None

\* An alert names an incident of its group, stored or staged with it.
AlertsLinked(alr, inc) ==
    \A a \in Alert : alr[a] # NoRow /\ alr[a].incident_id # None =>
        LinksTo(inc, alr[a].incident_id, GroupOf[a])
StagedLinks(s, inc) ==
    \A a \in Alert : s.alerts[a] # NoRow /\ s.alerts[a].incident_id # None =>
        \/ LinksTo(inc, s.alerts[a].incident_id, GroupOf[a])
        \/ LinksTo(s.incident, s.alerts[a].incident_id, GroupOf[a])

\* The incident a request gives to alerts is the one it leaves their group.
RequestWrites(r) ==
    /\ r.pc \in {"executing", "committing"} /\ r.columns.incident_id # None =>
         \A g \in r.targets :
            r.group[g] # NoRow /\ r.group[g].incident_id = r.columns.incident_id
    /\ r.pc = "propagating" => \A g \in Group : r.group[g] = NoRow
    /\ \A a \in r.alerts : GroupOf[a] \in r.targets

OwnInv ==
    /\ Owned(group, incident) /\ AlertsLinked(alert, incident)
    /\ \A t \in SyncTask : SessionOwns(sync[t]) /\ StagedLinks(sync[t], incident)
    /\ \A h \in Handler : SessionOwns(request[h]) /\ RequestWrites(request[h])

------------------------------------------------------------------------------
(* Copies of the counter                                                   *)

\* No incident is ahead of its group.
Behind(grp, inc) ==
    \A i \in Incident : inc[i] # NoRow =>
        inc[i].occurrence_count <= grp[inc[i].group].occurrence_count

\* A group that a synchronization has counted for is ahead of what was read of
\* it, has its incident if it is over a threshold, and shares its counter with
\* the incident; the session touches no other incident of the group.
SyncFollows(s) ==
    /\ \A g \in Group : s.group[g] # NoRow =>
         /\ ~Escalates(s.group[g])
         /\ s.readGroup[g] # NoRow =>
              s.readGroup[g].occurrence_count < s.group[g].occurrence_count
         /\ s.group[g].incident_id # None => LinksTo(s.incident, s.group[g].incident_id, g)
    /\ \A i \in Incident : s.incident[i] # NoRow =>
         LET row == s.group[s.incident[i].group] IN
         /\ row # NoRow /\ row.incident_id = i
         /\ row.occurrence_count = s.incident[i].occurrence_count
         /\ s.readIncident[i] # NoRow =>
              s.readIncident[i].occurrence_count < s.incident[i].occurrence_count

\* A request opens no incident ahead of the group and moves none's counter.
RequestBehind(r, grp) ==
    \A i \in Incident : r.incident[i] # NoRow =>
        IF r.readIncident[i] = NoRow
        THEN r.incident[i].occurrence_count <= grp[r.incident[i].group].occurrence_count
        ELSE r.incident[i].occurrence_count = r.readIncident[i].occurrence_count

FollowInv ==
    /\ Behind(group, incident)
    /\ \A t \in SyncTask : SyncFollows(sync[t])
    /\ \A h \in Handler : RequestBehind(request[h], group)

------------------------------------------------------------------------------
(* Rows and what a transaction writes                                      *)

LEMMA NoRowIsNoRow ==
    /\ \A r \in GroupRow : r # NoRow
    /\ \A r \in AlertRow : r # NoRow
    /\ \A r \in IncidentRow : r # NoRow
    /\ \A r \in PolicyRow : r # NoRow
BY NoRowAssumption

\* Column by column, a loaded row takes the session's value where the session
\* changed it.
LEMMA MergedGroup ==
    ASSUME NEW row \in GroupRow, NEW read \in GroupRow, NEW new \in GroupRow
    PROVE  LET m == Merge(row, read, new) IN
           /\ m \in GroupRow
           /\ m.incident_id = IF new.incident_id = read.incident_id
                              THEN row.incident_id ELSE new.incident_id
           /\ m.occurrence_count = IF new.occurrence_count = read.occurrence_count
                                   THEN row.occurrence_count ELSE new.occurrence_count
           /\ m.max_rule_level = IF new.max_rule_level = read.max_rule_level
                                 THEN row.max_rule_level ELSE new.max_rule_level
<1> DEFINE column(c) == IF new[c] = read[c] THEN row[c] ELSE new[c]
<1>1. row # NoRow /\ read # NoRow /\ new # NoRow
  BY NoRowIsNoRow
<1>2. Merge(row, read, new) = [c \in DOMAIN row |-> column(c)]
  BY <1>1 DEF Merge
<1>3. DOMAIN row = {"status", "severity", "max_rule_level", "occurrence_count",
                    "incident_id"}
  BY DEF GroupRow
<1>4. Merge(row, read, new) =
        [status |-> column("status"), severity |-> column("severity"),
         max_rule_level |-> column("max_rule_level"),
         occurrence_count |-> column("occurrence_count"),
         incident_id |-> column("incident_id")]
  BY <1>2, <1>3
<1> QED
  BY <1>4 DEF GroupRow

LEMMA MergedIncident ==
    ASSUME NEW row \in IncidentRow, NEW read \in IncidentRow, NEW new \in IncidentRow
    PROVE  LET m == Merge(row, read, new) IN
           /\ m \in IncidentRow
           /\ m.group = IF new.group = read.group THEN row.group ELSE new.group
           /\ m.occurrence_count = IF new.occurrence_count = read.occurrence_count
                                   THEN row.occurrence_count ELSE new.occurrence_count
<1> DEFINE column(c) == IF new[c] = read[c] THEN row[c] ELSE new[c]
<1>1. row # NoRow /\ read # NoRow /\ new # NoRow
  BY NoRowIsNoRow
<1>2. Merge(row, read, new) = [c \in DOMAIN row |-> column(c)]
  BY <1>1 DEF Merge
<1>3. DOMAIN row = {"group", "status", "severity", "occurrence_count"}
  BY DEF IncidentRow
<1>4. Merge(row, read, new) =
        [group |-> column("group"), status |-> column("status"),
         severity |-> column("severity"),
         occurrence_count |-> column("occurrence_count")]
  BY <1>2, <1>3
<1> QED
  BY <1>4 DEF IncidentRow

\* The rows a session may hold.
Rows(s) ==
    /\ s.readGroup \in SessionGroups /\ s.group \in SessionGroups
    /\ s.readIncident \in SessionIncidents /\ s.incident \in SessionIncidents

\* The tables only grow: no row is deleted, no incident changes its group,
\* and a new incident is one the session s inserts.
Grown(s, grp, inc, grp2, inc2) ==
    /\ \A g \in Group : grp[g] # NoRow => grp2[g] # NoRow
    /\ \A i \in Incident : inc[i] # NoRow =>
         inc2[i] # NoRow /\ inc2[i].group = inc[i].group
    /\ \A i \in Incident : inc[i] = NoRow /\ inc2[i] # NoRow =>
         s.incident[i] # NoRow /\ s.readIncident[i] = NoRow

LEMMA WrittenGroups ==
    ASSUME NEW s, NEW grp \in SessionGroups, NEW inc \in SessionIncidents, Rows(s),
           SessionLinked(s, grp, inc),
           NEW grp2, grp2 = [g \in Group |-> Merge(grp[g], s.readGroup[g], s.group[g])]
    PROVE  /\ grp2 \in SessionGroups
           /\ \A g \in Group : s.group[g] = NoRow => grp2[g] = grp[g]
           /\ \A g \in Group : s.group[g] # NoRow => grp2[g] # NoRow
           /\ \A g \in Group : grp[g] # NoRow => grp2[g] # NoRow
<1> SUFFICES ASSUME NEW g \in Group
             PROVE  /\ grp2[g] \in GroupRow \cup {NoRow}
                    /\ s.group[g] = NoRow => grp2[g] = grp[g]
                    /\ s.group[g] # NoRow => grp2[g] # NoRow
                    /\ grp[g] # NoRow => grp2[g] # NoRow
  BY DEF SessionGroups
<1>1. grp2[g] = Merge(grp[g], s.readGroup[g], s.group[g])
  OBVIOUS
<1>2. /\ grp[g] \in GroupRow \cup {NoRow}
      /\ s.readGroup[g] \in GroupRow \cup {NoRow}
      /\ s.group[g] \in GroupRow \cup {NoRow}
  BY DEF Rows, SessionGroups
<1>3. CASE s.group[g] = NoRow
  BY <1>1, <1>2, <1>3 DEF Merge
<1>4. CASE s.group[g] # NoRow /\ s.readGroup[g] = NoRow
  BY <1>1, <1>2, <1>4 DEF Merge
<1>5. CASE s.group[g] # NoRow /\ s.readGroup[g] # NoRow
  <2>1. grp[g] \in GroupRow /\ s.readGroup[g] \in GroupRow /\ s.group[g] \in GroupRow
    BY <1>2, <1>5 DEF SessionLinked
  <2> QED
    BY <1>1, <1>5, <2>1, MergedGroup, NoRowIsNoRow
<1> QED
  BY <1>3, <1>4, <1>5

LEMMA WrittenIncidents ==
    ASSUME NEW s, NEW grp \in SessionGroups, NEW inc \in SessionIncidents, Rows(s),
           SessionLinked(s, grp, inc),
           NEW inc2, inc2 = [i \in Incident |->
                               Merge(inc[i], s.readIncident[i], s.incident[i])]
    PROVE  /\ inc2 \in SessionIncidents
           /\ \A i \in Incident : s.incident[i] # NoRow =>
                inc2[i] # NoRow /\ inc2[i].group = s.incident[i].group
           /\ \A i \in Incident : inc[i] # NoRow =>
                inc2[i] # NoRow /\ inc2[i].group = inc[i].group
           /\ \A i \in Incident : inc[i] = NoRow /\ inc2[i] # NoRow =>
                s.incident[i] # NoRow /\ s.readIncident[i] = NoRow
<1> SUFFICES ASSUME NEW i \in Incident
             PROVE  /\ inc2[i] \in IncidentRow \cup {NoRow}
                    /\ s.incident[i] # NoRow =>
                         inc2[i] # NoRow /\ inc2[i].group = s.incident[i].group
                    /\ inc[i] # NoRow => inc2[i] # NoRow /\ inc2[i].group = inc[i].group
                    /\ inc[i] = NoRow /\ inc2[i] # NoRow =>
                         s.incident[i] # NoRow /\ s.readIncident[i] = NoRow
  BY DEF SessionIncidents
<1>1. inc2[i] = Merge(inc[i], s.readIncident[i], s.incident[i])
  OBVIOUS
<1>2. /\ inc[i] \in IncidentRow \cup {NoRow}
      /\ s.readIncident[i] \in IncidentRow \cup {NoRow}
      /\ s.incident[i] \in IncidentRow \cup {NoRow}
  BY DEF Rows, SessionIncidents
<1>3. CASE s.incident[i] = NoRow
  BY <1>1, <1>2, <1>3 DEF Merge
<1>4. CASE s.incident[i] # NoRow /\ s.readIncident[i] = NoRow
  <2>1. inc[i] = NoRow
    BY <1>4 DEF SessionLinked
  <2> QED
    BY <1>1, <1>2, <1>4, <2>1 DEF Merge
<1>5. CASE s.incident[i] # NoRow /\ s.readIncident[i] # NoRow
  <2>1. /\ inc[i] # NoRow
        /\ s.readIncident[i].group = inc[i].group
        /\ s.incident[i].group = inc[i].group
    BY <1>5 DEF SessionLinked
  <2>2. /\ inc[i] \in IncidentRow /\ s.readIncident[i] \in IncidentRow
        /\ s.incident[i] \in IncidentRow
    BY <1>2, <1>5, <2>1
  <2> QED
    BY <1>1, <1>5, <2>1, <2>2, MergedIncident, NoRowIsNoRow
<1> QED
  BY <1>3, <1>4, <1>5

\* A commit links a group only to an incident of its own and unlinks none.
LEMMA WrittenLinks ==
    ASSUME NEW s, NEW grp \in SessionGroups, NEW inc \in SessionIncidents, Rows(s),
           SessionLinked(s, grp, inc), Linked(grp, inc),
           \A g \in Group : s.group[g] # NoRow /\ s.readGroup[g] = NoRow => grp[g] = NoRow,
           NEW grp2, grp2 = [g \in Group |-> Merge(grp[g], s.readGroup[g], s.group[g])],
           NEW inc2, inc2 = [i \in Incident |->
                               Merge(inc[i], s.readIncident[i], s.incident[i])]
    PROVE  /\ Linked(grp2, inc2)
           /\ \A g \in Group : grp[g] # NoRow /\ grp[g].incident_id # None =>
                grp2[g].incident_id # None
<1> SUFFICES ASSUME NEW g \in Group
             PROVE  /\ grp2[g] # NoRow /\ grp2[g].incident_id # None =>
                         LinksTo(inc2, grp2[g].incident_id, g)
                    /\ grp[g] # NoRow /\ grp[g].incident_id # None =>
                         grp2[g].incident_id # None
  BY DEF Linked
<1>1. grp2[g] = Merge(grp[g], s.readGroup[g], s.group[g])
  OBVIOUS
<1>2. /\ grp[g] \in GroupRow \cup {NoRow}
      /\ s.readGroup[g] \in GroupRow \cup {NoRow}
      /\ s.group[g] \in GroupRow \cup {NoRow}
  BY DEF Rows, SessionGroups
<1>3. ASSUME grp[g] # NoRow, grp[g].incident_id # None
      PROVE  LinksTo(inc2, grp[g].incident_id, g)
  <2>1. grp[g].incident_id \in Incident
    BY <1>2, <1>3 DEF GroupRow, IncidentLink
  <2>2. LinksTo(inc, grp[g].incident_id, g)
    BY <1>3 DEF Linked
  <2> QED
    BY <2>1, <2>2, WrittenIncidents DEF LinksTo
<1>4. ASSUME s.group[g] # NoRow, s.group[g].incident_id # None
      PROVE  LinksTo(inc2, s.group[g].incident_id, g)
  <2>1. s.group[g].incident_id \in Incident
    BY <1>2, <1>4 DEF GroupRow, IncidentLink
  <2>2. \/ LinksTo(inc, s.group[g].incident_id, g)
        \/ LinksTo(s.incident, s.group[g].incident_id, g)
    BY <1>4 DEF SessionLinked
  <2> QED
    BY <2>1, <2>2, WrittenIncidents DEF LinksTo
<1>5. CASE s.group[g] = NoRow
  BY <1>1, <1>3, <1>5 DEF Merge
<1>6. CASE s.group[g] # NoRow /\ s.readGroup[g] = NoRow
  <2>1. grp[g] = NoRow
    BY <1>6
  <2> QED
    BY <1>1, <1>4, <1>6, <2>1 DEF Merge
<1>7. CASE s.group[g] # NoRow /\ s.readGroup[g] # NoRow
  <2>1. grp[g] # NoRow /\ (s.readGroup[g].incident_id # None => s.group[g].incident_id # None)
    BY <1>7 DEF SessionLinked
  <2>2. grp2[g].incident_id = IF s.group[g].incident_id = s.readGroup[g].incident_id
                              THEN grp[g].incident_id ELSE s.group[g].incident_id
    BY <1>1, <1>2, <1>7, <2>1, MergedGroup
  <2> QED
    BY <1>3, <1>4, <1>7, <2>1, <2>2
<1> QED
  BY <1>5, <1>6, <1>7

\* Nor does it disturb a session that shares no new incident with it.
LEMMA OthersStayLinked ==
    ASSUME NEW s, NEW r, NEW grp, NEW inc, NEW grp2, NEW inc2, Rows(r),
           Grown(s, grp, inc, grp2, inc2), Apart(s, r), SessionLinked(r, grp, inc)
    PROVE  SessionLinked(r, grp2, inc2)
<1>1. ASSUME NEW g \in Group, r.group[g] # NoRow
      PROVE  /\ r.readGroup[g] # NoRow =>
                  /\ grp2[g] # NoRow
                  /\ r.readGroup[g].incident_id # None => r.group[g].incident_id # None
             /\ r.group[g].incident_id # None =>
                  \/ LinksTo(inc2, r.group[g].incident_id, g)
                  \/ LinksTo(r.incident, r.group[g].incident_id, g)
  <2>1. r.group[g].incident_id # None => r.group[g].incident_id \in Incident
    BY <1>1 DEF Rows, SessionGroups, GroupRow, IncidentLink
  <2> QED
    BY <1>1, <2>1 DEF SessionLinked, Grown, LinksTo
<1>2. ASSUME NEW i \in Incident, r.incident[i] # NoRow
      PROVE  IF r.readIncident[i] = NoRow THEN inc2[i] = NoRow
             ELSE /\ inc2[i] # NoRow
                  /\ r.readIncident[i].group = inc2[i].group
                  /\ r.incident[i].group = inc2[i].group
  BY <1>2 DEF SessionLinked, Grown, Apart
<1> QED
  BY <1>1, <1>2 DEF SessionLinked

------------------------------------------------------------------------------
(* Links: the steps of one session                                         *)

\* What a session s has of incidents beyond its former state old: those it
\* loads are stored, those it inserts are taken by no one.
Extends(s, old) ==
    \A i \in Incident : s.incident[i] # NoRow =>
        \/ old.incident[i] # NoRow /\ s.readIncident[i] = old.readIncident[i]
        \/ incident[i] # NoRow /\ s.readIncident[i] # NoRow
        \/ i \notin Taken /\ s.readIncident[i] = NoRow

LEMMA StaysApart ==
    ASSUME NEW s, NEW old, NEW r, Extends(s, old), Apart(old, r), Apart(r, old),
           SessionLinked(r, group, incident),
           \A i \in Incident : r.incident[i] # NoRow => i \in Taken
    PROVE  Apart(s, r) /\ Apart(r, s)
BY DEF Extends, Apart, SessionLinked

LEMMA SessionsTaken ==
    /\ \A t \in SyncTask, i \in Incident : sync[t].incident[i] # NoRow => i \in Taken
    /\ \A h \in Handler, i \in Incident : request[h].incident[i] # NoRow => i \in Taken
    /\ \A i \in Incident : incident[i] # NoRow => i \in Taken
    /\ \A i \in Fresh : i \in Incident /\ i \notin Taken
BY DEF Taken, Fresh

LEMMA RequestStep ==
    ASSUME IInv, NEW h \in Handler, NEW r \in RequestSession,
           request' = [request EXCEPT ![h] = r],
           UNCHANGED <<alert, group, incident, policy, lapsed, sync>>,
           SessionLinked(r, group, incident), RequestLoads(r),
           r.alerts \subseteq Stored, Extends(r, request[h])
    PROVE  IInv'
<1>1. request'[h] = r /\ \A k \in Handler \ {h} : request'[k] = request[k]
  BY DEF IInv, TypeOK
<1>2. TypeOK'
  BY DEF IInv, TypeOK
<1>3. Linked(group, incident)'
  BY DEF IInv, Linked, LinksTo
<1>4. SessionInv'
  <2>1. \A t \in SyncTask : SessionLinked(sync'[t], group', incident')
    BY DEF IInv, SessionInv
  <2>2. \A k \in Handler : SessionLinked(request'[k], group', incident')
                           /\ RequestLoads(request'[k])
    BY <1>1 DEF IInv, SessionInv
  <2> QED
    BY <2>1, <2>2 DEF SessionInv
<1>5. ApartInv'
  <2>1. \A t, u \in SyncTask : t # u => Apart(sync'[t], sync'[u])
    BY DEF IInv, ApartInv
  <2>2. \A t \in SyncTask : Apart(r, sync[t]) /\ Apart(sync[t], r)
    BY StaysApart, SessionsTaken DEF IInv, ApartInv, SessionInv
  <2>3. \A k \in Handler \ {h} : Apart(r, request[k]) /\ Apart(request[k], r)
    BY StaysApart, SessionsTaken DEF IInv, ApartInv, SessionInv
  <2>4. \A k, m \in Handler : k # m => Apart(request'[k], request'[m])
    BY <1>1, <2>3 DEF IInv, ApartInv
  <2>5. \A t \in SyncTask, k \in Handler :
          Apart(sync'[t], request'[k]) /\ Apart(request'[k], sync'[t])
    BY <1>1, <2>2 DEF IInv, ApartInv
  <2> QED
    BY <2>1, <2>4, <2>5 DEF ApartInv
<1>6. ReachedInv'
  <2>1. Stored' = Stored
    BY DEF Stored
  <2>2. \A k \in Handler : request'[k].alerts \subseteq Stored'
    BY <1>1, <2>1 DEF IInv, ReachedInv
  <2> QED
    BY <2>2 DEF ReachedInv
<1> QED
  BY <1>2, <1>3, <1>4, <1>5, <1>6 DEF IInv

LEMMA SyncStep ==
    ASSUME IInv, NEW t \in SyncTask, NEW s \in SyncSession,
           sync' = [sync EXCEPT ![t] = s],
           UNCHANGED <<alert, group, incident, policy, lapsed, request>>,
           SessionLinked(s, group, incident), Extends(s, sync[t])
    PROVE  IInv'
<1>1. sync'[t] = s /\ \A u \in SyncTask \ {t} : sync'[u] = sync[u]
  BY DEF IInv, TypeOK
<1>2. TypeOK'
  BY DEF IInv, TypeOK
<1>3. Linked(group, incident)'
  BY DEF IInv, Linked, LinksTo
<1>4. SessionInv'
  <2>1. \A u \in SyncTask : SessionLinked(sync'[u], group', incident')
    BY <1>1 DEF IInv, SessionInv
  <2>2. \A h \in Handler : SessionLinked(request'[h], group', incident')
                           /\ RequestLoads(request'[h])
    BY DEF IInv, SessionInv
  <2> QED
    BY <2>1, <2>2 DEF SessionInv
<1>5. ApartInv'
  <2>1. \A k, m \in Handler : k # m => Apart(request'[k], request'[m])
    BY DEF IInv, ApartInv
  <2>2. \A h \in Handler : Apart(s, request[h]) /\ Apart(request[h], s)
    BY StaysApart, SessionsTaken DEF IInv, ApartInv, SessionInv
  <2>3. \A u \in SyncTask \ {t} : Apart(s, sync[u]) /\ Apart(sync[u], s)
    BY StaysApart, SessionsTaken DEF IInv, ApartInv, SessionInv
  <2>4. \A u, v \in SyncTask : u # v => Apart(sync'[u], sync'[v])
    BY <1>1, <2>3 DEF IInv, ApartInv
  <2>5. \A u \in SyncTask, h \in Handler :
          Apart(sync'[u], request'[h]) /\ Apart(request'[h], sync'[u])
    BY <1>1, <2>2 DEF IInv, ApartInv
  <2> QED
    BY <2>1, <2>4, <2>5 DEF ApartInv
<1>6. ReachedInv'
  BY DEF IInv, ReachedInv, Stored
<1> QED
  BY <1>2, <1>3, <1>4, <1>5, <1>6 DEF IInv

\* A session that is over has no rows.
LEMMA IdleSessions ==
    /\ IdleSync \in SyncSession /\ IdleRequest \in RequestSession
    /\ \A grp, inc : SessionLinked(IdleSync, grp, inc) /\ SessionLinked(IdleRequest, grp, inc)
    /\ \A r : /\ Apart(IdleSync, r) /\ Apart(r, IdleSync)
              /\ Apart(IdleRequest, r) /\ Apart(r, IdleRequest)
    /\ RequestLoads(IdleRequest) /\ IdleRequest.alerts = {}
    /\ \A old : Extends(IdleSync, old) /\ Extends(IdleRequest, old)
<1>1. NoGroups \in SessionGroups /\ NoIncidents \in SessionIncidents
  BY DEF NoGroups, NoIncidents, SessionGroups, SessionIncidents
<1>2. NoColumns \in Columns
  BY DEF NoColumns, Columns, IncidentLink
<1>3. IdleSync \in SyncSession /\ IdleRequest \in RequestSession
  BY <1>1, <1>2 DEF IdleSync, IdleRequest, SyncSession, RequestSession
<1>4. /\ \A g \in Group : IdleSync.group[g] = NoRow /\ IdleRequest.group[g] = NoRow
      /\ \A i \in Incident : IdleSync.incident[i] = NoRow /\ IdleRequest.incident[i] = NoRow
      /\ IdleRequest.alerts = {}
  BY DEF IdleSync, IdleRequest, NoGroups, NoIncidents
<1> QED
  BY <1>3, <1>4 DEF SessionLinked, Apart, RequestLoads, Extends

------------------------------------------------------------------------------
(* One alert of a batch                                                    *)

LEMMA SeverityOfAlert ==
    ASSUME NEW a \in Alert, NEW p \in PolicyRow \cup {NoRow}
    PROVE  AlertSeverity(a, p) \in Severity
<1>1. Level[a] \in Nat
  BY AlertAssumption
<1>2. SeverityFromLevel(Level[a]) \in Severity
  BY <1>1 DEF SeverityFromLevel, Severity
<1>3. p # NoRow => p.target_severity \in Severity \cup {None}
  BY DEF PolicyRow
<1> QED
  BY <1>2, <1>3 DEF AlertSeverity

LEMMA GroupUpserted ==
    ASSUME NEW row \in GroupRow \cup {NoRow}, NEW a \in Alert,
           NEW p \in PolicyRow \cup {NoRow}
    PROVE  /\ UpsertedGroup(row, a, p) \in GroupRow
           /\ UpsertedGroup(row, a, p).incident_id =
                IF row = NoRow THEN None ELSE row.incident_id
           /\ UpsertedGroup(row, a, p).occurrence_count =
                IF row = NoRow THEN 1 ELSE row.occurrence_count + 1
           /\ UpsertedGroup(row, a, p).max_rule_level =
                IF row = NoRow THEN Level[a]
                ELSE IF Level[a] > row.max_rule_level THEN Level[a] ELSE row.max_rule_level
<1>1. Level[a] \in Nat /\ AlertSeverity(a, p) \in Severity
  BY AlertAssumption, SeverityOfAlert
<1>2. CASE row = NoRow
  BY <1>1, <1>2 DEF UpsertedGroup, GroupRow, GroupStatus, IncidentLink
<1>3. CASE row # NoRow
  <2> DEFINE count == row.occurrence_count + 1
             level == IF Level[a] > row.max_rule_level THEN Level[a]
                      ELSE row.max_rule_level
             severity == IF AlertSeverity(a, p) > row.severity
                         THEN AlertSeverity(a, p) ELSE row.severity
             status == IF Suppresses(p) THEN "suppressed" ELSE row.status
  <2>1. row \in GroupRow
    BY <1>3
  <2>2. count \in Nat /\ level \in Nat /\ severity \in Severity /\ status \in GroupStatus
    BY <1>1, <2>1 DEF GroupRow, GroupStatus
  <2>3. UpsertedGroup(row, a, p) =
          [row EXCEPT !.occurrence_count = count, !.max_rule_level = level,
                      !.severity = severity, !.status = status]
    BY <1>3, <2>1 DEF UpsertedGroup, GroupRow
  <2>4. UpsertedGroup(row, a, p) =
          [status |-> status, severity |-> severity, max_rule_level |-> level,
           occurrence_count |-> count, incident_id |-> row.incident_id]
    <3> HIDE DEF count, level, severity, status
    <3> QED
      BY <2>1, <2>3 DEF GroupRow
  <2> QED
    BY <1>3, <2>1, <2>2, <2>4 DEF GroupRow
<1> QED
  BY <1>2, <1>3

LEMMA LoadedRows ==
    ASSUME IInv, NEW t \in SyncTask, NEW g \in Group
    PROVE  /\ LoadedGroup(t, g) \in GroupRow \cup {NoRow}
           /\ LoadedGroup(t, g) # NoRow /\ LoadedGroup(t, g).incident_id # None =>
                /\ LoadedGroup(t, g).incident_id \in Incident
                /\ LoadedIncident(t, LoadedGroup(t, g).incident_id) \in IncidentRow
                /\ LoadedIncident(t, LoadedGroup(t, g).incident_id).group = g
<1> DEFINE s == sync[t]
           row == LoadedGroup(t, g)
           i == row.incident_id
<1>1. s \in SyncSession /\ Rows(s)
  BY DEF IInv, TypeOK, SyncSession, Rows
<1>2. row \in GroupRow \cup {NoRow}
  BY <1>1 DEF LoadedGroup, Rows, IInv, TypeOK, SessionGroups
<1>3. ASSUME row # NoRow, i # None
      PROVE  i \in Incident /\ LoadedIncident(t, i) \in IncidentRow
             /\ LoadedIncident(t, i).group = g
  <2>1. i \in Incident
    BY <1>2, <1>3 DEF GroupRow, IncidentLink
  <2>2. LinksTo(incident, i, g) \/ LinksTo(s.incident, i, g)
    <3>1. SessionLinked(s, group, incident)
      BY DEF IInv, SessionInv
    <3>2. CASE s.group[g] # NoRow
      BY <1>3, <3>1, <3>2 DEF LoadedGroup, SessionLinked
    <3>3. CASE s.group[g] = NoRow
      BY <1>3, <3>3 DEF LoadedGroup, IInv, Linked
    <3> QED
      BY <3>2, <3>3
  <2>3. s.incident[i] # NoRow /\ LinksTo(incident, i, g) => s.incident[i].group = g
    <3>1. SessionLinked(s, group, incident)
      BY DEF IInv, SessionInv
    <3> QED
      BY <2>1, <3>1 DEF SessionLinked, LinksTo
  <2>4. /\ incident[i] \in IncidentRow \cup {NoRow}
        /\ s.incident[i] \in IncidentRow \cup {NoRow}
    BY <1>1, <2>1 DEF IInv, TypeOK, Rows, SessionIncidents
  <2> HIDE DEF i
  <2> QED
    BY <2>1, <2>2, <2>3, <2>4 DEF LoadedIncident, LinksTo
<1> QED
  BY <1>2, <1>3

\* The session after the alert a: its group is new, and the incident of the
\* group, if it has one, is x, just created or refreshed.
Upserted(t, a, p, s, new, y) ==
    LET g == GroupOf[a]
        i == new.incident_id
        old == sync[t]
        row == UpsertedGroup(LoadedGroup(t, g), a, p)
    IN
    /\ s.pc = "upserting"
    /\ s.batch = old.batch \ {a}
    /\ s.policies = old.policies
    /\ s.alerts = [old.alerts EXCEPT ![a] = y]
    /\ y.incident_id = i
    /\ s.group = [old.group EXCEPT ![g] = new]
    /\ s.readGroup =
         [old.readGroup EXCEPT ![g] = FirstRead(old.group[g], group[g], @)]
    /\ SameSummary(new, row)
    /\ ~Escalates(new)
    /\ row.incident_id # None => i = row.incident_id
    /\ i = None => s.incident = old.incident /\ s.readIncident = old.readIncident
    /\ i # None =>
         /\ row.incident_id # i => i \in Fresh
         /\ s.readIncident =
              [old.readIncident EXCEPT ![i] = FirstRead(old.incident[i], incident[i], @)]
         /\ \E x \in IncidentRow :
              /\ s.incident = [old.incident EXCEPT ![i] = x]
              /\ x.group = g
              /\ x.occurrence_count = row.occurrence_count

LEMMA UpsertShape ==
    ASSUME IInv, NEW t \in SyncTask, NEW a \in Alert, NEW q \in SUBSET Policy,
           NEW p \in PolicyRow \cup {NoRow}, Upsert(t, a, q, p)
    PROVE  /\ UNCHANGED <<alert, group, incident, policy, lapsed, request>>
           /\ sync[t].pc = "upserting" /\ a \in sync[t].batch
           /\ \E s \in SyncSession, new \in GroupRow, y \in AlertRow :
                sync' = [sync EXCEPT ![t] = s] /\ Upserted(t, a, p, s, new, y)
<1> DEFINE g == GroupOf[a]
           old == sync[t]
           loaded == LoadedGroup(t, g)
           row == UpsertedGroup(loaded, a, p)
           y(i) == [status |-> IF Suppresses(p) THEN "suppressed" ELSE "new",
                    severity |-> AlertSeverity(a, p), incident_id |-> i]
           session(newRow, newIncident, i) ==
             [old EXCEPT
               !.batch = @ \ {a},
               !.used = @ \cup q,
               !.alerts[a] = y(i),
               !.readGroup[g] = FirstRead(old.group[g], group[g], @),
               !.group[g] = newRow,
               !.readIncident = IF i = None THEN @ ELSE
                   [old.readIncident EXCEPT
                     ![i] = FirstRead(old.incident[i], incident[i], old.readIncident[i])],
               !.incident = IF i = None THEN @ ELSE [@ EXCEPT ![i] = newIncident]]
<1>1. /\ UNCHANGED <<alert, group, incident, policy, lapsed, request>>
      /\ old.pc = "upserting" /\ a \in old.batch
  BY DEF Upsert
<1>2. g \in Group /\ old \in SyncSession
  BY AlertAssumption DEF IInv, TypeOK
<1>3. /\ loaded \in GroupRow \cup {NoRow}
      /\ row \in GroupRow
      /\ row.incident_id = IF loaded = NoRow THEN None ELSE loaded.incident_id
  BY <1>2, LoadedRows, GroupUpserted
<1>4. \A i \in IncidentLink : y(i) \in AlertRow /\ y(i).incident_id = i
  BY SeverityOfAlert DEF AlertRow, GroupStatus
<1>5. \/ /\ Escalates(row)
         /\ \E i \in Fresh :
              sync' = [sync EXCEPT ![t] =
                session([row EXCEPT !.status = "investigating", !.incident_id = i],
                        NewIncident(g, row), i)]
      \/ /\ ~Escalates(row)
         /\ row.incident_id = None
         /\ sync' = [sync EXCEPT ![t] = session(row, NoRow, None)]
      \/ /\ row.incident_id # None
         /\ sync' = [sync EXCEPT ![t] =
              session(row, RefreshedIncident(LoadedIncident(t, row.incident_id), row),
                      row.incident_id)]
  BY DEF Upsert
<1>6. ASSUME NEW new \in GroupRow, NEW x \in IncidentRow \cup {NoRow},
             NEW i \in IncidentLink
      PROVE  LET s == session(new, x, i) IN
             /\ s.pc = old.pc
             /\ s.batch = old.batch \ {a}
             /\ s.policies = old.policies
             /\ s.used = old.used \cup q
             /\ s.alerts = [old.alerts EXCEPT ![a] = y(i)]
             /\ s.group = [old.group EXCEPT ![g] = new]
             /\ s.readGroup =
                  [old.readGroup EXCEPT ![g] = FirstRead(old.group[g], group[g], @)]
             /\ i = None => s.incident = old.incident /\ s.readIncident = old.readIncident
             /\ i # None =>
                  /\ s.readIncident = [old.readIncident EXCEPT
                                         ![i] = FirstRead(old.incident[i], incident[i], @)]
                  /\ s.incident = [old.incident EXCEPT ![i] = x]
  <2> HIDE DEF y, row, loaded
  <2>1. session(new, x, i).pc = old.pc
    BY <1>2 DEF SyncSession
  <2>2. session(new, x, i).batch = old.batch \ {a}
    BY <1>2 DEF SyncSession
  <2>3. session(new, x, i).policies = old.policies
    BY <1>2 DEF SyncSession
  <2>4. session(new, x, i).used = old.used \cup q
    BY <1>2 DEF SyncSession
  <2>5. session(new, x, i).alerts = [old.alerts EXCEPT ![a] = y(i)]
    BY <1>2 DEF SyncSession
  <2>6. session(new, x, i).group = [old.group EXCEPT ![g] = new]
    BY <1>2 DEF SyncSession
  <2>7. session(new, x, i).readGroup =
                  [old.readGroup EXCEPT ![g] = FirstRead(old.group[g], group[g], @)]
    BY <1>2 DEF SyncSession
  <2>8. i = None => /\ session(new, x, i).incident = old.incident
                    /\ session(new, x, i).readIncident = old.readIncident
    BY <1>2 DEF SyncSession
  <2>9. ASSUME i # None
        PROVE  session(new, x, i).readIncident =
            [old.readIncident EXCEPT ![i] = FirstRead(old.incident[i], incident[i], @)]
    <3>1. session(new, x, i).readIncident =
            IF i = None THEN old.readIncident ELSE
            [old.readIncident EXCEPT ![i] = FirstRead(old.incident[i], incident[i], @)]
      BY <1>2 DEF SyncSession
    <3> HIDE DEF session
    <3> QED
      BY <2>9, <3>1
  <2>10. i # None => session(new, x, i).incident = [old.incident EXCEPT ![i] = x]
    BY <1>2 DEF SyncSession
  <2> HIDE DEF session
  <2> QED
    BY <2>1, <2>2, <2>3, <2>4, <2>5, <2>6, <2>7, <2>8, <2>9, <2>10
<1>7. ASSUME NEW new \in GroupRow, NEW x \in IncidentRow \cup {NoRow},
             NEW i \in IncidentLink
      PROVE  session(new, x, i) \in SyncSession
  <2> DEFINE s == session(new, x, i)
  <2>1. /\ s.batch \in SUBSET Alert /\ s.pc \in {"idle", "upserting"}
        /\ s.policies \in [Policy -> PolicyRow \cup {NoRow}]
        /\ s.used \in SUBSET Policy
    BY <1>2, <1>6 DEF SyncSession
  <2>2. s.alerts \in [Alert -> AlertRow \cup {NoRow}]
    BY <1>2, <1>4, <1>6 DEF SyncSession
  <2>3. s.group \in SessionGroups
    BY <1>2, <1>6 DEF SyncSession, SessionGroups
  <2>4. s.readGroup \in SessionGroups
    <3>1. group[g] \in GroupRow \cup {NoRow}
      BY <1>2 DEF IInv, TypeOK, SessionGroups
    <3> QED
      BY <1>2, <1>6, <3>1 DEF SyncSession, SessionGroups, FirstRead
  <2>5. s.incident \in SessionIncidents /\ s.readIncident \in SessionIncidents
    <3>1. CASE i = None
      BY <1>2, <1>6, <3>1 DEF SyncSession
    <3>2. CASE i # None
      <4>1. i \in Incident
        BY <3>2 DEF IncidentLink
      <4>2. incident[i] \in IncidentRow \cup {NoRow}
        BY <4>1 DEF IInv, TypeOK, SessionIncidents
      <4>3. /\ s.readIncident =
                 [old.readIncident EXCEPT ![i] = FirstRead(old.incident[i], incident[i], @)]
            /\ s.incident = [old.incident EXCEPT ![i] = x]
        BY <1>6, <3>2
      <4>4. old.readIncident \in SessionIncidents /\ old.incident \in SessionIncidents
        BY <1>2 DEF SyncSession
      <4> HIDE DEF session, old
      <4> QED
        BY <4>1, <4>2, <4>3, <4>4 DEF SessionIncidents, FirstRead
    <3> QED
      BY <3>1, <3>2
  <2>6. s = [pc |-> s.pc, batch |-> s.batch, policies |-> s.policies, used |-> s.used,
             alerts |-> s.alerts, readGroup |-> s.readGroup, group |-> s.group,
             readIncident |-> s.readIncident, incident |-> s.incident]
    <3> DEFINE b == old.batch \ {a}
               u == old.used \cup q
               al == [old.alerts EXCEPT ![a] = y(i)]
               rg == [old.readGroup EXCEPT ![g] = FirstRead(old.group[g], group[g], @)]
               gr == [old.group EXCEPT ![g] = new]
               ri == IF i = None THEN old.readIncident ELSE
                       [old.readIncident EXCEPT
                          ![i] = FirstRead(old.incident[i], incident[i], old.readIncident[i])]
               ii == IF i = None THEN old.incident ELSE [old.incident EXCEPT ![i] = x]
    <3>1. s = [old EXCEPT !.batch = b, !.used = u, !.alerts = al, !.readGroup = rg,
                          !.group = gr, !.readIncident = ri, !.incident = ii]
      OBVIOUS
    <3> HIDE DEF b, u, al, rg, gr, ri, ii, s
    <3>2. s = [pc |-> old.pc, batch |-> b, policies |-> old.policies, used |-> u,
               alerts |-> al, readGroup |-> rg, group |-> gr,
               readIncident |-> ri, incident |-> ii]
      BY <1>2, <3>1 DEF SyncSession
    <3> QED
      BY <3>2
  <2>7. s \in SyncSession
    <3> HIDE DEF s
    <3> QED
      BY <2>1, <2>2, <2>3, <2>4, <2>5, <2>6 DEF SyncSession
  <2> QED
    BY <2>7
<1>8. ASSUME NEW new \in GroupRow, NEW x \in IncidentRow \cup {NoRow},
             sync' = [sync EXCEPT ![t] = session(new, x, new.incident_id)],
             SameSummary(new, row), ~Escalates(new),
             row.incident_id # None => new.incident_id = row.incident_id,
             new.incident_id # None =>
               /\ row.incident_id # new.incident_id => new.incident_id \in Fresh
               /\ x \in IncidentRow /\ x.group = g
               /\ x.occurrence_count = row.occurrence_count
      PROVE  \E s \in SyncSession, n \in GroupRow, z \in AlertRow :
                sync' = [sync EXCEPT ![t] = s] /\ Upserted(t, a, p, s, n, z)
  <2> DEFINE i == new.incident_id
             s == session(new, x, i)
  <2>1. i \in IncidentLink
    BY DEF GroupRow
  <2>2. s \in SyncSession
    BY <1>7, <2>1
  <2>3. Upserted(t, a, p, s, new, y(i))
    <3>1. /\ s.pc = old.pc /\ s.batch = old.batch \ {a} /\ s.policies = old.policies
          /\ s.alerts = [old.alerts EXCEPT ![a] = y(i)]
          /\ s.group = [old.group EXCEPT ![g] = new]
          /\ s.readGroup =
               [old.readGroup EXCEPT ![g] = FirstRead(old.group[g], group[g], @)]
      BY <1>6, <2>1
    <3>2. i = None => s.incident = old.incident /\ s.readIncident = old.readIncident
      BY <1>6, <2>1
    <3>3. i # None =>
            /\ s.readIncident = [old.readIncident EXCEPT
                                   ![i] = FirstRead(old.incident[i], incident[i], @)]
            /\ s.incident = [old.incident EXCEPT ![i] = x]
      BY <1>6, <2>1
    <3> HIDE DEF s, y
    <3> QED
      BY <1>1, <1>4, <1>8, <2>1, <3>1, <3>2, <3>3 DEF Upserted
  <2> HIDE DEF session, y
  <2> QED
    BY <1>4, <1>8, <2>1, <2>2, <2>3
<1>9. CASE Escalates(row) /\ \E i \in Fresh :
             sync' = [sync EXCEPT ![t] =
               session([row EXCEPT !.status = "investigating", !.incident_id = i],
                       NewIncident(g, row), i)]
  <2>1. PICK i \in Fresh :
             sync' = [sync EXCEPT ![t] =
               session([row EXCEPT !.status = "investigating", !.incident_id = i],
                       NewIncident(g, row), i)]
    BY <1>9
  <2> DEFINE new == [row EXCEPT !.status = "investigating", !.incident_id = i]
  <2>2. i \in Incident /\ i # None
    BY SessionsTaken DEF Incident, None
  <2>3. /\ new \in GroupRow /\ new.incident_id = i /\ SameSummary(new, row)
        /\ ~Escalates(new)
    <3> HIDE DEF row
    <3> QED
      BY <1>3, <2>2 DEF GroupRow, GroupStatus, IncidentLink, SameSummary, Escalates
  <2>4. /\ NewIncident(g, row) \in IncidentRow
        /\ NewIncident(g, row).group = g
        /\ NewIncident(g, row).occurrence_count = row.occurrence_count
    <3> HIDE DEF row
    <3> QED
      BY <1>2, <1>3 DEF GroupRow, IncidentRow, IncidentStatus, NewIncident
  <2>5. row.incident_id = None
    BY <1>9 DEF Escalates
  <2>6. sync' = [sync EXCEPT ![t] =
                   session(new, NewIncident(g, row), new.incident_id)]
    <3> HIDE DEF session, row
    <3> QED
      BY <2>1, <2>3
  <2> HIDE DEF session, new, row
  <2> QED
    BY <1>1, <1>8, <2>2, <2>3, <2>4, <2>5, <2>6
<1>10. CASE /\ ~Escalates(row)
            /\ row.incident_id = None
            /\ sync' = [sync EXCEPT ![t] = session(row, NoRow, None)]
  <2>1. SameSummary(row, row)
    BY DEF SameSummary
  <2> HIDE DEF session, row
  <2> QED
    BY <1>1, <1>3, <1>8, <1>10, <2>1
<1>11. CASE /\ row.incident_id # None
            /\ sync' = [sync EXCEPT ![t] =
                 session(row, RefreshedIncident(LoadedIncident(t, row.incident_id), row),
                         row.incident_id)]
  <2> DEFINE seen == LoadedIncident(t, row.incident_id)
  <2>1. seen \in IncidentRow /\ seen.group = g
    BY <1>2, <1>3, <1>11, LoadedRows
  <2>2. /\ RefreshedIncident(seen, row) \in IncidentRow
        /\ RefreshedIncident(seen, row).group = g
        /\ RefreshedIncident(seen, row).occurrence_count = row.occurrence_count
    <3> HIDE DEF row, seen
    <3> QED
      BY <1>3, <2>1 DEF RefreshedIncident, GroupRow, IncidentRow
  <2>3. SameSummary(row, row) /\ ~Escalates(row)
    BY <1>11 DEF SameSummary, Escalates
  <2> HIDE DEF session, row
  <2> QED
    BY <1>1, <1>3, <1>8, <1>11, <2>2, <2>3
<1> HIDE DEF session, row
<1> QED
  BY <1>5, <1>9, <1>10, <1>11

------------------------------------------------------------------------------
(* The start of an analyst's request                                       *)

\* The session r that a request opens: what it has loaded is committed, it
\* moves no counter, and if it links a group that has no incident, then to a
\* new one of its own, whose counter is the group's.
Begun(h, r) ==
    /\ request[h].pc = "idle"
    /\ Cardinality(Open) < Concurrency
    /\ request' = [request EXCEPT ![h] = r]
    /\ UNCHANGED <<alert, group, incident, policy, lapsed, sync>>
    /\ r.alerts = {}
    /\ r.pc # "committing"
    /\ \A g \in Group : r.group[g] # NoRow =>
         /\ group[g] # NoRow
         /\ r.readGroup[g] = group[g]
         /\ SameSummary(r.group[g], group[g])
         /\ r.group[g].incident_id # group[g].incident_id =>
              /\ group[g].incident_id = None
              /\ r.group[g].incident_id \in Fresh
              /\ r.incident[r.group[g].incident_id] = NewIncident(g, group[g])
    /\ \A i \in Incident : r.incident[i] # NoRow =>
         \/ /\ i \in Fresh
            /\ r.readIncident[i] = NoRow
            /\ r.incident[i].group \in Group
            /\ r.group[r.incident[i].group] # NoRow
            /\ r.group[r.incident[i].group].incident_id = i
         \/ /\ incident[i] # NoRow
            /\ r.readIncident[i] = incident[i]
            /\ r.incident[i].group = incident[i].group
            /\ r.incident[i].occurrence_count = incident[i].occurrence_count
    /\ r.pc = "executing" /\ r.columns.incident_id # None =>
         \A g \in r.targets :
            r.group[g] # NoRow /\ r.group[g].incident_id = r.columns.incident_id
    /\ r.pc = "propagating" => \A g \in Group : r.group[g] = NoRow

LEMMA BegunLinked ==
    ASSUME IInv, NEW h \in Handler, NEW r \in RequestSession, Begun(h, r)
    PROVE  IInv'
<1>1. Rows(r)
  BY DEF Rows, RequestSession
<1>2. ASSUME NEW g \in Group, r.group[g] # NoRow, r.group[g].incident_id # None
      PROVE  \/ LinksTo(incident, r.group[g].incident_id, g)
             \/ LinksTo(r.incident, r.group[g].incident_id, g)
  <2>1. CASE r.group[g].incident_id = group[g].incident_id
    BY <1>2, <2>1 DEF Begun, IInv, Linked
  <2>2. CASE r.group[g].incident_id # group[g].incident_id
    <3>1. /\ r.incident[r.group[g].incident_id] = NewIncident(g, group[g])
          /\ group[g] \in GroupRow
      BY <1>2, <2>2 DEF Begun, IInv, TypeOK, SessionGroups
    <3>2. NewIncident(g, group[g]) \in IncidentRow /\ NewIncident(g, group[g]).group = g
      BY <3>1 DEF NewIncident, IncidentRow, IncidentStatus, GroupRow
    <3> QED
      BY <3>1, <3>2, NoRowIsNoRow DEF LinksTo
  <2> QED
    BY <2>1, <2>2
<1>3. SessionLinked(r, group, incident)
  <2>1. \A g \in Group : r.group[g] # NoRow =>
          /\ group[g] # NoRow
          /\ r.readGroup[g].incident_id # None => r.group[g].incident_id # None
    BY DEF Begun
  <2>2. \A i \in Incident : r.incident[i] # NoRow =>
          IF r.readIncident[i] = NoRow THEN incident[i] = NoRow
          ELSE /\ incident[i] # NoRow
               /\ r.readIncident[i].group = incident[i].group
               /\ r.incident[i].group = incident[i].group
    BY SessionsTaken DEF Begun
  <2> QED
    BY <1>2, <2>1, <2>2 DEF SessionLinked
<1>4. RequestLoads(r)
  BY DEF Begun, RequestLoads
<1>5. Extends(r, request[h])
  BY SessionsTaken DEF Begun, Extends
<1>6. r.alerts \subseteq Stored
  BY DEF Begun
<1> QED
  BY <1>3, <1>4, <1>5, <1>6, RequestStep DEF Begun

\* The fields of a session r that changes one group.
Changes(r, g, row, columns) ==
    /\ r \in RequestSession /\ r.pc = "executing" /\ r.alerts = {}
    /\ r.readGroup = [NoGroups EXCEPT ![g] = group[g]]
    /\ r.group = [NoGroups EXCEPT ![g] = row]
    /\ r.readIncident = NoIncidents /\ r.incident = NoIncidents
    /\ r.columns = columns /\ r.targets = {g}

LEMMA ChangingShape ==
    ASSUME IInv, NEW g \in Group, group[g] # NoRow, NEW row \in GroupRow,
           NEW columns \in Columns
    PROVE  Changes(Changing(g, row, columns), g, row, columns)
<1>1. Changing(g, row, columns) =
        [pc |-> "executing", name |-> Unset,
         readGroup |-> [NoGroups EXCEPT ![g] = group[g]],
         group |-> [NoGroups EXCEPT ![g] = row],
         readIncident |-> NoIncidents, incident |-> NoIncidents, policy |-> NoRow,
         columns |-> columns, targets |-> {g}, alerts |-> {}]
  <2> DEFINE rg == [NoGroups EXCEPT ![g] = group[g]]
             gr == [NoGroups EXCEPT ![g] = row]
  <2>1. IdleRequest.readGroup = NoGroups /\ IdleRequest.group = NoGroups
    BY DEF IdleRequest
  <2>2. Changing(g, row, columns) =
          [IdleRequest EXCEPT !.pc = "executing", !.readGroup = rg, !.group = gr,
                              !.columns = columns, !.targets = {g}]
    BY <2>1 DEF Changing
  <2> HIDE DEF rg, gr
  <2>3. Changing(g, row, columns) =
        [pc |-> "executing", name |-> Unset, readGroup |-> rg, group |-> gr,
         readIncident |-> NoIncidents, incident |-> NoIncidents, policy |-> NoRow,
         columns |-> columns, targets |-> {g}, alerts |-> {}]
    BY <2>2 DEF IdleRequest
  <2> QED
    BY <2>3 DEF rg, gr
<1>2. NoGroups \in SessionGroups /\ NoIncidents \in SessionIncidents
  BY DEF NoGroups, NoIncidents, SessionGroups, SessionIncidents
<1>3. group[g] \in GroupRow \cup {NoRow}
  BY DEF IInv, TypeOK, SessionGroups
<1>4. /\ [NoGroups EXCEPT ![g] = group[g]] \in SessionGroups
      /\ [NoGroups EXCEPT ![g] = row] \in SessionGroups
  BY <1>2, <1>3 DEF SessionGroups
<1> QED
  BY <1>1, <1>2, <1>4 DEF RequestSession, Changes

\* Such a session starts a request if it moves no counter and no link.
LEMMA ChangingBegins ==
    ASSUME IInv, NEW h \in Handler, NEW g \in Group, group[g] # NoRow,
           NEW row \in GroupRow, NEW columns \in Columns,
           SameSummary(row, group[g]), row.incident_id = group[g].incident_id,
           columns.incident_id # None => columns.incident_id = row.incident_id,
           Begin(h, Changing(g, row, columns))
    PROVE  \E r \in RequestSession : Begun(h, r)
<1> DEFINE r == Changing(g, row, columns)
<1>1. Changes(r, g, row, columns)
  BY ChangingShape
<1>2. /\ request[h].pc = "idle" /\ Cardinality(Open) < Concurrency
      /\ request' = [request EXCEPT ![h] = r]
      /\ UNCHANGED <<alert, group, incident, policy, lapsed, sync>>
  BY DEF Begin
<1> HIDE DEF r
<1>3. /\ \A f \in Group : r.group[f] # NoRow => f = g
      /\ r.group[g] = row /\ r.readGroup[g] = group[g]
      /\ \A i \in Incident : r.incident[i] = NoRow
  BY <1>1 DEF Changes, NoGroups, NoIncidents
<1>4. row # NoRow
  BY NoRowIsNoRow
<1>5. Begun(h, r)
  BY <1>1, <1>2, <1>3, <1>4 DEF Begun, Changes
<1> QED
  BY <1>1, <1>5 DEF Changes

LEMMA UpdateAlertGroupBegins ==
    ASSUME IInv, NEW h \in Handler, NEW g \in Group, NEW status \in GroupInput,
           UpdateAlertGroup(h, g, status)
    PROVE  \E r \in RequestSession : Begun(h, r)
<1>1. group[g] \in GroupRow /\ group[g] # NoRow
  BY DEF IInv, TypeOK, SessionGroups, UpdateAlertGroup
<1>2. CASE status = "suppressed" /\ group[g].incident_id # None
  <2> DEFINE r == [IdleRequest EXCEPT !.pc = "refused", !.targets = {g}]
  <2>1. Begin(h, r)
    BY <1>2 DEF UpdateAlertGroup
  <2>2. /\ r.pc = "refused" /\ r.alerts = {}
        /\ r.group = NoGroups /\ r.incident = NoIncidents
    BY DEF IdleRequest
  <2>3. r \in RequestSession
    BY IdleSessions DEF RequestSession
  <2>4. /\ request[h].pc = "idle" /\ Cardinality(Open) < Concurrency
        /\ request' = [request EXCEPT ![h] = r]
        /\ UNCHANGED <<alert, group, incident, policy, lapsed, sync>>
    BY <2>1 DEF Begin
  <2> HIDE DEF r
  <2>5. /\ \A f \in Group : r.group[f] = NoRow
        /\ \A i \in Incident : r.incident[i] = NoRow
    BY <2>2 DEF NoGroups, NoIncidents
  <2>6. Begun(h, r)
    BY <2>2, <2>4, <2>5 DEF Begun
  <2> QED
    BY <2>3, <2>6
<1>3. CASE ~(status = "suppressed" /\ group[g].incident_id # None)
  <2> DEFINE row == [group[g] EXCEPT !.status = status]
             columns == [NoColumns EXCEPT !.status = status]
  <2>1. Begin(h, Changing(g, row, columns))
    BY <1>3 DEF UpdateAlertGroup
  <2>2. status \in GroupStatus
    BY InputAssumption
  <2>3. row \in GroupRow /\ SameSummary(row, group[g]) /\ row.incident_id = group[g].incident_id
    BY <1>1, <2>2 DEF GroupRow, SameSummary
  <2>4. columns \in Columns /\ columns.incident_id = None
    BY <2>2 DEF Columns, NoColumns, IncidentLink
  <2> HIDE DEF row, columns
  <2> QED
    BY <1>1, <2>1, <2>3, <2>4, ChangingBegins
<1> QED
  BY <1>2, <1>3

LEMMA CreateIncidentBegins ==
    ASSUME IInv, NEW h \in Handler, NEW g \in Group, CreateIncident(h, g)
    PROVE  \E r \in RequestSession : Begun(h, r)
<1>1. group[g] \in GroupRow /\ group[g] # NoRow
  BY DEF IInv, TypeOK, SessionGroups, CreateIncident
<1>2. CASE group[g].incident_id # None
  <2> DEFINE columns == [NoColumns EXCEPT !.incident_id = group[g].incident_id]
  <2>1. Begin(h, Changing(g, group[g], columns))
    BY <1>2 DEF CreateIncident
  <2>2. columns \in Columns /\ columns.incident_id = group[g].incident_id
    BY <1>1 DEF Columns, NoColumns, GroupRow
  <2>3. SameSummary(group[g], group[g])
    BY DEF SameSummary
  <2> HIDE DEF columns
  <2> QED
    BY <1>1, <2>1, <2>2, <2>3, ChangingBegins
<1>3. CASE group[g].incident_id = None
  <2> DEFINE row(i) == [group[g] EXCEPT !.incident_id = i, !.status = "investigating"]
             columns(i) == [NoColumns EXCEPT !.incident_id = i]
             changing(i) == Changing(g, row(i), columns(i))
             session(i) == [changing(i) EXCEPT !.incident[i] = NewIncident(g, group[g])]
  <2>1. PICK i \in Fresh : Begin(h, session(i))
    BY <1>3 DEF CreateIncident
  <2>2. i \in Incident /\ i \notin Taken /\ i # None
    BY SessionsTaken DEF Incident, None
  <2>3. /\ row(i) \in GroupRow /\ SameSummary(row(i), group[g])
        /\ row(i).incident_id = i
    BY <1>1, <2>2 DEF GroupRow, GroupStatus, IncidentLink, SameSummary
  <2>4. columns(i) \in Columns /\ columns(i).incident_id = i
    BY <2>2 DEF Columns, NoColumns, IncidentLink
  <2>5. /\ NewIncident(g, group[g]) \in IncidentRow
        /\ NewIncident(g, group[g]).group = g
    BY <1>1 DEF NewIncident, IncidentRow, IncidentStatus, GroupRow
  <2> HIDE DEF row, columns
  <2>6. Changes(changing(i), g, row(i), columns(i))
    BY <1>1, <2>3, <2>4, ChangingShape
  <2> HIDE DEF changing
  <2> DEFINE r == session(i)
  <2>7. /\ r.pc = "executing" /\ r.alerts = {}
        /\ r.readGroup = [NoGroups EXCEPT ![g] = group[g]]
        /\ r.group = [NoGroups EXCEPT ![g] = row(i)]
        /\ r.readIncident = NoIncidents
        /\ r.incident = [NoIncidents EXCEPT ![i] = NewIncident(g, group[g])]
        /\ r.columns = columns(i) /\ r.targets = {g}
    BY <2>6 DEF Changes, RequestSession
  <2>8. r \in RequestSession
    <3>1. r.incident \in SessionIncidents
      BY <2>2, <2>5, <2>7 DEF SessionIncidents, NoIncidents
    <3>2. r = [changing(i) EXCEPT !.incident = r.incident]
      BY <2>6, <2>7 DEF Changes
    <3> HIDE DEF session
    <3> QED
      BY <2>6, <3>1, <3>2 DEF Changes, RequestSession
  <2>9. /\ request[h].pc = "idle" /\ Cardinality(Open) < Concurrency
        /\ request' = [request EXCEPT ![h] = r]
        /\ UNCHANGED <<alert, group, incident, policy, lapsed, sync>>
    BY <2>1 DEF Begin
  <2> HIDE DEF r, session
  <2>10. /\ \A f \in Group : r.group[f] # NoRow => f = g
         /\ r.group[g] = row(i) /\ r.readGroup[g] = group[g]
         /\ \A j \in Incident : r.incident[j] # NoRow => j = i
         /\ r.incident[i] = NewIncident(g, group[g])
         /\ r.readIncident[i] = NoRow
    BY <2>2, <2>7 DEF NoGroups, NoIncidents
  <2>11. row(i) # NoRow
    BY <2>3, NoRowIsNoRow
  <2>12. Begun(h, r)
    BY <1>1, <1>3, <2>3, <2>4, <2>5, <2>7, <2>9, <2>10, <2>11 DEF Begun
  <2> QED
    BY <2>8, <2>12
<1> QED
  BY <1>2, <1>3

LEMMA CreateNoisePolicyBegins ==
    ASSUME IInv, NEW h \in Handler, NEW p \in Policy, NEW payload \in PolicyPayload,
           CreateNoisePolicy(h, p, payload)
    PROVE  \E r \in RequestSession : Begun(h, r)
<1> DEFINE matched == {g \in Group : group[g] # NoRow
                                     /\ Matches(payload, g, group[g].severity)}
           changed(row) ==
             IF payload.action = "suppress" THEN [row EXCEPT !.status = "suppressed"]
             ELSE IF payload.target_severity # None
             THEN [row EXCEPT !.severity = payload.target_severity]
             ELSE row
           rg == [g \in Group |-> IF g \in matched THEN group[g] ELSE NoRow]
           gr == [g \in Group |-> IF g \in matched THEN changed(group[g]) ELSE NoRow]
           columns == IF payload.action = "suppress"
                      THEN [NoColumns EXCEPT !.status = "suppressed"]
                      ELSE [NoColumns EXCEPT !.severity = payload.target_severity]
           r == [IdleRequest EXCEPT
                   !.pc = "executing", !.name = p, !.policy = payload, !.targets = matched,
                   !.readGroup = rg, !.group = gr, !.columns = columns]
<1>1. Begin(h, r)
  BY DEF CreateNoisePolicy
<1>2. payload \in PolicyRow
  BY InputAssumption
<1>3. ASSUME NEW g \in matched
      PROVE  /\ group[g] \in GroupRow /\ group[g] # NoRow
             /\ changed(group[g]) \in GroupRow
             /\ SameSummary(changed(group[g]), group[g])
             /\ changed(group[g]).incident_id = group[g].incident_id
  <2>1. group[g] \in GroupRow /\ group[g] # NoRow
    BY DEF IInv, TypeOK, SessionGroups
  <2>2. CASE payload.action = "suppress"
    <3>1. changed(group[g]) = [group[g] EXCEPT !.status = "suppressed"]
      BY <2>2
    <3> HIDE DEF changed
    <3> QED
      BY <2>1, <3>1 DEF GroupRow, GroupStatus, SameSummary
  <2>3. CASE payload.action # "suppress" /\ payload.target_severity # None
    <3>1. payload.target_severity \in Severity
      BY <1>2, <2>3 DEF PolicyRow
    <3>2. changed(group[g]) = [group[g] EXCEPT !.severity = payload.target_severity]
      BY <2>3
    <3> HIDE DEF changed
    <3> QED
      BY <2>1, <3>1, <3>2 DEF GroupRow, SameSummary
  <2>4. CASE payload.action # "suppress" /\ payload.target_severity = None
    BY <2>1, <2>4 DEF SameSummary
  <2> QED
    BY <2>2, <2>3, <2>4
<1>4. columns \in Columns /\ columns.incident_id = None
  <2>1. payload.target_severity \in Severity \cup {None}
    BY <1>2 DEF PolicyRow
  <2>2. CASE payload.action = "suppress"
    BY <2>2 DEF Columns, NoColumns, GroupStatus, IncidentLink
  <2>3. CASE payload.action # "suppress"
    BY <2>1, <2>3 DEF Columns, NoColumns, IncidentLink
  <2> QED
    BY <2>2, <2>3
<1>5. rg \in SessionGroups /\ gr \in SessionGroups /\ matched \subseteq Group
  <2> HIDE DEF changed
  <2>1. matched \subseteq Group
    OBVIOUS
  <2>2. \A g \in Group : rg[g] \in GroupRow \cup {NoRow} /\ gr[g] \in GroupRow \cup {NoRow}
    BY <1>3
  <2> HIDE DEF matched
  <2> QED
    BY <2>1, <2>2 DEF SessionGroups
<1>6. \A g \in Group :
        IF g \in matched THEN rg[g] = group[g] /\ gr[g] = changed(group[g])
        ELSE gr[g] = NoRow
  <2> HIDE DEF matched, changed
  <2> QED
    OBVIOUS
<1> HIDE DEF rg, gr, columns, changed, matched
<1>7. r \in RequestSession
  <2>1. p \in Policy \cup {Unset} /\ payload \in PolicyPayload \cup {NoRow}
        /\ matched \in SUBSET Group
    BY <1>5
  <2> HIDE DEF IdleRequest
  <2> QED
    BY <1>4, <1>5, <2>1, IdleSessions DEF RequestSession
<1>8. /\ request[h].pc = "idle" /\ Cardinality(Open) < Concurrency
      /\ request' = [request EXCEPT ![h] = r]
      /\ UNCHANGED <<alert, group, incident, policy, lapsed, sync>>
  BY <1>1 DEF Begin
<1>9. /\ r.pc = "executing" /\ r.alerts = {} /\ r.readGroup = rg /\ r.group = gr
       /\ r.incident = NoIncidents /\ r.columns = columns
  BY DEF IdleRequest
<1> HIDE DEF r
<1>10. \A g \in Group : r.group[g] # NoRow => g \in matched
  BY <1>6, <1>9
<1>11. Begun(h, r)
  BY <1>3, <1>4, <1>6, <1>8, <1>9, <1>10 DEF Begun, NoIncidents
<1> QED
  BY <1>7, <1>11

LEMMA UpdateIncidentBegins ==
    ASSUME IInv, NEW h \in Handler, NEW i \in Incident, NEW status \in IncidentInput,
           NEW severity \in SeverityInput, UpdateIncident(h, i, status, severity)
    PROVE  \E r \in RequestSession : Begun(h, r)
<1> DEFINE row == [incident[i] EXCEPT
                     !.status = IF status # Unset THEN status ELSE @,
                     !.severity = IF severity # None THEN severity ELSE @]
           columns == [NoColumns EXCEPT
                         !.status = GroupStatusFor(status), !.incident_id = i]
           ri == [NoIncidents EXCEPT ![i] = incident[i]]
           ii == [NoIncidents EXCEPT ![i] = row]
           r == [IdleRequest EXCEPT
                   !.pc = "propagating", !.readIncident[i] = incident[i],
                   !.incident[i] = row, !.columns = columns]
<1>1. incident[i] # NoRow /\ Begin(h, r)
  BY DEF UpdateIncident
<1>2. incident[i] \in IncidentRow
  BY <1>1 DEF IInv, TypeOK, SessionIncidents
<1>3. /\ status \in IncidentStatus \cup {Unset}
      /\ severity \in Severity \cup {None}
  BY InputAssumption
<1>4. /\ row \in IncidentRow /\ row.group = incident[i].group
      /\ row.occurrence_count = incident[i].occurrence_count
  BY <1>2, <1>3 DEF IncidentRow
<1>5. GroupStatusFor(status) \in GroupStatus \cup {Unset}
  BY <1>3 DEF GroupStatusFor, GroupStatus, IncidentStatus, Unset
<1>6. columns \in Columns
  BY <1>5 DEF Columns, NoColumns, IncidentLink
<1> HIDE DEF row, columns
<1>7. ri \in SessionIncidents /\ ii \in SessionIncidents
  BY <1>2, <1>4 DEF NoIncidents, SessionIncidents
<1>8. \A j \in Incident :
        IF j = i THEN ri[j] = incident[j] /\ ii[j] = row ELSE ii[j] = NoRow
  BY DEF NoIncidents
<1>9. r = [IdleRequest EXCEPT !.pc = "propagating", !.readIncident = ri,
                              !.incident = ii, !.columns = columns]
  BY DEF IdleRequest
<1> HIDE DEF ri, ii, r
<1>10. r = [pc |-> "propagating", name |-> Unset, readGroup |-> NoGroups,
            group |-> NoGroups, readIncident |-> ri, incident |-> ii, policy |-> NoRow,
            columns |-> columns, targets |-> {}, alerts |-> {}]
  BY <1>9 DEF IdleRequest
<1>11. r \in RequestSession
  <2>1. NoGroups \in SessionGroups
    BY DEF NoGroups, SessionGroups
  <2> QED
    BY <1>6, <1>7, <1>10, <2>1 DEF RequestSession
<1>12. /\ request[h].pc = "idle" /\ Cardinality(Open) < Concurrency
       /\ request' = [request EXCEPT ![h] = r]
       /\ UNCHANGED <<alert, group, incident, policy, lapsed, sync>>
  BY <1>1 DEF Begin
<1>13. /\ r.pc = "propagating" /\ r.alerts = {}
       /\ r.readIncident = ri /\ r.incident = ii
       /\ \A g \in Group : r.group[g] = NoRow
  BY <1>10 DEF NoGroups
<1>14. Begun(h, r)
  BY <1>1, <1>4, <1>8, <1>12, <1>13 DEF Begun
<1> QED
  BY <1>11, <1>14

------------------------------------------------------------------------------
(* Every step keeps the links                                              *)

LinksStay ==
    \A g \in Group : group[g] # NoRow /\ group[g].incident_id # None =>
        group'[g] # NoRow /\ group'[g].incident_id # None

LEMMA SyncStartLinked ==
    ASSUME IInv, NEW t \in SyncTask, SyncStart(t)
    PROVE  IInv'
<1> DEFINE policies == [p \in Policy |-> IF policy[p] # NoRow /\ policy[p].enabled
                                         THEN policy[p] ELSE NoRow]
           session(batch) == [IdleSync EXCEPT !.pc = "upserting", !.batch = batch,
                                              !.policies = policies]
<1>1. PICK batch \in SUBSET (Alert \ Stored) :
             sync' = [sync EXCEPT ![t] = session(batch)]
  BY DEF SyncStart
<1> DEFINE s == session(batch)
<1>2. policies \in [Policy -> PolicyRow \cup {NoRow}]
  BY DEF IInv, TypeOK
<1> HIDE DEF policies
<1>3. s \in SyncSession
  BY <1>2, IdleSessions DEF SyncSession
<1>4. s.group = NoGroups /\ s.incident = NoIncidents
  BY DEF IdleSync
<1>5. sync' = [sync EXCEPT ![t] = s]
  BY <1>1
<1> HIDE DEF s, session
<1>6. SessionLinked(s, group, incident) /\ Extends(s, sync[t])
  BY <1>4 DEF SessionLinked, Extends, NoGroups, NoIncidents
<1> QED
  BY <1>3, <1>5, <1>6, SyncStep DEF SyncStart

LEMMA UpsertLinked ==
    ASSUME IInv, NEW t \in SyncTask, NEW a \in Alert, NEW q \in SUBSET Policy,
           NEW p \in PolicyRow \cup {NoRow}, Upsert(t, a, q, p)
    PROVE  IInv'
<1>1. PICK s \in SyncSession, new \in GroupRow, y \in AlertRow :
             sync' = [sync EXCEPT ![t] = s] /\ Upserted(t, a, p, s, new, y)
  BY UpsertShape
<1> DEFINE g == GroupOf[a]
           i == new.incident_id
           old == sync[t]
           row == UpsertedGroup(LoadedGroup(t, g), a, p)
<1>2. /\ g \in Group /\ i \in IncidentLink
      /\ old \in SyncSession /\ SessionLinked(old, group, incident)
  BY AlertAssumption DEF IInv, TypeOK, SessionInv, GroupRow
<1>3. row.incident_id = IF LoadedGroup(t, g) = NoRow THEN None
                        ELSE LoadedGroup(t, g).incident_id
  BY <1>2, LoadedRows, GroupUpserted
<1> HIDE DEF row
<1>4. /\ \A f \in Group : f # g => s.group[f] = old.group[f]
                                   /\ s.readGroup[f] = old.readGroup[f]
      /\ s.group[g] = new
      /\ s.readGroup[g] = FirstRead(old.group[g], group[g], old.readGroup[g])
  BY <1>1, <1>2 DEF Upserted, SyncSession, SessionGroups
<1>5. /\ row.incident_id # None => i = row.incident_id
      /\ i # None /\ row.incident_id # i => i \in Fresh
  BY <1>1 DEF Upserted, row
<1>6. \A j \in Incident : j # i => s.incident[j] = old.incident[j]
                                   /\ s.readIncident[j] = old.readIncident[j]
  BY <1>1, <1>2 DEF Upserted, SyncSession, SessionIncidents
<1>7. i # None =>
        /\ i \in Incident
        /\ s.incident[i] # NoRow /\ s.incident[i].group = g
        /\ s.readIncident[i] = FirstRead(old.incident[i], incident[i], old.readIncident[i])
  BY <1>1, <1>2, NoRowIsNoRow DEF Upserted, SyncSession, SessionIncidents, IncidentLink
<1>8. ASSUME i # None, old.incident[i] = NoRow
      PROVE  incident[i] # NoRow => incident[i].group = g
  <2>1. CASE i \in Fresh
    BY <2>1, SessionsTaken
  <2>2. CASE row.incident_id = i
    <3>1. LoadedGroup(t, g) # NoRow /\ LoadedGroup(t, g).incident_id = i
      BY <1>3, <1>8, <2>2
    <3>2. LoadedIncident(t, i).group = g
      BY <1>2, <1>8, <3>1, LoadedRows
    <3> QED
      BY <1>8, <3>2 DEF LoadedIncident
  <2> QED
    BY <1>5, <1>8, <2>1, <2>2
<1> HIDE DEF i
<1>9. ASSUME NEW j \in Incident, s.incident[j] # NoRow
       PROVE  IF s.readIncident[j] = NoRow THEN incident[j] = NoRow
              ELSE /\ incident[j] # NoRow
                   /\ s.readIncident[j].group = incident[j].group
                   /\ s.incident[j].group = incident[j].group
  <2>1. CASE j # i
    BY <1>2, <1>6, <1>9, <2>1 DEF SessionLinked
  <2>2. CASE j = i
    <3>1. i # None
      BY <2>2 DEF Incident, None
    <3>2. CASE old.incident[i] = NoRow
      BY <1>7, <1>8, <2>2, <3>1, <3>2 DEF FirstRead
    <3>3. CASE old.incident[i] # NoRow
      <4>1. s.readIncident[i] = old.readIncident[i]
        BY <1>7, <3>1, <3>3 DEF FirstRead
      <4>2. CASE i \in Fresh
        BY <3>3, <4>2, SessionsTaken
      <4>3. CASE row.incident_id = i
        <5>1. LoadedGroup(t, g) # NoRow /\ LoadedGroup(t, g).incident_id = i
          BY <1>3, <3>1, <4>3
        <5>2. old.incident[i].group = g
          BY <1>2, <3>1, <3>3, <5>1, LoadedRows DEF LoadedIncident
        <5> QED
          BY <1>2, <1>7, <2>2, <3>1, <3>3, <4>1, <5>2 DEF SessionLinked
      <4> QED
        BY <1>5, <3>1, <4>2, <4>3
    <3> QED
      BY <3>2, <3>3
  <2> QED
    BY <2>1, <2>2
<1>10. ASSUME NEW f \in Group, s.group[f] # NoRow
       PROVE  /\ s.readGroup[f] # NoRow =>
                   /\ group[f] # NoRow
                   /\ s.readGroup[f].incident_id # None => s.group[f].incident_id # None
              /\ s.group[f].incident_id # None =>
                   \/ LinksTo(incident, s.group[f].incident_id, f)
                   \/ LinksTo(s.incident, s.group[f].incident_id, f)
  <2>1. CASE f # g
    <3>1. /\ s.group[f] = old.group[f] /\ s.readGroup[f] = old.readGroup[f]
          /\ old.group[f] # NoRow
      BY <1>4, <1>10, <2>1
    <3>2. ASSUME old.group[f].incident_id # None
          PROVE  \/ LinksTo(incident, old.group[f].incident_id, f)
                 \/ LinksTo(s.incident, old.group[f].incident_id, f)
      <4> DEFINE j == old.group[f].incident_id
      <4>1. j \in Incident
        BY <1>2, <3>1, <3>2 DEF SyncSession, SessionGroups, GroupRow, IncidentLink
      <4>2. LinksTo(incident, j, f) \/ LinksTo(old.incident, j, f)
        BY <1>2, <3>1, <3>2 DEF SessionLinked
      <4>3. CASE LinksTo(old.incident, j, f) /\ j = i /\ ~LinksTo(incident, j, f)
        <5>1. i # None /\ old.incident[i] # NoRow /\ old.incident[i].group = f
          BY <3>2, <4>3 DEF LinksTo
        <5>2. i \notin Fresh
          BY <4>1, <4>3, <5>1, SessionsTaken
        <5>3. LoadedGroup(t, g) # NoRow /\ LoadedGroup(t, g).incident_id = i
          BY <1>3, <1>5, <5>1, <5>2
        <5>4. old.incident[i].group = g
          BY <1>2, <5>1, <5>3, LoadedRows DEF LoadedIncident
        <5> QED
          BY <2>1, <5>1, <5>4
      <4>4. CASE LinksTo(old.incident, j, f) /\ j # i
        BY <1>6, <4>1, <4>4 DEF LinksTo
      <4> QED
        BY <4>2, <4>3, <4>4
    <3> QED
      BY <1>2, <3>1, <3>2 DEF SessionLinked
  <2>2. CASE f = g
    <3>1. i # None => LinksTo(s.incident, i, g)
      BY <1>7 DEF LinksTo
    <3>2. ASSUME s.readGroup[g] # NoRow
          PROVE  group[g] # NoRow /\ (s.readGroup[g].incident_id # None => i # None)
      <4>1. CASE old.group[g] = NoRow
        <5>1. LoadedGroup(t, g) = group[g] /\ s.readGroup[g] = group[g]
          BY <1>4, <4>1 DEF LoadedGroup, FirstRead
        <5> QED
          BY <1>3, <1>5, <3>2, <5>1
      <4>2. CASE old.group[g] # NoRow
        <5>1. LoadedGroup(t, g) = old.group[g] /\ s.readGroup[g] = old.readGroup[g]
          BY <1>4, <4>2 DEF LoadedGroup, FirstRead
        <5> QED
          BY <1>2, <1>3, <1>5, <3>2, <4>2, <5>1 DEF SessionLinked
      <4> QED
        BY <4>1, <4>2
    <3> QED
      BY <1>4, <2>2, <3>1, <3>2 DEF i
  <2> QED
    BY <2>1, <2>2
<1>11. SessionLinked(s, group, incident)
  BY <1>9, <1>10 DEF SessionLinked
<1>12. Extends(s, old)
  <2> SUFFICES ASSUME NEW j \in Incident, s.incident[j] # NoRow
               PROVE  \/ old.incident[j] # NoRow /\ s.readIncident[j] = old.readIncident[j]
                      \/ incident[j] # NoRow /\ s.readIncident[j] # NoRow
                      \/ j \notin Taken /\ s.readIncident[j] = NoRow
    BY DEF Extends
  <2>1. CASE j # i
    BY <1>6, <2>1
  <2>2. CASE j = i
    <3>1. i # None
      BY <2>2 DEF Incident, None
    <3>2. CASE old.incident[i] # NoRow
      BY <1>7, <2>2, <3>1, <3>2 DEF FirstRead
    <3>3. CASE old.incident[i] = NoRow /\ i \in Fresh
      BY <1>7, <2>2, <3>1, <3>3, SessionsTaken DEF FirstRead
    <3>4. CASE old.incident[i] = NoRow /\ row.incident_id = i
      <4>1. LoadedGroup(t, g) # NoRow /\ LoadedGroup(t, g).incident_id = i
        BY <1>3, <3>1, <3>4
      <4>2. LoadedIncident(t, i) # NoRow
        BY <1>2, <3>1, <4>1, LoadedRows, NoRowIsNoRow
      <4> QED
        BY <1>7, <2>2, <3>1, <3>4, <4>2 DEF FirstRead, LoadedIncident
    <3> QED
      BY <1>5, <3>1, <3>2, <3>3, <3>4
  <2> QED
    BY <2>1, <2>2
<1> QED
  BY <1>1, <1>11, <1>12, UpsertShape, SyncStep

\* A commit, of whichever session, as the tables and the others see it.
LEMMA CommitTables ==
    ASSUME IInv, NEW s, Rows(s), SessionLinked(s, group, incident),
           \A g \in Group : s.group[g] # NoRow /\ s.readGroup[g] = NoRow => group[g] = NoRow,
           WriteGroups(s), WriteIncidents(s)
    PROVE  /\ group' \in SessionGroups /\ incident' \in SessionIncidents
           /\ Linked(group', incident')
           /\ Grown(s, group, incident, group', incident')
           /\ LinksStay
<1>1. /\ group \in SessionGroups /\ incident \in SessionIncidents
      /\ Linked(group, incident)
  BY DEF IInv, TypeOK
<1>2. group' = [g \in Group |-> Merge(group[g], s.readGroup[g], s.group[g])]
  BY DEF WriteGroups
<1>3. incident' = [i \in Incident |->
                     Merge(incident[i], s.readIncident[i], s.incident[i])]
  BY DEF WriteIncidents
<1>4. /\ group' \in SessionGroups
      /\ \A g \in Group : group[g] # NoRow => group'[g] # NoRow
  BY <1>1, <1>2, WrittenGroups
<1>5. /\ incident' \in SessionIncidents
      /\ \A i \in Incident : incident[i] # NoRow =>
           incident'[i] # NoRow /\ incident'[i].group = incident[i].group
      /\ \A i \in Incident : incident[i] = NoRow /\ incident'[i] # NoRow =>
           s.incident[i] # NoRow /\ s.readIncident[i] = NoRow
  BY <1>1, <1>3, WrittenIncidents
<1>6. /\ Linked(group', incident')
      /\ \A g \in Group : group[g] # NoRow /\ group[g].incident_id # None =>
           group'[g].incident_id # None
  BY <1>1, <1>2, <1>3, WrittenLinks
<1> QED
  BY <1>4, <1>5, <1>6 DEF Grown, LinksStay

\* The others' sessions after the commit of a synchronization or of a request.
LEMMA SyncOver ==
    ASSUME IInv, NEW t \in SyncTask, sync' = [sync EXCEPT ![t] = IdleSync],
           UNCHANGED request, Stored \subseteq Stored',
           Grown(sync[t], group, incident, group', incident')
    PROVE  (SessionInv /\ ApartInv /\ ReachedInv)'
<1>1. sync'[t] = IdleSync /\ \A u \in SyncTask \ {t} : sync'[u] = sync[u]
  BY DEF IInv, TypeOK
<1>2. /\ \A u \in SyncTask : Rows(sync[u])
      /\ \A h \in Handler : Rows(request[h])
  BY DEF IInv, TypeOK, Rows, SyncSession, RequestSession
<1>3. SessionInv'
  <2>1. \A u \in SyncTask : SessionLinked(sync'[u], group', incident')
    <3>1. \A u \in SyncTask \ {t} : SessionLinked(sync[u], group', incident')
      BY <1>2, OthersStayLinked DEF IInv, SessionInv, ApartInv
    <3> QED
      BY <1>1, <3>1, IdleSessions
  <2>2. \A h \in Handler : SessionLinked(request'[h], group', incident')
    BY <1>2, OthersStayLinked DEF IInv, SessionInv, ApartInv
  <2>3. \A h \in Handler : RequestLoads(request'[h])
    BY DEF IInv, SessionInv
  <2> QED
    BY <2>1, <2>2, <2>3 DEF SessionInv
<1>4. ApartInv'
  <2>1. \A u, v \in SyncTask : u # v => Apart(sync'[u], sync'[v])
    BY <1>1, IdleSessions DEF IInv, ApartInv
  <2>2. \A h, k \in Handler : h # k => Apart(request'[h], request'[k])
    BY DEF IInv, ApartInv
  <2>3. \A u \in SyncTask, h \in Handler :
          Apart(sync'[u], request'[h]) /\ Apart(request'[h], sync'[u])
    BY <1>1, IdleSessions DEF IInv, ApartInv
  <2> QED
    BY <2>1, <2>2, <2>3 DEF ApartInv
<1>5. ReachedInv'
  <2>1. \A h \in Handler : request'[h].alerts \subseteq Stored'
    BY DEF IInv, ReachedInv
  <2> QED
    BY <2>1 DEF ReachedInv
<1> QED
  BY <1>3, <1>4, <1>5

LEMMA RequestOver ==
    ASSUME IInv, NEW h \in Handler, request' = [request EXCEPT ![h] = IdleRequest],
           UNCHANGED sync, Stored \subseteq Stored',
           Grown(request[h], group, incident, group', incident')
    PROVE  (SessionInv /\ ApartInv /\ ReachedInv)'
<1>1. request'[h] = IdleRequest /\ \A k \in Handler \ {h} : request'[k] = request[k]
  BY DEF IInv, TypeOK
<1>2. /\ \A u \in SyncTask : Rows(sync[u])
      /\ \A k \in Handler : Rows(request[k])
  BY DEF IInv, TypeOK, Rows, SyncSession, RequestSession
<1>3. SessionInv'
  <2>1. \A k \in Handler : SessionLinked(request'[k], group', incident')
    <3>1. \A k \in Handler \ {h} : SessionLinked(request[k], group', incident')
      BY <1>2, OthersStayLinked DEF IInv, SessionInv, ApartInv
    <3> QED
      BY <1>1, <3>1, IdleSessions
  <2>2. \A u \in SyncTask : SessionLinked(sync'[u], group', incident')
    BY <1>2, OthersStayLinked DEF IInv, SessionInv, ApartInv
  <2>3. \A k \in Handler : RequestLoads(request'[k])
    BY <1>1, IdleSessions DEF IInv, SessionInv
  <2> QED
    BY <2>1, <2>2, <2>3 DEF SessionInv
<1>4. ApartInv'
  <2>1. \A u, v \in SyncTask : u # v => Apart(sync'[u], sync'[v])
    BY DEF IInv, ApartInv
  <2>2. \A k, m \in Handler : k # m => Apart(request'[k], request'[m])
    BY <1>1, IdleSessions DEF IInv, ApartInv
  <2>3. \A u \in SyncTask, k \in Handler :
          Apart(sync'[u], request'[k]) /\ Apart(request'[k], sync'[u])
    BY <1>1, IdleSessions DEF IInv, ApartInv
  <2> QED
    BY <2>1, <2>2, <2>3 DEF ApartInv
<1>5. ReachedInv'
  <2>1. \A k \in Handler : request'[k].alerts \subseteq Stored'
    BY <1>1, IdleSessions DEF IInv, ReachedInv
  <2> QED
    BY <2>1 DEF ReachedInv
<1> QED
  BY <1>3, <1>4, <1>5

LEMMA SyncCommitLinked ==
    ASSUME IInv, NEW t \in SyncTask, SyncCommit(t)
    PROVE  IInv' /\ LinksStay
<1> DEFINE s == sync[t]
<1>1. s \in SyncSession /\ Rows(s) /\ SessionLinked(s, group, incident)
  BY DEF IInv, TypeOK, SessionInv, SyncSession, Rows
<1>2. /\ group' \in SessionGroups /\ incident' \in SessionIncidents
      /\ Linked(group', incident')
      /\ Grown(s, group, incident, group', incident')
      /\ LinksStay
  <2>1. \A g \in Group : s.group[g] # NoRow /\ s.readGroup[g] = NoRow => group[g] = NoRow
    BY DEF SyncCommit, SyncConsistent
  <2> QED
    BY <1>1, <2>1, CommitTables DEF SyncCommit
<1>3. \A a \in Alert : alert'[a] = IF s.alerts[a] = NoRow THEN alert[a] ELSE s.alerts[a]
  BY DEF SyncCommit, Merge
<1>4. alert' \in [Alert -> AlertRow \cup {NoRow}]
  <2>1. alert' = [a \in Alert |-> Merge(alert[a], NoRow, s.alerts[a])]
    BY DEF SyncCommit
  <2> QED
    BY <1>1, <1>3, <2>1 DEF IInv, TypeOK, SyncSession
<1>5. Stored \subseteq Stored'
  BY <1>3 DEF Stored
<1>6. sync' = [sync EXCEPT ![t] = IdleSync] /\ UNCHANGED <<policy, lapsed, request>>
  BY DEF SyncCommit
<1>7. TypeOK'
  <2>1. sync' \in [SyncTask -> SyncSession]
    BY <1>6, IdleSessions DEF IInv, TypeOK
  <2> QED
    BY <1>2, <1>4, <1>6, <2>1 DEF IInv, TypeOK
<1>8. (SessionInv /\ ApartInv /\ ReachedInv)'
  BY <1>2, <1>5, <1>6, SyncOver
<1>9. Linked(group, incident)'
  BY <1>2 DEF Linked, LinksTo
<1> QED
  BY <1>2, <1>7, <1>8, <1>9 DEF IInv

\* SET clauses on a row.
LEMMA ColumnsSet ==
    ASSUME NEW columns \in Columns
    PROVE  /\ \A row \in AlertRow :
                /\ SetColumns(row, columns) \in AlertRow
                /\ SetColumns(row, columns).incident_id =
                     IF columns.incident_id # None THEN columns.incident_id
                     ELSE row.incident_id
           /\ \A row \in GroupRow :
                /\ SetColumns(row, columns) \in GroupRow
                /\ SameSummary(SetColumns(row, columns), row)
                /\ SetColumns(row, columns).incident_id =
                     IF columns.incident_id # None THEN columns.incident_id
                     ELSE row.incident_id
<1>1. /\ columns.status \in GroupStatus \cup {Unset}
      /\ columns.severity \in Severity \cup {None}
      /\ columns.incident_id \in IncidentLink
  BY DEF Columns
<1>2. ASSUME NEW row \in AlertRow
      PROVE  /\ SetColumns(row, columns) \in AlertRow
             /\ SetColumns(row, columns).incident_id =
                  IF columns.incident_id # None THEN columns.incident_id
                  ELSE row.incident_id
  BY <1>1 DEF SetColumns, AlertRow
<1>3. ASSUME NEW row \in GroupRow
      PROVE  /\ SetColumns(row, columns) \in GroupRow
             /\ SameSummary(SetColumns(row, columns), row)
             /\ SetColumns(row, columns).incident_id =
                  IF columns.incident_id # None THEN columns.incident_id
                  ELSE row.incident_id
  BY <1>1 DEF SetColumns, GroupRow, SameSummary
<1> QED
  BY <1>2, <1>3

LEMMA CommitRequestLinked ==
    ASSUME IInv, NEW h \in Handler, CommitRequest(h)
    PROVE  IInv' /\ LinksStay
<1> DEFINE s == request[h]
<1>1. s \in RequestSession /\ Rows(s) /\ SessionLinked(s, group, incident) /\ RequestLoads(s)
  BY DEF IInv, TypeOK, SessionInv, RequestSession, Rows
<1>2. /\ group' \in SessionGroups /\ incident' \in SessionIncidents
      /\ Linked(group', incident')
      /\ Grown(s, group, incident, group', incident')
      /\ LinksStay
  <2>1. \A g \in Group : s.group[g] # NoRow /\ s.readGroup[g] = NoRow => group[g] = NoRow
    BY <1>1 DEF RequestLoads
  <2> QED
    BY <1>1, <2>1, CommitTables DEF CommitRequest
<1>3. \A a \in Alert :
        alert'[a] = IF a \in s.alerts THEN SetColumns(alert[a], s.columns) ELSE alert[a]
  BY DEF CommitRequest
<1>4. \A a \in Alert : /\ alert'[a] \in AlertRow \cup {NoRow}
                       /\ alert[a] # NoRow => alert'[a] # NoRow
  <2> SUFFICES ASSUME NEW a \in Alert
               PROVE  /\ alert'[a] \in AlertRow \cup {NoRow}
                      /\ alert[a] # NoRow => alert'[a] # NoRow
    OBVIOUS
  <2>1. CASE a \in s.alerts
    <3>1. alert[a] \in AlertRow
      BY <2>1 DEF IInv, TypeOK, ReachedInv, Stored
    <3>2. SetColumns(alert[a], s.columns) \in AlertRow
      BY <1>1, <3>1, ColumnsSet DEF RequestSession
    <3> QED
      BY <1>3, <2>1, <3>2, NoRowIsNoRow
  <2>2. CASE a \notin s.alerts
    BY <1>3, <2>2 DEF IInv, TypeOK
  <2> QED
    BY <2>1, <2>2
<1>5. Stored \subseteq Stored'
  BY <1>4 DEF Stored
<1>6. /\ request' = [request EXCEPT ![h] = IdleRequest]
      /\ UNCHANGED <<lapsed, sync>>
      /\ alert' = [a \in Alert |-> IF a \in s.alerts THEN SetColumns(alert[a], s.columns)
                                   ELSE alert[a]]
      /\ policy' = IF s.policy # NoRow THEN [policy EXCEPT ![s.name] = s.policy]
                   ELSE policy
  BY DEF CommitRequest
<1>7. TypeOK'
  <2>1. request' \in [Handler -> RequestSession]
    BY <1>6, IdleSessions DEF IInv, TypeOK
  <2>2. alert' \in [Alert -> AlertRow \cup {NoRow}]
    BY <1>4, <1>6
  <2>3. policy' \in [Policy -> PolicyRow \cup {NoRow}]
    <3>1. s.policy \in PolicyRow \cup {NoRow}
      BY <1>1, InputAssumption DEF RequestSession
    <3> QED
      BY <1>6, <3>1 DEF IInv, TypeOK
  <2> QED
    BY <1>2, <1>6, <2>1, <2>2, <2>3 DEF IInv, TypeOK
<1>8. (SessionInv /\ ApartInv /\ ReachedInv)'
  BY <1>2, <1>5, <1>6, RequestOver
<1>9. Linked(group, incident)'
  BY <1>2 DEF Linked, LinksTo
<1> QED
  BY <1>2, <1>7, <1>8, <1>9 DEF IInv

\* Propagation sets the status of the linked rows and the link they have.
Propagated(row, columns) ==
    IF row # NoRow /\ row.incident_id = columns.incident_id
    THEN SetColumns(row, [columns EXCEPT !.severity = None])
    ELSE row

LEMMA PropagatedRows ==
    ASSUME NEW columns \in Columns
    PROVE  /\ \A row \in AlertRow \cup {NoRow} :
                /\ Propagated(row, columns) \in AlertRow \cup {NoRow}
                /\ row = NoRow <=> Propagated(row, columns) = NoRow
                /\ row # NoRow => Propagated(row, columns).incident_id = row.incident_id
           /\ \A row \in GroupRow \cup {NoRow} :
                /\ Propagated(row, columns) \in GroupRow \cup {NoRow}
                /\ row = NoRow <=> Propagated(row, columns) = NoRow
                /\ row # NoRow =>
                     /\ Propagated(row, columns).incident_id = row.incident_id
                     /\ SameSummary(Propagated(row, columns), row)
<1> DEFINE c == [columns EXCEPT !.severity = None]
<1>1. c \in Columns /\ c.incident_id = columns.incident_id
  BY DEF Columns
<1> HIDE DEF c
<1>2. ASSUME NEW row \in AlertRow \cup {NoRow}
      PROVE  /\ Propagated(row, columns) \in AlertRow \cup {NoRow}
             /\ row = NoRow <=> Propagated(row, columns) = NoRow
             /\ row # NoRow => Propagated(row, columns).incident_id = row.incident_id
  <2>1. CASE row # NoRow /\ row.incident_id = columns.incident_id
    <3>1. Propagated(row, columns) = SetColumns(row, c)
      BY <2>1 DEF Propagated, c
    <3> QED
      BY <1>1, <2>1, <3>1, ColumnsSet, NoRowIsNoRow
  <2>2. CASE ~(row # NoRow /\ row.incident_id = columns.incident_id)
    BY <2>2 DEF Propagated
  <2> QED
    BY <2>1, <2>2
<1>3. ASSUME NEW row \in GroupRow \cup {NoRow}
      PROVE  /\ Propagated(row, columns) \in GroupRow \cup {NoRow}
             /\ row = NoRow <=> Propagated(row, columns) = NoRow
             /\ row # NoRow =>
                  /\ Propagated(row, columns).incident_id = row.incident_id
                  /\ SameSummary(Propagated(row, columns), row)
  <2>1. CASE row # NoRow /\ row.incident_id = columns.incident_id
    <3>1. Propagated(row, columns) = SetColumns(row, c)
      BY <2>1 DEF Propagated, c
    <3> QED
      BY <1>1, <2>1, <3>1, ColumnsSet, NoRowIsNoRow
  <2>2. CASE ~(row # NoRow /\ row.incident_id = columns.incident_id)
    BY <2>2 DEF Propagated, SameSummary
  <2> QED
    BY <2>1, <2>2
<1> QED
  BY <1>2, <1>3

LEMMA PropagateShape ==
    ASSUME IInv, NEW h \in Handler, Propagate(h)
    PROVE  LET s == request[h] IN
           /\ s.pc = "propagating" /\ s.columns \in Columns
           /\ group' = [g \in Group |-> Propagated(group[g], s.columns)]
           /\ alert' = [a \in Alert |-> Propagated(alert[a], s.columns)]
           /\ WriteIncidents(s)
           /\ request' = [request EXCEPT ![h] = IdleRequest]
           /\ UNCHANGED <<policy, lapsed, sync>>
BY DEF Propagate, Propagated, IInv, TypeOK, RequestSession

LEMMA PropagateLinked ==
    ASSUME IInv, NEW h \in Handler, Propagate(h)
    PROVE  IInv' /\ LinksStay
<1> DEFINE s == request[h]
<1>1. /\ s.columns \in Columns
      /\ group' = [g \in Group |-> Propagated(group[g], s.columns)]
      /\ alert' = [a \in Alert |-> Propagated(alert[a], s.columns)]
      /\ WriteIncidents(s)
      /\ request' = [request EXCEPT ![h] = IdleRequest]
      /\ UNCHANGED <<policy, lapsed, sync>>
  BY PropagateShape
<1>2. s \in RequestSession /\ Rows(s) /\ SessionLinked(s, group, incident)
  BY DEF IInv, TypeOK, SessionInv, RequestSession, Rows
<1>3. \A g \in Group :
        /\ group'[g] \in GroupRow \cup {NoRow}
        /\ group[g] = NoRow <=> group'[g] = NoRow
        /\ group[g] # NoRow => group'[g].incident_id = group[g].incident_id
  BY <1>1, PropagatedRows DEF IInv, TypeOK, SessionGroups
<1>4. \A a \in Alert :
        /\ alert'[a] \in AlertRow \cup {NoRow}
        /\ alert[a] = NoRow <=> alert'[a] = NoRow
  BY <1>1, PropagatedRows DEF IInv, TypeOK
<1>5. /\ incident' \in SessionIncidents
      /\ \A i \in Incident : incident[i] # NoRow =>
           incident'[i] # NoRow /\ incident'[i].group = incident[i].group
      /\ \A i \in Incident : incident[i] = NoRow /\ incident'[i] # NoRow =>
           s.incident[i] # NoRow /\ s.readIncident[i] = NoRow
  <2>1. group \in SessionGroups /\ incident \in SessionIncidents
    BY DEF IInv, TypeOK
  <2>2. incident' = [i \in Incident |->
                       Merge(incident[i], s.readIncident[i], s.incident[i])]
    BY <1>1 DEF WriteIncidents
  <2> QED
    BY <1>2, <2>1, <2>2, WrittenIncidents
<1>6. Grown(s, group, incident, group', incident')
  BY <1>3, <1>5 DEF Grown
<1>7. LinksStay
  BY <1>3 DEF LinksStay
<1>8. Linked(group, incident)'
  <2> SUFFICES ASSUME NEW g \in Group, group'[g] # NoRow, group'[g].incident_id # None
               PROVE  incident'[group'[g].incident_id] # NoRow
                      /\ incident'[group'[g].incident_id].group = g
    BY DEF Linked, LinksTo
  <2> DEFINE i == group[g].incident_id
  <2>1. group[g] # NoRow /\ group'[g].incident_id = i
    BY <1>3
  <2>2. i \in Incident
    BY <2>1 DEF IInv, TypeOK, SessionGroups, GroupRow, IncidentLink
  <2>3. LinksTo(incident, i, g)
    BY <2>1 DEF IInv, Linked
  <2> QED
    BY <1>5, <2>1, <2>2, <2>3 DEF LinksTo
<1>9. TypeOK'
  <2>1. request' \in [Handler -> RequestSession]
    BY <1>1, IdleSessions DEF IInv, TypeOK
  <2>2. group' \in SessionGroups /\ alert' \in [Alert -> AlertRow \cup {NoRow}]
    BY <1>1, <1>3, <1>4 DEF SessionGroups
  <2> QED
    BY <1>1, <1>5, <2>1, <2>2 DEF IInv, TypeOK
<1>10. (SessionInv /\ ApartInv /\ ReachedInv)'
  <2>1. Stored \subseteq Stored'
    BY <1>4 DEF Stored
  <2> QED
    BY <1>1, <1>6, <2>1, RequestOver
<1> QED
  BY <1>7, <1>8, <1>9, <1>10 DEF IInv

LEMMA SyncAlertUpserts ==
    ASSUME IInv, NEW t \in SyncTask, SyncAlert(t)
    PROVE  \E a \in Alert, q \in SUBSET Policy, p \in PolicyRow \cup {NoRow} :
               Upsert(t, a, q, p)
<1>1. sync[t].batch \subseteq Alert /\ sync[t].policies \in [Policy -> PolicyRow \cup {NoRow}]
  BY DEF IInv, TypeOK, SyncSession
<1>2. PICK a \in sync[t].batch :
        IF Applicable(t, a) = {} THEN Upsert(t, a, {}, NoRow)
        ELSE \E p \in Applicable(t, a) : Upsert(t, a, {p}, sync[t].policies[p])
  BY DEF SyncAlert
<1>3. CASE Applicable(t, a) = {}
  BY <1>1, <1>2, <1>3
<1>4. CASE Applicable(t, a) # {}
  <2>1. PICK p \in Applicable(t, a) : Upsert(t, a, {p}, sync[t].policies[p])
    BY <1>2, <1>4
  <2>2. p \in Policy
    BY DEF Applicable
  <2> QED
    BY <1>1, <2>1, <2>2
<1> QED
  BY <1>3, <1>4

LEMMA ExecuteLinked ==
    ASSUME IInv, NEW h \in Handler, Execute(h)
    PROVE  IInv'
<1> DEFINE reached == {a \in Stored : GroupOf[a] \in request[h].targets}
           r == [request[h] EXCEPT !.pc = "committing", !.alerts = reached]
<1>1. /\ request' = [request EXCEPT ![h] = r]
      /\ UNCHANGED <<alert, group, incident, policy, lapsed, sync>>
  BY DEF Execute
<1>2. request[h] \in RequestSession
  BY DEF IInv, TypeOK
<1>3. reached \subseteq Stored /\ Stored \subseteq Alert
  BY DEF Stored
<1> HIDE DEF reached
<1>4. /\ r \in RequestSession
      /\ r.readGroup = request[h].readGroup /\ r.group = request[h].group
      /\ r.readIncident = request[h].readIncident /\ r.incident = request[h].incident
      /\ r.alerts = reached
  BY <1>2, <1>3 DEF RequestSession
<1> HIDE DEF r
<1>5. SessionLinked(r, group, incident) /\ RequestLoads(r)
  BY <1>4 DEF IInv, SessionInv, SessionLinked, RequestLoads
<1>6. Extends(r, request[h])
  BY <1>4 DEF Extends
<1> QED
  BY <1>1, <1>3, <1>4, <1>5, <1>6, RequestStep

LEMMA PoliciesLinked ==
    ASSUME IInv, policy' \in [Policy -> PolicyRow \cup {NoRow}], lapsed' \in BOOLEAN,
           UNCHANGED <<alert, group, incident, sync, request>>
    PROVE  IInv'
<1>1. TypeOK'
  BY DEF IInv, TypeOK
<1>2. Linked(group, incident)'
  BY DEF IInv, Linked, LinksTo
<1>3. SessionInv'
  <2>1. /\ \A t \in SyncTask : SessionLinked(sync'[t], group', incident')
        /\ \A h \in Handler : SessionLinked(request'[h], group', incident')
                              /\ RequestLoads(request'[h])
    BY DEF IInv, SessionInv
  <2> QED
    BY <2>1 DEF SessionInv
<1>4. ApartInv'
  <2>1. /\ \A t, u \in SyncTask : t # u => Apart(sync'[t], sync'[u])
        /\ \A h, k \in Handler : h # k => Apart(request'[h], request'[k])
        /\ \A t \in SyncTask, h \in Handler :
             Apart(sync'[t], request'[h]) /\ Apart(request'[h], sync'[t])
    BY DEF IInv, ApartInv
  <2> QED
    BY <2>1 DEF ApartInv
<1>5. ReachedInv'
  BY DEF IInv, ReachedInv, Stored
<1> QED
  BY <1>1, <1>2, <1>3, <1>4, <1>5 DEF IInv

LEMMA PolicyTypes ==
    ASSUME IInv, NEW p \in Policy, NEW new \in PolicyPayload, UpdateNoisePolicy(p, new)
    PROVE  policy' \in [Policy -> PolicyRow \cup {NoRow}]
<1> DEFINE row == [new EXCEPT !.subjects = policy[p].subjects,
                              !.severities = policy[p].severities]
<1>1. policy[p] \in PolicyRow /\ new \in PolicyRow
  BY InputAssumption DEF UpdateNoisePolicy, IInv, TypeOK
<1>2. row \in PolicyRow
  BY <1>1 DEF PolicyRow
<1>3. policy' = [policy EXCEPT ![p] = row]
  BY DEF UpdateNoisePolicy
<1> QED
  BY <1>2, <1>3 DEF IInv, TypeOK

\* What a step of an analyst can be: a request begins, goes on or ends.
LEMMA AnalystStep ==
    ASSUME IInv, NEW h \in Handler, Analyst(h)
    PROVE  \/ \E r \in RequestSession : Begun(h, r)
           \/ Execute(h) \/ CommitRequest(h) \/ Propagate(h) \/ EndRequest(h)
BY UpdateAlertGroupBegins, CreateIncidentBegins, CreateNoisePolicyBegins,
   UpdateIncidentBegins DEF Analyst

LEMMA Start == Init => IInv
<1> SUFFICES ASSUME Init PROVE IInv
  OBVIOUS
<1>1. /\ \A t \in SyncTask : sync[t] = IdleSync
      /\ \A h \in Handler : request[h] = IdleRequest
  BY DEF Init
<1>2. NoGroups \in SessionGroups /\ NoIncidents \in SessionIncidents
  BY DEF NoGroups, NoIncidents, SessionGroups, SessionIncidents
<1>3. TypeOK
  BY <1>2, IdleSessions DEF Init, TypeOK
<1>4. Linked(group, incident)
  BY DEF Init, Linked, NoGroups
<1>5. SessionInv /\ ApartInv /\ ReachedInv
  BY <1>1, IdleSessions DEF SessionInv, ApartInv, ReachedInv
<1> QED
  BY <1>3, <1>4, <1>5 DEF IInv

LEMMA Step == IInv /\ [Next]_vars => IInv' /\ LinksStay
<1> SUFFICES ASSUME IInv, [Next]_vars PROVE IInv' /\ LinksStay
  OBVIOUS
<1>1. UNCHANGED group => LinksStay
  BY DEF LinksStay
<1>2. ASSUME NEW t \in SyncTask, Synchronize(t) PROVE IInv' /\ LinksStay
  <2>1. CASE SyncStart(t)
    BY <1>1, <2>1, SyncStartLinked DEF SyncStart
  <2>2. CASE SyncAlert(t)
    <3>1. PICK a \in Alert, q \in SUBSET Policy, p \in PolicyRow \cup {NoRow} :
                 Upsert(t, a, q, p)
      BY <2>2, SyncAlertUpserts
    <3> QED
      BY <1>1, <3>1, UpsertLinked DEF Upsert
  <2>3. CASE SyncCommit(t)
    BY <2>3, SyncCommitLinked
  <2>4. CASE SyncFail(t)
    BY <1>1, <2>4, SyncStep, IdleSessions DEF SyncFail
  <2> QED
    BY <1>2, <2>1, <2>2, <2>3, <2>4 DEF Synchronize
<1>3. ASSUME NEW h \in Handler, Analyst(h) PROVE IInv' /\ LinksStay
  <2>1. ASSUME NEW r \in RequestSession, Begun(h, r) PROVE IInv' /\ LinksStay
    BY <1>1, <2>1, BegunLinked DEF Begun
  <2>2. CASE Execute(h)
    BY <1>1, <2>2, ExecuteLinked DEF Execute
  <2>3. CASE CommitRequest(h)
    BY <2>3, CommitRequestLinked
  <2>4. CASE Propagate(h)
    BY <2>4, PropagateLinked
  <2>5. CASE EndRequest(h)
    BY <1>1, <2>5, RequestStep, IdleSessions DEF EndRequest
  <2> QED
    BY <1>3, <2>1, <2>2, <2>3, <2>4, <2>5, AnalystStep
<1>4. ASSUME NEW p \in Policy,
             (\E new \in PolicyPayload : UpdateNoisePolicy(p, new)) \/ DeleteNoisePolicy(p)
      PROVE  IInv' /\ LinksStay
  <2>1. policy' \in [Policy -> PolicyRow \cup {NoRow}]
    BY <1>4, PolicyTypes DEF DeleteNoisePolicy, IInv, TypeOK
  <2>2. UNCHANGED <<alert, group, incident, lapsed, sync, request>> /\ lapsed \in BOOLEAN
    BY <1>4 DEF UpdateNoisePolicy, DeleteNoisePolicy, IInv, TypeOK
  <2> QED
    BY <1>1, <2>1, <2>2, PoliciesLinked
<1>5. CASE Lapse
  BY <1>1, <1>5, PoliciesLinked DEF Lapse, IInv, TypeOK
<1>6. CASE UNCHANGED vars
  BY <1>1, <1>6, PoliciesLinked DEF vars, IInv, TypeOK
<1> QED
  BY <1>2, <1>3, <1>4, <1>5, <1>6 DEF Next

\* Types and links, for any processes, tasks and handlers: every incident a
\* group or an open session names exists or is about to, and is the group's
\* own; a new incident is known to one session only.
THEOREM Invariance == Spec => []IInv
<1>1. Init => IInv
  BY Start
<1>2. IInv /\ [Next]_vars => IInv'
  BY Step
<1> QED
  BY <1>1, <1>2, PTL DEF Spec

\* Alerts, groups, incidents, policies and every open transaction hold rows
\* of their types, whatever is committed between their steps.
THEOREM TypeCorrect == Spec => []TypeOK
<1>1. IInv => TypeOK
  BY DEF IInv
<1> QED
  BY <1>1, Invariance, PTL

\* upsert_alert_group, create_incident_for_group and the requests of analysts
\* write from stale rows, yet none of their commits takes a group's incident
\* away or replaces it by one of another group.
THEOREM LinkKept == Spec => IncidentLinkKept
<1> DEFINE kept ==
      \A g \in Group :
         group[g] # NoRow /\ group[g].incident_id # None =>
            /\ group'[g] # NoRow
            /\ group'[g].incident_id # None
            /\ incident'[group'[g].incident_id].group = g
<1>1. IInv /\ IInv' /\ [Next]_vars => [kept]_vars
  <2> SUFFICES ASSUME IInv, IInv', [Next]_vars PROVE kept
    OBVIOUS
  <2>1. LinksStay
    BY Step
  <2>2. \A g \in Group : group'[g] # NoRow /\ group'[g].incident_id # None =>
          LinksTo(incident', group'[g].incident_id, g)
    BY DEF IInv, Linked
  <2> QED
    BY <2>1, <2>2 DEF LinksStay, LinksTo
<1>2. Spec => [][kept]_vars
  BY <1>1, Invariance, PTL DEF Spec
<1> QED
  BY <1>2 DEF IncidentLinkKept

------------------------------------------------------------------------------
(* One process: the counters are exact                                     *)

LEMMA OfFinite ==
    ASSUME NEW alr, NEW g
    PROVE  Of(alr, g) \subseteq Alert /\ IsFiniteSet(Of(alr, g))
<1>1. Of(alr, g) \subseteq Alert
  BY DEF Of
<1> QED
  BY <1>1, AlertAssumption, FS_Subset

\* One more alert, one more on the counter.
LEMMA Counted ==
    ASSUME NEW row \in GroupRow \cup {NoRow}, NEW a \in Alert,
           NEW p \in PolicyRow \cup {NoRow}, NEW A \in SUBSET Alert, a \notin A,
           IF row = NoRow THEN A = {} ELSE Summarises(row, A)
    PROVE  Summarises(UpsertedGroup(row, a, p), A \cup {a})
<1> DEFINE new == UpsertedGroup(row, a, p)
<1>1. IsFiniteSet(A) /\ Cardinality(A) \in Nat
  BY AlertAssumption, FS_Subset, FS_CardinalityType
<1>2. Cardinality(A \cup {a}) = Cardinality(A) + 1
  BY <1>1, FS_AddElement
<1>3. /\ new.occurrence_count = IF row = NoRow THEN 1 ELSE row.occurrence_count + 1
      /\ new.max_rule_level =
           IF row = NoRow THEN Level[a]
           ELSE IF Level[a] > row.max_rule_level THEN Level[a] ELSE row.max_rule_level
  BY GroupUpserted
<1>4. \A b \in Alert : Level[b] \in Nat
  BY AlertAssumption
<1> SUFFICES Summarises(new, A \cup {a})
  OBVIOUS
<1> HIDE DEF new
<1>5. CASE row = NoRow
  <2>1. Cardinality(A) = 0
    BY <1>5, FS_EmptySet
  <2> QED
    BY <1>2, <1>3, <1>4, <1>5, <2>1 DEF Summarises
<1>6. CASE row # NoRow
  <2>1. Summarises(row, A) /\ row.max_rule_level \in Nat
    BY <1>6 DEF GroupRow
  <2>2. new.occurrence_count = Cardinality(A \cup {a})
    BY <1>2, <1>3, <1>6, <2>1 DEF Summarises
  <2>3. \A b \in A \cup {a} : Level[b] <= new.max_rule_level
    BY <1>3, <1>4, <1>6, <2>1 DEF Summarises
  <2>4. \E b \in A \cup {a} : Level[b] = new.max_rule_level
    BY <1>3, <1>4, <1>6, <2>1 DEF Summarises
  <2> QED
    BY <2>2, <2>3, <2>4 DEF Summarises
<1> QED
  BY <1>5, <1>6

LEMMA SummaryMoves ==
    ASSUME NEW row, NEW read, NEW A, SameSummary(row, read)
    PROVE  Summarises(row, A) <=> Summarises(read, A)
BY DEF SameSummary, Summarises

\* The tables before and after a step that moves no counter.
SameCounts ==
    /\ \A a \in Alert : alert'[a] = NoRow <=> alert[a] = NoRow
    /\ \A g \in Group :
         /\ group'[g] = NoRow <=> group[g] = NoRow
         /\ group[g] # NoRow => SameSummary(group'[g], group[g])

LEMMA CountsKept ==
    ASSUME SameCounts
    PROVE  /\ TablesCount(alert, group) => TablesCount(alert', group')
           /\ \A s \in SyncSession :
                SyncCounts(s, alert, group) => SyncCounts(s, alert', group')
<1>1. \A g \in Group : Of(alert', g) = Of(alert, g)
  BY DEF SameCounts, Of
<1>2. TablesCount(alert, group) => TablesCount(alert', group')
  BY <1>1, SummaryMoves DEF SameCounts, TablesCount
<1>3. ASSUME NEW s \in SyncSession, SyncCounts(s, alert, group)
      PROVE  SyncCounts(s, alert', group')
  <2>1. /\ \A a \in s.batch : s.alerts[a] = NoRow /\ alert[a] = NoRow
        /\ \A a \in Alert : s.alerts[a] # NoRow => alert[a] = NoRow
        /\ s.batch \subseteq Alert
    BY <1>3 DEF SyncCounts, SyncSession
  <2>2. /\ \A a \in s.batch : alert'[a] = NoRow
        /\ \A a \in Alert : s.alerts[a] # NoRow => alert'[a] = NoRow
    BY <2>1 DEF SameCounts
  <2>3. ASSUME NEW g \in Group
        PROVE  IF s.group[g] = NoRow THEN Of(s.alerts, g) = {}
               ELSE /\ Summarises(s.group[g], Of(alert', g) \cup Of(s.alerts, g))
                    /\ IF s.readGroup[g] = NoRow THEN group'[g] = NoRow
                       ELSE group'[g] # NoRow /\ SameSummary(group'[g], s.readGroup[g])
    BY <1>1, <1>3 DEF SyncCounts, SameCounts, SameSummary
  <2> QED
    BY <2>1, <2>2, <2>3 DEF SyncCounts
<1> QED
  BY <1>2, <1>3

LEMMA Unmoved == UNCHANGED <<alert, group>> => SameCounts
BY DEF SameCounts, SameSummary

\* A step of analysts or policies that leaves the synchronizations alone.
LEMMA AnalystCounts ==
    ASSUME IInv, CountInv, SameCounts, UNCHANGED sync
    PROVE  CountInv'
<1>1. TablesCount(alert', group')
  BY CountsKept DEF CountInv
<1>2. \A t \in SyncTask : sync'[t].pc # "idle" => SyncCounts(sync'[t], alert', group')
  BY CountsKept DEF CountInv, IInv, TypeOK
<1>3. SyncAlone'
  BY DEF CountInv, SyncAlone
<1> QED
  BY <1>1, <1>2, <1>3 DEF CountInv

LEMMA SyncStartCounts ==
    ASSUME OneProcess, IInv, CountInv, NEW t \in SyncTask, SyncStart(t)
    PROVE  CountInv'
<1> DEFINE policies == [p \in Policy |-> IF policy[p] # NoRow /\ policy[p].enabled
                                         THEN policy[p] ELSE NoRow]
           session(batch) == [IdleSync EXCEPT !.pc = "upserting", !.batch = batch,
                                              !.policies = policies]
<1>1. PICK batch \in SUBSET (Alert \ Stored) :
             sync' = [sync EXCEPT ![t] = session(batch)]
  BY DEF SyncStart
<1> DEFINE s == session(batch)
<1> HIDE DEF policies
<1>2. /\ s.group = NoGroups /\ s.alerts = [a \in Alert |-> NoRow]
      /\ s.batch = batch
  BY DEF IdleSync
<1>3. sync'[t] = s /\ \A u \in SyncTask \ {t} : sync'[u] = sync[u]
  BY <1>1 DEF IInv, TypeOK
<1>4. UNCHANGED <<alert, group, request>> /\ SyncLock(t)
  BY DEF SyncStart
<1> HIDE DEF s, session
<1>5. \A u \in SyncTask : sync[u].pc = "idle"
  BY <1>4 DEF OneProcess, SyncLock
<1>6. SyncCounts(s, alert, group)
  BY <1>2 DEF SyncCounts, Of, NoGroups, Stored
<1>7. SyncAlone'
  BY <1>3, <1>5 DEF SyncAlone
<1>8. TablesCount(alert', group')
  BY <1>4 DEF CountInv
<1>9. \A u \in SyncTask : sync'[u].pc # "idle" => SyncCounts(sync'[u], alert', group')
  BY <1>3, <1>4, <1>5, <1>6
<1> QED
  BY <1>7, <1>8, <1>9 DEF CountInv

LEMMA UpsertCounts ==
    ASSUME IInv, CountInv, NEW t \in SyncTask, NEW a \in Alert, NEW q \in SUBSET Policy,
           NEW p \in PolicyRow \cup {NoRow}, Upsert(t, a, q, p)
    PROVE  CountInv'
<1>1. /\ UNCHANGED <<alert, group, request>>
      /\ sync[t].pc = "upserting" /\ a \in sync[t].batch
  BY UpsertShape
<1>2. PICK s \in SyncSession, new \in GroupRow, y \in AlertRow :
             sync' = [sync EXCEPT ![t] = s] /\ Upserted(t, a, p, s, new, y)
  BY UpsertShape
<1> DEFINE g == GroupOf[a]
           old == sync[t]
           row == UpsertedGroup(LoadedGroup(t, g), a, p)
<1>3. g \in Group /\ old \in SyncSession /\ SyncCounts(old, alert, group)
  BY <1>1, AlertAssumption DEF IInv, TypeOK, CountInv
<1>4. sync'[t] = s /\ \A u \in SyncTask \ {t} : sync'[u] = sync[u]
  BY <1>2 DEF IInv, TypeOK
<1>5. s.pc = "upserting" /\ s.batch = old.batch \ {a} /\ SameSummary(new, row)
  BY <1>2 DEF Upserted
<1>6. /\ \A b \in Alert : b # a => s.alerts[b] = old.alerts[b]
      /\ s.alerts[a] # NoRow
      /\ old.batch \subseteq Alert
  BY <1>2, <1>3, NoRowIsNoRow DEF Upserted, SyncSession
<1>7. /\ \A f \in Group : f # g => s.group[f] = old.group[f]
                                   /\ s.readGroup[f] = old.readGroup[f]
      /\ s.group[g] = new /\ new # NoRow
      /\ s.readGroup[g] = FirstRead(old.group[g], group[g], old.readGroup[g])
  BY <1>2, <1>3, NoRowIsNoRow DEF Upserted, SyncSession, SessionGroups
<1>8. alert[a] = NoRow /\ old.alerts[a] = NoRow
  BY <1>1, <1>3 DEF SyncCounts
<1>9. /\ \A f \in Group : f # g => Of(s.alerts, f) = Of(old.alerts, f)
      /\ Of(s.alerts, g) = Of(old.alerts, g) \cup {a}
      /\ a \notin Of(old.alerts, g) /\ a \notin Of(alert, g)
  BY <1>6, <1>8 DEF Of
<1>10. /\ \A b \in s.batch : alert[b] = NoRow /\ s.alerts[b] = NoRow
       /\ \A b \in Alert : s.alerts[b] # NoRow => alert[b] = NoRow
  BY <1>3, <1>5, <1>6, <1>8 DEF SyncCounts
<1>11. Summarises(new, Of(alert, g) \cup Of(s.alerts, g))
  <2> DEFINE A == Of(alert, g) \cup Of(old.alerts, g)
             loaded == LoadedGroup(t, g)
  <2>1. A \in SUBSET Alert /\ a \notin A
    BY <1>9 DEF Of
  <2>2. loaded \in GroupRow \cup {NoRow}
    BY <1>3, LoadedRows
  <2>3. IF loaded = NoRow THEN A = {} ELSE Summarises(loaded, A)
    <3>1. CASE old.group[g] # NoRow
      BY <1>3, <3>1 DEF SyncCounts, LoadedGroup
    <3>2. CASE old.group[g] = NoRow
      <4>1. Of(old.alerts, g) = {} /\ loaded = group[g]
        BY <1>3, <3>2 DEF SyncCounts, LoadedGroup
      <4>2. A = Of(alert, g)
        BY <4>1
      <4> QED
        BY <1>3, <4>1, <4>2 DEF CountInv, TablesCount
    <3> QED
      BY <3>1, <3>2
  <2> HIDE DEF A, loaded
  <2>4. Summarises(UpsertedGroup(loaded, a, p), A \cup {a})
    BY <2>1, <2>2, <2>3, Counted
  <2>5. Of(alert, g) \cup Of(s.alerts, g) = A \cup {a}
    BY <1>9 DEF A
  <2> QED
    BY <1>5, <2>4, <2>5, SummaryMoves DEF loaded
<1>12. IF s.readGroup[g] = NoRow THEN group[g] = NoRow
       ELSE group[g] # NoRow /\ SameSummary(group[g], s.readGroup[g])
  <2>1. SameSummary(group[g], group[g])
    BY DEF SameSummary
  <2> QED
    BY <1>3, <1>7, <2>1 DEF FirstRead, SyncCounts
<1>13. SyncCounts(s, alert, group)
  <2> SUFFICES ASSUME NEW f \in Group
               PROVE  IF s.group[f] = NoRow THEN Of(s.alerts, f) = {}
                      ELSE /\ Summarises(s.group[f], Of(alert, f) \cup Of(s.alerts, f))
                           /\ IF s.readGroup[f] = NoRow THEN group[f] = NoRow
                              ELSE group[f] # NoRow /\ SameSummary(group[f], s.readGroup[f])
    BY <1>10 DEF SyncCounts
  <2>1. CASE f # g
    BY <1>3, <1>7, <1>9, <2>1 DEF SyncCounts
  <2>2. CASE f = g
    BY <1>7, <1>11, <1>12, <2>2
  <2> QED
    BY <2>1, <2>2
<1>14. SyncAlone'
  BY <1>1, <1>4, <1>5 DEF CountInv, SyncAlone
<1>15. \A u \in SyncTask : sync'[u].pc # "idle" => SyncCounts(sync'[u], alert', group')
  BY <1>1, <1>4, <1>13 DEF CountInv
<1>16. TablesCount(alert', group')
  BY <1>1 DEF CountInv
<1> QED
  BY <1>14, <1>15, <1>16 DEF CountInv

LEMMA SyncCommitCounts ==
    ASSUME IInv, CountInv, NEW t \in SyncTask, SyncCommit(t)
    PROVE  CountInv'
<1> DEFINE s == sync[t]
<1>1. /\ s \in SyncSession /\ Rows(s) /\ SessionLinked(s, group, incident)
      /\ SyncCounts(s, alert, group)
  BY DEF SyncCommit, IInv, TypeOK, SessionInv, SyncSession, Rows, CountInv
<1>2. \A a \in Alert : alert'[a] = IF s.alerts[a] = NoRow THEN alert[a] ELSE s.alerts[a]
  BY DEF SyncCommit, Merge
<1>3. /\ \A g \in Group : s.group[g] = NoRow => group'[g] = group[g]
      /\ \A g \in Group : s.group[g] # NoRow => group'[g] # NoRow
      /\ \A g \in Group : group'[g] = Merge(group[g], s.readGroup[g], s.group[g])
  <2>1. group' = [g \in Group |-> Merge(group[g], s.readGroup[g], s.group[g])]
    BY DEF SyncCommit, WriteGroups
  <2>2. group \in SessionGroups /\ incident \in SessionIncidents
    BY DEF IInv, TypeOK
  <2> QED
    BY <1>1, <2>1, <2>2, WrittenGroups
<1>4. \A g \in Group : Of(alert', g) = Of(alert, g) \cup Of(s.alerts, g)
  BY <1>2 DEF Of
<1>5. ASSUME NEW g \in Group
      PROVE  IF group'[g] = NoRow THEN Of(alert', g) = {}
             ELSE Summarises(group'[g], Of(alert', g))
  <2>1. CASE s.group[g] = NoRow
    <3>1. Of(alert', g) = Of(alert, g)
      BY <1>1, <1>4, <2>1 DEF SyncCounts
    <3> QED
      BY <1>3, <2>1, <3>1 DEF CountInv, TablesCount
  <2>2. CASE s.group[g] # NoRow
    <3>1. Summarises(s.group[g], Of(alert', g))
      BY <1>1, <1>4, <2>2 DEF SyncCounts
    <3>2. SameSummary(group'[g], s.group[g])
      <4>1. CASE s.readGroup[g] = NoRow
        BY <1>3, <2>2, <4>1 DEF Merge, SameSummary
      <4>2. CASE s.readGroup[g] # NoRow
        <5>1. group[g] # NoRow /\ SameSummary(group[g], s.readGroup[g])
          BY <1>1, <2>2, <4>2 DEF SyncCounts
        <5>2. /\ group[g] \in GroupRow /\ s.readGroup[g] \in GroupRow
              /\ s.group[g] \in GroupRow
          BY <1>1, <2>2, <4>2, <5>1 DEF IInv, TypeOK, Rows, SessionGroups
        <5> QED
          BY <1>3, <5>1, <5>2, MergedGroup DEF SameSummary
      <4> QED
        BY <4>1, <4>2
    <3> QED
      BY <1>3, <2>2, <3>1, <3>2, SummaryMoves
  <2> QED
    BY <2>1, <2>2
<1>6. sync'[t] = IdleSync /\ \A u \in SyncTask \ {t} : sync'[u] = sync[u]
  BY DEF SyncCommit, IInv, TypeOK
<1>7. \A u \in SyncTask : sync'[u].pc = "idle"
  BY <1>6 DEF SyncCommit, CountInv, SyncAlone, IdleSync, IInv, TypeOK, SyncSession
<1> QED
  BY <1>5, <1>7 DEF CountInv, TablesCount, SyncAlone

LEMMA SyncFailCounts ==
    ASSUME IInv, CountInv, NEW t \in SyncTask, SyncFail(t)
    PROVE  CountInv'
<1>1. sync'[t] = IdleSync /\ \A u \in SyncTask \ {t} : sync'[u] = sync[u]
  BY DEF SyncFail, IInv, TypeOK
<1>2. \A u \in SyncTask : sync'[u].pc = "idle"
  BY <1>1 DEF SyncFail, CountInv, SyncAlone, IdleSync, IInv, TypeOK, SyncSession
<1>3. TablesCount(alert', group')
  BY DEF SyncFail, CountInv
<1> QED
  BY <1>2, <1>3 DEF CountInv, SyncAlone

LEMMA CommitRequestCounts ==
    ASSUME IInv, NEW h \in Handler, CommitRequest(h)
    PROVE  SameCounts
<1> DEFINE s == request[h]
<1>1. /\ s \in RequestSession /\ Rows(s) /\ SessionLinked(s, group, incident)
      /\ RequestLoads(s)
  BY DEF IInv, TypeOK, SessionInv, RequestSession, Rows
<1>2. ASSUME NEW a \in Alert
      PROVE  alert'[a] = NoRow <=> alert[a] = NoRow
  <2>1. alert'[a] = IF a \in s.alerts THEN SetColumns(alert[a], s.columns) ELSE alert[a]
    BY DEF CommitRequest
  <2>2. CASE a \in s.alerts
    <3>1. alert[a] \in AlertRow
      BY <2>2 DEF IInv, TypeOK, ReachedInv, Stored
    <3>2. SetColumns(alert[a], s.columns) \in AlertRow
      BY <1>1, <3>1, ColumnsSet DEF RequestSession
    <3> QED
      BY <2>1, <2>2, <3>1, <3>2, NoRowIsNoRow
  <2> QED
    BY <2>1, <2>2
<1>3. ASSUME NEW g \in Group
      PROVE  /\ group'[g] = NoRow <=> group[g] = NoRow
             /\ group[g] # NoRow => SameSummary(group'[g], group[g])
  <2>1. group'[g] = Merge(group[g], s.readGroup[g], s.group[g])
    BY DEF CommitRequest, WriteGroups
  <2>2. CASE s.group[g] = NoRow
    BY <2>1, <2>2 DEF Merge, SameSummary
  <2>3. CASE s.group[g] # NoRow
    <3>1. s.readGroup[g] # NoRow /\ group[g] # NoRow
      BY <1>1, <2>3 DEF RequestLoads, SessionLinked
    <3>2. /\ group[g] \in GroupRow /\ s.readGroup[g] \in GroupRow /\ s.group[g] \in GroupRow
      BY <1>1, <2>3, <3>1 DEF IInv, TypeOK, Rows, SessionGroups
    <3> QED
      BY <1>1, <2>1, <2>3, <3>2, MergedGroup, NoRowIsNoRow DEF RequestLoads, SameSummary
  <2> QED
    BY <2>2, <2>3
<1> QED
  BY <1>2, <1>3 DEF SameCounts

LEMMA PropagateCounts ==
    ASSUME IInv, NEW h \in Handler, Propagate(h)
    PROVE  SameCounts
<1> DEFINE s == request[h]
<1>1. /\ s.columns \in Columns
      /\ group' = [g \in Group |-> Propagated(group[g], s.columns)]
      /\ alert' = [a \in Alert |-> Propagated(alert[a], s.columns)]
  BY PropagateShape
<1>2. /\ \A g \in Group : group[g] \in GroupRow \cup {NoRow}
      /\ \A a \in Alert : alert[a] \in AlertRow \cup {NoRow}
  BY DEF IInv, TypeOK, SessionGroups
<1> QED
  BY <1>1, <1>2, PropagatedRows DEF SameCounts

\* No analyst moves a counter.
LEMMA AnalystMovesNoCounter ==
    ASSUME IInv, NEW h \in Handler, Analyst(h)
    PROVE  SameCounts /\ UNCHANGED sync
<1>1. \/ \E r \in RequestSession : Begun(h, r)
      \/ Execute(h) \/ CommitRequest(h) \/ Propagate(h) \/ EndRequest(h)
  BY AnalystStep
<1>2. CASE CommitRequest(h)
  BY <1>2, CommitRequestCounts DEF CommitRequest
<1>3. CASE Propagate(h)
  BY <1>3, PropagateCounts, PropagateShape
<1>4. CASE UNCHANGED <<alert, group, sync>>
  BY <1>4, Unmoved
<1> QED
  BY <1>1, <1>2, <1>3, <1>4 DEF Begun, Execute, EndRequest

LEMMA CountStart == Init => CountInv
<1> SUFFICES ASSUME Init PROVE CountInv
  OBVIOUS
<1>1. \A t \in SyncTask : sync[t].pc = "idle"
  BY DEF Init, IdleSync
<1>2. TablesCount(alert, group)
  BY DEF Init, TablesCount, Of, NoGroups
<1> QED
  BY <1>1, <1>2 DEF CountInv, SyncAlone

LEMMA CountStep ==
    ASSUME OneProcess
    PROVE  IInv /\ CountInv /\ [Next]_vars => CountInv'
<1> SUFFICES ASSUME IInv, CountInv, [Next]_vars PROVE CountInv'
  OBVIOUS
<1>1. ASSUME NEW t \in SyncTask, Synchronize(t) PROVE CountInv'
  <2>1. CASE SyncStart(t)
    BY <2>1, SyncStartCounts
  <2>2. CASE SyncAlert(t)
    BY <2>2, SyncAlertUpserts, UpsertCounts
  <2>3. CASE SyncCommit(t)
    BY <2>3, SyncCommitCounts
  <2>4. CASE SyncFail(t)
    BY <2>4, SyncFailCounts
  <2> QED
    BY <1>1, <2>1, <2>2, <2>3, <2>4 DEF Synchronize
<1>2. ASSUME NEW h \in Handler, Analyst(h) PROVE CountInv'
  BY <1>2, AnalystMovesNoCounter, AnalystCounts
<1>3. CASE UNCHANGED <<alert, group, sync>>
  BY <1>3, Unmoved, AnalystCounts
<1> QED
  BY <1>1, <1>2, <1>3 DEF Next, vars, UpdateNoisePolicy, DeleteNoisePolicy, Lapse

\* With the API in one process, _sync_lock is enough for the counters of
\* upsert_alert_group: occurrence_count and max_rule_level are those of the
\* alerts stored, whatever analysts commit in between.
THEOREM CountsExact ==
    ASSUME OneProcess
    PROVE  Spec => []GroupSummarisesItsAlerts
<1>1. Init => CountInv
  BY CountStart
<1>2. IInv /\ CountInv /\ [Next]_vars => CountInv'
  BY CountStep
<1>3. CountInv => GroupSummarisesItsAlerts
  <2> SUFFICES ASSUME CountInv, NEW g \in Group
               PROVE  /\ group[g] = NoRow => AlertsOf(g) = {}
                      /\ group[g] # NoRow =>
                           /\ group[g].occurrence_count = Cardinality(AlertsOf(g))
                           /\ \A a \in AlertsOf(g) : Level[a] <= group[g].max_rule_level
                           /\ \E a \in AlertsOf(g) : Level[a] = group[g].max_rule_level
    BY DEF GroupSummarisesItsAlerts
  <2>1. AlertsOf(g) = Of(alert, g)
    BY DEF AlertsOf, Of, Stored
  <2> QED
    BY <2>1 DEF CountInv, TablesCount, Summarises
<1> QED
  BY <1>1, <1>2, <1>3, Invariance, PTL DEF Spec

------------------------------------------------------------------------------
(* One incident for a group                                                *)

\* One alert of a batch, row by row: the session s, its group new and its
\* alert y.  Its incident x, if there is one, has the counter of the group.
RowsAfter(t, a, s, new, y, x) ==
    LET g == GroupOf[a]
        i == new.incident_id
        old == sync[t]
        row == LoadedGroup(t, g)
    IN
    /\ \A b \in Alert : s.alerts[b] = IF b = a THEN y ELSE old.alerts[b]
    /\ y.incident_id = i
    /\ \A f \in Group : s.group[f] = IF f = g THEN new ELSE old.group[f]
    /\ \A f \in Group : s.readGroup[f] =
         IF f = g THEN FirstRead(old.group[g], group[g], old.readGroup[g])
         ELSE old.readGroup[f]
    /\ \A j \in Incident : s.incident[j] = IF j = i THEN x ELSE old.incident[j]
    /\ \A j \in Incident : s.readIncident[j] =
         IF j = i THEN FirstRead(old.incident[i], incident[i], old.readIncident[i])
         ELSE old.readIncident[j]
    /\ i # None => /\ x \in IncidentRow /\ x.group = g
                   /\ x.occurrence_count = new.occurrence_count
    /\ new.occurrence_count = IF row = NoRow THEN 1 ELSE row.occurrence_count + 1
    /\ ~Escalates(new)
    /\ row # NoRow /\ row.incident_id # None => i = row.incident_id
    /\ i # None => i \in Fresh \/ (row # NoRow /\ row.incident_id = i)

LEMMA UpsertRows ==
    ASSUME IInv, NEW t \in SyncTask, NEW a \in Alert, NEW q \in SUBSET Policy,
           NEW p \in PolicyRow \cup {NoRow}, Upsert(t, a, q, p)
    PROVE  /\ UNCHANGED <<alert, group, incident, request>>
           /\ \E s \in SyncSession, new \in GroupRow, y \in AlertRow,
                 x \in IncidentRow \cup {NoRow} :
                sync' = [sync EXCEPT ![t] = s] /\ RowsAfter(t, a, s, new, y, x)
<1>1. UNCHANGED <<alert, group, incident, request>>
  BY UpsertShape
<1>2. PICK s \in SyncSession, new \in GroupRow, y \in AlertRow :
             sync' = [sync EXCEPT ![t] = s] /\ Upserted(t, a, p, s, new, y)
  BY UpsertShape
<1> DEFINE g == GroupOf[a]
           i == new.incident_id
           old == sync[t]
           loaded == LoadedGroup(t, g)
           row == UpsertedGroup(loaded, a, p)
<1>3. g \in Group /\ i \in IncidentLink /\ old \in SyncSession
  BY AlertAssumption DEF IInv, TypeOK, GroupRow
<1>4. /\ loaded \in GroupRow \cup {NoRow}
      /\ row.incident_id = IF loaded = NoRow THEN None ELSE loaded.incident_id
      /\ row.occurrence_count =
           IF loaded = NoRow THEN 1 ELSE loaded.occurrence_count + 1
  BY <1>3, LoadedRows, GroupUpserted
<1> HIDE DEF row
<1>5. /\ row.incident_id # None => i = row.incident_id
      /\ i # None /\ row.incident_id # i => i \in Fresh
      /\ ~Escalates(new) /\ y.incident_id = i
      /\ new.occurrence_count = row.occurrence_count
  BY <1>2 DEF Upserted, row, SameSummary
<1>6. /\ \A b \in Alert : s.alerts[b] = IF b = a THEN y ELSE old.alerts[b]
      /\ \A f \in Group : s.group[f] = IF f = g THEN new ELSE old.group[f]
      /\ \A f \in Group : s.readGroup[f] =
           IF f = g THEN FirstRead(old.group[g], group[g], old.readGroup[g])
           ELSE old.readGroup[f]
  BY <1>2, <1>3 DEF Upserted, SyncSession, SessionGroups
<1>7. \E x \in IncidentRow \cup {NoRow} :
        /\ \A j \in Incident : s.incident[j] = IF j = i THEN x ELSE old.incident[j]
        /\ \A j \in Incident : s.readIncident[j] =
             IF j = i THEN FirstRead(old.incident[i], incident[i], old.readIncident[i])
             ELSE old.readIncident[j]
        /\ i # None => /\ x \in IncidentRow /\ x.group = g
                       /\ x.occurrence_count = row.occurrence_count
  <2>1. CASE i = None
    <3>1. i \notin Incident
      BY <2>1 DEF None, Incident
    <3>2. s.incident = old.incident /\ s.readIncident = old.readIncident
      BY <1>2, <2>1 DEF Upserted
    <3> HIDE DEF i
    <3>3. /\ \A j \in Incident : s.incident[j] = IF j = i THEN NoRow ELSE old.incident[j]
          /\ \A j \in Incident : s.readIncident[j] =
               IF j = i THEN FirstRead(old.incident[i], incident[i], old.readIncident[i])
               ELSE old.readIncident[j]
      BY <3>1, <3>2
    <3> QED
      BY <2>1, <3>3
  <2>2. CASE i # None
    <3>1. i \in Incident
      BY <1>3, <2>2 DEF IncidentLink
    <3>2. PICK x \in IncidentRow : /\ s.incident = [old.incident EXCEPT ![i] = x]
                                   /\ x.group = g
                                   /\ x.occurrence_count = row.occurrence_count
      BY <1>2, <2>2 DEF Upserted, row
    <3>3. s.readIncident =
            [old.readIncident EXCEPT ![i] = FirstRead(old.incident[i], incident[i], @)]
      BY <1>2, <2>2 DEF Upserted
    <3>4. old.incident \in SessionIncidents /\ old.readIncident \in SessionIncidents
      BY <1>3 DEF SyncSession
    <3> HIDE DEF i, old
    <3> QED
      BY <3>1, <3>2, <3>3, <3>4 DEF SessionIncidents
  <2> QED
    BY <2>1, <2>2
<1>8. PICK x \in IncidentRow \cup {NoRow} :
        /\ \A j \in Incident : s.incident[j] = IF j = i THEN x ELSE old.incident[j]
        /\ \A j \in Incident : s.readIncident[j] =
             IF j = i THEN FirstRead(old.incident[i], incident[i], old.readIncident[i])
             ELSE old.readIncident[j]
        /\ i # None => /\ x \in IncidentRow /\ x.group = g
                       /\ x.occurrence_count = row.occurrence_count
  BY <1>7
<1>9. /\ loaded # NoRow /\ loaded.incident_id # None => i = loaded.incident_id
      /\ i # None => i \in Fresh \/ (loaded # NoRow /\ loaded.incident_id = i)
  <2> HIDE DEF loaded, i
  <2> QED
    BY <1>4, <1>5
<1>10. RowsAfter(t, a, s, new, y, x)
  <2> HIDE DEF loaded
  <2> QED
    BY <1>4, <1>5, <1>6, <1>8, <1>9 DEF RowsAfter, loaded
<1> QED
  BY <1>1, <1>2, <1>10

\* Tables that grow and sessions that keep their part.
LEMMA OwnKept ==
    ASSUME OwnInv, Owned(group', incident'), AlertsLinked(alert', incident'),
           IInv, \A i \in Incident : incident[i] # NoRow =>
                 incident'[i] # NoRow /\ incident'[i].group = incident[i].group,
           \A t \in SyncTask :
              \/ sync'[t] = sync[t]
              \/ SessionOwns(sync'[t]) /\ StagedLinks(sync'[t], incident'),
           \A h \in Handler :
              \/ request'[h] = request[h]
              \/ SessionOwns(request'[h]) /\ RequestWrites(request'[h])
    PROVE  OwnInv'
<1>1. \A t \in SyncTask : SessionOwns(sync'[t])
  BY DEF OwnInv
<1>2. \A t \in SyncTask : StagedLinks(sync'[t], incident')
  <2> SUFFICES ASSUME NEW t \in SyncTask, sync'[t] = sync[t]
               PROVE  StagedLinks(sync[t], incident')
    OBVIOUS
  <2>1. StagedLinks(sync[t], incident)
    BY DEF OwnInv
  <2>2. \A a \in Alert : sync[t].alerts[a] # NoRow =>
          sync[t].alerts[a].incident_id \in IncidentLink
    BY DEF IInv, TypeOK, SyncSession, AlertRow
  <2> QED
    BY <2>1, <2>2 DEF StagedLinks, LinksTo, IncidentLink
<1>3. \A h \in Handler : SessionOwns(request'[h]) /\ RequestWrites(request'[h])
  BY DEF OwnInv
<1> QED
  BY <1>1, <1>2, <1>3 DEF OwnInv

\* A session that is over owns nothing.
LEMMA IdleOwns ==
    /\ IdleSync.pc = "idle" /\ IdleRequest.pc = "idle"
    /\ SessionOwns(IdleSync) /\ SessionOwns(IdleRequest) /\ RequestWrites(IdleRequest)
    /\ \A inc : StagedLinks(IdleSync, inc)
<1>1. /\ IdleSync.pc = "idle" /\ IdleRequest.pc = "idle"
      /\ IdleSync.incident = NoIncidents /\ IdleRequest.incident = NoIncidents
      /\ IdleSync.alerts = [a \in Alert |-> NoRow] /\ IdleRequest.alerts = {}
  BY DEF IdleSync, IdleRequest
<1> QED
  BY <1>1 DEF SessionOwns, RequestWrites, StagedLinks, NoIncidents

\* A step that leaves the tables alone.
LEMMA OwnSessions ==
    ASSUME IInv, OwnInv, UNCHANGED <<alert, group, incident>>,
           \A t \in SyncTask :
              \/ sync'[t] = sync[t]
              \/ SessionOwns(sync'[t]) /\ StagedLinks(sync'[t], incident),
           \A h \in Handler :
              \/ request'[h] = request[h]
              \/ SessionOwns(request'[h]) /\ RequestWrites(request'[h])
    PROVE  OwnInv'
<1>1. Owned(group', incident') /\ AlertsLinked(alert', incident')
  BY DEF OwnInv
<1> QED
  BY <1>1, OwnKept

LEMMA SyncStartOwns ==
    ASSUME IInv, OwnInv, NEW t \in SyncTask, SyncStart(t)
    PROVE  OwnInv'
<1> DEFINE policies == [p \in Policy |-> IF policy[p] # NoRow /\ policy[p].enabled
                                         THEN policy[p] ELSE NoRow]
           session(batch) == [IdleSync EXCEPT !.pc = "upserting", !.batch = batch,
                                              !.policies = policies]
<1>1. PICK batch \in SUBSET (Alert \ Stored) :
             sync' = [sync EXCEPT ![t] = session(batch)]
  BY DEF SyncStart
<1> DEFINE s == session(batch)
<1> HIDE DEF policies
<1>2. s.incident = NoIncidents /\ s.alerts = [a \in Alert |-> NoRow]
  BY DEF IdleSync
<1>3. sync'[t] = s /\ \A u \in SyncTask \ {t} : sync'[u] = sync[u]
  BY <1>1 DEF IInv, TypeOK
<1> HIDE DEF s, session
<1>4. SessionOwns(s) /\ StagedLinks(s, incident)
  BY <1>2 DEF SessionOwns, StagedLinks, NoIncidents
<1> QED
  BY <1>3, <1>4, OwnSessions DEF SyncStart

LEMMA UpsertOwns ==
    ASSUME IInv, OwnInv, NEW t \in SyncTask, NEW a \in Alert, NEW q \in SUBSET Policy,
           NEW p \in PolicyRow \cup {NoRow}, Upsert(t, a, q, p)
    PROVE  OwnInv'
<1>1. UNCHANGED <<alert, group, incident, request>>
  BY UpsertRows
<1>2. PICK s \in SyncSession, new \in GroupRow, y \in AlertRow,
             x \in IncidentRow \cup {NoRow} :
             sync' = [sync EXCEPT ![t] = s] /\ RowsAfter(t, a, s, new, y, x)
  BY UpsertRows
<1> DEFINE g == GroupOf[a]
           i == new.incident_id
           old == sync[t]
           row == LoadedGroup(t, g)
<1>3. /\ g \in Group /\ i \in IncidentLink /\ old \in SyncSession
      /\ SessionLinked(old, group, incident)
      /\ SessionOwns(old) /\ StagedLinks(old, incident)
  BY AlertAssumption DEF IInv, TypeOK, GroupRow, SessionInv, OwnInv
<1>4. sync'[t] = s /\ \A u \in SyncTask \ {t} : sync'[u] = sync[u]
  BY <1>2 DEF IInv, TypeOK
<1>5. row \in GroupRow \cup {NoRow} /\ new # NoRow /\ y # NoRow
  BY <1>3, LoadedRows, NoRowIsNoRow
<1>6. SessionOwns(s)
  <2> SUFFICES ASSUME NEW j \in Incident, s.incident[j] # NoRow,
                      s.readIncident[j] = NoRow
               PROVE  LET f == s.incident[j].group IN
                      /\ s.group[f] # NoRow /\ s.group[f].incident_id # None
                      /\ s.readGroup[f] # NoRow => s.readGroup[f].incident_id = None
    BY DEF SessionOwns
  <2>1. CASE j # i
    <3>1. old.incident[j] # NoRow /\ old.readIncident[j] = NoRow /\ s.incident[j] = old.incident[j]
      BY <1>2, <2>1 DEF RowsAfter
    <3> DEFINE f == old.incident[j].group
    <3>2. /\ old.group[f] # NoRow /\ old.group[f].incident_id # None
          /\ old.readGroup[f] # NoRow => old.readGroup[f].incident_id = None
      BY <1>3, <3>1 DEF SessionOwns
    <3>3. f \in Group
      BY <1>3, <3>1 DEF SyncSession, SessionIncidents, IncidentRow
    <3>4. CASE f # g
      BY <1>2, <3>1, <3>2, <3>3, <3>4 DEF RowsAfter
    <3>5. CASE f = g
      <4>1. row = old.group[g]
        BY <3>2, <3>5 DEF LoadedGroup
      <4>2. s.group[f] = new /\ s.readGroup[f] = old.readGroup[f]
        BY <1>2, <3>2, <3>3, <3>5 DEF RowsAfter, FirstRead
      <4>3. i # None
        BY <1>2, <3>2, <3>5, <4>1 DEF RowsAfter
      <4> QED
        BY <1>5, <3>1, <3>2, <4>2, <4>3
    <3> QED
      BY <3>4, <3>5
  <2>2. CASE j = i
    <3>1. i # None
      BY <2>2 DEF None, Incident
    <3>2. s.incident[j] = x /\ x.group = g
      BY <1>2, <2>2, <3>1 DEF RowsAfter
    <3>3. s.group[g] = new
          /\ s.readGroup[g] = FirstRead(old.group[g], group[g], old.readGroup[g])
      BY <1>2, <1>3 DEF RowsAfter
    <3>4. s.readIncident[j] = FirstRead(old.incident[i], incident[i], old.readIncident[i])
      BY <1>2, <2>2 DEF RowsAfter
    <3>5. ASSUME s.readGroup[g] # NoRow PROVE s.readGroup[g].incident_id = None
      <4>1. CASE i \in Fresh
        <5>1. row # NoRow => row.incident_id = None
          <6> SUFFICES ASSUME row # NoRow, row.incident_id = i PROVE FALSE
            BY <1>2, <3>1 DEF RowsAfter
          <6>1. LoadedIncident(t, i) # NoRow
            BY <1>3, <3>1, LoadedRows, NoRowIsNoRow
          <6> QED
            BY <4>1, <6>1, SessionsTaken DEF LoadedIncident
        <5>2. CASE old.group[g] = NoRow
          BY <3>3, <3>5, <5>1, <5>2 DEF FirstRead, LoadedGroup
        <5>3. CASE old.group[g] # NoRow
          <6>1. old.group[g].incident_id = None /\ s.readGroup[g] = old.readGroup[g]
            BY <3>3, <5>1, <5>3 DEF FirstRead, LoadedGroup
          <6> QED
            BY <1>3, <3>5, <5>3, <6>1 DEF SessionLinked
        <5> QED
          BY <5>2, <5>3
      <4>2. CASE i \notin Fresh
        <5>1. row # NoRow /\ row.incident_id = i
          BY <1>2, <3>1, <4>2 DEF RowsAfter
        <5>2. LoadedIncident(t, i) \in IncidentRow /\ LoadedIncident(t, i).group = g
          BY <1>3, <3>1, <5>1, LoadedRows
        <5>3. old.incident[i] # NoRow /\ old.readIncident[i] = NoRow
          BY <3>4, <5>2, NoRowIsNoRow DEF FirstRead, LoadedIncident
        <5>4. old.incident[i].group = g
          BY <5>2, <5>3 DEF LoadedIncident
        <5>5. /\ old.group[g] # NoRow
              /\ old.readGroup[g] # NoRow => old.readGroup[g].incident_id = None
          BY <1>3, <2>2, <5>3, <5>4 DEF SessionOwns
        <5> QED
          BY <3>3, <3>5, <5>5 DEF FirstRead
      <4> QED
        BY <4>1, <4>2
    <3> QED
      BY <1>5, <3>1, <3>2, <3>3, <3>5
  <2> QED
    BY <2>1, <2>2
<1>7. StagedLinks(s, incident)
  <2> SUFFICES ASSUME NEW b \in Alert, s.alerts[b] # NoRow,
                      s.alerts[b].incident_id # None
               PROVE  \/ LinksTo(incident, s.alerts[b].incident_id, GroupOf[b])
                      \/ LinksTo(s.incident, s.alerts[b].incident_id, GroupOf[b])
    BY DEF StagedLinks
  <2> DEFINE k == s.alerts[b].incident_id
  <2>1. k \in Incident
    BY DEF SyncSession, AlertRow, IncidentLink
  <2>2. CASE b = a
    <3>1. k = i /\ i # None
      BY <1>2, <2>2 DEF RowsAfter
    <3>2. s.incident[i] = x /\ x \in IncidentRow /\ x.group = g
      BY <1>2, <2>1, <3>1 DEF RowsAfter
    <3> QED
      BY <2>2, <3>1, <3>2, NoRowIsNoRow DEF LinksTo
  <2>3. CASE b # a
    <3>1. s.alerts[b] = old.alerts[b]
      BY <1>2, <2>3 DEF RowsAfter
    <3>2. \/ LinksTo(incident, k, GroupOf[b])
          \/ LinksTo(old.incident, k, GroupOf[b])
      BY <1>3, <3>1 DEF StagedLinks
    <3>3. CASE LinksTo(old.incident, k, GroupOf[b]) /\ k = i
      <4>1. i # None /\ s.incident[k] = x /\ x \in IncidentRow /\ x.group = g
        BY <1>2, <2>1, <3>3 DEF RowsAfter, None, Incident
      <4>2. GroupOf[b] = g
        <5>1. CASE i \in Fresh
          BY <3>3, <5>1, SessionsTaken DEF LinksTo
        <5>2. CASE i \notin Fresh
          <6>1. row # NoRow /\ row.incident_id = i
            BY <1>2, <4>1, <5>2 DEF RowsAfter
          <6>2. LoadedIncident(t, i).group = g
            BY <1>3, <4>1, <6>1, LoadedRows
          <6> QED
            BY <3>3, <6>2 DEF LinksTo, LoadedIncident
        <5> QED
          BY <5>1, <5>2
      <4> QED
        BY <4>1, <4>2, NoRowIsNoRow DEF LinksTo
    <3>4. CASE LinksTo(old.incident, k, GroupOf[b]) /\ k # i
      <4>1. s.incident[k] = old.incident[k]
        BY <1>2, <2>1, <3>4 DEF RowsAfter
      <4> QED
        BY <3>4, <4>1 DEF LinksTo
    <3> QED
      BY <3>2, <3>3, <3>4
  <2> QED
    BY <2>2, <2>3
<1> QED
  BY <1>1, <1>4, <1>6, <1>7, OwnSessions

\* What a commit of the session s makes of the owners of incidents: a second
\* incident comes only where the group was linked since s read it.
LEMMA CommitOwns ==
    ASSUME IInv, OwnInv, NEW s, Rows(s), SessionLinked(s, group, incident), SessionOwns(s),
           \A g \in Group : s.group[g] # NoRow /\ s.readGroup[g] = NoRow => group[g] = NoRow,
           WriteGroups(s), WriteIncidents(s)
    PROVE  /\ Owned(group', incident')
           /\ \A i, j \in Incident :
                /\ incident[i] = NoRow /\ incident'[i] # NoRow
                /\ incident[j] # NoRow /\ incident[j].group = incident'[i].group
                => LET g == incident'[i].group IN
                   /\ s.readGroup[g] # NoRow
                   /\ s.readGroup[g].incident_id # group[g].incident_id
<1>1. /\ group \in SessionGroups /\ incident \in SessionIncidents
      /\ group' = [g \in Group |-> Merge(group[g], s.readGroup[g], s.group[g])]
      /\ incident' = [i \in Incident |->
                        Merge(incident[i], s.readIncident[i], s.incident[i])]
  BY DEF IInv, TypeOK, WriteGroups, WriteIncidents
<1>2. /\ \A i \in Incident : s.incident[i] # NoRow =>
           incident'[i] # NoRow /\ incident'[i].group = s.incident[i].group
      /\ \A i \in Incident : incident[i] # NoRow =>
           incident'[i] # NoRow /\ incident'[i].group = incident[i].group
      /\ \A i \in Incident : incident[i] = NoRow /\ incident'[i] # NoRow =>
           s.incident[i] # NoRow /\ s.readIncident[i] = NoRow
  BY <1>1, WrittenIncidents
<1>3. \A g \in Group : group[g] # NoRow => group'[g] # NoRow
  BY <1>1, WrittenGroups
<1>4. \A g \in Group : group[g] # NoRow /\ group[g].incident_id # None =>
        group'[g].incident_id # None
  BY CommitTables DEF LinksStay
<1>5. \A i \in Incident : incident[i] # NoRow => incident[i].group \in Group
  BY <1>1 DEF SessionIncidents, IncidentRow
<1>6. ASSUME NEW i \in Incident, incident[i] = NoRow, incident'[i] # NoRow
      PROVE  LET g == incident'[i].group IN
             /\ g \in Group
             /\ group'[g] # NoRow /\ group'[g].incident_id # None
             /\ s.readGroup[g] = NoRow => group[g] = NoRow
             /\ s.readGroup[g] # NoRow => s.readGroup[g].incident_id = None
  <2> DEFINE g == s.incident[i].group
  <2>1. s.incident[i] # NoRow /\ s.readIncident[i] = NoRow /\ incident'[i].group = g
    BY <1>2, <1>6
  <2>2. /\ s.group[g] # NoRow /\ s.group[g].incident_id # None
        /\ s.readGroup[g] # NoRow => s.readGroup[g].incident_id = None
    BY <2>1 DEF SessionOwns
  <2>3. g \in Group
    BY <2>1 DEF Rows, SessionIncidents, IncidentRow
  <2>4. group'[g] = Merge(group[g], s.readGroup[g], s.group[g])
    BY <1>1, <2>3
  <2>5. CASE s.readGroup[g] = NoRow
    BY <2>1, <2>2, <2>3, <2>4, <2>5 DEF Merge
  <2>6. CASE s.readGroup[g] # NoRow
    <3>1. /\ group[g] \in GroupRow /\ s.readGroup[g] \in GroupRow
          /\ s.group[g] \in GroupRow
      BY <1>1, <2>2, <2>3, <2>6 DEF SessionLinked, Rows, SessionGroups
    <3> QED
      BY <2>1, <2>2, <2>3, <2>4, <2>6, <3>1, MergedGroup, NoRowIsNoRow
  <2> QED
    BY <2>5, <2>6
<1>7. Owned(group', incident')
  <2> SUFFICES ASSUME NEW i \in Incident, incident'[i] # NoRow
               PROVE  /\ group'[incident'[i].group] # NoRow
                      /\ group'[incident'[i].group].incident_id # None
    BY DEF Owned
  <2>1. CASE incident[i] = NoRow
    BY <1>6, <2>1
  <2>2. CASE incident[i] # NoRow
    BY <1>2, <1>3, <1>4, <1>5, <2>2 DEF OwnInv, Owned
  <2> QED
    BY <2>1, <2>2
<1>8. ASSUME NEW i \in Incident, NEW j \in Incident,
             incident[i] = NoRow, incident'[i] # NoRow,
             incident[j] # NoRow, incident[j].group = incident'[i].group
      PROVE  LET g == incident'[i].group IN
             /\ s.readGroup[g] # NoRow
             /\ s.readGroup[g].incident_id # group[g].incident_id
  BY <1>6, <1>8 DEF OwnInv, Owned
<1> QED
  BY <1>7, <1>8

\* The step opens a second incident for a group only unseen.
OpensOne ==
    \A i \in Incident :
         /\ incident[i] = NoRow /\ incident'[i] # NoRow
         /\ \E j \in Incident : /\ incident[j] # NoRow
                                /\ incident[j].group = incident'[i].group
         => LinkRaced(incident'[i].group)

LEMMA SyncCommitOwns ==
    ASSUME IInv, OwnInv, NEW t \in SyncTask, SyncCommit(t)
    PROVE  OwnInv' /\ OpensOne
<1> DEFINE s == sync[t]
<1>1. /\ s \in SyncSession /\ Rows(s) /\ SessionLinked(s, group, incident)
      /\ SessionOwns(s) /\ StagedLinks(s, incident)
  BY DEF IInv, TypeOK, SessionInv, SyncSession, Rows, OwnInv
<1>2. \A g \in Group : s.group[g] # NoRow /\ s.readGroup[g] = NoRow => group[g] = NoRow
  BY DEF SyncCommit, SyncConsistent
<1>3. /\ Owned(group', incident')
      /\ \A i, j \in Incident :
           /\ incident[i] = NoRow /\ incident'[i] # NoRow
           /\ incident[j] # NoRow /\ incident[j].group = incident'[i].group
           => LET g == incident'[i].group IN
              /\ s.readGroup[g] # NoRow
              /\ s.readGroup[g].incident_id # group[g].incident_id
  BY <1>1, <1>2, CommitOwns DEF SyncCommit
<1>4. /\ \A i \in Incident : incident[i] # NoRow =>
           incident'[i] # NoRow /\ incident'[i].group = incident[i].group
      /\ \A i \in Incident : s.incident[i] # NoRow =>
           incident'[i] # NoRow /\ incident'[i].group = s.incident[i].group
  BY <1>1, WrittenIncidents DEF SyncCommit, WriteIncidents, IInv, TypeOK
<1>5. /\ sync'[t] = IdleSync /\ \A u \in SyncTask \ {t} : sync'[u] = sync[u]
      /\ sync[t].pc # "idle" /\ UNCHANGED request
  BY DEF SyncCommit, IInv, TypeOK
<1>6. OpensOne
  <2>1. s \in Ended
    BY <1>5, IdleOwns DEF Ended
  <2> HIDE DEF s
  <2> QED
    BY <1>3, <2>1 DEF OpensOne, LinkRaced
<1>7. AlertsLinked(alert', incident')
  <2> SUFFICES ASSUME NEW a \in Alert, alert'[a] # NoRow, alert'[a].incident_id # None
               PROVE  LinksTo(incident', alert'[a].incident_id, GroupOf[a])
    BY DEF AlertsLinked
  <2>1. alert'[a] = IF s.alerts[a] = NoRow THEN alert[a] ELSE s.alerts[a]
    BY DEF SyncCommit, Merge
  <2>2. alert'[a].incident_id \in Incident
    BY <1>1, <2>1 DEF IInv, TypeOK, SyncSession, AlertRow, IncidentLink
  <2>3. \/ LinksTo(incident, alert'[a].incident_id, GroupOf[a])
        \/ LinksTo(s.incident, alert'[a].incident_id, GroupOf[a])
    BY <1>1, <2>1 DEF OwnInv, AlertsLinked, StagedLinks
  <2> QED
    BY <1>4, <2>2, <2>3 DEF LinksTo
<1> QED
  BY <1>3, <1>4, <1>5, <1>6, <1>7, IdleOwns, OwnKept

LEMMA CommitRequestOwns ==
    ASSUME IInv, OwnInv, NEW h \in Handler, CommitRequest(h)
    PROVE  OwnInv' /\ OpensOne
<1> DEFINE s == request[h]
<1>1. /\ s \in RequestSession /\ Rows(s) /\ SessionLinked(s, group, incident)
      /\ RequestLoads(s) /\ SessionOwns(s) /\ RequestWrites(s)
  BY DEF IInv, TypeOK, SessionInv, RequestSession, Rows, OwnInv
<1>2. \A g \in Group : s.group[g] # NoRow /\ s.readGroup[g] = NoRow => group[g] = NoRow
  BY <1>1 DEF RequestLoads
<1>3. /\ Owned(group', incident')
      /\ \A i, j \in Incident :
           /\ incident[i] = NoRow /\ incident'[i] # NoRow
           /\ incident[j] # NoRow /\ incident[j].group = incident'[i].group
           => LET g == incident'[i].group IN
              /\ s.readGroup[g] # NoRow
              /\ s.readGroup[g].incident_id # group[g].incident_id
  BY <1>1, <1>2, CommitOwns DEF CommitRequest
<1>4. /\ \A i \in Incident : incident[i] # NoRow =>
           incident'[i] # NoRow /\ incident'[i].group = incident[i].group
      /\ \A i \in Incident : s.incident[i] # NoRow =>
           incident'[i] # NoRow /\ incident'[i].group = s.incident[i].group
  BY <1>1, WrittenIncidents DEF CommitRequest, WriteIncidents, IInv, TypeOK
<1>5. /\ request'[h] = IdleRequest /\ \A k \in Handler \ {h} : request'[k] = request[k]
      /\ s.pc = "committing" /\ UNCHANGED sync
  BY DEF CommitRequest, IInv, TypeOK
<1>6. OpensOne
  <2>1. s \in Ended
    BY <1>5, IdleOwns DEF Ended
  <2> HIDE DEF s
  <2> QED
    BY <1>3, <2>1 DEF OpensOne, LinkRaced
<1>7. AlertsLinked(alert', incident')
  <2> SUFFICES ASSUME NEW a \in Alert, alert'[a] # NoRow, alert'[a].incident_id # None
               PROVE  LinksTo(incident', alert'[a].incident_id, GroupOf[a])
    BY DEF AlertsLinked
  <2>1. alert'[a] = IF a \in s.alerts THEN SetColumns(alert[a], s.columns) ELSE alert[a]
    BY DEF CommitRequest
  <2>2. a \in s.alerts => alert[a] \in AlertRow
    BY DEF IInv, TypeOK, ReachedInv, Stored
  <2>3. a \in s.alerts => alert'[a].incident_id = IF s.columns.incident_id # None
                             THEN s.columns.incident_id ELSE alert[a].incident_id
    BY <1>1, <2>1, <2>2, ColumnsSet DEF RequestSession
  <2>4. CASE alert[a] # NoRow /\ alert'[a].incident_id = alert[a].incident_id
    <3>1. LinksTo(incident, alert[a].incident_id, GroupOf[a])
      BY <2>4 DEF OwnInv, AlertsLinked
    <3>2. alert[a].incident_id \in Incident
      BY <2>4 DEF IInv, TypeOK, AlertRow, IncidentLink
    <3> QED
      BY <1>4, <2>4, <3>1, <3>2 DEF LinksTo
  <2>5. CASE a \in s.alerts /\ s.columns.incident_id # None
    <3> DEFINE g == GroupOf[a]
    <3>1. g \in s.targets /\ g \in Group
      BY <1>1, <2>5, AlertAssumption DEF RequestWrites
    <3>2. s.group[g] # NoRow /\ s.group[g].incident_id = s.columns.incident_id
      BY <1>1, <1>5, <2>5, <3>1 DEF RequestWrites
    <3>3. s.columns.incident_id \in Incident
      BY <1>1, <2>5 DEF RequestSession, Columns, IncidentLink
    <3>4. \/ LinksTo(incident, s.columns.incident_id, g)
          \/ LinksTo(s.incident, s.columns.incident_id, g)
      BY <1>1, <2>5, <3>1, <3>2 DEF SessionLinked
    <3> QED
      BY <1>4, <2>3, <2>5, <3>3, <3>4 DEF LinksTo
  <2> QED
    BY <2>1, <2>2, <2>3, <2>4, <2>5, NoRowIsNoRow
<1> QED
  BY <1>3, <1>4, <1>5, <1>6, <1>7, IdleOwns, OwnKept

LEMMA PropagateOwns ==
    ASSUME IInv, OwnInv, NEW h \in Handler, Propagate(h)
    PROVE  OwnInv' /\ OpensOne
<1> DEFINE s == request[h]
<1>1. /\ s.pc = "propagating" /\ s.columns \in Columns
      /\ group' = [g \in Group |-> Propagated(group[g], s.columns)]
      /\ alert' = [a \in Alert |-> Propagated(alert[a], s.columns)]
      /\ WriteIncidents(s)
      /\ request' = [request EXCEPT ![h] = IdleRequest]
      /\ UNCHANGED <<policy, lapsed, sync>>
  BY PropagateShape
<1>2. /\ Rows(s) /\ SessionLinked(s, group, incident)
      /\ SessionOwns(s) /\ RequestWrites(s)
  BY DEF IInv, TypeOK, SessionInv, RequestSession, Rows, OwnInv
<1>3. \A i \in Incident : s.incident[i] # NoRow => s.readIncident[i] # NoRow
  <2>1. \A i \in Incident : s.incident[i] # NoRow => s.incident[i].group \in Group
    BY <1>2 DEF Rows, SessionIncidents, IncidentRow
  <2> QED
    BY <1>1, <1>2, <2>1 DEF SessionOwns, RequestWrites
<1>4. /\ \A i \in Incident : incident[i] # NoRow =>
           incident'[i] # NoRow /\ incident'[i].group = incident[i].group
      /\ \A i \in Incident : incident'[i] # NoRow => incident[i] # NoRow
  BY <1>1, <1>2, <1>3, WrittenIncidents DEF WriteIncidents, IInv, TypeOK
<1>5. \A g \in Group :
        /\ group[g] = NoRow <=> group'[g] = NoRow
        /\ group[g] # NoRow => group'[g].incident_id = group[g].incident_id
  BY <1>1, PropagatedRows DEF IInv, TypeOK, SessionGroups
<1>6. \A a \in Alert :
        /\ alert[a] = NoRow <=> alert'[a] = NoRow
        /\ alert[a] # NoRow => /\ alert'[a].incident_id = alert[a].incident_id
                               /\ alert[a].incident_id \in IncidentLink
  BY <1>1, PropagatedRows DEF IInv, TypeOK, AlertRow
<1>7. \A i \in Incident : incident[i] # NoRow => incident[i].group \in Group
  BY DEF IInv, TypeOK, SessionIncidents, IncidentRow
<1>8. Owned(group', incident')
  BY <1>4, <1>5, <1>7 DEF OwnInv, Owned
<1>9. AlertsLinked(alert', incident')
  BY <1>4, <1>6 DEF OwnInv, AlertsLinked, LinksTo, IncidentLink
<1>10. request'[h] = IdleRequest /\ \A k \in Handler \ {h} : request'[k] = request[k]
  BY <1>1 DEF IInv, TypeOK
<1>11. OpensOne
  BY <1>4 DEF OpensOne
<1> QED
  BY <1>1, <1>4, <1>8, <1>9, <1>10, <1>11, IdleOwns, OwnKept

LEMMA BegunOwns ==
    ASSUME IInv, OwnInv, NEW h \in Handler, NEW r \in RequestSession, Begun(h, r)
    PROVE  OwnInv'
<1>1. SessionOwns(r)
  <2> SUFFICES ASSUME NEW i \in Incident, r.incident[i] # NoRow, r.readIncident[i] = NoRow
               PROVE  LET g == r.incident[i].group IN
                      /\ r.group[g] # NoRow /\ r.group[g].incident_id # None
                      /\ r.readGroup[g] # NoRow => r.readGroup[g].incident_id = None
    BY DEF SessionOwns
  <2> DEFINE g == r.incident[i].group
  <2>1. i \in Fresh /\ g \in Group /\ r.group[g] # NoRow /\ r.group[g].incident_id = i
    BY DEF Begun
  <2>2. i # None /\ incident[i] = NoRow
    BY <2>1, SessionsTaken DEF None, Incident
  <2>3. r.readGroup[g] = group[g] /\ group[g] # NoRow
    BY <2>1 DEF Begun
  <2>4. group[g].incident_id # i
    BY <2>1, <2>2, <2>3 DEF IInv, Linked, LinksTo
  <2>5. group[g].incident_id = None
    BY <2>1, <2>4 DEF Begun
  <2> QED
    BY <2>1, <2>2, <2>3, <2>5
<1>2. RequestWrites(r)
  BY DEF Begun, RequestWrites
<1>3. request'[h] = r /\ \A k \in Handler \ {h} : request'[k] = request[k]
  BY DEF Begun, IInv, TypeOK
<1> QED
  BY <1>1, <1>2, <1>3, OwnSessions DEF Begun

LEMMA ExecuteOwns ==
    ASSUME IInv, OwnInv, NEW h \in Handler, Execute(h)
    PROVE  OwnInv'
<1> DEFINE reached == {a \in Stored : GroupOf[a] \in request[h].targets}
           r == [request[h] EXCEPT !.pc = "committing", !.alerts = reached]
<1>1. request'[h] = r /\ \A k \in Handler \ {h} : request'[k] = request[k]
  BY DEF Execute, IInv, TypeOK
<1>2. request[h] \in RequestSession
  BY DEF IInv, TypeOK
<1> HIDE DEF reached
<1>3. /\ r.pc = "committing" /\ r.alerts = reached
      /\ r.readGroup = request[h].readGroup /\ r.group = request[h].group
      /\ r.readIncident = request[h].readIncident /\ r.incident = request[h].incident
      /\ r.columns = request[h].columns /\ r.targets = request[h].targets
  BY <1>2 DEF RequestSession
<1> HIDE DEF r
<1>4. SessionOwns(r)
  BY <1>3 DEF OwnInv, SessionOwns
<1>5. RequestWrites(r)
  BY <1>3 DEF OwnInv, RequestWrites, Execute, reached
<1> QED
  BY <1>1, <1>4, <1>5, OwnSessions DEF Execute

LEMMA OwnStart == Init => OwnInv
<1> SUFFICES ASSUME Init PROVE OwnInv
  OBVIOUS
<1>1. /\ \A t \in SyncTask : sync[t] = IdleSync
      /\ \A h \in Handler : request[h] = IdleRequest
  BY DEF Init
<1>2. Owned(group, incident) /\ AlertsLinked(alert, incident)
  BY DEF Init, Owned, AlertsLinked, NoIncidents
<1> QED
  BY <1>1, <1>2, IdleOwns DEF OwnInv

LEMMA OwnStep == IInv /\ OwnInv /\ [Next]_vars => OwnInv' /\ OpensOne
<1> SUFFICES ASSUME IInv, OwnInv, [Next]_vars PROVE OwnInv' /\ OpensOne
  OBVIOUS
<1>1. UNCHANGED incident => OpensOne
  BY DEF OpensOne
<1>2. ASSUME NEW t \in SyncTask, Synchronize(t) PROVE OwnInv' /\ OpensOne
  <2>1. CASE SyncStart(t)
    BY <1>1, <2>1, SyncStartOwns DEF SyncStart
  <2>2. CASE SyncAlert(t)
    <3>1. PICK a \in Alert, q \in SUBSET Policy, p \in PolicyRow \cup {NoRow} :
                 Upsert(t, a, q, p)
      BY <2>2, SyncAlertUpserts
    <3> QED
      BY <1>1, <3>1, UpsertOwns, UpsertShape
  <2>3. CASE SyncCommit(t)
    BY <2>3, SyncCommitOwns
  <2>4. CASE SyncFail(t)
    <3>1. \A u \in SyncTask : sync'[u] = sync[u] \/ sync'[u] = IdleSync
      BY <2>4 DEF SyncFail, IInv, TypeOK
    <3> QED
      BY <1>1, <2>4, <3>1, IdleOwns, OwnSessions DEF SyncFail
  <2> QED
    BY <1>2, <2>1, <2>2, <2>3, <2>4 DEF Synchronize
<1>3. ASSUME NEW h \in Handler, Analyst(h) PROVE OwnInv' /\ OpensOne
  <2>1. ASSUME NEW r \in RequestSession, Begun(h, r) PROVE OwnInv' /\ OpensOne
    BY <1>1, <2>1, BegunOwns DEF Begun
  <2>2. CASE Execute(h)
    BY <1>1, <2>2, ExecuteOwns DEF Execute
  <2>3. CASE CommitRequest(h)
    BY <2>3, CommitRequestOwns
  <2>4. CASE Propagate(h)
    BY <2>4, PropagateOwns
  <2>5. CASE EndRequest(h)
    <3>1. \A k \in Handler : request'[k] = request[k] \/ request'[k] = IdleRequest
      BY <2>5 DEF EndRequest, IInv, TypeOK
    <3> QED
      BY <1>1, <2>5, <3>1, IdleOwns, OwnSessions DEF EndRequest
  <2> QED
    BY <1>3, <2>1, <2>2, <2>3, <2>4, <2>5, AnalystStep
<1>4. CASE UNCHANGED <<alert, group, incident, sync, request>>
  BY <1>1, <1>4, OwnSessions
<1> QED
  BY <1>2, <1>3, <1>4 DEF Next, vars, UpdateNoisePolicy, DeleteNoisePolicy, Lapse

\* Of create_incident_for_group and its callers, for any number of processes
\* and requests: a second incident for a group is opened only by a transaction
\* that read the group before the first was committed.
THEOREM OneIncident == Spec => OneIncidentUnlessRaced
<1>1. Init => IInv /\ OwnInv
  BY Start, OwnStart
<1>2. IInv /\ OwnInv /\ [Next]_vars => (IInv /\ OwnInv)'
  BY Step, OwnStep
<1>3. IInv /\ OwnInv /\ [Next]_vars => [OpensOne]_vars
  BY OwnStep
<1>4. Spec => [][OpensOne]_vars
  BY <1>1, <1>2, <1>3, PTL DEF Spec
<1> QED
  BY <1>4 DEF OneIncidentUnlessRaced, OpensOne

------------------------------------------------------------------------------
(* One process: incidents follow their groups                              *)

GroupsGrow ==
    \A g \in Group : group[g] # NoRow =>
        group'[g] # NoRow /\ group[g].occurrence_count <= group'[g].occurrence_count

LEMMA SameCountsGrow == IInv /\ SameCounts => GroupsGrow
BY DEF IInv, TypeOK, SessionGroups, GroupRow, SameCounts, SameSummary, GroupsGrow

\* The group of an incident that a request inserts is stored.
LEMMA InsertedOwner ==
    ASSUME IInv, OwnInv, NEW h \in Handler, NEW i \in Incident,
           request[h].incident[i] # NoRow, request[h].readIncident[i] = NoRow
    PROVE  /\ request[h].incident[i] \in IncidentRow
           /\ request[h].incident[i].group \in Group
           /\ group[request[h].incident[i].group] \in GroupRow
<1> DEFINE r == request[h]
           g == r.incident[i].group
<1>1. Rows(r) /\ SessionLinked(r, group, incident) /\ RequestLoads(r) /\ SessionOwns(r)
  BY DEF IInv, TypeOK, SessionInv, RequestSession, Rows, OwnInv
<1>2. r.incident[i] \in IncidentRow /\ g \in Group
  BY <1>1 DEF Rows, SessionIncidents, IncidentRow
<1>3. r.group[g] # NoRow
  BY <1>1 DEF SessionOwns
<1>4. group[g] # NoRow
  BY <1>1, <1>2, <1>3 DEF RequestLoads, SessionLinked
<1> QED
  BY <1>2, <1>4 DEF IInv, TypeOK, SessionGroups

LEMMA FollowKept ==
    ASSUME IInv, OwnInv, FollowInv, GroupsGrow, group' \in SessionGroups,
           Behind(group', incident'),
           \A t \in SyncTask : sync'[t] = sync[t] \/ SyncFollows(sync'[t]),
           \A h \in Handler : request'[h] = request[h] \/ RequestBehind(request'[h], group')
    PROVE  FollowInv'
<1>1. ASSUME NEW h \in Handler PROVE RequestBehind(request[h], group')
  <2> SUFFICES ASSUME NEW i \in Incident, request[h].incident[i] # NoRow,
                      request[h].readIncident[i] = NoRow
               PROVE  request[h].incident[i].occurrence_count
                        <= group'[request[h].incident[i].group].occurrence_count
    BY DEF FollowInv, RequestBehind
  <2> DEFINE g == request[h].incident[i].group
  <2>1. g \in Group /\ group[g] \in GroupRow /\ request[h].incident[i] \in IncidentRow
    BY InsertedOwner
  <2>2. request[h].incident[i].occurrence_count <= group[g].occurrence_count
    BY DEF FollowInv, RequestBehind
  <2>3. group'[g] \in GroupRow /\ group[g].occurrence_count <= group'[g].occurrence_count
    BY <2>1, NoRowIsNoRow DEF GroupsGrow, SessionGroups
  <2>4. /\ request[h].incident[i].occurrence_count \in Nat
        /\ group[g].occurrence_count \in Nat /\ group'[g].occurrence_count \in Nat
    BY <2>1, <2>3 DEF GroupRow, IncidentRow
  <2> QED
    BY <2>2, <2>3, <2>4
<1>2. \A t \in SyncTask : SyncFollows(sync'[t])
  BY DEF FollowInv
<1>3. \A h \in Handler : RequestBehind(request'[h], group')
  BY <1>1
<1> QED
  BY <1>2, <1>3 DEF FollowInv

LEMMA FollowSessions ==
    ASSUME IInv, OwnInv, FollowInv, UNCHANGED <<alert, group, incident>>,
           \A t \in SyncTask : sync'[t] = sync[t] \/ SyncFollows(sync'[t]),
           \A h \in Handler : request'[h] = request[h] \/ RequestBehind(request'[h], group)
    PROVE  FollowInv'
<1>1. GroupsGrow /\ group' \in SessionGroups
  BY Unmoved, SameCountsGrow DEF IInv, TypeOK
<1>2. Behind(group', incident')
  BY DEF FollowInv
<1> QED
  BY <1>1, <1>2, FollowKept

LEMMA IdleFollows ==
    SyncFollows(IdleSync) /\ \A grp : RequestBehind(IdleRequest, grp)
<1>1. /\ IdleSync.group = NoGroups
      /\ IdleSync.incident = NoIncidents /\ IdleRequest.incident = NoIncidents
  BY DEF IdleSync, IdleRequest
<1> QED
  BY <1>1 DEF SyncFollows, RequestBehind, NoGroups, NoIncidents

LEMMA SyncStartFollows ==
    ASSUME IInv, OwnInv, FollowInv, NEW t \in SyncTask, SyncStart(t)
    PROVE  FollowInv'
<1> DEFINE policies == [p \in Policy |-> IF policy[p] # NoRow /\ policy[p].enabled
                                         THEN policy[p] ELSE NoRow]
           session(batch) == [IdleSync EXCEPT !.pc = "upserting", !.batch = batch,
                                              !.policies = policies]
<1>1. PICK batch \in SUBSET (Alert \ Stored) :
             sync' = [sync EXCEPT ![t] = session(batch)]
  BY DEF SyncStart
<1> DEFINE s == session(batch)
<1> HIDE DEF policies
<1>2. s.incident = NoIncidents /\ s.group = NoGroups
  BY DEF IdleSync
<1>3. sync'[t] = s /\ \A u \in SyncTask \ {t} : sync'[u] = sync[u]
  BY <1>1 DEF IInv, TypeOK
<1> HIDE DEF s, session
<1>4. SyncFollows(s)
  BY <1>2 DEF SyncFollows, NoGroups, NoIncidents
<1> QED
  BY <1>3, <1>4, FollowSessions DEF SyncStart

LEMMA UpsertFollows ==
    ASSUME IInv, OwnInv, FollowInv, NEW t \in SyncTask, NEW a \in Alert,
           NEW q \in SUBSET Policy, NEW p \in PolicyRow \cup {NoRow}, Upsert(t, a, q, p)
    PROVE  FollowInv'
<1>1. UNCHANGED <<alert, group, incident, request>>
  BY UpsertRows
<1>2. PICK s \in SyncSession, new \in GroupRow, y \in AlertRow,
             x \in IncidentRow \cup {NoRow} :
             sync' = [sync EXCEPT ![t] = s] /\ RowsAfter(t, a, s, new, y, x)
  BY UpsertRows
<1> DEFINE g == GroupOf[a]
           i == new.incident_id
           old == sync[t]
           row == LoadedGroup(t, g)
<1>3. /\ g \in Group /\ i \in IncidentLink /\ old \in SyncSession /\ Rows(old)
      /\ SessionLinked(old, group, incident) /\ SyncFollows(old)
  BY AlertAssumption DEF IInv, TypeOK, GroupRow, SessionInv, FollowInv, SyncSession, Rows
<1>4. sync'[t] = s /\ \A u \in SyncTask \ {t} : sync'[u] = sync[u]
  BY <1>2 DEF IInv, TypeOK
<1>5. row \in GroupRow \cup {NoRow} /\ new # NoRow
  BY <1>3, LoadedRows, NoRowIsNoRow
<1>6. /\ new.occurrence_count \in Nat
      /\ row # NoRow => /\ row.occurrence_count \in Nat
                        /\ new.occurrence_count = row.occurrence_count + 1
      /\ row # NoRow /\ row.incident_id # None => i = row.incident_id
      /\ ~Escalates(new)
  BY <1>2, <1>5 DEF GroupRow, RowsAfter
<1>7. /\ \A f \in Group : s.group[f] = IF f = g THEN new ELSE old.group[f]
      /\ \A f \in Group : s.readGroup[f] =
           IF f = g THEN FirstRead(old.group[g], group[g], old.readGroup[g])
           ELSE old.readGroup[f]
      /\ \A j \in Incident : s.incident[j] = IF j = i THEN x ELSE old.incident[j]
      /\ \A j \in Incident : s.readIncident[j] =
           IF j = i THEN FirstRead(old.incident[i], incident[i], old.readIncident[i])
           ELSE old.readIncident[j]
      /\ i # None => /\ x # NoRow /\ x.group = g
                     /\ x.occurrence_count = new.occurrence_count
  BY <1>2, NoRowIsNoRow DEF RowsAfter
\* The incident of the group was with the group before, unless it is new.
<1>8. ASSUME i # None
      PROVE  /\ i \in Incident
             /\ \/ old.incident[i] = NoRow /\ incident[i] = NoRow
                \/ /\ row # NoRow /\ row.incident_id = i
                   /\ LoadedIncident(t, i) \in IncidentRow /\ LoadedIncident(t, i).group = g
  <2>1. i \in Incident
    BY <1>3, <1>8 DEF IncidentLink
  <2>2. CASE i \in Fresh
    BY <2>1, <2>2, SessionsTaken
  <2>3. CASE row # NoRow /\ row.incident_id = i
    BY <1>3, <1>8, <2>1, <2>3, LoadedRows
  <2> QED
    BY <1>2, <1>8, <2>1, <2>2, <2>3 DEF RowsAfter
<1>9. ASSUME i # None, old.incident[i] # NoRow PROVE old.incident[i].group = g
  BY <1>8, <1>9 DEF LoadedIncident
<1>10. ASSUME NEW f \in Group, s.group[f] # NoRow
       PROVE  /\ ~Escalates(s.group[f])
              /\ s.readGroup[f] # NoRow =>
                   s.readGroup[f].occurrence_count < s.group[f].occurrence_count
              /\ s.group[f].incident_id # None =>
                   LinksTo(s.incident, s.group[f].incident_id, f)
  <2>1. CASE f = g
    <3>1. s.group[f] = new /\ (i # None => LinksTo(s.incident, i, g))
      BY <1>7, <1>8, <2>1 DEF LinksTo
    <3>2. ASSUME s.readGroup[g] # NoRow
          PROVE  s.readGroup[g].occurrence_count < new.occurrence_count
      <4>1. CASE old.group[g] = NoRow
        <5>1. s.readGroup[g] = row
          BY <1>3, <1>7, <4>1 DEF FirstRead, LoadedGroup
        <5> QED
          BY <1>6, <3>2, <5>1
      <4>2. CASE old.group[g] # NoRow
        <5>1. s.readGroup[g] = old.readGroup[g] /\ row = old.group[g]
          BY <1>3, <1>7, <4>2 DEF FirstRead, LoadedGroup
        <5>2. old.readGroup[g].occurrence_count < old.group[g].occurrence_count
          BY <1>3, <3>2, <4>2, <5>1 DEF SyncFollows
        <5>3. old.readGroup[g].occurrence_count \in Nat
          BY <1>3, <3>2, <5>1 DEF Rows, SessionGroups, GroupRow
        <5> QED
          BY <1>6, <4>2, <5>1, <5>2, <5>3
      <4> QED
        BY <4>1, <4>2
    <3> QED
      BY <1>6, <2>1, <3>1, <3>2
  <2>2. CASE f # g
    <3> DEFINE k == old.group[f].incident_id
    <3>1. s.group[f] = old.group[f] /\ s.readGroup[f] = old.readGroup[f]
      BY <1>7, <2>2
    <3>2. /\ ~Escalates(old.group[f])
          /\ old.readGroup[f] # NoRow =>
               old.readGroup[f].occurrence_count < old.group[f].occurrence_count
          /\ k # None => LinksTo(old.incident, k, f)
      BY <1>3, <1>10, <3>1 DEF SyncFollows
    <3>3. ASSUME k # None PROVE LinksTo(s.incident, k, f)
      <4>1. k \in Incident
        BY <1>3, <1>10, <3>1, <3>3 DEF Rows, SessionGroups, GroupRow, IncidentLink
      <4>2. k # i
        BY <1>9, <2>2, <3>2, <3>3 DEF LinksTo
      <4> QED
        BY <1>7, <3>2, <3>3, <4>1, <4>2 DEF LinksTo
    <3> QED
      BY <3>1, <3>2, <3>3
  <2> QED
    BY <2>1, <2>2
<1>11. ASSUME NEW j \in Incident, s.incident[j] # NoRow
       PROVE  LET z == s.group[s.incident[j].group] IN
              /\ z # NoRow /\ z.incident_id = j
              /\ z.occurrence_count = s.incident[j].occurrence_count
              /\ s.readIncident[j] # NoRow =>
                   s.readIncident[j].occurrence_count < s.incident[j].occurrence_count
  <2>1. CASE j = i
    <3>1. i # None
      BY <2>1 DEF None, Incident
    <3>2. /\ s.incident[j] = x /\ x.group = g /\ s.group[g] = new
          /\ x.occurrence_count = new.occurrence_count
          /\ s.readIncident[j] =
               FirstRead(old.incident[i], incident[i], old.readIncident[i])
      BY <1>3, <1>7, <2>1, <3>1
    <3>3. ASSUME s.readIncident[j] # NoRow
          PROVE  s.readIncident[j].occurrence_count < new.occurrence_count
      <4>1. /\ row # NoRow /\ row.incident_id = i
            /\ LoadedIncident(t, i) \in IncidentRow /\ LoadedIncident(t, i).group = g
        BY <1>8, <3>1, <3>2, <3>3 DEF FirstRead
      <4>2. CASE old.incident[i] # NoRow
        <5>1. s.readIncident[j] = old.readIncident[i] /\ old.incident[i].group = g
          BY <1>9, <3>1, <3>2, <4>2 DEF FirstRead
        <5>2. /\ old.group[g] # NoRow
              /\ old.group[g].occurrence_count = old.incident[i].occurrence_count
              /\ old.readIncident[i].occurrence_count < old.incident[i].occurrence_count
          BY <1>3, <2>1, <3>3, <4>2, <5>1 DEF SyncFollows
        <5>3. row = old.group[g]
          BY <5>2 DEF LoadedGroup
        <5>4. old.readIncident[i].occurrence_count \in Nat
          BY <1>3, <2>1, <3>3, <5>1 DEF Rows, SessionIncidents, IncidentRow
        <5> QED
          BY <1>6, <4>1, <5>1, <5>2, <5>3, <5>4
      <4>3. CASE old.incident[i] = NoRow
        <5>1. /\ s.readIncident[j] = incident[i] /\ incident[i] \in IncidentRow
              /\ incident[i].group = g
          BY <3>2, <4>1, <4>3 DEF FirstRead, LoadedIncident
        <5>2. old.group[g] = NoRow
          <6> SUFFICES ASSUME old.group[g] # NoRow PROVE FALSE
            OBVIOUS
          <6>1. row = old.group[g]
            BY DEF LoadedGroup
          <6> QED
            BY <1>3, <3>1, <4>1, <4>3, <6>1 DEF SyncFollows, LinksTo
        <5>3. row = group[g]
          BY <5>2 DEF LoadedGroup
        <5>4. incident[i].occurrence_count <= group[g].occurrence_count
          BY <2>1, <5>1, NoRowIsNoRow DEF FollowInv, Behind
        <5>5. incident[i].occurrence_count \in Nat
          BY <5>1 DEF IncidentRow
        <5> QED
          BY <1>6, <4>1, <5>1, <5>3, <5>4, <5>5
      <4> QED
        BY <4>2, <4>3
    <3> QED
      BY <1>5, <2>1, <3>2, <3>3
  <2>2. CASE j # i
    <3> DEFINE f == old.incident[j].group
    <3>1. s.incident[j] = old.incident[j] /\ s.readIncident[j] = old.readIncident[j]
      BY <1>7, <2>2
    <3>2. /\ old.group[f] # NoRow /\ old.group[f].incident_id = j
          /\ old.group[f].occurrence_count = old.incident[j].occurrence_count
          /\ old.readIncident[j] # NoRow =>
               old.readIncident[j].occurrence_count < old.incident[j].occurrence_count
      BY <1>3, <1>11, <3>1 DEF SyncFollows
    <3>3. f \in Group
      BY <1>3, <1>11, <3>1 DEF Rows, SessionIncidents, IncidentRow
    <3>4. f # g
      <4> SUFFICES ASSUME f = g PROVE FALSE
        OBVIOUS
      <4>1. row = old.group[g]
        BY <3>2 DEF LoadedGroup
      <4> QED
        BY <1>6, <2>2, <3>2, <4>1 DEF None, Incident
    <3> QED
      BY <1>7, <3>1, <3>2, <3>3, <3>4
  <2> QED
    BY <2>1, <2>2
<1>12. SyncFollows(s)
  BY <1>10, <1>11 DEF SyncFollows
<1> QED
  BY <1>1, <1>4, <1>12, FollowSessions

\* A loaded row that nobody has changed is overwritten as a whole.
LEMMA MergedCurrentGroup ==
    ASSUME NEW row \in GroupRow \cup {NoRow}, NEW new \in GroupRow \cup {NoRow}
    PROVE  Merge(row, row, new) = IF new # NoRow THEN new ELSE row
<1>1. CASE new = NoRow \/ row = NoRow
  BY <1>1 DEF Merge
<1>2. CASE new # NoRow /\ row # NoRow
  <2>1. row \in GroupRow /\ new \in GroupRow
    BY <1>2
  <2>2. Merge(row, row, new) =
          [c \in DOMAIN row |-> IF new[c] = row[c] THEN row[c] ELSE new[c]]
    BY <1>2 DEF Merge
  <2>3. DOMAIN row = DOMAIN new /\ new = [c \in DOMAIN new |-> new[c]]
    BY <2>1 DEF GroupRow
  <2>4. Merge(row, row, new) = [c \in DOMAIN new |-> new[c]]
    BY <2>2, <2>3
  <2> QED
    BY <1>2, <2>3, <2>4
<1> QED
  BY <1>1, <1>2

\* What the commit of a synchronization makes of a group it has counted for and
\* of the incidents it has touched.
LEMMA SyncCommitRows ==
    ASSUME IInv, CountInv, FollowInv, NEW t \in SyncTask, SyncCommit(t)
    PROVE  LET s == sync[t] IN
           /\ \A g \in Group : s.group[g] = NoRow => group'[g] = group[g]
           /\ \A g \in Group : s.group[g] # NoRow =>
                /\ group'[g] \in GroupRow
                /\ group'[g].occurrence_count = s.group[g].occurrence_count
                /\ group[g] # NoRow =>
                     group[g].occurrence_count < s.group[g].occurrence_count
                /\ s.readGroup[g] = NoRow => group'[g] = s.group[g]
                /\ s.readGroup[g] = group[g] => group'[g] = s.group[g]
                /\ s.readGroup[g] # NoRow /\ s.readGroup[g].incident_id = group[g].incident_id
                     => group'[g].incident_id = s.group[g].incident_id
           /\ \A i \in Incident : s.incident[i] = NoRow => incident'[i] = incident[i]
           /\ \A i \in Incident : s.incident[i] # NoRow =>
                /\ incident'[i] \in IncidentRow
                /\ incident'[i].group = s.incident[i].group
                /\ incident'[i].occurrence_count = s.incident[i].occurrence_count
<1> DEFINE s == sync[t]
<1>1. /\ s \in SyncSession /\ Rows(s) /\ SessionLinked(s, group, incident)
      /\ SyncCounts(s, alert, group) /\ SyncFollows(s)
  BY DEF SyncCommit, IInv, TypeOK, SessionInv, SyncSession, Rows, CountInv, FollowInv
<1>2. /\ \A g \in Group : group'[g] = Merge(group[g], s.readGroup[g], s.group[g])
      /\ \A i \in Incident : incident'[i] = Merge(incident[i], s.readIncident[i], s.incident[i])
  BY DEF SyncCommit, WriteGroups, WriteIncidents
<1>3. ASSUME NEW g \in Group, s.group[g] # NoRow
      PROVE  /\ group'[g] \in GroupRow
             /\ group'[g].occurrence_count = s.group[g].occurrence_count
             /\ group[g] # NoRow =>
                  group[g].occurrence_count < s.group[g].occurrence_count
             /\ s.readGroup[g] = NoRow => group'[g] = s.group[g]
             /\ s.readGroup[g] = group[g] => group'[g] = s.group[g]
             /\ s.readGroup[g] # NoRow /\ s.readGroup[g].incident_id = group[g].incident_id
                  => group'[g].incident_id = s.group[g].incident_id
  <2>1. s.group[g] \in GroupRow /\ group[g] \in GroupRow \cup {NoRow}
    BY <1>1, <1>3 DEF Rows, SessionGroups, IInv, TypeOK
  <2>2. CASE s.readGroup[g] = NoRow
    <3>1. group[g] = NoRow
      BY <1>1, <1>3, <2>2 DEF SyncCounts
    <3> QED
      BY <1>2, <1>3, <2>1, <2>2, <3>1 DEF Merge
  <2>3. CASE s.readGroup[g] # NoRow
    <3>1. /\ group[g] # NoRow /\ s.readGroup[g] \in GroupRow
          /\ group[g].occurrence_count = s.readGroup[g].occurrence_count
      BY <1>1, <1>3, <2>3 DEF SyncCounts, SameSummary, Rows, SessionGroups
    <3>2. s.readGroup[g].occurrence_count < s.group[g].occurrence_count
      BY <1>1, <1>3, <2>3 DEF SyncFollows
    <3>3. s.readGroup[g] = group[g] => group'[g] = s.group[g]
      BY <1>2, <1>3, <2>1, MergedCurrentGroup
    <3> QED
      BY <1>2, <2>1, <2>3, <3>1, <3>2, <3>3, MergedGroup
  <2> QED
    BY <2>2, <2>3
<1>4. ASSUME NEW i \in Incident, s.incident[i] # NoRow
      PROVE  /\ incident'[i] \in IncidentRow
             /\ incident'[i].group = s.incident[i].group
             /\ incident'[i].occurrence_count = s.incident[i].occurrence_count
  <2>1. s.incident[i] \in IncidentRow
    BY <1>1, <1>4 DEF Rows, SessionIncidents
  <2>2. CASE s.readIncident[i] = NoRow
    <3>1. incident[i] = NoRow
      BY <1>1, <1>4, <2>2 DEF SessionLinked
    <3> QED
      BY <1>2, <1>4, <2>1, <2>2, <3>1 DEF Merge
  <2>3. CASE s.readIncident[i] # NoRow
    <3>1. /\ incident[i] \in IncidentRow /\ s.readIncident[i] \in IncidentRow
          /\ s.readIncident[i].group = incident[i].group
          /\ s.incident[i].group = incident[i].group
      BY <1>1, <1>4, <2>3 DEF SessionLinked, Rows, SessionIncidents, IInv, TypeOK
    <3>2. /\ s.readIncident[i].occurrence_count < s.incident[i].occurrence_count
          /\ s.readIncident[i].occurrence_count \in Nat
          /\ s.incident[i].occurrence_count \in Nat
      BY <1>1, <1>4, <2>1, <2>3, <3>1 DEF SyncFollows, IncidentRow
    <3> QED
      BY <1>2, <2>1, <3>1, <3>2, MergedIncident
  <2> QED
    BY <2>2, <2>3
<1>5. /\ \A g \in Group : s.group[g] = NoRow => group'[g] = group[g]
      /\ \A i \in Incident : s.incident[i] = NoRow => incident'[i] = incident[i]
  BY <1>2 DEF Merge
<1> QED
  BY <1>3, <1>4, <1>5

LEMMA SyncCommitFollows ==
    ASSUME IInv, OwnInv, CountInv, FollowInv, NEW t \in SyncTask, SyncCommit(t)
    PROVE  FollowInv'
<1> DEFINE s == sync[t]
<1>1. /\ s \in SyncSession /\ Rows(s) /\ SyncFollows(s)
      /\ group \in SessionGroups /\ incident \in SessionIncidents
  BY DEF IInv, TypeOK, SyncSession, Rows, FollowInv
<1>2. group' \in SessionGroups
  BY SyncCommitLinked DEF IInv, TypeOK
<1>3. GroupsGrow
  <2> SUFFICES ASSUME NEW g \in Group, group[g] # NoRow
               PROVE  /\ group'[g] # NoRow
                      /\ group[g].occurrence_count <= group'[g].occurrence_count
    BY DEF GroupsGrow
  <2>1. group[g].occurrence_count \in Nat
    BY <1>1 DEF SessionGroups, GroupRow
  <2>2. CASE s.group[g] = NoRow
    BY <2>1, <2>2, SyncCommitRows
  <2>3. CASE s.group[g] # NoRow
    <3>1. s.group[g].occurrence_count \in Nat
      BY <1>1, <2>3 DEF Rows, SessionGroups, GroupRow
    <3> QED
      BY <2>1, <2>3, <3>1, SyncCommitRows, NoRowIsNoRow
  <2> QED
    BY <2>2, <2>3
<1>4. Behind(group', incident')
  <2> SUFFICES ASSUME NEW i \in Incident, incident'[i] # NoRow
               PROVE  incident'[i].occurrence_count
                        <= group'[incident'[i].group].occurrence_count
    BY DEF Behind
  <2>1. CASE s.incident[i] = NoRow
    <3> DEFINE g == incident[i].group
    <3>1. incident'[i] = incident[i] /\ incident[i] \in IncidentRow /\ g \in Group
      BY <1>1, <2>1, SyncCommitRows DEF SessionIncidents, IncidentRow
    <3>2. group[g] # NoRow /\ incident[i].occurrence_count <= group[g].occurrence_count
      BY <3>1 DEF FollowInv, Behind, OwnInv, Owned
    <3>3. group'[g] # NoRow /\ group[g].occurrence_count <= group'[g].occurrence_count
      BY <1>3, <3>1, <3>2 DEF GroupsGrow
    <3>4. /\ incident[i].occurrence_count \in Nat /\ group[g].occurrence_count \in Nat
          /\ group'[g].occurrence_count \in Nat
      BY <1>1, <1>2, <3>1, <3>2, <3>3 DEF SessionGroups, GroupRow, IncidentRow
    <3> QED
      BY <3>1, <3>2, <3>3, <3>4
  <2>2. CASE s.incident[i] # NoRow
    <3> DEFINE g == s.incident[i].group
    <3>1. /\ incident'[i].group = g
          /\ incident'[i].occurrence_count = s.incident[i].occurrence_count
      BY <2>2, SyncCommitRows
    <3>2. /\ s.group[g] # NoRow
          /\ s.group[g].occurrence_count = s.incident[i].occurrence_count
      BY <1>1, <2>2 DEF SyncFollows
    <3>3. g \in Group /\ s.incident[i].occurrence_count \in Nat
      BY <1>1, <2>2 DEF Rows, SessionIncidents, IncidentRow
    <3>4. group'[g].occurrence_count = s.group[g].occurrence_count
      BY <3>2, <3>3, SyncCommitRows
    <3> QED
      BY <3>1, <3>2, <3>3, <3>4
  <2> QED
    BY <2>1, <2>2
<1>5. \A u \in SyncTask : sync'[u] = sync[u] \/ sync'[u] = IdleSync
  BY DEF SyncCommit, IInv, TypeOK
<1>6. UNCHANGED request
  BY DEF SyncCommit
<1> QED
  BY <1>2, <1>3, <1>4, <1>5, <1>6, IdleFollows, FollowKept

\* A request that ends with its incidents written, by itself or in Propagate.
LEMMA RequestEndFollows ==
    ASSUME IInv, OwnInv, FollowInv, NEW h \in Handler, SameCounts, group' \in SessionGroups,
           WriteIncidents(request[h]), request' = [request EXCEPT ![h] = IdleRequest],
           UNCHANGED sync
    PROVE  FollowInv'
<1> DEFINE s == request[h]
<1>1. Rows(s) /\ SessionLinked(s, group, incident) /\ RequestBehind(s, group)
  BY DEF IInv, TypeOK, SessionInv, RequestSession, Rows, FollowInv
<1>2. group \in SessionGroups /\ incident \in SessionIncidents /\ GroupsGrow
  BY SameCountsGrow DEF IInv, TypeOK
<1>3. Behind(group', incident')
  <2> SUFFICES ASSUME NEW i \in Incident, incident'[i] # NoRow
               PROVE  incident'[i].occurrence_count
                        <= group'[incident'[i].group].occurrence_count
    BY DEF Behind
  <2>1. incident'[i] = Merge(incident[i], s.readIncident[i], s.incident[i])
    BY DEF WriteIncidents
  <2>2. CASE s.incident[i] # NoRow /\ s.readIncident[i] = NoRow
    <3> DEFINE g == s.incident[i].group
    <3>1. incident'[i] = s.incident[i]
      BY <1>1, <2>1, <2>2 DEF SessionLinked, Merge
    <3>2. g \in Group /\ group[g] \in GroupRow
      BY <2>2, InsertedOwner
    <3>3. s.incident[i].occurrence_count <= group[g].occurrence_count
      BY <1>1, <2>2 DEF RequestBehind
    <3>4. group'[g].occurrence_count = group[g].occurrence_count
      BY <3>2, NoRowIsNoRow DEF SameCounts, SameSummary
    <3> QED
      BY <3>1, <3>3, <3>4
  <2>3. CASE ~(s.incident[i] # NoRow /\ s.readIncident[i] = NoRow)
    <3> DEFINE g == incident[i].group
    <3>1. /\ incident[i] \in IncidentRow /\ incident'[i].group = g
          /\ incident'[i].occurrence_count = incident[i].occurrence_count
      <4>1. CASE s.incident[i] = NoRow
        BY <1>2, <2>1, <4>1 DEF Merge, SessionIncidents
      <4>2. CASE s.incident[i] # NoRow /\ s.readIncident[i] # NoRow
        <5>1. /\ incident[i] \in IncidentRow /\ s.readIncident[i] \in IncidentRow
              /\ s.incident[i] \in IncidentRow
              /\ s.readIncident[i].group = incident[i].group
              /\ s.incident[i].group = incident[i].group
              /\ s.incident[i].occurrence_count = s.readIncident[i].occurrence_count
          BY <1>1, <1>2, <4>2 DEF SessionLinked, Rows, SessionIncidents, RequestBehind
        <5> QED
          BY <2>1, <5>1, MergedIncident
      <4> QED
        BY <2>3, <4>1, <4>2
    <3>2. g \in Group /\ incident[i] # NoRow
      BY <3>1, NoRowIsNoRow DEF IncidentRow
    <3>3. group[g] # NoRow /\ incident[i].occurrence_count <= group[g].occurrence_count
      BY <3>2 DEF FollowInv, Behind, OwnInv, Owned
    <3>4. group'[g].occurrence_count = group[g].occurrence_count
      BY <3>2, <3>3 DEF SameCounts, SameSummary
    <3> QED
      BY <3>1, <3>3, <3>4
  <2> QED
    BY <2>2, <2>3
<1>4. \A k \in Handler : request'[k] = request[k] \/ request'[k] = IdleRequest
  BY DEF IInv, TypeOK
<1> QED
  BY <1>2, <1>3, <1>4, IdleFollows, FollowKept

LEMMA BegunFollows ==
    ASSUME IInv, OwnInv, FollowInv, NEW h \in Handler, NEW r \in RequestSession, Begun(h, r)
    PROVE  FollowInv'
<1>1. RequestBehind(r, group)
  <2> SUFFICES ASSUME NEW i \in Incident, r.incident[i] # NoRow
               PROVE  IF r.readIncident[i] = NoRow
                      THEN r.incident[i].occurrence_count
                             <= group[r.incident[i].group].occurrence_count
                      ELSE r.incident[i].occurrence_count
                             = r.readIncident[i].occurrence_count
    BY DEF RequestBehind
  <2> DEFINE g == r.incident[i].group
  <2>1. CASE i \in Fresh /\ r.readIncident[i] = NoRow /\ g \in Group
             /\ r.group[g] # NoRow /\ r.group[g].incident_id = i
    <3>1. group[g] \in GroupRow /\ i # None /\ incident[i] = NoRow
      BY <2>1, SessionsTaken DEF Begun, IInv, TypeOK, SessionGroups, None, Incident
    <3>2. group[g].incident_id # i
      BY <2>1, <3>1, NoRowIsNoRow DEF IInv, Linked, LinksTo
    <3>3. r.incident[i] = NewIncident(g, group[g])
      BY <2>1, <3>2 DEF Begun
    <3>4. r.incident[i].occurrence_count = group[g].occurrence_count
      BY <3>3 DEF NewIncident
    <3>5. group[g].occurrence_count \in Nat
      BY <3>1 DEF GroupRow
    <3> QED
      BY <2>1, <3>4, <3>5
  <2>2. CASE /\ incident[i] # NoRow /\ r.readIncident[i] = incident[i]
             /\ r.incident[i].occurrence_count = incident[i].occurrence_count
    BY <2>2
  <2> QED
    BY <2>1, <2>2 DEF Begun
<1>2. request'[h] = r /\ \A k \in Handler \ {h} : request'[k] = request[k]
  BY DEF Begun, IInv, TypeOK
<1> QED
  BY <1>1, <1>2, FollowSessions DEF Begun

LEMMA ExecuteFollows ==
    ASSUME IInv, OwnInv, FollowInv, NEW h \in Handler, Execute(h)
    PROVE  FollowInv'
<1> DEFINE reached == {a \in Stored : GroupOf[a] \in request[h].targets}
           r == [request[h] EXCEPT !.pc = "committing", !.alerts = reached]
<1>1. request'[h] = r /\ \A k \in Handler \ {h} : request'[k] = request[k]
  BY DEF Execute, IInv, TypeOK
<1> HIDE DEF reached
<1>2. r.readIncident = request[h].readIncident /\ r.incident = request[h].incident
  BY DEF IInv, TypeOK, RequestSession
<1> HIDE DEF r
<1>3. RequestBehind(r, group)
  BY <1>2 DEF FollowInv, RequestBehind
<1> QED
  BY <1>1, <1>3, FollowSessions DEF Execute

LEMMA FollowStart == Init => FollowInv
<1> SUFFICES ASSUME Init PROVE FollowInv
  OBVIOUS
<1>1. /\ \A t \in SyncTask : sync[t] = IdleSync
      /\ \A h \in Handler : request[h] = IdleRequest
  BY DEF Init
<1>2. Behind(group, incident)
  BY DEF Init, Behind, NoIncidents
<1> QED
  BY <1>1, <1>2, IdleFollows DEF FollowInv

LEMMA FollowStep == IInv /\ OwnInv /\ CountInv /\ FollowInv /\ [Next]_vars => FollowInv'
<1> SUFFICES ASSUME IInv, OwnInv, CountInv, FollowInv, [Next]_vars PROVE FollowInv'
  OBVIOUS
<1>1. ASSUME NEW t \in SyncTask, Synchronize(t) PROVE FollowInv'
  <2>1. CASE SyncStart(t)
    BY <2>1, SyncStartFollows
  <2>2. CASE SyncAlert(t)
    BY <2>2, SyncAlertUpserts, UpsertFollows
  <2>3. CASE SyncCommit(t)
    BY <2>3, SyncCommitFollows
  <2>4. CASE SyncFail(t)
    <3>1. \A u \in SyncTask : sync'[u] = sync[u] \/ sync'[u] = IdleSync
      BY <2>4 DEF SyncFail, IInv, TypeOK
    <3> QED
      BY <2>4, <3>1, IdleFollows, FollowSessions DEF SyncFail
  <2> QED
    BY <1>1, <2>1, <2>2, <2>3, <2>4 DEF Synchronize
<1>2. ASSUME NEW h \in Handler, Analyst(h) PROVE FollowInv'
  <2>1. ASSUME NEW r \in RequestSession, Begun(h, r) PROVE FollowInv'
    BY <2>1, BegunFollows
  <2>2. CASE Execute(h)
    BY <2>2, ExecuteFollows
  <2>3. CASE CommitRequest(h)
    <3>1. group' \in SessionGroups
      BY <2>3, CommitRequestLinked DEF IInv, TypeOK
    <3> QED
      BY <2>3, <3>1, CommitRequestCounts, RequestEndFollows DEF CommitRequest
  <2>4. CASE Propagate(h)
    <3>1. group' \in SessionGroups
      BY <2>4, PropagateLinked DEF IInv, TypeOK
    <3> QED
      BY <2>4, <3>1, PropagateCounts, PropagateShape, RequestEndFollows
  <2>5. CASE EndRequest(h)
    <3>1. \A k \in Handler : request'[k] = request[k] \/ request'[k] = IdleRequest
      BY <2>5 DEF EndRequest, IInv, TypeOK
    <3> QED
      BY <2>5, <3>1, IdleFollows, FollowSessions DEF EndRequest
  <2> QED
    BY <1>2, <2>1, <2>2, <2>3, <2>4, <2>5, AnalystStep
<1>3. CASE UNCHANGED <<alert, group, incident, sync, request>>
  BY <1>3, FollowSessions
<1> QED
  BY <1>1, <1>2, <1>3 DEF Next, vars, UpdateNoisePolicy, DeleteNoisePolicy, Lapse

\* Only the commit of a synchronization inserts a group or moves a counter, and
\* of groups it has counted for.
LEMMA CountedBySync ==
    ASSUME IInv, CountInv, FollowInv, [Next]_vars, NEW g \in Group, group'[g] # NoRow,
           group[g] = NoRow \/ group'[g].occurrence_count # group[g].occurrence_count
    PROVE  \E t \in SyncTask :
              SyncCommit(t) /\ sync[t].group[g] # NoRow /\ sync[t] \in Ended
<1>1. ~SameCounts
  BY DEF SameCounts, SameSummary
<1>2. ~UNCHANGED <<alert, group>>
  BY <1>1, Unmoved
<1>3. PICK t \in SyncTask : SyncCommit(t)
  <2>1. ~UNCHANGED vars
    BY <1>2 DEF vars
  <2>2. \A h \in Handler : ~Analyst(h)
    BY <1>1, AnalystMovesNoCounter
  <2>3. PICK t \in SyncTask : Synchronize(t)
    BY <1>2, <2>1, <2>2 DEF Next, UpdateNoisePolicy, DeleteNoisePolicy, Lapse
  <2>4. ~SyncStart(t) /\ ~SyncFail(t)
    BY <1>2 DEF SyncStart, SyncFail
  <2>5. ~SyncAlert(t)
    BY <1>2, SyncAlertUpserts, UpsertShape
  <2> QED
    BY <2>3, <2>4, <2>5 DEF Synchronize
<1>4. sync[t].group[g] # NoRow
  BY <1>3, SyncCommitRows
<1>5. sync[t].pc # "idle" /\ sync'[t].pc = "idle"
  BY <1>3, IdleOwns DEF SyncCommit, IInv, TypeOK
<1>6. sync[t] \in Ended
  BY <1>5 DEF Ended
<1> QED
  BY <1>3, <1>4, <1>6

\* What IncidentFollowsUnlessRaced and EscalatesUnlessRaced say of a step.
Follows ==
    \A g \in Group :
         /\ group'[g] # NoRow /\ group'[g].incident_id # None
         /\ group[g] = NoRow \/ group'[g].occurrence_count # group[g].occurrence_count
         => \/ incident'[group'[g].incident_id].occurrence_count
                 = group'[g].occurrence_count
            \/ LinkRaced(g)

Escalated ==
    \A g \in Group :
         /\ group'[g] # NoRow
         /\ group[g] = NoRow \/ group'[g].occurrence_count # group[g].occurrence_count
         /\ group'[g].status # "suppressed"
         /\ \/ \E a \in AlertsOf(g)' : Level[a] >= MinRuleLevel
            \/ Cardinality(AlertsOf(g)') >= RepetitionThreshold
               /\ group'[g].severity \in {2, 3, 4}
         => group'[g].incident_id # None \/ Raced(g)

LEMMA FollowsStep == IInv /\ CountInv /\ FollowInv /\ [Next]_vars => Follows
<1> SUFFICES ASSUME IInv, CountInv, FollowInv, [Next]_vars, NEW g \in Group,
                    group'[g] # NoRow, group'[g].incident_id # None,
                    \/ group[g] = NoRow
                    \/ group'[g].occurrence_count # group[g].occurrence_count,
                    ~LinkRaced(g)
             PROVE  incident'[group'[g].incident_id].occurrence_count
                      = group'[g].occurrence_count
  BY DEF Follows
<1>1. PICK t \in SyncTask : SyncCommit(t) /\ sync[t].group[g] # NoRow /\ sync[t] \in Ended
  BY CountedBySync
<1> DEFINE s == sync[t]
           i == s.group[g].incident_id
<1>2. Rows(s) /\ SyncFollows(s)
  BY DEF IInv, TypeOK, SyncSession, Rows, FollowInv
<1>3. s.readGroup[g] = NoRow \/ s.readGroup[g].incident_id = group[g].incident_id
  BY <1>1 DEF LinkRaced
<1>4. /\ group'[g].incident_id = i
      /\ group'[g].occurrence_count = s.group[g].occurrence_count
  BY <1>1, <1>3, SyncCommitRows
<1>5. i \in Incident
  BY <1>1, <1>2, <1>4 DEF Rows, SessionGroups, GroupRow, IncidentLink
<1>6. s.incident[i] # NoRow /\ s.incident[i].group = g
  BY <1>1, <1>2, <1>4 DEF SyncFollows, LinksTo
<1>7. s.incident[i].occurrence_count = s.group[g].occurrence_count
  BY <1>2, <1>5, <1>6 DEF SyncFollows
<1>8. incident'[i].occurrence_count = s.incident[i].occurrence_count
  BY <1>1, <1>5, <1>6, SyncCommitRows
<1> QED
  BY <1>4, <1>7, <1>8

LEMMA EscalatedStep ==
    ASSUME IInv, CountInv, CountInv', FollowInv, [Next]_vars
    PROVE  Escalated
<1> SUFFICES ASSUME NEW g \in Group, group'[g] # NoRow,
                    \/ group[g] = NoRow
                    \/ group'[g].occurrence_count # group[g].occurrence_count,
                    group'[g].status # "suppressed",
                    \/ \E a \in AlertsOf(g)' : Level[a] >= MinRuleLevel
                    \/ Cardinality(AlertsOf(g)') >= RepetitionThreshold
                       /\ group'[g].severity \in {2, 3, 4},
                    ~Raced(g)
             PROVE  group'[g].incident_id # None
  BY DEF Escalated
<1>1. PICK t \in SyncTask : SyncCommit(t) /\ sync[t].group[g] # NoRow /\ sync[t] \in Ended
  BY CountedBySync
<1> DEFINE s == sync[t]
<1>2. s.readGroup[g] = NoRow \/ s.readGroup[g] = group[g]
  BY <1>1 DEF Raced
<1>3. group'[g] = s.group[g] /\ group'[g] \in GroupRow
  BY <1>1, <1>2, SyncCommitRows
<1>4. ~Escalates(group'[g])
  BY <1>1, <1>3 DEF FollowInv, SyncFollows
<1>5. Summarises(group'[g], AlertsOf(g)')
  <2>1. AlertsOf(g)' = Of(alert', g)
    BY DEF AlertsOf, Stored, Of
  <2> QED
    BY <2>1 DEF CountInv, TablesCount
<1>6. MeetsThreshold(group'[g])
  <2>1. CASE \E a \in AlertsOf(g)' : Level[a] >= MinRuleLevel
    <3>1. PICK a \in AlertsOf(g)' : Level[a] >= MinRuleLevel
      BY <2>1
    <3>2. Level[a] <= group'[g].max_rule_level
      BY <1>5 DEF Summarises
    <3>3. Level[a] \in Nat /\ MinRuleLevel \in Nat /\ group'[g].max_rule_level \in Nat
      BY <1>3, AlertAssumption, NumberAssumption DEF AlertsOf, Stored, GroupRow
    <3> QED
      BY <3>1, <3>2, <3>3 DEF MeetsThreshold
  <2>2. CASE Cardinality(AlertsOf(g)') >= RepetitionThreshold
             /\ group'[g].severity \in {2, 3, 4}
    BY <1>5, <2>2 DEF Summarises, MeetsThreshold
  <2> QED
    BY <2>1, <2>2
<1> QED
  BY <1>4, <1>6 DEF Escalates

LEMMA OneProcessInvariance ==
    ASSUME OneProcess
    PROVE  Spec => [](IInv /\ OwnInv /\ CountInv /\ FollowInv)
<1>1. Init => IInv /\ OwnInv /\ CountInv /\ FollowInv
  BY Start, OwnStart, CountStart, FollowStart
<1>2. IInv /\ OwnInv /\ CountInv /\ FollowInv /\ [Next]_vars
        => (IInv /\ OwnInv /\ CountInv /\ FollowInv)'
  BY Step, OwnStep, CountStep, FollowStep
<1> QED
  BY <1>1, <1>2, PTL DEF Spec

\* With the API in one process: no incident shows more alerts than its group,
\* and no alert names another group's incident, whatever commits of analysts
\* and synchronizations overlap (upsert_alert_group, create_incident).
THEOREM IncidentHonest ==
    ASSUME OneProcess
    PROVE  Spec => []IncidentNeverAhead
<1>1. IInv /\ OwnInv /\ FollowInv => IncidentNeverAhead
  BY DEF IncidentNeverAhead, OwnInv, Owned, AlertsLinked, LinksTo, FollowInv, Behind, Stored
<1> QED
  BY <1>1, OneProcessInvariance, PTL

\* With the API in one process: a synchronization that counts for a group
\* leaves the counter with its incident too, unless another transaction
\* linked the group since it was read (upsert_alert_group).
THEOREM IncidentFollows ==
    ASSUME OneProcess
    PROVE  Spec => IncidentFollowsUnlessRaced
<1>1. IInv /\ OwnInv /\ CountInv /\ FollowInv /\ [Next]_vars => [Follows]_vars
  BY FollowsStep
<1>2. Spec => [][Follows]_vars
  BY <1>1, OneProcessInvariance, PTL DEF Spec
<1> QED
  BY <1>2 DEF IncidentFollowsUnlessRaced, Follows

\* With the API in one process: auto_incident fails no group.  One that is
\* counted for, is not suppressed and is over a threshold has an incident
\* then, unless another transaction changed it since it was read.
THEOREM Escalation ==
    ASSUME OneProcess
    PROVE  Spec => EscalatesUnlessRaced
<1> DEFINE Inv == IInv /\ OwnInv /\ CountInv /\ FollowInv
<1>1. Inv /\ Inv' /\ [Next]_vars => [Escalated]_vars
  BY EscalatedStep
<1>2. Spec => []Inv
  BY OneProcessInvariance
<1>3. Spec => [][Escalated]_vars
  BY <1>1, <1>2, PTL DEF Spec
<1> QED
  BY <1>3 DEF EscalatesUnlessRaced, Escalated
=============================================================================
