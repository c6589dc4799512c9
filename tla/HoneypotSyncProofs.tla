------------------------- MODULE HoneypotSyncProofs -------------------------
(***************************************************************************)
(* Theorems about HoneypotSync for any replicas, events, alerts, attackers *)
(* and severities: its types, the counters, and what moves the group.      *)
(***************************************************************************)
EXTENDS HoneypotSync, FiniteSetTheorems, TLAPS

SyncRecord == [pc : {"idle", "state", "load", "commit", "raised"},
               ok : BOOLEAN, answer : [Item -> Shown],
               created : SUBSET Item, state : StateRow \cup {None},
               source : SourceStatus \cup {None}, count : Nat]

\* A row of integration_states counts no more than is known.
Behind(s) ==
    /\ s.alerts <= Cardinality(Known(Alert))
    /\ s.metadata.events <= Cardinality(Known(Event))
    /\ s.metadata.attackers <= Cardinality(Known(Attacker))

\* What a synchronization has loaded is behind too; what it will insert has a
\* value that can be stored.
SyncInv(p) ==
    /\ sync[p].count <= Cardinality(Known(Alert))
    /\ sync[p].state # None => state # None /\ Behind(sync[p].state)
    /\ sync[p].pc = "commit" /\ sync[p].ok =>
          /\ \A i \in Item : sync[p].answer[i] \in {Absent} \cup Value
          /\ \A i \in sync[p].created : sync[p].answer[i] # Absent

IInv ==
    /\ TypeOK
    /\ count <= Cardinality(Known(Alert))
    /\ state # None => Behind(state)
    /\ \A p \in Process : SyncInv(p)

------------------------------------------------------------------------------

LEMMA Kinds ==
    /\ Event \subseteq Item /\ Alert \subseteq Item /\ Attacker \subseteq Item
    /\ IsFiniteSet(Item)
BY ItemAssumption DEF Item

LEMMA NoneFacts == None \notin StateRow /\ None \notin SourceStatus
BY NoneAssumption

LEMMA KnownType ==
    ASSUME NEW kind \in SUBSET Item
    PROVE  IsFiniteSet(Known(kind)) /\ Cardinality(Known(kind)) \in Nat
<1>1. IsFiniteSet(Item) /\ Known(kind) \subseteq Item
  BY Kinds DEF Known
<1>2. IsFiniteSet(Known(kind))
  BY <1>1, FS_Subset
<1>3. QED
  BY <1>2, FS_CardinalityType

\* No row is ever deleted, so that what is known only grows.
LEMMA KnownGrows ==
    ASSUME NEW kind \in SUBSET Item,
           \A i \in Item : row[i] # Absent => row'[i] # Absent
    PROVE  /\ Cardinality(Known(kind)) \in Nat /\ Cardinality(Known(kind)') \in Nat
           /\ Cardinality(Known(kind)) <= Cardinality(Known(kind)')
<1>1. Known(kind)' \subseteq Item /\ Known(kind) \subseteq Known(kind)'
  BY DEF Known
<1>2. IsFiniteSet(Known(kind)')
  BY <1>1, Kinds, FS_Subset
<1>3. QED
  BY <1>1, <1>2, KnownType, FS_Subset, FS_CardinalityType

LEMMA StateFacts ==
    ASSUME NEW s \in StateRow
    PROVE  /\ s.alerts \in Nat /\ s.metadata.events \in Nat /\ s.metadata.attackers \in Nat
           /\ s # None
BY NoneFacts DEF StateRow

LEMMA BehindGrows ==
    ASSUME NEW s \in StateRow, Behind(s),
           \A i \in Item : row[i] # Absent => row'[i] # Absent
    PROVE  Behind(s)'
<1>1. /\ Cardinality(Known(Alert)) <= Cardinality(Known(Alert)')
      /\ Cardinality(Known(Event)) <= Cardinality(Known(Event)')
      /\ Cardinality(Known(Attacker)) <= Cardinality(Known(Attacker)')
      /\ Cardinality(Known(Alert)) \in Nat /\ Cardinality(Known(Alert)') \in Nat
      /\ Cardinality(Known(Event)) \in Nat /\ Cardinality(Known(Event)') \in Nat
      /\ Cardinality(Known(Attacker)) \in Nat /\ Cardinality(Known(Attacker)') \in Nat
  BY Kinds, KnownGrows
<1>2. s.alerts \in Nat /\ s.metadata.events \in Nat /\ s.metadata.attackers \in Nat
  BY StateFacts
<1>3. QED
  BY <1>1, <1>2 DEF Behind

\* The other synchronizations stay behind when rows are inserted.
LEMMA OthersInv ==
    ASSUME IInv, NEW p \in Process, sync'[p] = sync[p],
           \A i \in Item : row[i] # Absent => row'[i] # Absent,
           state # None => state' # None
    PROVE  SyncInv(p)'
<1>1. SyncInv(p) /\ sync[p] \in SyncRecord
  BY DEF IInv, TypeOK, SyncRecord
<1>2. /\ Cardinality(Known(Alert)) \in Nat /\ Cardinality(Known(Alert)') \in Nat
      /\ Cardinality(Known(Alert)) <= Cardinality(Known(Alert)')
  BY Kinds, KnownGrows
<1>3. sync[p].count \in Nat
  BY <1>1 DEF SyncRecord
<1>4. sync[p].count <= Cardinality(Known(Alert)')
  BY <1>1, <1>2, <1>3 DEF SyncInv
<1>5. sync[p].state # None => Behind(sync[p].state)'
  <2>. SUFFICES ASSUME sync[p].state # None PROVE Behind(sync[p].state)'
    OBVIOUS
  <2>1. sync[p].state \in StateRow /\ Behind(sync[p].state)
    BY <1>1 DEF SyncRecord, SyncInv
  <2>. DEFINE s == sync[p].state
  <2>2. Behind(s) /\ s \in StateRow
    BY <2>1
  <2>3. /\ s.alerts <= Cardinality(Known(Alert)')
        /\ s.metadata.events <= Cardinality(Known(Event)')
        /\ s.metadata.attackers <= Cardinality(Known(Attacker)')
    <3>. HIDE DEF s
    <3>1. \A t \in StateRow : Behind(t) =>
             /\ t.alerts <= Cardinality(Known(Alert)')
             /\ t.metadata.events <= Cardinality(Known(Event)')
             /\ t.metadata.attackers <= Cardinality(Known(Attacker)')
      BY BehindGrows DEF Behind
    <3>2. QED
      BY <2>2, <3>1
  <2>4. QED
    BY <2>3 DEF Behind
<1>6. QED
  BY <1>1, <1>4, <1>5 DEF SyncInv

\* A step of p that only changes its own session.
LEMMA StepFrame ==
    ASSUME IInv, NEW p \in Process, NEW new \in SyncRecord, Step(p, new),
           UNCHANGED Unwritten, SyncInv(p)'
    PROVE  IInv'
<1>1. \A q \in Process : sync'[q] = IF q = p THEN new ELSE sync[q]
  BY DEF Step, IInv, TypeOK
<1>2. UNCHANGED <<item, row, count, state, source>>
  BY DEF Unwritten
<1>3. TypeOK'
  <2>1. sync' \in [Process -> SyncRecord]
    BY DEF Step, IInv, TypeOK, SyncRecord
  <2>2. QED
    BY <1>2, <2>1 DEF IInv, TypeOK, SyncRecord
<1>4. count' <= Cardinality(Known(Alert)')
  BY <1>2 DEF IInv, Known
<1>5. state' # None => Behind(state)'
  BY <1>2 DEF IInv, Behind, Known
<1>6. \A q \in Process : SyncInv(q)'
  BY <1>1, <1>2, OthersInv
<1>7. QED
  BY <1>3, <1>4, <1>5, <1>6 DEF IInv

LEMMA IdleType ==
    /\ Idle \in SyncRecord /\ Raised \in SyncRecord
    /\ Idle.pc = "idle" /\ Idle.state = None /\ Idle.count = 0
    /\ Raised.pc = "raised" /\ Raised.state = None /\ Raised.count = 0
BY DEF Idle, Raised, SyncRecord, Shown, Absent

LEMMA InitInv == Init => IInv
<1>. SUFFICES ASSUME Init PROVE IInv
  OBVIOUS
<1>1. TypeOK
  BY IdleType DEF Init, TypeOK, SyncRecord, Shown, Absent
<1>2. Cardinality(Known(Alert)) \in Nat
  BY Kinds, KnownType
<1>3. \A p \in Process : SyncInv(p)
  BY <1>2, IdleType DEF Init, SyncInv
<1>4. QED
  BY <1>1, <1>2, <1>3 DEF Init, IInv

\* A synchronization that has not begun, or that has nothing to write.
LEMMA EmptySession ==
    ASSUME IInv, NEW p \in Process, UNCHANGED Unwritten,
           sync'[p].count = 0, sync'[p].state = None,
           ~(sync'[p].pc = "commit" /\ sync'[p].ok)
    PROVE  SyncInv(p)'
<1>1. Cardinality(Known(Alert)') \in Nat
  BY Kinds, KnownGrows DEF Unwritten
<1>2. QED
  BY <1>1 DEF SyncInv

------------------------------------------------------------------------------
(* The honeypot, the analysts, and the steps that write nothing            *)

LEMMA ShowInv ==
    ASSUME IInv, NEW i \in Item, NEW v \in Shown, Show(i, v)
    PROVE  IInv'
<1>1. UNCHANGED <<row, count, state, source, sync>>
  BY DEF Show
<1>2. TypeOK'
  BY <1>1 DEF Show, IInv, TypeOK
<1>3. \A p \in Process : SyncInv(p)'
  BY <1>1, OthersInv
<1>4. QED
  BY <1>1, <1>2, <1>3 DEF IInv, Behind, Known

LEMMA HoneypotInv ==
    ASSUME IInv,
           \/ \E i \in Item : Rise(i)
           \/ \E a \in Alert : Garble(a) \/ Repair(a)
    PROVE  IInv'
<1>1. PICK i \in Item, v \in Shown : Show(i, v)
  BY Kinds DEF Rise, Garble, Repair, Shown, Value
<1>2. QED
  BY <1>1, ShowInv

LEMMA SetSeverityInv == ASSUME IInv, NEW v \in SeverityInput, SetSeverity(v) PROVE IInv'
<1>1. /\ row' = [i \in Item |-> IF i \in Alert /\ row[i] # Absent THEN v ELSE row[i]]
      /\ UNCHANGED <<item, count, state, source, sync>>
  BY DEF SetSeverity
<1>2. v \in Value /\ v # Absent
  BY ItemAssumption DEF Value, Absent
<1>3. \A i \in Item : row'[i] # Absent <=> row[i] # Absent
  BY <1>1, <1>2
<1>4. Known(Alert)' = Known(Alert) /\ Known(Event)' = Known(Event)
      /\ Known(Attacker)' = Known(Attacker)
  BY <1>3, Kinds DEF Known
<1>5. TypeOK'
  BY <1>1, <1>2 DEF IInv, TypeOK
<1>6. \A p \in Process : SyncInv(p)'
  BY <1>1, <1>3, OthersInv
<1>7. QED
  BY <1>1, <1>4, <1>5, <1>6 DEF IInv, Behind

LEMMA FetchInv ==
    ASSUME IInv, NEW p \in Process, Fetch(p) \/ FetchFails(p) PROVE IInv'
<1>1. PICK new \in {[Idle EXCEPT !.pc = "state", !.ok = TRUE, !.answer = item],
                    [Idle EXCEPT !.pc = "state"]} :
         Step(p, new) /\ UNCHANGED Unwritten
  BY DEF Fetch, FetchFails
<1>2. item \in [Item -> Shown]
  BY DEF IInv, TypeOK
<1>3. new \in SyncRecord /\ new.pc = "state" /\ new.count = 0 /\ new.state = None
  BY <1>2, IdleType DEF SyncRecord
<1>4. sync'[p] = new
  BY <1>1 DEF Step, IInv, TypeOK
<1>5. SyncInv(p)'
  BY <1>1, <1>3, <1>4, EmptySession
<1>6. QED
  BY <1>1, <1>3, <1>5, StepFrame

\* Rolled back, aborted, or back from the wait of the loop.
LEMMA EndInv ==
    ASSUME IInv, NEW p \in Process, Rollback(p) \/ Abort(p) \/ Retry(p) PROVE IInv'
<1>1. PICK new \in {Raised, Idle} : Step(p, new) /\ UNCHANGED Unwritten
  BY DEF Rollback, Abort, Retry
<1>2. /\ new \in SyncRecord /\ new.pc # "commit" /\ new.count = 0 /\ new.state = None
      /\ sync'[p] = new
  BY <1>1, IdleType DEF Step, IInv, TypeOK
<1>3. SyncInv(p)'
  BY <1>1, <1>2, EmptySession
<1>4. QED
  BY <1>1, <1>2, <1>3, StepFrame

LEMMA LoadStateInv == ASSUME IInv, NEW p \in Process, LoadState(p) PROVE IInv'
<1>. DEFINE new == [sync[p] EXCEPT !.pc = "load", !.state = state]
<1>1. /\ Step(p, new) /\ UNCHANGED <<item, row, count, state, source>>
      /\ UNCHANGED Unwritten /\ sync[p] \in SyncRecord /\ SyncInv(p)
      /\ state \in StateRow \cup {None}
  BY DEF LoadState, Unwritten, IInv, TypeOK, SyncRecord
<1>2. /\ new \in SyncRecord /\ new.pc = "load" /\ new.count = sync[p].count
      /\ new.state = state
  BY <1>1 DEF SyncRecord
<1>3. sync'[p] = new
  BY <1>1 DEF Step, IInv, TypeOK
<1>4. SyncInv(p)'
  BY <1>1, <1>2, <1>3 DEF SyncInv, IInv, Behind, Known
<1>5. QED
  BY <1>1, <1>2, <1>4, StepFrame

LEMMA LoadSourceInv == ASSUME IInv, NEW p \in Process, LoadSource(p) PROVE IInv'
<1>. DEFINE new == [sync[p] EXCEPT !.pc = "commit", !.source = source]
<1>1. /\ Step(p, new) /\ UNCHANGED <<item, row, count, state, source>>
      /\ UNCHANGED Unwritten /\ sync[p] \in SyncRecord /\ SyncInv(p)
      /\ source \in SourceStatus \cup {None} /\ ~sync[p].ok
  BY DEF LoadSource, Unwritten, IInv, TypeOK, SyncRecord
<1>2. /\ new \in SyncRecord /\ new.pc = "commit" /\ new.count = sync[p].count
      /\ new.state = sync[p].state /\ new.ok = sync[p].ok
  BY <1>1 DEF SyncRecord
<1>3. sync'[p] = new
  BY <1>1 DEF Step, IInv, TypeOK
<1>4. SyncInv(p)'
  BY <1>1, <1>2, <1>3 DEF SyncInv, Behind, Known
<1>5. QED
  BY <1>1, <1>2, <1>4, StepFrame

LEMMA LoadItemsInv == ASSUME IInv, NEW p \in Process, LoadItems(p) PROVE IInv'
<1>. DEFINE answer == [i \in Item |-> IF i \in Given(p) /\ Writes(i, sync[p].answer[i])
                                     THEN sync[p].answer[i] ELSE Absent]
            created == {i \in Given(p) : row[i] = Absent}
            new == [sync[p] EXCEPT !.pc = "commit", !.source = source, !.count = count,
                                   !.created = created, !.answer = answer]
<1>1. /\ Step(p, new) /\ UNCHANGED <<item, row, count, state, source>>
      /\ UNCHANGED Unwritten /\ sync[p] \in SyncRecord /\ SyncInv(p)
      /\ source \in SourceStatus \cup {None} /\ count \in Nat
      /\ Parses(p)
  BY DEF LoadItems, Unwritten, IInv, TypeOK, SyncRecord
<1>2. \A i \in Item : answer[i] \in {Absent} \cup Value
  BY <1>1 DEF Parses
<1>3. answer \in [Item -> Shown]
  BY <1>2 DEF Shown
<1>4. created \in SUBSET Item
  BY DEF Given
<1>5. \A i \in created : answer[i] # Absent
  BY DEF Given, Writes
<1>6. /\ new \in SyncRecord /\ new.pc = "commit" /\ new.count = count
      /\ new.state = sync[p].state /\ new.created = created /\ new.answer = answer
  BY <1>1, <1>3, <1>4 DEF SyncRecord
<1>7. sync'[p] = new
  BY <1>1 DEF Step, IInv, TypeOK
<1>8. SyncInv(p)'
  <2>. HIDE DEF answer, created
  <2>1. count <= Cardinality(Known(Alert))
    BY DEF IInv
  <2>2. QED
    BY <1>1, <1>2, <1>5, <1>6, <1>7, <2>1 DEF SyncInv, Behind, Known
<1>9. QED
  BY <1>1, <1>6, <1>8, StepFrame

------------------------------------------------------------------------------
(* The commit                                                              *)

\* What a commit inserts was unknown and is known then.
LEMMA CreatedCount ==
    ASSUME IInv, NEW p \in Process, Commit(p), NEW kind \in SUBSET Item
    PROVE  /\ Cardinality(Created(p, kind)) \in Nat
           /\ Cardinality(Known(kind)) + Cardinality(Created(p, kind))
                <= Cardinality(Known(kind)')
<1>1. /\ sync[p] \in SyncRecord /\ SyncInv(p) /\ sync[p].pc = "commit" /\ sync[p].ok
      /\ \A i \in Item : row'[i] = IF sync[p].answer[i] # Absent THEN sync[p].answer[i]
                                   ELSE row[i]
      /\ \A i \in sync[p].created : row[i] = Absent
  BY DEF Commit, Unique, IInv, TypeOK, SyncRecord
<1>. DEFINE old == Known(kind)
            new == Created(p, kind)
            all == Known(kind)'
<1>2. \A i \in sync[p].created : i \in Item /\ sync[p].answer[i] # Absent
  BY <1>1 DEF SyncRecord, SyncInv
<1>3. old \subseteq Item /\ new \subseteq Item /\ all \subseteq Item
  BY <1>2 DEF Known, Created
<1>4. old \cup new \subseteq all
  BY <1>1, <1>2 DEF Known, Created
<1>5. old \cap new = {}
  BY <1>1 DEF Known, Created
<1>. HIDE DEF old, new, all
<1>6. IsFiniteSet(old) /\ IsFiniteSet(new) /\ IsFiniteSet(all)
  BY <1>3, Kinds, FS_Subset
<1>7. /\ Cardinality(old) \in Nat /\ Cardinality(new) \in Nat /\ Cardinality(all) \in Nat
      /\ Cardinality({}) = 0
  BY <1>6, FS_CardinalityType, FS_EmptySet
<1>8. Cardinality(old \cup new) = Cardinality(old) + Cardinality(new)
  <2>1. Cardinality(old \cup new)
          = Cardinality(old) + Cardinality(new) - Cardinality(old \cap new)
    BY <1>6, FS_Union
  <2>2. QED
    BY <1>5, <1>7, <2>1
<1>9. Cardinality(old \cup new) <= Cardinality(all)
  BY <1>4, <1>6, FS_Subset
<1>10. QED
  BY <1>7, <1>8, <1>9 DEF old, new, all

\* A row written from what was loaded takes each column from one of the two.
LEMMA MergeColumns ==
    ASSUME NEW current \in StateRow \cup {None}, NEW read \in StateRow \cup {None},
           read # None => current # None, NEW new \in StateRow
    PROVE  /\ Merge(current, read, new) \in StateRow
           /\ \/ current # None /\ Merge(current, read, new).alerts = current.alerts
              \/ Merge(current, read, new).alerts = new.alerts
           /\ \/ current # None /\ Merge(current, read, new).metadata = current.metadata
              \/ Merge(current, read, new).metadata = new.metadata
<1>1. CASE read = None
  BY <1>1 DEF Merge
<1>2. CASE read # None
  <2>1. current \in StateRow
    BY <1>2
  <2>2. DOMAIN new = {"status", "alerts", "metadata"}
    BY DEF StateRow
  <2>3. Merge(current, read, new)
          = [status |-> IF new.status = read.status THEN current.status ELSE new.status,
             alerts |-> IF new.alerts = read.alerts THEN current.alerts ELSE new.alerts,
             metadata |-> IF new.metadata = read.metadata THEN current.metadata
                          ELSE new.metadata]
    BY <1>2, <2>2 DEF Merge
  <2>4. QED
    BY <1>2, <2>1, <2>3 DEF StateRow
<1>3. QED
  BY <1>1, <1>2

LEMMA LoadedFacts ==
    ASSUME IInv, NEW p \in Process
    PROVE  /\ Loaded(p).alerts \in Nat
           /\ Loaded(p).metadata \in [api_connected : BOOLEAN, events : Nat, attackers : Nat]
           /\ Loaded(p).alerts <= Cardinality(Known(Alert))
           /\ Loaded(p).metadata.events <= Cardinality(Known(Event))
           /\ Loaded(p).metadata.attackers <= Cardinality(Known(Attacker))
           /\ DOMAIN Loaded(p) = {"status", "alerts", "metadata"}
<1>1. sync[p].state \in StateRow \cup {None} /\ SyncInv(p)
  BY DEF IInv, TypeOK
<1>2. /\ Cardinality(Known(Alert)) \in Nat /\ Cardinality(Known(Event)) \in Nat
      /\ Cardinality(Known(Attacker)) \in Nat
  BY Kinds, KnownType
<1>3. CASE sync[p].state = None
  BY <1>2, <1>3 DEF Loaded, NewState
<1>4. CASE sync[p].state # None
  BY <1>1, <1>4 DEF Loaded, SyncInv, Behind, StateRow
<1>5. QED
  BY <1>3, <1>4

\* The next state row of a synchronization whose row new is behind too.
LEMMA MergeInv ==
    ASSUME IInv, NEW p \in Process, NEW new \in StateRow,
           state' = Merge(state, sync[p].state, new),
           new.alerts <= Cardinality(Known(Alert)'),
           new.metadata.events <= Cardinality(Known(Event)'),
           new.metadata.attackers <= Cardinality(Known(Attacker)'),
           \A i \in Item : row[i] # Absent => row'[i] # Absent
    PROVE  state' \in StateRow /\ state' # None /\ Behind(state)'
<1>1. /\ state \in StateRow \cup {None} /\ sync[p].state \in StateRow \cup {None}
      /\ sync[p].state # None => state # None
  BY DEF IInv, TypeOK, SyncInv
<1>2. /\ state' \in StateRow
      /\ \/ state # None /\ state'.alerts = state.alerts
         \/ state'.alerts = new.alerts
      /\ \/ state # None /\ state'.metadata = state.metadata
         \/ state'.metadata = new.metadata
  BY <1>1, MergeColumns
<1>3. state # None => /\ state.alerts <= Cardinality(Known(Alert)')
                      /\ state.metadata.events <= Cardinality(Known(Event)')
                      /\ state.metadata.attackers <= Cardinality(Known(Attacker)')
  <2>1. state # None => state \in StateRow /\ Behind(state)
    BY <1>1 DEF IInv
  <2>2. \A t \in StateRow : Behind(t) =>
             /\ t.alerts <= Cardinality(Known(Alert)')
             /\ t.metadata.events <= Cardinality(Known(Event)')
             /\ t.metadata.attackers <= Cardinality(Known(Attacker)')
    BY BehindGrows DEF Behind
  <2>3. QED
    BY <2>1, <2>2
<1>4. QED
  BY <1>2, <1>3, NoneFacts DEF Behind

LEMMA MarkType ==
    ASSUME IInv, NEW p \in Process, NEW status \in SourceStatus
    PROVE  Mark(p, status) \in SourceStatus \cup {None}
BY DEF Mark, IInv, TypeOK

\* After a commit of p: everybody else's session is as it was.
LEMMA CommitFrame ==
    ASSUME IInv, NEW p \in Process, Step(p, Idle), state' # None,
           \A i \in Item : row[i] # Absent => row'[i] # Absent
    PROVE  /\ sync' \in [Process -> SyncRecord]
           /\ \A q \in Process : SyncInv(q)'
<1>1. /\ sync' \in [Process -> SyncRecord]
      /\ \A q \in Process : sync'[q] = IF q = p THEN Idle ELSE sync[q]
  BY IdleType DEF Step, IInv, TypeOK, SyncRecord
<1>2. SyncInv(p)'
  <2>1. Cardinality(Known(Alert)') \in Nat
    BY Kinds, KnownGrows
  <2>2. QED
    BY <1>1, <2>1, IdleType DEF SyncInv
<1>3. QED
  BY <1>1, <1>2, OthersInv

LEMMA CommitInv == ASSUME IInv, NEW p \in Process, Commit(p) PROVE IInv'
<1>1. /\ row' = [i \in Item |-> IF sync[p].answer[i] # Absent THEN sync[p].answer[i]
                                ELSE row[i]]
      /\ state' = Merge(state, sync[p].state, Connected(p))
      /\ count' = GroupCount(p) /\ source' = Mark(p, "healthy")
      /\ Step(p, Idle) /\ item' = item
  BY DEF Commit
<1>2. row' \in [Item -> {Absent} \cup Value]
  BY <1>1 DEF Commit, IInv, TypeOK, SyncInv
<1>3. \A i \in Item : row[i] # Absent => row'[i] # Absent
  BY <1>1
<1>4. \A kind \in SUBSET Item :
         /\ Cardinality(Created(p, kind)) \in Nat
         /\ Cardinality(Known(kind)) \in Nat /\ Cardinality(Known(kind)') \in Nat
         /\ Cardinality(Known(kind)) + Cardinality(Created(p, kind))
              <= Cardinality(Known(kind)')
         /\ Cardinality(Known(kind)) <= Cardinality(Known(kind)')
  BY <1>3, CreatedCount, KnownGrows
<1>5. Connected(p) \in StateRow
  BY <1>4, Kinds, LoadedFacts DEF Connected, StateRow
<1>6. /\ Connected(p).alerts <= Cardinality(Known(Alert)')
      /\ Connected(p).metadata.events <= Cardinality(Known(Event)')
      /\ Connected(p).metadata.attackers <= Cardinality(Known(Attacker)')
  BY <1>4, Kinds, LoadedFacts DEF Connected
<1>7. state' \in StateRow /\ state' # None /\ Behind(state)'
  BY <1>1, <1>3, <1>5, <1>6, MergeInv
<1>8. count' \in Nat /\ count' <= Cardinality(Known(Alert)')
  <2>1. /\ count \in Nat /\ count <= Cardinality(Known(Alert))
        /\ sync[p].count \in Nat /\ sync[p].count <= Cardinality(Known(Alert))
    BY DEF IInv, TypeOK, SyncInv
  <2>2. QED
    BY <1>1, <1>4, <2>1, Kinds DEF GroupCount, Counted
<1>9. source' \in SourceStatus \cup {None}
  BY <1>1, MarkType DEF SourceStatus
<1>10. /\ sync' \in [Process -> SyncRecord]
       /\ \A q \in Process : SyncInv(q)'
  BY <1>1, <1>3, <1>7, CommitFrame
<1>11. TypeOK'
  BY <1>1, <1>2, <1>7, <1>8, <1>9, <1>10 DEF IInv, TypeOK, SyncRecord
<1>12. QED
  BY <1>7, <1>8, <1>10, <1>11 DEF IInv

LEMMA CommitFailureInv == ASSUME IInv, NEW p \in Process, CommitFailure(p) PROVE IInv'
<1>1. /\ state' = Merge(state, sync[p].state, Failed(p))
      /\ source' = Mark(p, "critical")
      /\ Step(p, Idle) /\ UNCHANGED <<item, row, count>>
  BY DEF CommitFailure
<1>2. \A i \in Item : row[i] # Absent => row'[i] # Absent
  BY <1>1
<1>3. /\ Failed(p) \in StateRow /\ Failed(p).alerts = Loaded(p).alerts
      /\ Failed(p).metadata.events = Loaded(p).metadata.events
      /\ Failed(p).metadata.attackers = Loaded(p).metadata.attackers
  <2>1. Loaded(p) \in [status : {"connected", "error", "unknown"}, alerts : Nat,
                       metadata : [api_connected : BOOLEAN, events : Nat, attackers : Nat]]
    BY DEF Loaded, NewState, IInv, TypeOK, StateRow
  <2>2. QED
    BY <2>1 DEF Failed, StateRow
<1>4. /\ Failed(p).alerts <= Cardinality(Known(Alert)')
      /\ Failed(p).metadata.events <= Cardinality(Known(Event)')
      /\ Failed(p).metadata.attackers <= Cardinality(Known(Attacker)')
  BY <1>1, <1>3, LoadedFacts DEF Known
<1>5. state' \in StateRow /\ state' # None /\ Behind(state)'
  BY <1>1, <1>2, <1>3, <1>4, MergeInv
<1>6. source' \in SourceStatus \cup {None}
  BY <1>1, MarkType DEF SourceStatus
<1>7. /\ sync' \in [Process -> SyncRecord]
      /\ \A q \in Process : SyncInv(q)'
  BY <1>1, <1>2, <1>5, CommitFrame
<1>8. TypeOK'
  BY <1>1, <1>5, <1>6, <1>7 DEF IInv, TypeOK, SyncRecord
<1>9. count' <= Cardinality(Known(Alert)')
  BY <1>1 DEF IInv, Known
<1>10. QED
  BY <1>5, <1>7, <1>8, <1>9 DEF IInv

LEMMA NextInv == IInv /\ [Next]_vars => IInv'
<1>. SUFFICES ASSUME IInv, [Next]_vars PROVE IInv'
  OBVIOUS
<1>1. CASE (\E i \in Item : Rise(i)) \/ (\E a \in Alert : Garble(a) \/ Repair(a))
  BY <1>1, HoneypotInv
<1>2. CASE \E v \in SeverityInput : SetSeverity(v)
  BY <1>2, SetSeverityInv
<1>3. ASSUME NEW p \in Process,
             \/ Fetch(p) \/ FetchFails(p) \/ LoadState(p) \/ LoadSource(p) \/ LoadItems(p)
             \/ Rollback(p) \/ Abort(p) \/ Retry(p)
      PROVE  IInv'
  BY <1>3, FetchInv, LoadStateInv, LoadSourceInv, LoadItemsInv, EndInv
<1>4. ASSUME NEW p \in Process, Commit(p) \/ CommitFailure(p) PROVE IInv'
  BY <1>4, CommitInv, CommitFailureInv
<1>5. CASE UNCHANGED vars
  <2>1. UNCHANGED <<item, row, count, state, source, sync>>
    BY <1>5 DEF vars
  <2>2. \A p \in Process : SyncInv(p)'
    BY <2>1, OthersInv
  <2>3. QED
    BY <2>1, <2>2 DEF IInv, TypeOK, Behind, Known
<1>6. QED
  BY <1>1, <1>2, <1>3, <1>4, <1>5 DEF Next

\* The invariant of the honeypot synchronization, for any replicas and items.
THEOREM Invariance == Spec => []IInv
BY InitInv, NextInv, PTL DEF Spec

------------------------------------------------------------------------------

\* Types: in particular nothing malformed is ever stored, and no status but
\* "connected" and "error".
THEOREM TypeCorrect == Spec => []TypeOK
<1>1. IInv => TypeOK
  BY DEF IInv
<1>2. QED
  BY <1>1, Invariance, PTL

\* However replicas overlap, overwrite each other's columns or roll back: no
\* counter is ever ahead of the rows it counts.
THEOREM CountsHonest == Spec => []CountsNeverAhead
<1>1. IInv => CountsNeverAhead
  BY DEF IInv, Behind, CountsNeverAhead
<1>2. QED
  BY <1>1, Invariance, PTL

\* The alert group moves only in a commit that inserts an alert.
THEOREM GroupOnlyByInsertion == Spec => GroupMovesOnlyByInsertion
<1>1. ASSUME IInv, [Next]_vars, count' # count
      PROVE  \E a \in Alert : row[a] = Absent /\ row'[a] # Absent
  <2>1. PICK p \in Process : Commit(p)
    BY <1>1 DEF Next, vars, Rise, Garble, Repair, Show, SetSeverity, Fetch, FetchFails,
                LoadState, LoadSource, LoadItems, CommitFailure, Rollback, Abort, Retry,
                Unwritten
  <2>2. PICK a \in Counted(p) : TRUE
    BY <1>1, <2>1 DEF Commit, GroupCount
  <2>3. a \in Alert /\ a \in Item /\ a \in sync[p].created
    BY <2>2, Kinds DEF Counted, Created
  <2>4. row[a] = Absent
    BY <2>1, <2>3 DEF Commit, Unique
  <2>5. sync[p].answer[a] # Absent
    BY <1>1, <2>1, <2>3 DEF IInv, SyncInv, Commit
  <2>6. row'[a] # Absent
    BY <2>1, <2>3, <2>5 DEF Commit
  <2>7. QED
    BY <2>3, <2>4, <2>6
<1>2. IInv /\ [Next]_vars =>
        [count' # count => \E a \in Alert : row[a] = Absent /\ row'[a] # Absent]_vars
  BY <1>1
<1>3. QED
  BY <1>2, Invariance, PTL DEF Spec, GroupMovesOnlyByInsertion
=============================================================================
