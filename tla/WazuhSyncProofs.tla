--------------------------- MODULE WazuhSyncProofs ---------------------------
(***************************************************************************)
(* Theorems about WazuhSync for any replicas, alerts, batch and delays:    *)
(* its types, the counter, and that it implements AlertIntake.             *)
(***************************************************************************)
EXTENDS WazuhSync, FiniteSetTheorems, FunctionTheorems, TLAPS

\* An alert is done with: it is in the set, a batch of alerts as recent as it
\* is, or it is older than the first query had to reach.
Answered(a, times, set, reach) ==
    \/ a \in set
    \/ Cardinality({b \in set : times[b] >= times[a]}) >= Batch
    \/ reach # None /\ times[a] < reach

Covered(limit, seen, times, set, reach) ==
    \A a \in seen : times[a] < limit => Answered(a, times, set, reach)

\* What the first synchronization that commits has to reach back to.
Reach(start) == IF start = None THEN None ELSE start - Overlap - Lookback

\* The first cursor, if p's synchronization is the next to commit.
First(p) == IF first = None THEN sync[p].at ELSE first

Asked(p) == sync[p].pc \in {"upsert", "load", "commit"}

\* The latest mark that p's synchronization may set.
Limit(p) == sync[p].at + (IF sync[p].pc = "commit" THEN 0 ELSE SyncTime) - Overlap

\* An alert that is not indexed yet is recent.
IndexInv == \A a \in 1..Len(raised) : a \in indexed \/ now <= raised[a] + IndexDelay

\* The mark passes no alert.
MarkInv ==
    /\ first = None <=> state = None \/ state.last_success = None
    /\ first # None =>
          /\ state.last_success <= now
          /\ Covered(state.last_success - Overlap, indexed, raised, stored, Reach(first))
    /\ CounterNeverAhead

\* Nor does a query, and what it adds to the stored alerts makes up for the
\* mark that is set with it.  The counter it has loaded is behind as well.
SyncInv(p) ==
    /\ sync[p].pc = "fetch" =>
          /\ sync[p].since \in Int /\ sync[p].since <= now - Overlap
          /\ first = None => sync[p].since <= now - Lookback - Overlap
          /\ first # None => Covered(sync[p].since, indexed, raised, stored, Reach(first))
    /\ Asked(p) =>
          /\ sync[p].at \in Time /\ sync[p].at <= now /\ now <= sync[p].at + SyncTime
          /\ sync[p].hits \subseteq indexed
          /\ Covered(Limit(p), indexed, raised, stored \cup sync[p].hits, Reach(First(p)))
    /\ sync[p].pc = "commit" =>
          /\ sync[p].row \in StateRow /\ sync[p].row.last_success = None
          /\ sync[p].row.alerts <= Cardinality(stored)

IInv == TypeOK /\ IndexInv /\ MarkInv /\ \A p \in Process : SyncInv(p)

------------------------------------------------------------------------------

LEMMA Bounds ==
    /\ Overlap \in Nat /\ Lookback \in Nat /\ IndexDelay \in Nat /\ SyncTime \in Nat
    /\ Batch \in Nat /\ Batch > 0 /\ MaxAlerts \in Nat /\ MaxTime \in Nat
    /\ IndexDelay + SyncTime <= Overlap /\ SyncTime <= Lookback
    /\ (\A t \in Time : t \in Nat /\ t \in Int) /\ Stamp \subseteq Int
    /\ None \notin Int /\ None \notin StateRow
<1>1. \A s : {Overlap, Lookback, IndexDelay, SyncTime} \subseteq s =>
               Overlap \in s /\ Lookback \in s /\ IndexDelay \in s /\ SyncTime \in s
  BY Zenon
<1>2. \A s : {Batch, MaxAlerts, MaxTime} \subseteq s =>
               Batch \in s /\ MaxAlerts \in s /\ MaxTime \in s
  BY Zenon
<1>3. /\ Overlap \in Nat /\ Lookback \in Nat /\ IndexDelay \in Nat /\ SyncTime \in Nat
      /\ Batch \in Nat /\ MaxAlerts \in Nat /\ MaxTime \in Nat
  BY <1>1, <1>2, BoundAssumption
<1>4. \A t \in Time : t \in Nat /\ t \in Int
  BY <1>3 DEF Time
<1>5. Stamp \subseteq Int
  BY <1>4, PastAssumption DEF Stamp
<1>6. QED
  BY <1>3, <1>4, <1>5, BoundAssumption, OverlapAssumption, NoneAssumption

LEMMA TypeFacts ==
    ASSUME TypeOK
    PROVE  /\ now \in Int /\ Len(raised) \in Nat /\ DOMAIN raised = 1..Len(raised)
           /\ \A a \in 1..Len(raised) : raised[a] \in Int
           /\ IsFiniteSet(indexed) /\ IsFiniteSet(stored)
           /\ Cardinality(stored) \in Nat
<1>1. raised \in Seq(Stamp) /\ now \in Time /\ Stamp \subseteq Int
  BY Bounds DEF TypeOK
<1>2. Len(raised) \in Nat /\ DOMAIN raised = 1..Len(raised)
  BY <1>1
<1>3. \A a \in 1..Len(raised) : raised[a] \in Int
  <2>1. \A a \in 1..Len(raised) : raised[a] \in Stamp
    BY <1>1
  <2>2. QED
    BY <1>1, <2>1
<1>4. IsFiniteSet(1..Len(raised))
  BY <1>2, FS_Interval
<1>5. IsFiniteSet(indexed)
  BY <1>4, FS_Subset DEF TypeOK
<1>6. IsFiniteSet(stored)
  BY <1>5, FS_Subset DEF TypeOK
<1>7. QED
  BY <1>1, <1>2, <1>3, <1>5, <1>6, FS_CardinalityType DEF Time

\* Once there is a first cursor there is a state with a cursor.
LEMMA CursorFacts ==
    ASSUME TypeOK, MarkInv
    PROVE  first # None => /\ state # None /\ state \in StateRow
                           /\ state.last_success \in Time /\ state.last_success \in Int
                           /\ first \in Int
<1>. SUFFICES ASSUME first # None
              PROVE  /\ state # None /\ state \in StateRow
                     /\ state.last_success \in Time /\ state.last_success \in Int
                     /\ first \in Int
  OBVIOUS
<1>1. state # None /\ state.last_success # None
  BY DEF MarkInv
<1>2. state \in StateRow
  BY <1>1 DEF TypeOK
<1>3. state.last_success \in Time
  BY <1>1, <1>2 DEF StateRow
<1>4. QED
  BY <1>1, <1>2, <1>3, Bounds DEF TypeOK

\* What more alerts are stored answers as many alerts.
LEMMA AnsweredMonotone ==
    ASSUME NEW times, NEW set, NEW bigger, set \subseteq bigger, IsFiniteSet(bigger),
           NEW reach, NEW a, Answered(a, times, set, reach)
    PROVE  Answered(a, times, bigger, reach)
<1>1. CASE Cardinality({b \in set : times[b] >= times[a]}) >= Batch
  <2>. DEFINE S == {b \in set : times[b] >= times[a]}
              T == {b \in bigger : times[b] >= times[a]}
  <2>1. S \subseteq T /\ T \subseteq bigger
    OBVIOUS
  <2>2. IsFiniteSet(T)
    BY <2>1, FS_Subset
  <2>3. IsFiniteSet(S) /\ Cardinality(S) <= Cardinality(T)
    BY <2>1, <2>2, FS_Subset
  <2>4. Cardinality(S) \in Nat /\ Cardinality(T) \in Nat
    BY <2>2, <2>3, FS_CardinalityType
  <2>5. Cardinality(T) >= Batch
    BY <1>1, <2>3, <2>4, Bounds
  <2>6. QED
    BY <2>5 DEF Answered
<1>2. CASE ~(Cardinality({b \in set : times[b] >= times[a]}) >= Batch)
  BY <1>2 DEF Answered
<1>3. QED
  BY <1>1, <1>2

LEMMA CoveredMonotone ==
    ASSUME NEW times, NEW set, NEW bigger, set \subseteq bigger, IsFiniteSet(bigger),
           NEW reach, NEW limit, NEW seen, Covered(limit, seen, times, set, reach)
    PROVE  Covered(limit, seen, times, bigger, reach)
BY AnsweredMonotone DEF Covered

LEMMA InitInv == Init => IInv
<1>. SUFFICES ASSUME Init PROVE IInv
  OBVIOUS
<1>1. raised \in Seq(Stamp) /\ Len(raised) <= MaxAlerts
  <2>1. PICK n \in 0..MaxAlerts : raised \in [1..n -> Past]
    BY DEF Init
  <2>2. n \in Nat /\ n <= MaxAlerts
    BY <2>1, Bounds
  <2>3. raised \in [1..n -> Stamp]
    BY <2>1 DEF Stamp
  <2>4. raised \in Seq(Stamp) /\ Len(raised) = n
    BY <2>2, <2>3
  <2>5. QED
    BY <2>2, <2>4
<1>2. TypeOK
  BY <1>1, Bounds DEF Init, TypeOK, SyncRecord, Idle, Time
<1>3. IndexInv /\ \A p \in Process : SyncInv(p)
  BY DEF Init, IndexInv, SyncInv, Idle, Asked
<1>4. MarkInv
  BY DEF Init, MarkInv, CounterNeverAhead
<1>5. QED
  BY <1>2, <1>3, <1>4 DEF IInv

------------------------------------------------------------------------------
(* The environment                                                         *)

LEMMA TickInv == ASSUME IInv, Tick PROVE IInv'
<1>1. now' = now + 1 /\ now < MaxTime /\ UNCHANGED <<raised, indexed, stored, state, sync, first>>
  BY DEF Tick
<1>2. now \in Int /\ now \in Time
  BY TypeFacts DEF IInv, TypeOK
<1>3. TypeOK'
  <2>1. now' \in Time
    BY <1>1, <1>2, Bounds DEF Time
  <2>2. QED
    BY <1>1, <2>1 DEF IInv, TypeOK
<1>4. IndexInv'
  <2>1. \A a \in 1..Len(raised) : raised[a] \in Int
    BY TypeFacts DEF IInv
  <2>2. QED
    BY <1>1, <1>2, <2>1, Bounds DEF Tick, IndexInv
<1>5. MarkInv'
  <2>1. first # None => state.last_success \in Int
    BY CursorFacts DEF IInv
  <2>2. QED
    BY <1>1, <1>2, <2>1 DEF IInv, MarkInv, CounterNeverAhead, Covered, Answered, Reach
<1>6. ASSUME NEW p \in Process PROVE SyncInv(p)'
  <2>1. SyncInv(p)
    BY DEF IInv
  <2>2. Asked(p) => now < sync[p].at + SyncTime
    BY DEF Tick, Asked
  <2>3. Limit(p)' = Limit(p) /\ First(p)' = First(p) /\ Asked(p)' = Asked(p)
    BY <1>1 DEF Limit, First, Asked
  <2>4. sync[p].pc = "fetch" =>
          /\ sync[p].since \in Int /\ sync[p].since <= now' - Overlap
          /\ first = None => sync[p].since <= now' - Lookback - Overlap
    BY <1>1, <1>2, <2>1, Bounds DEF SyncInv
  <2>5. Asked(p) => /\ sync[p].at \in Time /\ sync[p].at <= now'
                    /\ now' <= sync[p].at + SyncTime
    <3>1. Asked(p) => sync[p].at \in Time /\ sync[p].at <= now
      BY <2>1 DEF SyncInv
    <3>2. Asked(p) => sync[p].at \in Int
      BY <3>1, Bounds
    <3>3. QED
      BY <1>1, <1>2, <2>2, <3>1, <3>2, Bounds
  <2>6. QED
    BY <1>1, <2>1, <2>3, <2>4, <2>5 DEF SyncInv, Covered, Answered, Reach
<1>7. QED
  BY <1>3, <1>4, <1>5, <1>6 DEF IInv

\* The alerts raised before keep their times.
LEMMA CoveredSameTimes ==
    ASSUME NEW times, NEW times2, NEW seen, NEW set, NEW limit, NEW reach,
           \A a \in seen \cup set : times2[a] = times[a],
           Covered(limit, seen, times, set, reach)
    PROVE  Covered(limit, seen, times2, set, reach)
<1>1. \A a \in seen : {b \in set : times2[b] >= times2[a]} = {b \in set : times[b] >= times[a]}
  OBVIOUS
<1>2. QED
  BY <1>1 DEF Covered, Answered

LEMMA RaiseInv == ASSUME IInv, Raise PROVE IInv'
<1>1. /\ Len(raised) < MaxAlerts /\ raised' = Append(raised, now)
      /\ UNCHANGED <<now, indexed, stored, state, sync, first>>
  BY DEF Raise
<1>2. now \in Stamp /\ now \in Int /\ raised \in Seq(Stamp) /\ Len(raised) \in Nat
  BY TypeFacts DEF IInv, TypeOK, Stamp
<1>3. /\ raised' \in Seq(Stamp) /\ Len(raised') = Len(raised) + 1
      /\ \A a \in 1..Len(raised) : raised'[a] = raised[a]
      /\ raised'[Len(raised) + 1] = now
  BY <1>1, <1>2
<1>4. indexed \subseteq 1..Len(raised) /\ stored \subseteq indexed
  BY DEF IInv, TypeOK
<1>5. TypeOK'
  <2>1. Len(raised') <= MaxAlerts
    BY <1>1, <1>2, <1>3, Bounds
  <2>2. 1..Len(raised) \subseteq 1..Len(raised')
    BY <1>2, <1>3
  <2>3. QED
    BY <1>1, <1>3, <1>4, <2>1, <2>2 DEF IInv, TypeOK
<1>6. IndexInv'
  <2>1. 1..Len(raised') = 1..Len(raised) \cup {Len(raised) + 1}
    BY <1>2, <1>3
  <2>2. now <= now + IndexDelay
    BY <1>2, Bounds
  <2>3. QED
    BY <1>1, <1>3, <2>1, <2>2 DEF IInv, IndexInv
<1>7. \A a \in indexed \cup stored : raised'[a] = raised[a]
  BY <1>3, <1>4
<1>8. MarkInv'
  <2>1. first # None =>
          Covered(state.last_success - Overlap, indexed, raised', stored, Reach(first))
    BY <1>7, CoveredSameTimes DEF IInv, MarkInv
  <2>2. QED
    BY <1>1, <2>1 DEF IInv, MarkInv, CounterNeverAhead, Reach
<1>9. ASSUME NEW p \in Process PROVE SyncInv(p)'
  <2>1. SyncInv(p)
    BY DEF IInv
  <2>2. sync[p].pc = "fetch" /\ first # None =>
          Covered(sync[p].since, indexed, raised', stored, Reach(first))
    BY <1>7, <2>1, CoveredSameTimes DEF SyncInv
  <2>3. Asked(p) =>
          Covered(Limit(p), indexed, raised', stored \cup sync[p].hits, Reach(First(p)))
    <3>. SUFFICES ASSUME Asked(p)
                  PROVE  Covered(Limit(p), indexed, raised', stored \cup sync[p].hits,
                                 Reach(First(p)))
      OBVIOUS
    <3>1. \A a \in indexed \cup (stored \cup sync[p].hits) : raised'[a] = raised[a]
      BY <1>7, <2>1 DEF SyncInv
    <3>2. Covered(Limit(p), indexed, raised, stored \cup sync[p].hits, Reach(First(p)))
      BY <2>1 DEF SyncInv
    <3>3. QED
      BY <3>1, <3>2, CoveredSameTimes
  <2>4. Limit(p)' = Limit(p) /\ First(p)' = First(p) /\ Asked(p)' = Asked(p)
    BY <1>1 DEF Limit, First, Asked
  <2>5. QED
    BY <1>1, <2>1, <2>2, <2>3, <2>4 DEF SyncInv, Reach
<1>10. QED
  BY <1>5, <1>6, <1>8, <1>9 DEF IInv

LEMMA IndexStepInv == ASSUME IInv, NEW a \in Alert, Index(a) PROVE IInv'
<1>1. /\ a \in 1..Len(raised) /\ a \notin indexed /\ indexed' = indexed \cup {a}
      /\ UNCHANGED <<now, raised, stored, state, sync, first>>
  BY DEF Index
<1>2. now <= raised[a] + IndexDelay /\ now \in Int /\ raised[a] \in Int
  BY <1>1, TypeFacts DEF IInv, IndexInv
<1>3. TypeOK' /\ IndexInv'
  BY <1>1 DEF IInv, TypeOK, IndexInv
<1>4. ASSUME NEW limit \in Int, limit <= now - IndexDelay, NEW set, NEW reach,
             Covered(limit, indexed, raised, set, reach)
      PROVE  Covered(limit, indexed', raised, set, reach)
  <2>1. ~(raised[a] < limit)
    BY <1>2, <1>4, Bounds
  <2>2. QED
    BY <1>1, <1>4, <2>1 DEF Covered
<1>5. MarkInv'
  <2>1. first # None =>
          /\ state.last_success - Overlap \in Int
          /\ state.last_success - Overlap <= now - IndexDelay
    BY <1>2, CursorFacts, Bounds DEF IInv, MarkInv
  <2>2. first # None =>
          Covered(state.last_success - Overlap, indexed', raised, stored, Reach(first))
    BY <1>4, <2>1 DEF IInv, MarkInv
  <2>3. QED
    BY <1>1, <2>2 DEF IInv, MarkInv, CounterNeverAhead, Reach
<1>6. ASSUME NEW p \in Process PROVE SyncInv(p)'
  <2>1. SyncInv(p)
    BY DEF IInv
  <2>2. Limit(p)' = Limit(p) /\ First(p)' = First(p) /\ Asked(p)' = Asked(p)
    BY <1>1 DEF Limit, First, Asked
  <2>3. sync[p].pc = "fetch" /\ first # None =>
          Covered(sync[p].since, indexed', raised, stored, Reach(first))
    <3>. SUFFICES ASSUME sync[p].pc = "fetch", first # None
                  PROVE  Covered(sync[p].since, indexed', raised, stored, Reach(first))
      OBVIOUS
    <3>1. sync[p].since \in Int /\ sync[p].since <= now - IndexDelay
      BY <1>2, <2>1, Bounds DEF SyncInv
    <3>2. QED
      BY <1>4, <2>1, <3>1 DEF SyncInv
  <2>4. Asked(p) =>
          Covered(Limit(p), indexed', raised, stored \cup sync[p].hits, Reach(First(p)))
    <3>. SUFFICES ASSUME Asked(p)
                  PROVE  Covered(Limit(p), indexed', raised, stored \cup sync[p].hits,
                                 Reach(First(p)))
      OBVIOUS
    <3>1. sync[p].at \in Time /\ sync[p].at <= now
      BY <2>1 DEF SyncInv
    <3>2. sync[p].at \in Int
      BY <3>1, Bounds
    <3>3. Limit(p) \in Int /\ Limit(p) <= now - IndexDelay
      BY <1>2, <3>1, <3>2, Bounds DEF Limit
    <3>4. QED
      BY <1>4, <2>1, <3>3 DEF SyncInv
  <2>5. QED
    BY <1>1, <2>1, <2>2, <2>3, <2>4 DEF SyncInv, Reach
<1>7. QED
  BY <1>3, <1>5, <1>6 DEF IInv

------------------------------------------------------------------------------
(* A synchronization                                                       *)

Quiet == UNCHANGED <<now, raised, indexed, stored, first>>

\* A step of p that stores nothing: what is left to show is about p and the row.
LEMMA StepFrame ==
    ASSUME IInv, NEW p \in Process, NEW new \in SyncRecord, Step(p, new), Quiet,
           state' \in StateRow \cup {None},
           state' = None => state = None /\ new.pc \in {"idle", "create", "down"},
           MarkInv', SyncInv(p)'
    PROVE  IInv'
<1>1. \A q \in Process : sync'[q] = IF q = p THEN new ELSE sync[q]
  BY DEF Step, IInv, TypeOK
<1>2. TypeOK'
  <2>1. sync' \in [Process -> SyncRecord]
    BY DEF Step, IInv, TypeOK
  <2>2. QED
    BY <1>1, <2>1 DEF IInv, TypeOK, Quiet
<1>3. IndexInv'
  BY DEF IInv, IndexInv, Quiet
<1>4. ASSUME NEW q \in Process, q # p PROVE SyncInv(q)'
  <2>1. sync'[q] = sync[q] /\ SyncInv(q)
    BY <1>1, <1>4 DEF IInv
  <2>2. QED
    BY <2>1 DEF SyncInv, Quiet, Asked, Limit, First, Covered, Answered, Reach
<1>5. QED
  BY <1>2, <1>3, <1>4 DEF IInv

\* A new status, or a new row without a cursor, leaves the mark where it is.
LEMMA MarkFrame ==
    ASSUME IInv, Quiet,
           \/ state' = state
           \/ state # None /\ \E s \in Status : state' = [state EXCEPT !.status = s]
           \/ state = None /\ state'.last_success = None /\ state'.alerts = 0 /\ state' # None
    PROVE  MarkInv'
<1>1. CASE state' = state
  BY <1>1 DEF IInv, MarkInv, Quiet, CounterNeverAhead, Covered, Answered, Reach
<1>2. CASE state # None /\ \E s \in Status : state' = [state EXCEPT !.status = s]
  <2>1. /\ state' # None /\ state'.last_success = state.last_success
        /\ state'.alerts = state.alerts
    BY <1>2, Bounds DEF IInv, TypeOK, StateRow
  <2>2. QED
    BY <1>2, <2>1 DEF IInv, MarkInv, Quiet, CounterNeverAhead, Covered, Answered, Reach
<1>3. CASE state = None /\ state'.last_success = None /\ state'.alerts = 0 /\ state' # None
  <2>1. Cardinality(stored) \in Nat
    BY TypeFacts DEF IInv
  <2>2. QED
    BY <1>3, <2>1 DEF IInv, MarkInv, Quiet, CounterNeverAhead
<1>4. QED
  BY <1>1, <1>2, <1>3

\* Steps to a place where the synchronization has neither query nor answer.
LEMMA RestInv ==
    ASSUME IInv, NEW p \in Process, NEW new \in SyncRecord, Step(p, new), Quiet,
           new.pc \in {"idle", "create", "connect", "down"},
           state' \in StateRow \cup {None},
           state' = None => state = None /\ new.pc \in {"idle", "create", "down"},
           MarkInv'
    PROVE  IInv'
<1>1. sync'[p] = new
  BY DEF Step, IInv, TypeOK
<1>2. SyncInv(p)'
  BY <1>1 DEF SyncInv, Asked
<1>3. QED
  BY <1>2, StepFrame

LEMMA IdleType ==
    /\ Idle \in SyncRecord /\ Idle.pc = "idle"
    /\ \A pc \in {"create", "connect", "down"} :
          [Idle EXCEPT !.pc = pc] \in SyncRecord /\ [Idle EXCEPT !.pc = pc].pc = pc
BY DEF Idle, SyncRecord

LEMMA StatusType ==
    ASSUME TypeOK, state # None, NEW s \in Status
    PROVE  [state EXCEPT !.status = s] \in StateRow
BY DEF TypeOK, StateRow

LEMMA BeginInv ==
    ASSUME IInv, NEW p \in Process, Begin(p) \/ FindNoState(p) \/ CreateState(p)
    PROVE  IInv'
<1>1. Quiet
  BY DEF Begin, FindNoState, CreateState, Quiet, Environment
<1>2. CASE Begin(p)
  <2>1. "syncing" \in Status /\ state # None /\ state' = [state EXCEPT !.status = "syncing"]
    BY <1>2 DEF Begin, Status
  <2>2. state' \in StateRow
    BY <2>1, StatusType DEF IInv
  <2>3. state' # None
    BY <2>2, Bounds
  <2>4. MarkInv'
    BY <1>1, <2>1, MarkFrame
  <2>5. QED
    BY <1>1, <1>2, <2>2, <2>3, <2>4, IdleType, RestInv DEF Begin
<1>3. CASE FindNoState(p)
  <2>1. MarkInv'
    BY <1>1, <1>3, MarkFrame DEF FindNoState
  <2>2. QED
    BY <1>1, <1>3, <2>1, IdleType, RestInv DEF FindNoState, IInv, TypeOK
<1>4. CASE CreateState(p)
  <2>1. CASE state = None
    <3>1. /\ state' = [status |-> "syncing", last_success |-> None, alerts |-> 0]
          /\ Step(p, [Idle EXCEPT !.pc = "connect"])
      BY <1>4, <2>1 DEF CreateState, NewState
    <3>2. state' \in StateRow
      BY <3>1 DEF StateRow, Status
    <3>3. state' # None
      BY <3>2, Bounds
    <3>4. state'.last_success = None /\ state'.alerts = 0
      BY <3>1
    <3>5. MarkInv'
      BY <1>1, <2>1, <3>3, <3>4, MarkFrame
    <3>6. QED
      BY <1>1, <3>1, <3>2, <3>3, <3>5, IdleType, RestInv
  <2>2. CASE state # None
    <3>1. state' = state /\ Step(p, Idle)
      BY <1>4, <2>2 DEF CreateState
    <3>2. MarkInv'
      BY <1>1, <3>1, MarkFrame
    <3>3. QED
      BY <1>1, <2>2, <3>1, <3>2, IdleType, RestInv DEF IInv, TypeOK
  <2>3. QED
    BY <2>1, <2>2
<1>5. QED
  BY <1>2, <1>3, <1>4

\* A failed call, a broken constraint, the end of a process and its restart.
LEMMA FailInv ==
    ASSUME IInv, NEW p \in Process, Fail(p) \/ Crash(p) \/ Restart(p)
    PROVE  IInv'
<1>1. Quiet
  BY DEF Fail, Crash, Restart, Quiet, Environment
<1>2. CASE Fail(p)
  <2>1. state # None
    BY <1>2 DEF Fail, IInv, TypeOK
  <2>2. "error" \in Status /\ state' = [state EXCEPT !.status = "error"] /\ Step(p, Idle)
    BY <1>2 DEF Fail, Status
  <2>3. state' \in StateRow
    BY <2>1, <2>2, StatusType DEF IInv
  <2>4. state' # None
    BY <2>3, Bounds
  <2>5. MarkInv'
    BY <1>1, <2>1, <2>2, MarkFrame
  <2>6. QED
    BY <1>1, <2>2, <2>3, <2>4, <2>5, IdleType, RestInv
<1>3. CASE Crash(p) \/ Restart(p)
  <2>1. state' = state /\ (Step(p, [Idle EXCEPT !.pc = "down"]) \/ Step(p, Idle))
    BY <1>3 DEF Crash, Restart
  <2>2. MarkInv'
    BY <1>1, <2>1, MarkFrame
  <2>3. QED
    BY <1>1, <2>1, <2>2, IdleType, RestInv DEF IInv, TypeOK
<1>4. QED
  BY <1>2, <1>3

LEMMA ReadCursorInv == ASSUME IInv, NEW p \in Process, ReadCursor(p) PROVE IInv'
<1>. DEFINE new == [sync[p] EXCEPT !.pc = "fetch", !.since = Since]
<1>1. /\ Quiet /\ state' = state /\ Step(p, new) /\ sync[p] \in SyncRecord
      /\ state # None /\ state \in StateRow
  BY DEF ReadCursor, Quiet, Environment, IInv, TypeOK
<1>2. MarkInv'
  BY <1>1, MarkFrame
<1>3. now \in Int
  BY TypeFacts DEF IInv
<1>4. CASE first # None
  <2>1. /\ Since = state.last_success - Overlap
        /\ state.last_success \in Int /\ state.last_success <= now
        /\ Covered(Since, indexed, raised, stored, Reach(first))
    BY <1>4, CursorFacts DEF Since, IInv, MarkInv
  <2>2. Since \in Int /\ Since <= now - Overlap
    BY <1>3, <2>1, Bounds
  <2>3. new \in SyncRecord /\ new.pc = "fetch" /\ new.since = Since
    BY <1>1, <2>2 DEF SyncRecord
  <2>4. sync'[p] = new
    BY <1>1 DEF Step, IInv, TypeOK
  <2>5. SyncInv(p)'
    BY <1>1, <1>4, <2>1, <2>2, <2>3, <2>4
    DEF SyncInv, Asked, Quiet, Covered, Answered, Reach
  <2>6. QED
    BY <1>1, <1>2, <2>3, <2>5, StepFrame
<1>5. CASE first = None
  <2>1. Since = now - Lookback - Overlap
    BY <1>1, <1>5 DEF Since, IInv, MarkInv
  <2>2. Since \in Int /\ Since <= now - Overlap
    BY <1>3, <2>1, Bounds
  <2>3. new \in SyncRecord /\ new.pc = "fetch" /\ new.since = Since
    BY <1>1, <2>2 DEF SyncRecord
  <2>4. sync'[p] = new
    BY <1>1 DEF Step, IInv, TypeOK
  <2>5. SyncInv(p)'
    BY <1>1, <1>3, <1>5, <2>1, <2>2, <2>3, <2>4 DEF SyncInv, Asked, Quiet
  <2>6. QED
    BY <1>1, <1>2, <2>3, <2>5, StepFrame
<1>6. QED
  BY <1>4, <1>5

\* The newest hits, at most a batch of them, answer every hit.
LEMMA NewestAnswers ==
    ASSUME IInv, NEW hits \in SUBSET indexed, NEW answer \in SUBSET hits,
           Newest(hits, answer), NEW a \in hits, NEW reach
    PROVE  Answered(a, raised, answer, reach)
<1>1. IsFiniteSet(hits) /\ IsFiniteSet(answer)
  BY TypeFacts, FS_Subset DEF IInv
<1>2. Cardinality(hits) \in Nat /\ Cardinality(answer) \in Nat
  BY <1>1, FS_CardinalityType
<1>3. CASE a \in answer
  BY <1>3 DEF Answered
<1>4. CASE a \notin answer
  <2>1. ~(Cardinality(hits) < Batch)
    <3>1. SUFFICES ASSUME Cardinality(hits) < Batch PROVE FALSE
      OBVIOUS
    <3>2. Cardinality(answer) = Cardinality(hits)
      BY <3>1 DEF Newest
    <3>3. answer = hits
      BY <1>1, <3>2, FS_Subset
    <3>4. QED
      BY <1>4, <3>3
  <2>2. Cardinality(answer) = Batch
    BY <2>1 DEF Newest
  <2>3. {b \in answer : raised[b] >= raised[a]} = answer
    BY <1>4 DEF Newest
  <2>4. QED
    BY <1>2, <2>2, <2>3, Bounds DEF Answered
<1>5. QED
  BY <1>3, <1>4

LEMMA AlertsSinceInv == ASSUME IInv, NEW p \in Process, AlertsSince(p) PROVE IInv'
<1>. DEFINE hits == {a \in indexed : raised[a] >= sync[p].since}
<1>1. PICK answer \in SUBSET hits :
         /\ Newest(hits, answer)
         /\ Step(p, [sync[p] EXCEPT !.pc = "upsert", !.since = None,
                                    !.hits = answer, !.at = now])
  BY DEF AlertsSince
<1>. DEFINE new == [sync[p] EXCEPT !.pc = "upsert", !.since = None,
                                   !.hits = answer, !.at = now]
<1>2. /\ Quiet /\ state' = state /\ sync[p] \in SyncRecord /\ sync[p].pc = "fetch"
      /\ state # None /\ state \in StateRow /\ indexed \in SUBSET Alert
  <2>1. indexed \in SUBSET Alert
    BY TypeFacts, Bounds DEF IInv, TypeOK, Alert
  <2>2. QED
    BY <2>1 DEF AlertsSince, Quiet, Environment, IInv, TypeOK
<1>3. MarkInv'
  BY <1>2, MarkFrame
<1>4. now \in Int /\ now \in Time
  BY TypeFacts DEF IInv, TypeOK
<1>5. /\ new \in SyncRecord /\ new.pc = "upsert" /\ new.at = now /\ new.hits = answer
  BY <1>2, <1>4 DEF SyncRecord
<1>6. sync'[p] = new
  BY <1>1 DEF Step, IInv, TypeOK
<1>7. SyncInv(p)
  BY DEF IInv
<1>. DEFINE start == IF first = None THEN now ELSE first
<1>8. ASSUME NEW a \in indexed
      PROVE  Answered(a, raised, stored \cup answer, Reach(start))
  <2>1. IsFiniteSet(stored) /\ IsFiniteSet(answer) /\ IsFiniteSet(stored \cup answer)
    <3>1. IsFiniteSet(stored) /\ IsFiniteSet(answer)
      BY TypeFacts, FS_Subset DEF IInv
    <3>2. QED
      BY <3>1, FS_Union
  <2>2. CASE a \in hits
    <3>1. Answered(a, raised, answer, Reach(start))
      BY <1>1, <2>2, NewestAnswers
    <3>2. QED
      BY <2>1, <3>1, AnsweredMonotone
  <2>3. CASE a \notin hits
    <3>1. raised[a] \in Int /\ sync[p].since \in Int
      BY <1>2, <1>7, TypeFacts DEF IInv, TypeOK, SyncInv
    <3>2. raised[a] < sync[p].since
      BY <2>3, <3>1
    <3>3. CASE first # None
      <4>1. Answered(a, raised, stored, Reach(start))
        BY <1>2, <1>7, <3>2, <3>3 DEF SyncInv, Covered
      <4>2. QED
        BY <2>1, <4>1, AnsweredMonotone
    <3>4. CASE first = None
      <4>1. raised[a] < now - Overlap - Lookback
        BY <1>2, <1>4, <1>7, <3>1, <3>2, <3>4, Bounds DEF SyncInv
      <4>2. now # None /\ now - Overlap - Lookback # None
        BY <1>4, Bounds
      <4>3. QED
        BY <3>4, <4>1, <4>2 DEF Answered, Reach
    <3>5. QED
      BY <3>3, <3>4
  <2>4. QED
    BY <2>2, <2>3
<1>9. First(p)' = start
  BY <1>2, <1>5, <1>6 DEF First, Quiet
<1>10. Covered(Limit(p)', indexed, raised, stored \cup answer, Reach(start))
  BY <1>8 DEF Covered
<1>11. answer \subseteq indexed /\ now <= now + SyncTime
  BY <1>4, Bounds
<1>12. SyncInv(p)'
  <2>1. Covered(Limit(p), indexed, raised, stored \cup sync[p].hits, Reach(First(p)))'
    BY <1>2, <1>5, <1>6, <1>9, <1>10 DEF Covered, Answered, Reach, Quiet
  <2>2. QED
    BY <1>2, <1>4, <1>5, <1>6, <1>11, <2>1 DEF SyncInv, Quiet
<1>13. QED
  BY <1>1, <1>2, <1>3, <1>5, <1>12, StepFrame

LEMMA UpsertAlertsInv == ASSUME IInv, NEW p \in Process, UpsertAlerts(p) PROVE IInv'
<1>. DEFINE new == [sync[p] EXCEPT !.pc = "load", !.hits = sync[p].hits \ stored]
<1>1. /\ Quiet /\ state' = state /\ Step(p, new) /\ sync[p] \in SyncRecord
      /\ sync[p].pc = "upsert" /\ state # None /\ state \in StateRow
  BY DEF UpsertAlerts, Quiet, Environment, IInv, TypeOK
<1>2. MarkInv'
  BY <1>1, MarkFrame
<1>3. /\ new \in SyncRecord /\ new.pc = "load" /\ new.at = sync[p].at
      /\ new.hits = sync[p].hits \ stored
  BY <1>1 DEF SyncRecord
<1>4. sync'[p] = new
  BY <1>1 DEF Step, IInv, TypeOK
<1>5. stored \cup new.hits = stored \cup sync[p].hits
  BY <1>3
<1>6. SyncInv(p) /\ Asked(p)
  BY <1>1 DEF IInv, Asked
<1>7. First(p)' = First(p) /\ Limit(p)' = Limit(p)
  BY <1>1, <1>3, <1>4 DEF First, Limit, Quiet
<1>8. SyncInv(p)'
  <2>1. Covered(Limit(p), indexed, raised, stored \cup sync[p].hits, Reach(First(p)))'
    BY <1>1, <1>4, <1>5, <1>6, <1>7 DEF SyncInv, Covered, Answered, Reach, Quiet
  <2>2. QED
    BY <1>1, <1>3, <1>4, <1>6, <2>1 DEF SyncInv, Quiet
<1>9. QED
  BY <1>1, <1>2, <1>3, <1>8, StepFrame

\* The cursor is taken at most SyncTime after the answer.
LEMMA LoadStateInv == ASSUME IInv, NEW p \in Process, LoadState(p) PROVE IInv'
<1>. DEFINE row == [state EXCEPT !.last_success = None]
            new == [sync[p] EXCEPT !.pc = "commit", !.at = now, !.row = row]
<1>1. /\ Quiet /\ state' = state /\ Step(p, new) /\ sync[p] \in SyncRecord
      /\ sync[p].pc = "load" /\ state # None /\ state \in StateRow
  BY DEF LoadState, Quiet, Environment, IInv, TypeOK
<1>2. MarkInv'
  BY <1>1, MarkFrame
<1>3. now \in Int /\ now \in Time
  BY TypeFacts DEF IInv, TypeOK
<1>4. row \in StateRow /\ row.last_success = None /\ row.alerts = state.alerts
  BY <1>1 DEF StateRow
<1>5. /\ new \in SyncRecord /\ new.pc = "commit" /\ new.at = now
      /\ new.hits = sync[p].hits /\ new.row = row
  BY <1>1, <1>3, <1>4 DEF SyncRecord
<1>6. sync'[p] = new
  BY <1>1 DEF Step, IInv, TypeOK
<1>7. SyncInv(p) /\ Asked(p)
  BY <1>1 DEF IInv, Asked
<1>8. /\ sync[p].at \in Int /\ sync[p].at <= now /\ now <= sync[p].at + SyncTime
      /\ sync[p].at \in Time
  BY <1>7, Bounds DEF SyncInv
<1>9. Limit(p)' \in Int /\ Limit(p) \in Int /\ Limit(p)' <= Limit(p)
  <2>1. Limit(p)' = now - Overlap
    BY <1>3, <1>5, <1>6, Bounds DEF Limit
  <2>2. Limit(p) = sync[p].at + SyncTime - Overlap
    BY <1>1 DEF Limit
  <2>3. QED
    BY <1>3, <1>8, <2>1, <2>2, Bounds
<1>. DEFINE set == stored \cup sync[p].hits
            start == IF first = None THEN now ELSE first
<1>10. ASSUME NEW a \in indexed, raised[a] < Limit(p)'
       PROVE  Answered(a, raised, set, Reach(start))
  <2>1. raised[a] \in Int
    BY TypeFacts DEF IInv, TypeOK
  <2>2. raised[a] < Limit(p)
    BY <1>9, <1>10, <2>1
  <2>3. Answered(a, raised, set, Reach(First(p)))
    BY <1>7, <2>2 DEF SyncInv, Covered
  <2>4. CASE first # None
    BY <2>3, <2>4 DEF First
  <2>5. CASE first = None
    <3>1. /\ Reach(First(p)) = sync[p].at - Overlap - Lookback
          /\ Reach(start) = now - Overlap - Lookback
          /\ Reach(start) # None
      BY <1>3, <1>8, <2>5, Bounds DEF First, Reach
    <3>2. raised[a] < Reach(First(p)) => raised[a] < Reach(start)
      BY <1>3, <1>8, <2>1, <3>1, Bounds
    <3>3. QED
      BY <2>3, <3>1, <3>2 DEF Answered
  <2>6. QED
    BY <2>4, <2>5
<1>11. First(p)' = start
  BY <1>1, <1>5, <1>6 DEF First, Quiet
<1>12. SyncInv(p)'
  <2>1. Covered(Limit(p), indexed, raised, stored \cup sync[p].hits, Reach(First(p)))'
    BY <1>1, <1>5, <1>6, <1>10, <1>11 DEF Covered, Answered, Reach, Quiet
  <2>2. now <= now + SyncTime
    BY <1>3, Bounds
  <2>3. row.alerts <= Cardinality(stored)
    BY <1>1, <1>4 DEF IInv, MarkInv, CounterNeverAhead
  <2>4. /\ sync[p]'.pc = "commit" /\ sync[p]'.at = now /\ sync[p]'.row = row
        /\ sync[p]'.hits \subseteq indexed
    BY <1>5, <1>6, <1>7 DEF SyncInv
  <2>5. UNCHANGED <<now, indexed, stored>> /\ now <= now
    BY <1>1, <1>3 DEF Quiet
  <2>6. QED
    BY <1>3, <1>4, <2>1, <2>2, <2>3, <2>4, <2>5 DEF SyncInv
<1>13. QED
  BY <1>1, <1>2, <1>5, <1>12, StepFrame

\* What a commit stores answers every alert below its mark.  The first commit
\* also answers every alert that another first query may have left out.
LEMMA CommitCovers ==
    ASSUME IInv, NEW p \in Process, sync[p].pc = "commit",
           NEW set, set = stored \cup sync[p].hits
    PROVE  /\ Covered(sync[p].at - Overlap, indexed, raised, set, Reach(First(p)))
           /\ first = None =>
                Covered(now - Overlap - Lookback, indexed, raised, set, Reach(First(p)))
<1>1. SyncInv(p) /\ Asked(p)
  BY DEF IInv, Asked
<1>2. /\ now \in Int /\ sync[p].at \in Int /\ sync[p].at <= now /\ now <= sync[p].at + SyncTime
  BY <1>1, TypeFacts, Bounds DEF IInv, SyncInv
<1>3. Limit(p) = sync[p].at - Overlap
  BY <1>2, Bounds DEF Limit
<1>4. \A a \in indexed : raised[a] \in Int
  BY TypeFacts DEF IInv, TypeOK
<1>5. \A a \in indexed :
         raised[a] < now - Overlap - Lookback => raised[a] < sync[p].at - Overlap
  BY <1>2, <1>4, Bounds
<1>6. QED
  BY <1>1, <1>3, <1>5 DEF SyncInv, Covered

LEMMA CommitInv == ASSUME IInv, NEW p \in Process, Commit(p) PROVE IInv'
<1>. DEFINE set == stored \cup sync[p].hits
            row == sync[p].row
<1>1. /\ sync[p].pc = "commit" /\ Unique(p) /\ stored' = set
      /\ state' = Merge(state, row, Connected(p)) /\ first' = First(p)
      /\ Step(p, Idle) /\ UNCHANGED <<now, raised, indexed>>
  BY DEF Commit, Environment, First
<1>2. SyncInv(p) /\ Asked(p) /\ state # None /\ state \in StateRow /\ sync[p] \in SyncRecord
  BY <1>1 DEF IInv, TypeOK, Asked
<1>3. /\ now \in Int /\ sync[p].at \in Int /\ sync[p].at \in Time /\ sync[p].at # None
      /\ sync[p].at <= now
  BY <1>2, TypeFacts, Bounds DEF IInv, SyncInv
<1>4. /\ row \in StateRow /\ row.last_success = None /\ row.alerts <= Cardinality(stored)
  BY <1>1, <1>2 DEF SyncInv
<1>5. set \subseteq indexed /\ IsFiniteSet(set) /\ IsFiniteSet(sync[p].hits)
  <2>1. set \subseteq indexed
    BY <1>2 DEF SyncInv, IInv, TypeOK
  <2>2. IsFiniteSet(indexed)
    BY TypeFacts DEF IInv
  <2>3. QED
    BY <2>1, <2>2, FS_Subset
<1>6. /\ Cardinality(set) = Cardinality(stored) + Cardinality(sync[p].hits)
      /\ Cardinality(stored) \in Nat /\ Cardinality(sync[p].hits) \in Nat
  <2>1. stored \cap sync[p].hits = {}
    BY <1>1 DEF Unique
  <2>2. IsFiniteSet(stored) /\ Cardinality(stored) \in Nat
    BY TypeFacts DEF IInv
  <2>3. Cardinality(set) = Cardinality(stored) + Cardinality(sync[p].hits) - Cardinality({})
    BY <1>5, <2>1, <2>2, FS_Union
  <2>4. Cardinality({}) = 0 /\ Cardinality(sync[p].hits) \in Nat
    BY <1>5, FS_EmptySet, FS_CardinalityType
  <2>5. QED
    BY <2>2, <2>3, <2>4
<1>7. /\ Connected(p).status = "connected" /\ Connected(p).last_success = sync[p].at
      /\ Connected(p).alerts = row.alerts + Cardinality(sync[p].hits)
  BY DEF Connected
<1>8. /\ state' = [c \in DOMAIN state |->
                     IF Connected(p)[c] = row[c] THEN state[c] ELSE Connected(p)[c]]
      /\ DOMAIN state = {"status", "last_success", "alerts"}
  BY <1>1, <1>2 DEF Merge, StateRow
<1>9. /\ state'.last_success = sync[p].at
      /\ state'.status \in {state.status, "connected"}
      /\ state'.alerts \in {state.alerts, row.alerts + Cardinality(sync[p].hits)}
  BY <1>3, <1>4, <1>7, <1>8
<1>10. state' \in StateRow /\ state' # None /\ state'.alerts <= Cardinality(set)
  <2>1. state.alerts \in Nat /\ state.status \in Status /\ row.alerts \in Nat
    BY <1>2, <1>4 DEF StateRow
  <2>2. state.alerts <= Cardinality(stored)
    BY <1>2 DEF IInv, MarkInv, CounterNeverAhead
  <2>3. state'.alerts \in Nat /\ state'.alerts <= Cardinality(set)
    BY <1>4, <1>6, <1>9, <2>1, <2>2
  <2>4. state'.status \in Status /\ state'.last_success \in Time
    BY <1>3, <1>9, <2>1 DEF Status
  <2>5. state' = [status |-> state'.status, last_success |-> state'.last_success,
                  alerts |-> state'.alerts]
    BY <1>8
  <2>6. state' \in StateRow
    BY <2>3, <2>4, <2>5 DEF StateRow
  <2>7. QED
    BY <2>3, <2>6, Bounds
<1>11. \A q \in Process : sync'[q] = IF q = p THEN Idle ELSE sync[q]
  BY <1>1 DEF Step, IInv, TypeOK
<1>12. First(p) # None /\ First(p) \in Time
  BY <1>3, Bounds DEF First, IInv, TypeOK
<1>13. TypeOK'
  <2>1. sync' \in [Process -> SyncRecord]
    BY <1>1, IdleType DEF Step, IInv, TypeOK
  <2>2. QED
    BY <1>1, <1>5, <1>10, <1>12, <2>1 DEF IInv, TypeOK
<1>14. IndexInv'
  BY <1>1 DEF IInv, IndexInv
<1>15. /\ Covered(sync[p].at - Overlap, indexed, raised, set, Reach(First(p)))
       /\ first = None =>
            Covered(now - Overlap - Lookback, indexed, raised, set, Reach(First(p)))
  BY <1>1, CommitCovers
<1>16. MarkInv'
  <2>1. Covered(state.last_success - Overlap, indexed, raised, stored, Reach(first))'
    BY <1>1, <1>9, <1>15 DEF Covered, Answered, Reach
  <2>2. QED
    BY <1>1, <1>3, <1>9, <1>10, <1>12, <2>1 DEF MarkInv, CounterNeverAhead
<1>17. ASSUME NEW q \in Process PROVE SyncInv(q)'
  <2>1. CASE q = p
    BY <1>11, <2>1, IdleType DEF SyncInv, Asked
  <2>2. CASE q # p
    <3>1. sync'[q] = sync[q] /\ SyncInv(q)
      BY <1>11, <2>2 DEF IInv
    <3>2. Asked(q)' = Asked(q) /\ Limit(q)' = Limit(q) /\ First(q)' = First(p)
      BY <1>1, <1>12, <3>1 DEF Asked, Limit, First
    <3>3. ASSUME sync[q].pc = "fetch"
          PROVE  Covered(sync[q].since, indexed, raised, set, Reach(First(p)))
      <4>1. CASE first # None
        <5>1. Covered(sync[q].since, indexed, raised, stored, Reach(First(p)))
          BY <3>1, <3>3, <4>1 DEF SyncInv, First
        <5>2. QED
          BY <1>5, <5>1, CoveredMonotone
      <4>2. CASE first = None
        <5>1. sync[q].since \in Int /\ sync[q].since <= now - Overlap - Lookback
          BY <1>3, <3>1, <3>3, <4>2, Bounds DEF SyncInv
        <5>2. \A a \in indexed : raised[a] \in Int
          BY TypeFacts DEF IInv, TypeOK
        <5>3. \A a \in indexed :
                 raised[a] < sync[q].since => raised[a] < now - Overlap - Lookback
          BY <1>3, <5>1, <5>2, Bounds
        <5>4. QED
          BY <1>15, <4>2, <5>3 DEF Covered
      <4>3. QED
        BY <4>1, <4>2
    <3>. DEFINE both == set \cup sync[q].hits
    <3>4. ASSUME Asked(q)
          PROVE  Covered(Limit(q), indexed, raised, both, Reach(First(p)))
      <4>1. IsFiniteSet(both) /\ set \subseteq both /\ stored \cup sync[q].hits \subseteq both
        <5>1. both \subseteq indexed /\ IsFiniteSet(indexed)
          BY <1>5, <3>1, <3>4, TypeFacts DEF SyncInv, IInv
        <5>2. QED
          BY <5>1, FS_Subset
      <4>2. Covered(Limit(q), indexed, raised, both, Reach(First(q)))
        BY <3>1, <3>4, <4>1, CoveredMonotone DEF SyncInv
      <4>3. CASE first # None
        BY <4>2, <4>3 DEF First
      <4>4. CASE first = None
        <5>1. /\ Covered(now - Overlap - Lookback, indexed, raised, both, Reach(First(p)))
          BY <1>15, <4>1, <4>4, CoveredMonotone
        <5>2. /\ sync[q].at \in Int /\ sync[q].at <= now
              /\ Reach(First(q)) = sync[q].at - Overlap - Lookback
          BY <3>1, <3>4, <4>4, Bounds DEF SyncInv, First, Reach
        <5>3. ASSUME NEW a \in indexed, raised[a] < Reach(First(q))
              PROVE  raised[a] < now - Overlap - Lookback
          <6>1. raised[a] \in Int
            BY TypeFacts DEF IInv, TypeOK
          <6>2. QED
            BY <1>3, <5>2, <5>3, <6>1, Bounds
        <5>4. QED
          BY <4>2, <5>1, <5>3 DEF Covered, Answered
      <4>5. QED
        BY <4>3, <4>4
    <3>5. sync[q].pc = "commit" => /\ sync[q].row.alerts \in Nat
                                   /\ sync[q].row.alerts <= Cardinality(set)
      <4>1. sync[q].pc = "commit" => /\ sync[q].row.alerts \in Nat
                                     /\ sync[q].row.alerts <= Cardinality(stored)
        BY <3>1 DEF SyncInv, StateRow
      <4>2. QED
        BY <1>6, <4>1
    <3>6. sync[q]'.pc = "fetch" =>
            Covered(sync[q].since, indexed, raised, stored, Reach(first))'
      BY <1>1, <3>1, <3>3 DEF Covered, Answered, Reach
    <3>7. Asked(q)' =>
            Covered(Limit(q), indexed, raised, stored \cup sync[q].hits, Reach(First(q)))'
      BY <1>1, <3>1, <3>2, <3>4 DEF Covered, Answered, Reach
    <3>8. QED
      BY <1>1, <1>12, <3>1, <3>2, <3>5, <3>6, <3>7 DEF SyncInv
  <2>3. QED
    BY <2>1, <2>2
<1>18. QED
  BY <1>13, <1>14, <1>16, <1>17 DEF IInv

LEMMA StutterInv == ASSUME IInv, UNCHANGED vars PROVE IInv'
<1>1. UNCHANGED <<now, raised, indexed, stored, state, sync, first>>
  BY DEF vars
<1>2. TypeOK' /\ IndexInv' /\ MarkInv'
  BY <1>1 DEF IInv, TypeOK, IndexInv, MarkInv, CounterNeverAhead, Covered, Answered, Reach
<1>3. ASSUME NEW p \in Process PROVE SyncInv(p)'
  <2>1. SyncInv(p)
    BY DEF IInv
  <2>2. QED
    BY <1>1, <2>1 DEF SyncInv, Asked, Limit, First, Covered, Answered, Reach
<1>4. QED
  BY <1>2, <1>3 DEF IInv

LEMMA NextInv == IInv /\ [Next]_vars => IInv'
<1>. SUFFICES ASSUME IInv, [Next]_vars PROVE IInv'
  OBVIOUS
<1>1. CASE Tick
  BY <1>1, TickInv
<1>2. CASE Raise
  BY <1>2, RaiseInv
<1>3. ASSUME NEW a \in Alert, Index(a) PROVE IInv'
  BY <1>3, IndexStepInv
<1>4. ASSUME NEW p \in Process, Begin(p) \/ FindNoState(p) \/ CreateState(p) PROVE IInv'
  BY <1>4, BeginInv
<1>5. ASSUME NEW p \in Process, Fail(p) \/ Crash(p) \/ Restart(p) PROVE IInv'
  BY <1>5, FailInv
<1>6. ASSUME NEW p \in Process,
             ReadCursor(p) \/ AlertsSince(p) \/ UpsertAlerts(p) \/ LoadState(p)
      PROVE  IInv'
  BY <1>6, ReadCursorInv, AlertsSinceInv, UpsertAlertsInv, LoadStateInv
<1>7. ASSUME NEW p \in Process, Commit(p) PROVE IInv'
  BY <1>7, CommitInv
<1>8. CASE UNCHANGED vars
  BY <1>8, StutterInv
<1>9. QED
  BY <1>1, <1>2, <1>3, <1>4, <1>5, <1>6, <1>7, <1>8 DEF Next

\* The invariant of the synchronization, for any replicas, alerts and delays.
THEOREM Invariance == Spec => []IInv
BY InitInv, NextInv, PTL DEF Spec

------------------------------------------------------------------------------

\* Types, in particular that nothing is stored that the indexer did not return.
THEOREM TypeCorrect == Spec => []TypeOK
<1>1. IInv => TypeOK
  BY DEF IInv
<1>2. QED
  BY <1>1, Invariance, PTL

\* The counter of integration_states is never ahead of the alerts stored,
\* whatever replicas overlap and however often they fail.
THEOREM CounterHonest == Spec => []CounterNeverAhead
<1>1. IInv => CounterNeverAhead
  BY DEF IInv, MarkInv
<1>2. QED
  BY <1>1, Invariance, PTL

------------------------------------------------------------------------------
(* The synchronization implements AlertIntake                              *)

LEMMA SameCardinality == \A S : Intake!Cardinality(S) = Cardinality(S)
BY DEF Intake!Cardinality, Cardinality

\* As many alerts as there are pairs of an alert and its time.
LEMMA StampedCount ==
    ASSUME NEW S, IsFiniteSet(S), NEW times
    PROVE  Cardinality({<<a, times[a]>> : a \in S}) = Cardinality(S)
<1>. DEFINE T == {<<a, times[a]>> : a \in S}
            f == [a \in S |-> <<a, times[a]>>]
<1>1. f \in [S -> T]
  OBVIOUS
<1>2. \A a, b \in S : f[a] = f[b] => a = b
  OBVIOUS
<1>3. \A b \in T : \E a \in S : f[a] = b
  OBVIOUS
<1>4. f \in Bijection(S, T)
  BY <1>1, <1>2, <1>3, Fun_IsBij
<1>5. QED
  BY <1>4, FS_Bijection DEF ExistsBijection

Mark == IF state = None \/ state.last_success = None THEN None
        ELSE state.last_success - Overlap

\* A step that neither indexes nor commits leaves everything as it is.
LEMMA IntakeStutters ==
    ASSUME IInv, UNCHANGED <<indexed, stored, first>>, UNCHANGED Mark,
           \A a \in indexed : raised'[a] = raised[a]
    PROVE  UNCHANGED Intake!vars
<1>1. stored \subseteq indexed
  BY DEF IInv, TypeOK
<1>2. Stamped(indexed)' = Stamped(indexed) /\ Stamped(stored)' = Stamped(stored)
  BY <1>1 DEF Stamped
<1>3. QED
  BY <1>2 DEF Intake!vars, Mark

LEMMA IntakeAppears ==
    ASSUME IInv, NEW a \in Alert, Index(a)
    PROVE  Intake!Next
<1>1. /\ a \in 1..Len(raised) /\ a \notin indexed /\ indexed' = indexed \cup {a}
      /\ UNCHANGED <<now, raised, stored, state, sync, first>>
  BY DEF Index
<1>. DEFINE new == <<a, raised[a]>>
<1>2. now <= raised[a] + IndexDelay /\ now \in Int /\ raised[a] \in Int
      /\ new \in Alert \X Stamp
  BY <1>1, TypeFacts DEF IInv, IndexInv, TypeOK
<1>3. new \notin Stamped(indexed) /\ Stamped(indexed)' = Stamped(indexed) \cup {new}
  BY <1>1 DEF Stamped
<1>4. Mark # None => raised[a] >= Mark
  <2>1. Mark # None => /\ Mark = state.last_success - Overlap
                       /\ state.last_success \in Int /\ state.last_success <= now
    BY CursorFacts DEF Mark, IInv, MarkInv
  <2>2. QED
    BY <1>2, <2>1, Bounds
<1>5. UNCHANGED <<Stamped(stored), Mark, first>>
  BY <1>1 DEF Stamped, Mark
<1>6. Intake!Appear(new)
  BY <1>1, <1>2, <1>3, <1>4, <1>5 DEF Intake!Appear, Intake!TimeOf, Mark
<1>7. QED
  BY <1>2, <1>6 DEF Intake!Next

LEMMA IntakeCommits ==
    ASSUME IInv, IInv', NEW p \in Process, Commit(p)
    PROVE  Intake!Next
<1>1. /\ stored' = stored \cup sync[p].hits /\ UNCHANGED <<raised, indexed>>
      /\ first' = First(p)
  BY DEF Commit, Environment, First
<1>2. stored' \subseteq indexed /\ IsFiniteSet(stored') /\ IsFiniteSet(stored)
  <2>1. stored' \subseteq indexed /\ IsFiniteSet(indexed) /\ stored \subseteq stored'
    BY <1>1, TypeFacts DEF IInv, TypeOK
  <2>2. QED
    BY <2>1, FS_Subset
<1>3. first' # None
  <2>1. sync[p].at \in Time
    BY DEF IInv, SyncInv, Asked, Commit
  <2>2. QED
    BY <1>1, <2>1, Bounds DEF First
<1>4. /\ state' # None /\ state'.last_success # None
      /\ Mark' = state'.last_success - Overlap /\ Mark' \in Int
  BY <1>3, Bounds DEF IInv, MarkInv, Mark, TypeOK, StateRow
<1>5. state'.last_success = sync[p].at
  <2>1. sync[p].row.last_success = None /\ sync[p].at # None
        /\ state \in StateRow
    BY Bounds DEF IInv, SyncInv, Asked, Commit, TypeOK
  <2>2. QED
    BY <2>1 DEF Commit, Merge, Connected, StateRow
<1>6. (Mark = None <=> first = None) /\ (first # None => Reach(first)' = Reach(first))
  <2>1. state # None /\ state.last_success # None => state.last_success - Overlap # None
    BY Bounds DEF IInv, TypeOK, StateRow
  <2>2. QED
    BY <1>1, <2>1 DEF IInv, MarkInv, Mark, First
<1>7. Reach(first)' = IF Mark = None THEN Mark' - Lookback ELSE Reach(first)
  BY <1>1, <1>3, <1>4, <1>5, <1>6 DEF First, Reach
<1>8. Stamped(stored) \subseteq Stamped(stored)' /\ Stamped(stored)' \subseteq Stamped(indexed)
      /\ Stamped(indexed)' = Stamped(indexed)
  BY <1>1, <1>2 DEF Stamped
<1>9. ASSUME NEW a \in Stamped(indexed) \ Stamped(stored)', a[2] < Mark'
      PROVE  \/ a[2] < Reach(first)'
             \/ Cardinality({b \in Stamped(stored)' : b[2] >= a[2]}) >= Batch
  <2>1. PICK i \in indexed : a = <<i, raised[i]>> /\ i \notin stored'
    BY <1>1, <1>9 DEF Stamped
  <2>2. Answered(i, raised, stored', Reach(first)')
    BY <1>1, <1>3, <1>4, <1>9, <2>1 DEF IInv, MarkInv, Covered, Answered, Reach
  <2>3. Cardinality({b \in Stamped(stored)' : b[2] >= a[2]})
          = Cardinality({b \in stored' : raised[b] >= raised[i]})
    <3>1. Stamped(stored)' = {<<b, raised[b]>> : b \in stored'} /\ a[2] = raised[i]
      BY <1>1, <2>1 DEF Stamped
    <3>. DEFINE S == {b \in stored' : raised[b] >= raised[i]}
    <3>2. {b \in Stamped(stored)' : b[2] >= a[2]} = {<<b, raised[b]>> : b \in S}
      BY <3>1
    <3>3. IsFiniteSet(S)
      BY <1>2, FS_Subset
    <3>4. Cardinality({<<b, raised[b]>> : b \in S}) = Cardinality(S)
      BY <3>3, StampedCount
    <3>5. QED
      BY <3>2, <3>4
  <2>4. QED
    BY <2>1, <2>2, <2>3 DEF Answered
<1>10. Intake!Intake
  <2>1. \A a \in Stamped(indexed) \ Stamped(stored)' :
           a[2] < Mark' => \/ a[2] < Reach(first)'
                           \/ Cardinality({b \in Stamped(stored)' : b[2] >= a[2]}) >= Batch
    BY <1>9
  <2>2. Mark' # None
    BY <1>4, Bounds
  <2>. DEFINE seen == Stamped(indexed)
              kept == Stamped(stored)
              reach == Reach(first)
  <2>3. /\ kept \subseteq kept' /\ kept' \subseteq seen /\ Mark' # None
        /\ reach' = IF Mark = None THEN Mark' - Lookback ELSE reach
        /\ \A a \in seen \ kept' : a[2] < Mark' =>
              a[2] < reach' \/ Cardinality({b \in kept' : b[2] >= a[2]}) >= Batch
        /\ seen' = seen
    BY <1>7, <1>8, <2>1, <2>2
  <2>4. QED
    BY <2>3, SameCardinality DEF Intake!Intake, Intake!TimeOf, Intake!Behind, Mark, Reach
<1>11. QED
  BY <1>10 DEF Intake!Next

\* The rows, cursors and transactions of any replicas together take in alerts as
\* AlertIntake promises: nothing is stored twice or lost, and the mark passes
\* only what is stored, given up behind a full batch, or older than the reach
\* of the first query.
THEOREM ImplementsAlertIntake == Spec => IntakeSpec
<1>1. Init => Intake!Init
  <2>. SUFFICES ASSUME Init PROVE Intake!Init
    OBVIOUS
  <2>1. \A a \in indexed : a \in Alert /\ raised[a] \in Stamp
    <3>1. TypeOK
      BY InitInv DEF IInv
    <3>2. \A a \in 1..Len(raised) : a \in Alert /\ raised[a] \in Stamp
      BY <3>1, TypeFacts, Bounds DEF TypeOK, Alert
    <3>3. QED
      BY <3>2 DEF Init
  <2>2. Stamped(indexed) \subseteq Alert \X Stamp /\ Stamped(stored) = {}
    BY <2>1 DEF Stamped, Init
  <2>3. QED
    BY <2>2 DEF Init, Intake!Init
<1>2. ASSUME IInv, IInv', [Next]_vars
      PROVE  [Intake!Next]_(Intake!vars)
  <2>1. CASE \E a \in Alert : Index(a)
    BY <1>2, <2>1, IntakeAppears
  <2>2. CASE \E p \in Process : Commit(p)
    BY <1>2, <2>2, IntakeCommits
  <2>3. CASE Tick \/ Raise \/ UNCHANGED vars
    <3>1. UNCHANGED <<indexed, stored, first, state>>
      BY <2>3 DEF Tick, Raise, vars
    <3>2. \A a \in indexed : raised'[a] = raised[a]
      <4>1. indexed \subseteq 1..Len(raised) /\ raised \in Seq(Stamp)
        BY <1>2 DEF IInv, TypeOK
      <4>2. QED
        BY <2>3, <4>1 DEF Tick, Raise, vars
    <3>3. QED
      BY <1>2, <3>1, <3>2, IntakeStutters DEF Mark
  <2>4. ASSUME NEW p \in Process,
               \/ Begin(p) \/ FindNoState(p) \/ CreateState(p) \/ ReadCursor(p)
               \/ AlertsSince(p) \/ UpsertAlerts(p) \/ LoadState(p)
               \/ Fail(p) \/ Crash(p) \/ Restart(p)
        PROVE  UNCHANGED Intake!vars
    <3>1. UNCHANGED <<raised, indexed, stored, first>>
      BY <2>4 DEF Begin, FindNoState, CreateState, ReadCursor, AlertsSince, UpsertAlerts,
                  LoadState, Fail, Crash, Restart, Environment
    <3>2. first = None <=> Mark = None
      <4>1. state # None /\ state.last_success # None => state.last_success - Overlap # None
        BY <1>2, Bounds DEF IInv, TypeOK, StateRow
      <4>2. QED
        BY <1>2, <4>1 DEF IInv, MarkInv, Mark
    <3>3. first' = None => Mark' = None
      BY <1>2 DEF IInv, MarkInv, Mark
    <3>4. CASE first # None
      <4>1. state \in StateRow /\ state # None
        BY <1>2, <3>4, CursorFacts DEF IInv
      <4>2. state' = state \/ \E s \in Status : state' = [state EXCEPT !.status = s]
        BY <2>4, <4>1 DEF Begin, FindNoState, CreateState, ReadCursor, AlertsSince,
              UpsertAlerts, LoadState, Fail, Crash, Restart, Status
      <4>3. state' \in StateRow /\ state'.last_success = state.last_success
        BY <4>1, <4>2 DEF StateRow
      <4>4. state' # None
        BY <4>3, Bounds
      <4>5. UNCHANGED Mark
        BY <4>1, <4>3, <4>4 DEF Mark
      <4>6. QED
        BY <1>2, <3>1, <4>5, IntakeStutters
    <3>5. QED
      BY <1>2, <3>1, <3>2, <3>3, <3>4, IntakeStutters
  <2>5. QED
    BY <1>2, <2>1, <2>2, <2>3, <2>4 DEF Next
<1>3. QED
  BY <1>1, <1>2, Invariance, PTL DEF Spec, IntakeSpec, Intake!Spec
=============================================================================
