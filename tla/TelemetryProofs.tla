--------------------------- MODULE TelemetryProofs ---------------------------
(***************************************************************************)
(* Theorems about Telemetry for any sources, handlers, requests and        *)
(* clock bound.  ChainIntact alone is not inductive: a handler writes back *)
(* the row it read, so the argument needs that between its read and its    *)
(* commit the row cannot change (RowLocked).                               *)
(***************************************************************************)
EXTENDS Telemetry, TLAPS

\* A handler past its SELECT .. FOR UPDATE holds the lock of its source's row
\* and has in hand the row as it is committed now.
RowLocked ==
    \A h \in Handler :
        /\ handler[h].pc # "idle" => handler[h].payload \in Payload
        /\ handler[h].pc = "verifying" =>
             LET s == handler[h].payload.source_id IN
             /\ lock[s] = h
             /\ source[s] # NoSource
             /\ handler[h].row = source[s]

\* Rows are not deleted: what the evaluation has read still exists.
RowsPersist == \A s \in Source : worker.read[s] # NoSource => source[s] # NoSource

IInv == TypeOK /\ ChainIntact /\ RowLocked /\ RowsPersist

------------------------------------------------------------------------------
(* The rows that the operations compute.                                   *)

\* A score is a percent, whatever failed.
LEMMA EventScoreType ==
    ASSUME NEW p \in PayloadType, NEW row \in SourceRow
    PROVE  EventScore(p, VerifyEvent(p, row)) \in 0..100
<1>1. LatencyRatio(p.latency) \in 0..10
  BY DEF LatencyRatio, Greatest, Least, PayloadType
<1>2. \A i, c, f \in BOOLEAN, l \in 0..10 : CalculateTrustScore(i, c, f, l) \in 0..100
  BY DEF CalculateTrustScore, Weight, Greatest, Least
<1>3. /\ VerifyEvent(p, row).hash_valid \in BOOLEAN
      /\ VerifyEvent(p, row).signature_valid \in BOOLEAN
      /\ VerifyEvent(p, row).chain_valid \in BOOLEAN
      /\ VerifyEvent(p, row).sequence_valid \in BOOLEAN
      /\ p.fields_complete \in BOOLEAN
  BY DEF VerifyEvent, PayloadType
<1>4. QED
  BY <1>1, <1>2, <1>3 DEF EventScore

\* A quarantine leaves the head of the chain alone.
LEMMA QuarantinedRowType ==
    ASSUME NEW p \in PayloadType, NEW row \in SourceRow
    PROVE  /\ QuarantinedRow(row, p) \in SourceRow
           /\ QuarantinedRow(row, p).status = "critical"
           /\ QuarantinedRow(row, p).last_sequence = row.last_sequence
           /\ QuarantinedRow(row, p).last_event_hash = row.last_event_hash
BY EventScoreType DEF QuarantinedRow, SourceRow, Status

LEMMA AcceptedRowType ==
    ASSUME NEW p \in PayloadType, NEW row \in SourceRow, NEW at \in Nat
    PROVE  /\ AcceptedRow(row, p, at) \in SourceRow
           /\ AcceptedRow(row, p, at).last_sequence = p.sequence
           /\ AcceptedRow(row, p, at).last_event_hash = p.event_hash
<1>1. EventScore(p, VerifyEvent(p, row)) \in 0..100
  BY EventScoreType
<1>2. ScoreStatus(EventScore(p, VerifyEvent(p, row))) \in Status
  BY DEF ScoreStatus, Status
<1>3. QED
  BY <1>1, <1>2 DEF AcceptedRow, SourceRow, PayloadType

\* The band "healthy" is out of reach of an event with a missing field.
LEMMA HealthyNeedsCompleteness ==
    ASSUME NEW p \in PayloadType, NEW row \in SourceRow, NEW at \in Nat,
           AcceptedRow(row, p, at).status = "healthy"
    PROVE  p.fields_complete
<1>1. LatencyRatio(p.latency) \in 0..10
  BY DEF LatencyRatio, Greatest, Least, PayloadType
<1>2. \A i, c \in BOOLEAN, l \in 0..10 : CalculateTrustScore(i, c, FALSE, l) \in 0..80
  BY DEF CalculateTrustScore, Weight, Greatest, Least
<1>3. /\ VerifyEvent(p, row).hash_valid \in BOOLEAN
      /\ VerifyEvent(p, row).signature_valid \in BOOLEAN
      /\ VerifyEvent(p, row).chain_valid \in BOOLEAN
      /\ VerifyEvent(p, row).sequence_valid \in BOOLEAN
      /\ p.fields_complete \in BOOLEAN
  BY DEF VerifyEvent, PayloadType
<1>4. SUFFICES ASSUME p.fields_complete = FALSE PROVE FALSE
  BY <1>3
<1>5. EventScore(p, VerifyEvent(p, row)) \in 0..80
  BY <1>1, <1>2, <1>3, <1>4 DEF EventScore
<1>6. QED
  BY <1>5 DEF AcceptedRow, ScoreStatus

\* The evaluation touches status and score only, and never says healthy of a
\* row it changes.
LEMMA EvaluateType ==
    ASSUME NEW row \in SourceRow, NEW at \in Nat
    PROVE  /\ Evaluate(row, at) \in SourceRow
           /\ Evaluate(row, at) # row => Evaluate(row, at).status # "healthy"
<1>1. row.trust_score \in 0..100
  BY DEF SourceRow
<1>2. /\ Least(row.trust_score, 20) \in 0..100
      /\ Least(row.trust_score, 40) \in 0..100
      /\ Least(row.trust_score, 75) \in 0..100
  BY <1>1 DEF Least
<1>3. QED
  BY <1>2 DEF Evaluate, SourceRow, Status

LEMMA MergeType ==
    ASSUME NEW row \in SourceRow, NEW read \in SourceRow, NEW at \in Nat,
           Evaluate(read, at) # read
    PROVE  LET m == Merge(row, read, Evaluate(read, at)) IN
           /\ m \in SourceRow
           /\ m.last_sequence = row.last_sequence
           /\ m.last_event_hash = row.last_event_hash
           /\ m.status = "healthy" => row.status = "healthy"
<1>1. /\ Evaluate(read, at) \in SourceRow
      /\ Evaluate(read, at).status # "healthy"
  BY EvaluateType
<1>2. QED
  BY <1>1 DEF Merge, SourceRow

------------------------------------------------------------------------------
(* The invariant.                                                          *)

LEMMA InitInv == Init => IInv
<1>1. ASSUME Init PROVE TypeOK
  <2>1. NewRow \in SourceRow
    BY DEF NewRow, SourceRow, Status
  <2>2. QED
    BY <1>1 DEF Init, TypeOK, IdleHandler, IdleWorker
<1>2. ASSUME Init PROVE ChainIntact
  BY <1>2 DEF Init, ChainIntact, HeadHash
<1>3. ASSUME Init PROVE RowLocked
  BY <1>3 DEF Init, RowLocked, IdleHandler
<1>4. ASSUME Init PROVE RowsPersist
  BY <1>4 DEF Init, RowsPersist, IdleWorker
<1>5. QED
  BY <1>1, <1>2, <1>3, <1>4 DEF IInv

\* The steps that touch neither rows nor events keep the chains as they are.
LEMMA ChainUntouched ==
    ASSUME ChainIntact, UNCHANGED <<source, events>>
    PROVE  ChainIntact'
BY DEF ChainIntact, HeadHash

LEMMA RowsPersistStep ==
    ASSUME RowsPersist, worker' = worker,
           \A s \in Source : source[s] # NoSource => source'[s] # NoSource
    PROVE  RowsPersist'
BY DEF RowsPersist

LEMMA CreateSourceInv ==
    ASSUME IInv, NEW s \in Source, CreateSource(s)
    PROVE  IInv'
<1>. USE DEF IInv
<1>1. NewRow \in SourceRow /\ NewRow # NoSource
  BY NullAssumption DEF NewRow, SourceRow, Status
<1>2. TypeOK'
  BY <1>1 DEF CreateSource, TypeOK
<1>3. ChainIntact'
  <2>1. /\ source' = [source EXCEPT ![s] = NewRow]
        /\ source[s] = NoSource
        /\ events' = events
        /\ source \in [Source -> SourceRow \cup {NoSource}]
    BY DEF CreateSource, TypeOK
  <2>2. NewRow.last_sequence = 0 /\ NewRow.last_event_hash = NoHash
    BY DEF NewRow
  <2>3. QED
    BY <1>1, <2>1, <2>2 DEF ChainIntact, HeadHash
<1>4. RowLocked'
  BY <1>1 DEF CreateSource, TypeOK, RowLocked
<1>5. RowsPersist'
  BY <1>1, RowsPersistStep DEF CreateSource, TypeOK
<1>6. QED
  BY <1>2, <1>3, <1>4, <1>5

LEMMA BeginInv ==
    ASSUME IInv, NEW h \in Handler, NEW p \in Payload, Begin(h, p)
    PROVE  IInv'
<1>. USE DEF IInv
<1>1. TypeOK'
  BY DEF Begin, TypeOK, IdleHandler
<1>2. ChainIntact'
  BY ChainUntouched DEF Begin
<1>3. RowLocked'
  BY DEF Begin, TypeOK, RowLocked, IdleHandler
<1>4. RowsPersist'
  BY RowsPersistStep DEF Begin
<1>5. QED
  BY <1>1, <1>2, <1>3, <1>4

LEMMA RejectUnknownInv ==
    ASSUME IInv, NEW h \in Handler, RejectUnknown(h)
    PROVE  IInv'
<1>. USE DEF IInv
<1>1. TypeOK'
  BY DEF RejectUnknown, TypeOK, IdleHandler
<1>2. ChainIntact'
  BY ChainUntouched DEF RejectUnknown
<1>3. RowLocked'
  BY DEF RejectUnknown, TypeOK, RowLocked, IdleHandler
<1>4. RowsPersist'
  BY RowsPersistStep DEF RejectUnknown
<1>5. QED
  BY <1>1, <1>2, <1>3, <1>4

\* What is known of a handler that works on a payload.
LEMMA PayloadKnown ==
    ASSUME IInv, NEW h \in Handler, handler[h].pc # "idle"
    PROVE  /\ handler[h].payload \in Payload
           /\ handler[h].payload \in PayloadType
           /\ handler[h].payload.source_id \in Source
BY PayloadAssumption DEF IInv, RowLocked, PayloadType

LEMMA SelectForUpdateInv ==
    ASSUME IInv, NEW h \in Handler, SelectForUpdate(h)
    PROVE  IInv'
<1>. USE DEF IInv
<1>. DEFINE s == handler[h].payload.source_id
<1>1. /\ handler[h].payload \in Payload
      /\ s \in Source
      /\ source[s] # NoSource
      /\ lock[s] = Free
  BY PayloadKnown DEF SelectForUpdate
<1>2. TypeOK'
  BY <1>1 DEF SelectForUpdate, TypeOK
<1>3. ChainIntact'
  BY ChainUntouched DEF SelectForUpdate
<1>4. RowLocked'
  BY <1>1, HolderAssumption, PayloadAssumption
     DEF SelectForUpdate, TypeOK, RowLocked, PayloadType
<1>5. RowsPersist'
  BY RowsPersistStep DEF SelectForUpdate
<1>6. QED
  BY <1>2, <1>3, <1>4, <1>5

\* What a handler that has verified its event knows, and what the end of its
\* transaction does to the locks.
LEMMA VerifyingKnown ==
    ASSUME IInv, NEW h \in Handler, handler[h].pc = "verifying"
    PROVE  LET s == handler[h].payload.source_id IN
           /\ handler[h].payload \in Payload
           /\ handler[h].payload \in PayloadType
           /\ s \in Source
           /\ source[s] \in SourceRow
           /\ handler[h].row = source[s]
           /\ handler[h].at \in Nat
           /\ lock[s] = h
BY PayloadKnown DEF IInv, RowLocked, TypeOK

LEMMA FinishInv ==
    ASSUME IInv, NEW h \in Handler, handler[h].pc = "verifying", Finish(h),
           \A s \in Source \ {handler[h].payload.source_id} : source'[s] = source[s]
    PROVE  /\ lock' \in [Source -> Handler \cup {Worker, Free}]
           /\ handler' \in [Handler -> [pc : {"idle", "selecting", "verifying"},
                                        payload : Payload \cup {NoPayload},
                                        row : SourceRow \cup {NoSource},
                                        at : Nat]]
           /\ RowLocked'
<1>. USE DEF IInv
<1>1. /\ handler[h].payload.source_id \in Source
      /\ lock[handler[h].payload.source_id] = h
  BY VerifyingKnown
<1>2. lock' \in [Source -> Handler \cup {Worker, Free}]
  BY DEF Finish, TypeOK
<1>3. handler' \in [Handler -> [pc : {"idle", "selecting", "verifying"},
                                payload : Payload \cup {NoPayload},
                                row : SourceRow \cup {NoSource},
                                at : Nat]]
  BY DEF Finish, TypeOK, IdleHandler
<1>4. RowLocked'
  <2>. SUFFICES ASSUME NEW g \in Handler, handler'[g].pc # "idle"
       PROVE  /\ handler'[g].payload \in Payload
              /\ handler'[g].pc = "verifying" =>
                   LET s == handler'[g].payload.source_id IN
                   /\ lock'[s] = g
                   /\ source'[s] # NoSource
                   /\ handler'[g].row = source'[s]
    BY PayloadKnown DEF RowLocked, Finish, IdleHandler, TypeOK
  <2>1. g # h /\ handler'[g] = handler[g]
    BY DEF Finish, IdleHandler, TypeOK
  <2>2. handler[g].payload \in Payload
    BY <2>1, PayloadKnown
  <2>3. ASSUME handler[g].pc = "verifying"
        PROVE  LET s == handler[g].payload.source_id IN
               /\ lock'[s] = g
               /\ source'[s] # NoSource
               /\ handler[g].row = source'[s]
    <3>1. /\ handler[g].payload.source_id \in Source
          /\ lock[handler[g].payload.source_id] = g
          /\ source[handler[g].payload.source_id] # NoSource
          /\ handler[g].row = source[handler[g].payload.source_id]
      BY <2>3, VerifyingKnown DEF RowLocked
    <3>2. handler[g].payload.source_id # handler[h].payload.source_id
      BY <1>1, <2>1, <3>1
    <3>3. QED
      BY <3>1, <3>2 DEF Finish, TypeOK
  <2>4. QED
    BY <2>1, <2>2, <2>3
<1>5. QED
  BY <1>2, <1>3, <1>4

LEMMA QuarantineInv ==
    ASSUME IInv, NEW h \in Handler, Quarantine(h)
    PROVE  IInv'
<1>. USE DEF IInv
<1>. DEFINE p == handler[h].payload
            s == p.source_id
            new == QuarantinedRow(handler[h].row, p)
<1>1. handler[h].pc = "verifying" /\ Finish(h)
  BY DEF Quarantine
<1>2. /\ p \in PayloadType
      /\ s \in Source
      /\ source[s] \in SourceRow
      /\ handler[h].row = source[s]
  BY <1>1, VerifyingKnown
<1>3. source' = [source EXCEPT ![s] = new]
  BY DEF Quarantine
<1>4. /\ new \in SourceRow
      /\ new.last_sequence = source[s].last_sequence
      /\ new.last_event_hash = source[s].last_event_hash
  BY <1>2, QuarantinedRowType
<1>. HIDE DEF s, new, p
<1>5. \A r \in Source \ {s} : source'[r] = source[r]
  BY <1>3 DEF TypeOK
<1>6. /\ lock' \in [Source -> Handler \cup {Worker, Free}]
      /\ handler' \in [Handler -> [pc : {"idle", "selecting", "verifying"},
                                   payload : Payload \cup {NoPayload},
                                   row : SourceRow \cup {NoSource},
                                   at : Nat]]
      /\ RowLocked'
  BY <1>1, <1>5, FinishInv DEF s, p
<1>7. TypeOK'
  <2>1. source' \in [Source -> SourceRow \cup {NoSource}]
    BY <1>3, <1>4 DEF TypeOK
  <2>2. events' = events /\ worker' = worker /\ now' = now
    BY DEF Quarantine
  <2>3. QED
    BY <1>6, <2>1, <2>2 DEF TypeOK
<1>8. ChainIntact'
  <2>1. events' = events /\ source'[s] = new /\ source[s] # NoSource /\ new # NoSource
    BY <1>2, <1>3, <1>4, NullAssumption DEF Quarantine, TypeOK
  <2>2. QED
    BY <1>2, <1>4, <1>5, <2>1 DEF ChainIntact, HeadHash
<1>9. RowsPersist'
  BY <1>3, <1>4, <1>5, NullAssumption, RowsPersistStep DEF Quarantine, TypeOK
<1>10. QED
  BY <1>6, <1>7, <1>8, <1>9

\* A valid event carries the next number and points at the head, so no stored
\* event has its number.
LEMMA ValidExtends ==
    ASSUME IInv, NEW h \in Handler, handler[h].pc = "verifying",
           Valid(VerifyEvent(handler[h].payload, handler[h].row))
    PROVE  LET p == handler[h].payload
               s == p.source_id
           IN  /\ p.sequence = Len(events[s]) + 1
               /\ p.previous_hash = HeadHash(s)
               /\ p.hash_valid /\ p.signature_valid
               /\ ~Duplicate(p)
<1>. DEFINE p == handler[h].payload
            s == p.source_id
<1>1. /\ s \in Source
      /\ source[s] \in SourceRow
      /\ handler[h].row = source[s]
      /\ events[s] \in Seq(Payload)
  BY VerifyingKnown DEF IInv, TypeOK
<1>2. /\ source[s].last_sequence = Len(events[s])
      /\ source[s].last_event_hash = HeadHash(s)
      /\ \A i \in 1..Len(events[s]) : events[s][i].sequence = i
  BY <1>1, NullAssumption DEF IInv, ChainIntact
<1>3. /\ p.sequence = source[s].last_sequence + 1
      /\ p.previous_hash = source[s].last_event_hash
      /\ p.hash_valid /\ p.signature_valid
  BY <1>1 DEF Valid, VerifyEvent
<1>4. ~Duplicate(p)
  BY <1>1, <1>2, <1>3 DEF Duplicate
<1>5. QED
  BY <1>2, <1>3, <1>4

LEMMA AcceptInv ==
    ASSUME IInv, NEW h \in Handler, Accept(h)
    PROVE  IInv'
<1>. USE DEF IInv
<1>. DEFINE p == handler[h].payload
            s == p.source_id
            new == AcceptedRow(handler[h].row, p, handler[h].at)
<1>1. /\ handler[h].pc = "verifying"
      /\ Finish(h)
      /\ Valid(VerifyEvent(p, handler[h].row))
  BY DEF Accept
<1>2. /\ p \in Payload
      /\ p \in PayloadType
      /\ s \in Source
      /\ source[s] \in SourceRow
      /\ handler[h].row = source[s]
      /\ handler[h].at \in Nat
      /\ events[s] \in Seq(Payload)
  BY <1>1, VerifyingKnown DEF TypeOK
<1>3. /\ p.sequence = Len(events[s]) + 1
      /\ p.previous_hash = HeadHash(s)
      /\ p.hash_valid /\ p.signature_valid
      /\ ~Duplicate(p)
  BY <1>1, ValidExtends
<1>4. /\ source' = [source EXCEPT ![s] = new]
      /\ events' = [events EXCEPT ![s] = Append(@, p)]
  BY <1>3 DEF Accept
<1>5. /\ new \in SourceRow
      /\ new.last_sequence = p.sequence
      /\ new.last_event_hash = p.event_hash
  BY <1>2, AcceptedRowType
<1>. HIDE DEF s, new, p
<1>6. \A r \in Source \ {s} : source'[r] = source[r] /\ events'[r] = events[r]
  BY <1>4 DEF TypeOK
<1>7. /\ lock' \in [Source -> Handler \cup {Worker, Free}]
      /\ handler' \in [Handler -> [pc : {"idle", "selecting", "verifying"},
                                   payload : Payload \cup {NoPayload},
                                   row : SourceRow \cup {NoSource},
                                   at : Nat]]
      /\ RowLocked'
  BY <1>1, <1>6, FinishInv DEF s, p
<1>8. TypeOK'
  <2>1. source' \in [Source -> SourceRow \cup {NoSource}]
    BY <1>4, <1>5 DEF TypeOK
  <2>2. events' \in [Source -> Seq(Payload)]
    BY <1>2, <1>4 DEF TypeOK
  <2>3. worker' = worker /\ now' = now
    BY DEF Accept
  <2>4. QED
    BY <1>7, <2>1, <2>2, <2>3 DEF TypeOK
<1>9. ChainIntact'
  <2>1. /\ source'[s] = new
        /\ source[s] # NoSource
        /\ new # NoSource
        /\ events'[s] = Append(events[s], p)
    BY <1>2, <1>4, <1>5, NullAssumption DEF TypeOK
  <2>2. /\ Len(events'[s]) = Len(events[s]) + 1
        /\ events'[s] # <<>>
        /\ events'[s][Len(events[s]) + 1] = p
        /\ \A i \in 1..Len(events[s]) : events'[s][i] = events[s][i]
    BY <1>2, <2>1
  <2>3. ASSUME NEW i \in 1..Len(events'[s])
        PROVE  /\ events'[s][i].sequence = i
               /\ events'[s][i].previous_hash =
                    IF i = 1 THEN NoHash ELSE events'[s][i - 1].event_hash
               /\ events'[s][i].hash_valid /\ events'[s][i].signature_valid
    <3>1. CASE i \in 1..Len(events[s])
      <4>1. /\ events[s][i].sequence = i
            /\ events[s][i].previous_hash =
                 IF i = 1 THEN NoHash ELSE events[s][i - 1].event_hash
            /\ events[s][i].hash_valid /\ events[s][i].signature_valid
        BY <1>2, <3>1 DEF ChainIntact
      <4>2. i # 1 => i - 1 \in 1..Len(events[s])
        BY <1>2, <3>1
      <4>3. QED
        BY <2>2, <3>1, <4>1, <4>2
    <3>2. CASE i = Len(events[s]) + 1
      <4>1. Len(events[s]) \in Nat /\ (events[s] = <<>> <=> Len(events[s]) = 0)
        BY <1>2
      <4>2. HeadHash(s) = IF i = 1 THEN NoHash ELSE events'[s][i - 1].event_hash
        BY <2>2, <3>2, <4>1 DEF HeadHash
      <4>3. QED
        BY <1>3, <2>2, <3>2, <4>2 DEF s, p
    <3>3. QED
      BY <1>2, <2>2, <3>1, <3>2
  <2>4. /\ source'[s].last_sequence = Len(events'[s])
        /\ source'[s].last_event_hash = events'[s][Len(events'[s])].event_hash
    BY <1>2, <1>3, <1>5, <2>1, <2>2 DEF s, p
  <2>5. ASSUME NEW r \in Source
        PROVE  /\ \A i \in 1..Len(events'[r]) :
                    /\ events'[r][i].sequence = i
                    /\ events'[r][i].previous_hash =
                         IF i = 1 THEN NoHash ELSE events'[r][i - 1].event_hash
                    /\ events'[r][i].hash_valid /\ events'[r][i].signature_valid
               /\ source'[r] = NoSource => events'[r] = <<>>
               /\ source'[r] # NoSource =>
                    /\ source'[r].last_sequence = Len(events'[r])
                    /\ source'[r].last_event_hash = HeadHash(r)'
    <3>1. CASE r = s
      BY <2>1, <2>2, <2>3, <2>4, <3>1 DEF HeadHash
    <3>2. CASE r # s
      BY <1>6, <3>2 DEF ChainIntact, HeadHash
    <3>3. QED
      BY <3>1, <3>2
  <2>6. QED
    BY <2>5 DEF ChainIntact
<1>10. RowsPersist'
  BY <1>4, <1>5, <1>6, NullAssumption, RowsPersistStep DEF Accept, TypeOK
<1>11. QED
  BY <1>7, <1>8, <1>9, <1>10

LEMMA AbortInv ==
    ASSUME IInv, NEW h \in Handler, Abort(h)
    PROVE  IInv'
<1>1. /\ lock' \in [Source -> Handler \cup {Worker, Free}]
      /\ handler' \in [Handler -> [pc : {"idle", "selecting", "verifying"},
                                   payload : Payload \cup {NoPayload},
                                   row : SourceRow \cup {NoSource},
                                   at : Nat]]
      /\ RowLocked'
  BY FinishInv DEF Abort
<1>2. TypeOK'
  BY <1>1 DEF Abort, TypeOK, IInv
<1>3. ChainIntact'
  BY ChainUntouched DEF Abort, IInv
<1>4. RowsPersist'
  BY RowsPersistStep DEF Abort, IInv
<1>5. QED
  BY <1>1, <1>2, <1>3, <1>4 DEF IInv

\* The evaluation holds the lock of every row it writes, so no verifying
\* handler has such a row in hand, and it leaves the heads alone.
LEMMA WorkerCommitInv ==
    ASSUME IInv, WorkerCommit
    PROVE  IInv'
<1>. USE DEF IInv
<1>1. ASSUME NEW s \in Source, s \in Dirty
      PROVE  /\ lock[s] = Worker
             /\ source[s] # NoSource
             /\ source'[s] \in SourceRow
             /\ source'[s].last_sequence = source[s].last_sequence
             /\ source'[s].last_event_hash = source[s].last_event_hash
  <2>1. /\ source[s] \in SourceRow
        /\ worker.read[s] \in SourceRow
        /\ worker.at \in Nat
        /\ Evaluate(worker.read[s], worker.at) # worker.read[s]
    BY <1>1 DEF Dirty, TypeOK, RowsPersist
  <2>2. /\ lock[s] = Worker
        /\ source'[s] = Merge(source[s], worker.read[s],
                              Evaluate(worker.read[s], worker.at))
    BY <1>1 DEF WorkerCommit
  <2>3. QED
    BY <2>1, <2>2, MergeType, NullAssumption
<1>2. \A s \in Source \ Dirty : source'[s] = source[s]
  BY DEF WorkerCommit
<1>3. TypeOK'
  <2>1. source' \in [Source -> SourceRow \cup {NoSource}]
    <3>1. \A s \in Source : source'[s] \in SourceRow \cup {NoSource}
      BY <1>1, <1>2 DEF TypeOK
    <3>2. QED
      BY <3>1 DEF WorkerCommit
  <2>2. lock' \in [Source -> Handler \cup {Worker, Free}]
    BY DEF WorkerCommit, ReleaseWorker, TypeOK
  <2>3. QED
    BY <2>1, <2>2 DEF WorkerCommit, ReleaseWorker, IdleWorker, TypeOK
<1>4. ChainIntact'
  <2>1. events' = events
    BY DEF WorkerCommit
  <2>2. \A s \in Source :
           /\ source'[s] = NoSource <=> source[s] = NoSource
           /\ source[s] # NoSource =>
                /\ source'[s].last_sequence = source[s].last_sequence
                /\ source'[s].last_event_hash = source[s].last_event_hash
    BY <1>1, <1>2, NullAssumption
  <2>3. QED
    BY <2>1, <2>2 DEF ChainIntact, HeadHash
<1>5. RowLocked'
  <2>1. handler' = handler
    BY DEF WorkerCommit
  <2>2. ASSUME NEW h \in Handler, handler[h].pc = "verifying"
        PROVE  LET s == handler[h].payload.source_id IN
               /\ lock'[s] = h
               /\ source'[s] = source[s]
    <3>1. /\ handler[h].payload.source_id \in Source
          /\ lock[handler[h].payload.source_id] = h
      BY <2>2, VerifyingKnown
    <3>2. h # Worker
      BY HolderAssumption
    <3>3. QED
      BY <1>1, <1>2, <3>1, <3>2 DEF WorkerCommit, ReleaseWorker
  <2>3. QED
    BY <2>1, <2>2 DEF RowLocked
<1>6. RowsPersist'
  BY DEF WorkerCommit, ReleaseWorker, IdleWorker, RowsPersist
<1>7. QED
  BY <1>3, <1>4, <1>5, <1>6

LEMMA WorkerReadInv ==
    ASSUME IInv, WorkerRead
    PROVE  IInv'
<1>. USE DEF IInv
<1>1. TypeOK'
  BY DEF WorkerRead, TypeOK
<1>2. ChainIntact'
  BY ChainUntouched DEF WorkerRead
<1>3. RowLocked' /\ RowsPersist'
  BY DEF WorkerRead, RowLocked, RowsPersist
<1>4. QED
  BY <1>1, <1>2, <1>3

LEMMA WorkerUpdateInv ==
    ASSUME IInv, NEW s \in Source, WorkerUpdate(s)
    PROVE  IInv'
<1>. USE DEF IInv
<1>1. TypeOK'
  BY DEF WorkerUpdate, TypeOK
<1>2. ChainIntact'
  BY ChainUntouched DEF WorkerUpdate
<1>3. RowLocked'
  BY VerifyingKnown, HolderAssumption DEF WorkerUpdate, RowLocked, TypeOK
<1>4. RowsPersist'
  BY RowsPersistStep DEF WorkerUpdate
<1>5. QED
  BY <1>1, <1>2, <1>3, <1>4

LEMMA WorkerAbortInv ==
    ASSUME IInv, WorkerAbort
    PROVE  IInv'
<1>. USE DEF IInv
<1>1. TypeOK'
  BY DEF WorkerAbort, ReleaseWorker, IdleWorker, TypeOK
<1>2. ChainIntact'
  BY ChainUntouched DEF WorkerAbort
<1>3. RowLocked'
  <2>1. ASSUME NEW h \in Handler, handler[h].pc = "verifying"
        PROVE  lock'[handler[h].payload.source_id] = h
    BY <2>1, VerifyingKnown, HolderAssumption DEF WorkerAbort, ReleaseWorker
  <2>2. QED
    BY <2>1 DEF WorkerAbort, RowLocked
<1>4. RowsPersist'
  BY DEF WorkerAbort, ReleaseWorker, IdleWorker, RowsPersist
<1>5. QED
  BY <1>1, <1>2, <1>3, <1>4

LEMMA TickInv ==
    ASSUME IInv, Tick
    PROVE  IInv'
BY DEF Tick, IInv, TypeOK, ChainIntact, HeadHash, RowLocked, RowsPersist

\* Every step preserves the invariant.
LEMMA NextInv == IInv /\ [Next]_vars => IInv'
<1>. SUFFICES ASSUME IInv, [Next]_vars PROVE IInv'
  OBVIOUS
<1>1. ASSUME NEW s \in Source, CreateSource(s) PROVE IInv'
  BY <1>1, CreateSourceInv
<1>2. ASSUME NEW h \in Handler, Ingest(h) PROVE IInv'
  BY <1>2, BeginInv, RejectUnknownInv, SelectForUpdateInv, QuarantineInv,
     AcceptInv, AbortInv DEF Ingest
<1>3. ASSUME EvaluateHeartbeats PROVE IInv'
  BY <1>3, WorkerReadInv, WorkerUpdateInv, WorkerCommitInv, WorkerAbortInv
     DEF EvaluateHeartbeats
<1>4. ASSUME Tick PROVE IInv'
  BY <1>4, TickInv
<1>5. ASSUME UNCHANGED vars PROVE IInv'
  BY <1>5 DEF vars, IInv, TypeOK, ChainIntact, HeadHash, RowLocked, RowsPersist
<1>6. QED
  BY <1>1, <1>2, <1>3, <1>4, <1>5 DEF Next

\* The inductive invariant holds in every reachable state.
THEOREM Invariant == Spec => []IInv
BY InitInv, NextInv, PTL DEF Spec

------------------------------------------------------------------------------
(* The results.                                                            *)

\* Every variable keeps its type: in particular no quarantine or evaluation
\* leaves a score outside 0..100 (routers/telemetry.py, worker.py).
THEOREM TypeCorrect == Spec => []TypeOK
<1>1. IInv => TypeOK
  BY DEF IInv
<1>2. QED
  BY Invariant, <1>1, PTL

\* The chain of every source is intact whatever is sent, replayed, reordered
\* or forged, and however requests and the evaluation interleave.
THEOREM ChainIntegrity == Spec => []ChainIntact
<1>1. IInv => ChainIntact
  BY DEF IInv
<1>2. QED
  BY Invariant, <1>1, PTL

\* The unique constraint is never what stops a replay: the 409 branch of the
\* handler is unreachable (routers/telemetry.py:92-95).
THEOREM ConstraintNeverHit == Spec => []ReplayStoppedBeforeTheConstraint
<1>1. IInv => ReplayStoppedBeforeTheConstraint
  BY ValidExtends DEF ReplayStoppedBeforeTheConstraint
<1>2. QED
  BY Invariant, <1>1, PTL

\* What an accepted event does, and that nothing else inserts an event.
LEMMA AcceptStores ==
    ASSUME IInv, NEW h \in Handler, Accept(h)
    PROVE  LET p == handler[h].payload
               s == p.source_id
           IN  /\ source' = [source EXCEPT ![s] =
                               AcceptedRow(handler[h].row, p, handler[h].at)]
               /\ events' = [events EXCEPT ![s] = Append(@, p)]
BY ValidExtends DEF Accept

LEMMA OnlyAcceptStores ==
    ASSUME [Next]_vars, \A h \in Handler : ~Accept(h)
    PROVE  events' = events
BY DEF Next, Ingest, EvaluateHeartbeats, CreateSource, Begin, RejectUnknown,
       SelectForUpdate, Quarantine, Abort, WorkerRead, WorkerUpdate,
       WorkerCommit, WorkerAbort, Tick, vars

\* The service implements the abstract append-only log: an accepted event
\* extends its chain and every other step leaves all chains alone.
THEOREM ImplementsChainedLog == Spec => LogSpec
<1>1. Init => Log!Init
  BY DEF Init, Log!Init
<1>2. ASSUME IInv, [Next]_vars
      PROVE  [Log!Next]_events
  <2>1. ASSUME NEW h \in Handler, Accept(h)
        PROVE  Log!Next
    <3>. DEFINE p == handler[h].payload
                s == p.source_id
    <3>1. /\ p \in Payload
          /\ s \in Source
          /\ p.sequence = Len(events[s]) + 1
          /\ p.previous_hash = HeadHash(s)
      BY <1>2, <2>1, VerifyingKnown, ValidExtends DEF Accept
    <3>2. events' = [events EXCEPT ![s] = Append(@, p)]
      BY <1>2, <2>1, AcceptStores
    <3>3. Log!Extend(s, p)
      BY <3>1, <3>2 DEF Log!Extend, Log!Tip, HeadHash
    <3>4. QED
      BY <3>1, <3>3 DEF Log!Next
  <2>2. CASE \A h \in Handler : ~Accept(h)
    BY <1>2, <2>2, OnlyAcceptStores
  <2>3. QED
    BY <2>1, <2>2
<1>3. QED
  BY <1>1, <1>2, Invariant, PTL DEF Spec, LogSpec, Log!Spec

\* Neither the evaluation, with rows read long before, nor a quarantine makes
\* a source healthy: only a stored event without a missing field does.
THEOREM HealthyIsEarned == Spec => HealthyOnlyByAcceptedEvent
<1>. DEFINE Earned ==
       \A s \in Registered :
          source[s].status # "healthy" /\ source'[s].status = "healthy" =>
             /\ Len(events'[s]) = Len(events[s]) + 1
             /\ events'[s][Len(events'[s])].fields_complete
<1>1. ASSUME IInv, [Next]_vars
      PROVE  Earned
  <2>. SUFFICES ASSUME NEW r \in Source, source[r] # NoSource,
                       source[r].status # "healthy", source'[r].status = "healthy"
       PROVE  /\ Len(events'[r]) = Len(events[r]) + 1
              /\ events'[r][Len(events'[r])].fields_complete
    BY DEF Registered
  <2>1. source[r] \in SourceRow /\ source'[r] # source[r]
    BY <1>1 DEF IInv, TypeOK
  <2>2. ASSUME NEW h \in Handler, Accept(h)
        PROVE  /\ Len(events'[r]) = Len(events[r]) + 1
               /\ events'[r][Len(events'[r])].fields_complete
    <3>. DEFINE p == handler[h].payload
                s == p.source_id
    <3>1. /\ p \in PayloadType
          /\ s \in Source
          /\ handler[h].row \in SourceRow
          /\ handler[h].at \in Nat
          /\ events[s] \in Seq(Payload)
      BY <1>1, <2>2, VerifyingKnown DEF Accept, IInv, TypeOK
    <3>2. /\ source' = [source EXCEPT ![s] =
                          AcceptedRow(handler[h].row, p, handler[h].at)]
          /\ events' = [events EXCEPT ![s] = Append(@, p)]
      BY <1>1, <2>2, AcceptStores
    <3>3. /\ r = s
          /\ AcceptedRow(handler[h].row, p, handler[h].at).status = "healthy"
      BY <2>1, <3>1, <3>2, <1>1 DEF IInv, TypeOK
    <3>4. p.fields_complete
      BY <3>1, <3>3, HealthyNeedsCompleteness
    <3>5. events'[r] = Append(events[r], p)
      BY <3>1, <3>2, <3>3, <1>1 DEF IInv, TypeOK
    <3>6. QED
      BY <3>1, <3>3, <3>4, <3>5
  <2>3. ASSUME NEW h \in Handler, Quarantine(h)
        PROVE  FALSE
    <3>. DEFINE p == handler[h].payload
                s == p.source_id
    <3>1. /\ p \in PayloadType
          /\ handler[h].row \in SourceRow
          /\ source' = [source EXCEPT ![s] = QuarantinedRow(handler[h].row, p)]
      BY <1>1, <2>3, VerifyingKnown DEF Quarantine
    <3>2. source'[r] = source[r] \/ source'[r] = QuarantinedRow(handler[h].row, p)
      BY <3>1, <1>1 DEF IInv, TypeOK
    <3>3. QED
      BY <2>1, <3>1, <3>2, QuarantinedRowType
  <2>4. ASSUME WorkerCommit
        PROVE  FALSE
    <3>1. r \in Dirty
      BY <2>1, <2>4 DEF WorkerCommit
    <3>2. /\ worker.read[r] \in SourceRow
          /\ worker.at \in Nat
          /\ Evaluate(worker.read[r], worker.at) # worker.read[r]
      BY <1>1, <3>1 DEF Dirty, IInv, TypeOK
    <3>3. source'[r] = Merge(source[r], worker.read[r],
                             Evaluate(worker.read[r], worker.at))
      BY <2>4, <3>1 DEF WorkerCommit
    <3>4. QED
      BY <2>1, <3>2, <3>3, MergeType
  <2>5. ASSUME NEW s \in Source, CreateSource(s)
        PROVE  FALSE
    BY <1>1, <2>1, <2>5 DEF CreateSource, IInv, TypeOK
  <2>6. QED
    BY <1>1, <2>1, <2>2, <2>3, <2>4, <2>5
       DEF Next, Ingest, EvaluateHeartbeats, Begin, RejectUnknown,
           SelectForUpdate, Abort, WorkerRead, WorkerUpdate, WorkerAbort, Tick, vars
<1>2. [Next]_vars /\ IInv => [Earned]_vars
  BY <1>1
<1>3. QED
  BY <1>2, Invariant, PTL DEF Spec, HealthyOnlyByAcceptedEvent
==============================================================================
