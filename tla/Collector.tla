------------------------------ MODULE Collector ------------------------------
(***************************************************************************)
(* A collector agent, the network, and the chain the service keeps for it. *)
(*                                                                         *)
(* The agent (trust_agent/main.py) repeats: send again what is spooled,    *)
(* sign a heartbeat numbered after the last acknowledged event, send it,   *)
(* spool it if that failed, sleep.  Its sequence and last hash live in     *)
(* memory and in the state file, the spool is a file of its own.  Calls    *)
(* and answers get lost, a call given up by the agent may still reach the  *)
(* service, and the agent may die anywhere and be restarted (systemd).     *)
(*                                                                         *)
(* The service answers 200 to an event it stores and to an event it        *)
(* quarantines, and the agent looks at the status code only.  Telemetry    *)
(* shows that concurrent ingestion is serialised by the row lock, so here  *)
(* one call is one step of the service.                                    *)
(***************************************************************************)
EXTENDS TrustScore, Sequences, Functions

CONSTANTS
    NoCall,        \* no request is open
    MaxEvents,     \* bound on the events the agent signs
    MaxFailures,   \* bound on the calls that fail
    MaxCrashes     \* bound on the times the agent dies

ASSUME BoundsAssumption ==
    MaxEvents \in Nat /\ MaxFailures \in Nat /\ MaxCrashes \in Nat

VARIABLES
    state,      \* Collector.state: what the agent believes was last taken
    saved,      \* the state file
    spool,      \* the spool file
    pc,         \* where the agent is in run() and flush()
    todo,       \* flush(): events read and not sent yet
    remaining,  \* flush(): events that could not be sent
    call,       \* the open request of the agent
    late,       \* calls the agent gave up that may still reach the service
    head,       \* the service's row: last_sequence and last_event_hash
    stored,     \* the service's telemetry_events of this source
    signed,     \* history: every event signed, in order
    spooled,    \* history: every event that was put into the spool
    failures,   \* calls that failed so far
    crashes     \* times the agent died so far

disk == <<saved, spool>>
memory == <<state, pc, todo, remaining>>
service == <<head, stored>>
history == <<signed, spooled>>
vars == <<disk, memory, call, late, service, history, failures, crashes>>

NoHash == 0
NoState == [sequence |-> 0, last_hash |-> NoHash]

\* The digest of an event is represented by its place among those signed.
Hash == 1..MaxEvents
Event ==
    [sequence : 1..MaxEvents, previous_hash : Hash \cup {NoHash},
     event_hash : Hash, hash_valid : {TRUE}, signature_valid : {TRUE}]

ASSUME NoCallAssumption == NoCall \notin [event : Event, answered : BOOLEAN]

Init ==
    /\ state = NoState /\ saved = NoState
    /\ spool = <<>> /\ todo = <<>> /\ remaining = <<>>
    /\ pc = "flush"
    /\ call = NoCall /\ late = {}
    /\ head = [last_sequence |-> 0, last_event_hash |-> NoHash] /\ stored = <<>>
    /\ signed = <<>> /\ spooled = {}
    /\ failures = 0 /\ crashes = 0

------------------------------------------------------------------------------
(* The service                                                             *)

\* Mutant: any event with the next number is stored.
IngestUnchained(e) ==
    IF e.sequence = head.last_sequence + 1
    THEN /\ stored' = Append(stored, e)
         /\ head' = [last_sequence |-> e.sequence, last_event_hash |-> e.event_hash]
    ELSE UNCHANGED service

\* A valid event is stored and becomes the head; a quarantined one changes
\* nothing of the chain.  Both are answered with 200.
Ingest(e) ==
    IF Valid(VerifyEvent(e, head))
    THEN /\ stored' = Append(stored, e)
         /\ head' = [last_sequence |-> e.sequence, last_event_hash |-> e.event_hash]
    ELSE UNCHANGED service

Serve ==
    /\ call # NoCall
    /\ ~call.answered
    /\ Ingest(call.event)
    /\ call' = [call EXCEPT !.answered = TRUE]
    /\ UNCHANGED <<disk, memory, late, history, failures, crashes>>

ServeLate(c) ==
    /\ Ingest(c.event)
    /\ late' = late \ {c}
    /\ UNCHANGED <<disk, memory, call, history, failures, crashes>>

------------------------------------------------------------------------------
(* The agent                                                               *)

Open(e) == call' = [event |-> e, answered |-> FALSE]

\* Mutant: the agent counts on from its number, not from the event's.
AcknowledgeCounting(e) ==
    /\ state' = [sequence |-> state.sequence + 2, last_hash |-> e.event_hash]
    /\ saved' = state'
    /\ call' = NoCall

\* Mutant: the state is not written to its file.
AcknowledgeInMemory(e) ==
    /\ state' = [sequence |-> e.sequence, last_hash |-> e.event_hash]
    /\ call' = NoCall
    /\ UNCHANGED saved

\* send() after a 200: the event is taken for the last accepted one.
Acknowledge(e) ==
    /\ state' = [sequence |-> e.sequence, last_hash |-> e.event_hash]
    /\ saved' = state'
    /\ call' = NoCall

\* The agent stops waiting.  A request the service has not seen by then is
\* lost, or is on its way still.  (No two calls are given up at the same
\* failures + crashes, which tells apart two late copies of one event.)
GiveUp ==
    /\ call' = NoCall
    /\ \/ UNCHANGED late
       \/ /\ ~call.answered
          /\ late' = late \cup {[event |-> call.event, at |-> failures + crashes]}

\* A timeout, a connection error or a status other than 200.
Fail ==
    /\ call # NoCall
    /\ failures < MaxFailures
    /\ failures' = failures + 1
    /\ GiveUp

ReadSpool ==
    /\ pc = "flush"
    /\ todo' = spool
    /\ remaining' = <<>>
    /\ pc' = "flushing"
    /\ UNCHANGED <<state, disk, call, late, service, history, failures, crashes>>

Resend ==
    /\ pc = "flushing" /\ call = NoCall
    /\ todo # <<>>
    /\ Open(Head(todo))
    /\ UNCHANGED <<disk, memory, late, service, history, failures, crashes>>

ResendAcknowledged ==
    /\ pc = "flushing" /\ call # NoCall
    /\ call.answered
    /\ Acknowledge(call.event)
    /\ todo' = Tail(todo)
    /\ UNCHANGED <<spool, pc, remaining, late, service, history, failures, crashes>>

ResendFailed ==
    /\ pc = "flushing"
    /\ Fail
    /\ todo' = Tail(todo)
    /\ remaining' = Append(remaining, call.event)
    /\ UNCHANGED <<state, pc, disk, service, history, crashes>>

\* Mutant: what could not be sent is added to the file instead of replacing it.
EndFlushAppending ==
    /\ pc = "flushing" /\ call = NoCall
    /\ todo = <<>>
    /\ spool' = spool \o remaining
    /\ pc' = "beat"
    /\ remaining' = <<>>
    /\ UNCHANGED <<state, saved, todo, call, late, service, history, failures, crashes>>

\* The spool file is replaced by what could not be sent.
EndFlush ==
    /\ pc = "flushing" /\ call = NoCall
    /\ todo = <<>>
    /\ spool' = remaining
    /\ pc' = "beat"
    /\ remaining' = <<>>
    /\ UNCHANGED <<state, saved, todo, call, late, service, history, failures, crashes>>

\* heartbeat(): the event after the one last acknowledged.
SignEvent ==
    [sequence |-> state.sequence + 1, previous_hash |-> state.last_hash,
     event_hash |-> Len(signed) + 1, hash_valid |-> TRUE, signature_valid |-> TRUE]

Heartbeat ==
    /\ pc = "beat"
    /\ Len(signed) < MaxEvents
    /\ signed' = Append(signed, SignEvent)
    /\ Open(SignEvent)
    /\ pc' = "beating"
    /\ UNCHANGED <<state, todo, remaining, disk, late, service, spooled, failures, crashes>>

\* The bound on events is reached: the agent only flushes from here on.
NoMoreHeartbeats ==
    /\ pc = "beat"
    /\ Len(signed) = MaxEvents
    /\ pc' = "sleep"
    /\ UNCHANGED <<state, todo, remaining, disk, call, late, service, history, failures, crashes>>

HeartbeatAcknowledged ==
    /\ pc = "beating"
    /\ call.answered
    /\ Acknowledge(call.event)
    /\ pc' = "sleep"
    /\ UNCHANGED <<spool, todo, remaining, late, service, history, failures, crashes>>

\* Mutant: the failed heartbeat is given up.
HeartbeatDropped ==
    /\ pc = "beating"
    /\ Fail
    /\ pc' = "sleep"
    /\ UNCHANGED <<state, disk, todo, remaining, service, history, crashes>>

HeartbeatFailed ==
    /\ pc = "beating"
    /\ Fail
    /\ spool' = Append(spool, call.event)
    /\ spooled' = spooled \cup {call.event}
    /\ pc' = "sleep"
    /\ UNCHANGED <<state, saved, todo, remaining, service, signed, crashes>>

Wake ==
    /\ pc = "sleep"
    /\ pc' = "flush"
    /\ UNCHANGED <<state, todo, remaining, disk, call, late, service, history, failures, crashes>>

\* The process dies; its open request may have got through, or may yet.
Crash ==
    /\ pc # "down"
    /\ crashes < MaxCrashes
    /\ crashes' = crashes + 1
    /\ pc' = "down"
    /\ state' = NoState /\ todo' = <<>> /\ remaining' = <<>>
    /\ IF call = NoCall THEN UNCHANGED <<call, late>> ELSE GiveUp
    /\ UNCHANGED <<disk, service, history, failures>>

\* The restarted process loads the state file.
Restart ==
    /\ pc = "down"
    /\ state' = saved
    /\ pc' = "flush"
    /\ UNCHANGED <<todo, remaining, disk, call, late, service, history, failures, crashes>>

Agent ==
    \/ ReadSpool \/ Resend \/ ResendAcknowledged \/ ResendFailed \/ EndFlush
    \/ Heartbeat \/ NoMoreHeartbeats \/ HeartbeatAcknowledged \/ HeartbeatFailed
    \/ Wake \/ Restart

Next ==
    \/ Agent
    \/ Serve
    \/ \E c \in late : ServeLate(c)
    \/ Crash

(* The agent's loop and the service go on; calls fail and the agent dies   *)
(* only as often as the bounds say, so from some time on the network works.*)
Fairness == WF_vars(Agent) /\ WF_vars(Serve)

Spec == Init /\ [][Next]_vars
FairSpec == Spec /\ Fairness

------------------------------------------------------------------------------
(* Properties                                                              *)

TypeOK ==
    /\ state \in [sequence : 0..MaxEvents, last_hash : 0..MaxEvents]
    /\ saved \in [sequence : 0..MaxEvents, last_hash : 0..MaxEvents]
    /\ spool \in Seq(Event) /\ todo \in Seq(Event) /\ remaining \in Seq(Event)
    /\ pc \in {"flush", "flushing", "beat", "beating", "sleep", "down"}
    /\ call \in [event : Event, answered : BOOLEAN] \cup {NoCall}
    /\ late \subseteq [event : Event, at : Nat]
    /\ head \in [last_sequence : 0..MaxEvents, last_event_hash : 0..MaxEvents]
    /\ stored \in Seq(Event)
    /\ signed \in Seq(Event) /\ spooled \subseteq Event
    /\ failures \in 0..MaxFailures /\ crashes \in 0..MaxCrashes

\* With at most one failed call and no crash nothing is lost and nobody falls
\* out of step: once the spool is empty again every event that was signed is
\* stored, in the order it was signed, and the agent continues the chain at
\* its head, whether the call, its answer or both sides of it were lost.
OneFailureHeals ==
    failures <= 1 /\ crashes = 0 /\ pc = "beat" /\ spool = <<>> =>
        /\ stored = signed
        /\ state.last_hash = head.last_event_hash
        /\ state.sequence = head.last_sequence

\* Two events compete for one place in the chain.
Forked ==
    \E i, j \in DOMAIN signed : i # j /\ signed[i].sequence = signed[j].sequence

\* As long as no sequence was used twice, the agent's state file names an event
\* the service has stored, and without a crash that is the last one or the one
\* before it.  (After a crash between the acknowledgement of a spooled event and
\* the replacement of the spool, the event is sent again later and takes the
\* state file back to it.)
StateFileOnChain ==
    ~Forked =>
        /\ saved.sequence <= Len(stored)
        /\ saved.last_hash = IF saved.sequence = 0 THEN NoHash
                             ELSE stored[saved.sequence].event_hash
        /\ crashes = 0 => saved.sequence >= Len(stored) - 1

Outstanding ==
    Range(spool) \cup Range(todo) \cup Range(remaining)
      \cup {c.event : c \in late} \cup (IF call = NoCall THEN {} ELSE {call.event})

\* Some event that the agent still has, or can sign next, would be stored if
\* it came now; or it is the head itself, whose acknowledgement would bring
\* the agent back.
Recoverable ==
    \/ saved.last_hash = head.last_event_hash
    \/ state.last_hash = head.last_event_hash /\ pc # "down"
    \/ \E e \in Outstanding :
          \/ e.event_hash = head.last_event_hash
          \/ e.previous_hash = head.last_event_hash

\* An agent that has lost the chain never finds it again: every later event
\* is quarantined, since only the last acknowledged event is built upon.
LockedOutForGood == [][~Recoverable => ~Recoverable']_vars

\* Once calls succeed the spool drains, also when the service quarantines
\* what is in it.
SpoolDrains == spool # <<>> ~> spool = <<>>

Log == INSTANCE ChainedLog
         WITH Chain <- {"source"}, Entry <- Event, Genesis <- NoHash,
              log <- [c \in {"source"} |-> stored]

\* From end to end the stored events form the abstract chained log.
LogSpec == Log!Spec

\* docs/ARCHITECTURE.md says that events include a monotonic sequence.
SequenceNeverReused == ~Forked

\* docs/ARCHITECTURE.md says that a local spool retains events during network
\* interruption: what was spooled is stored, or still in the spool.
SpooledEventKept == \A e \in spooled : e \in Range(stored) \cup Range(spool)
==============================================================================
