--------------------------- MODULE CollectorProofs ---------------------------
(***************************************************************************)
(* Theorems about Collector for any number of events, failures and         *)
(* crashes.                                                                *)
(***************************************************************************)
EXTENDS Collector, TLAPS

\* The events signed so far.  The agent numbers an event after one it signed
\* before, so no sequence exceeds the event's place among those signed.
Known == {e \in Event : e.sequence <= e.event_hash /\ e.event_hash <= Len(signed)}

\* What a state of the agent can be: the initial one, or a known event's.
Mark == {m \in [sequence : Nat, last_hash : Nat] :
           m.sequence <= m.last_hash /\ m.last_hash <= Len(signed)}

SignedInv == signed \in Seq(Event) /\ Len(signed) <= MaxEvents

AgentInv ==
    /\ state \in Mark /\ saved \in Mark
    /\ spool \in Seq(Known) /\ todo \in Seq(Known) /\ remaining \in Seq(Known)
    /\ spooled \subseteq Known
    /\ pc \in {"flush", "flushing", "beat", "beating", "sleep", "down"}

CallInv ==
    /\ call \in [event : Known, answered : BOOLEAN] \cup {NoCall}
    /\ late \subseteq [event : Known, at : Nat]
    /\ pc = "beating" => call # NoCall
    /\ pc \in {"flush", "beat", "sleep", "down"} => call = NoCall
    /\ pc = "flushing" /\ call # NoCall => todo # <<>>

ServiceInv ==
    /\ stored \in Seq(Known)
    /\ head = [last_sequence |-> Len(stored),
               last_event_hash |-> IF stored = <<>> THEN NoHash
                                   ELSE stored[Len(stored)].event_hash]
    /\ stored # <<>> => stored[Len(stored)].sequence = Len(stored)

CountInv == failures \in 0..MaxFailures /\ crashes \in 0..MaxCrashes

IInv == SignedInv /\ AgentInv /\ CallInv /\ ServiceInv /\ CountInv

------------------------------------------------------------------------------

LEMMA InitInv == Init => IInv
<1>. SUFFICES ASSUME Init PROVE IInv
  OBVIOUS
<1>. USE BoundsAssumption DEF Init
<1>1. SignedInv /\ CountInv
  BY DEF SignedInv, CountInv
<1>2. AgentInv
  BY DEF AgentInv, Mark, NoState, NoHash
<1>3. CallInv /\ ServiceInv
  BY DEF CallInv, ServiceInv
<1>4. QED
  BY <1>1, <1>2, <1>3 DEF IInv

LEMMA HashIsNat == \A e \in Event : e.event_hash \in Nat
BY BoundsAssumption DEF Event, Hash

\* Signing one more event leaves everything known known.
LEMMA KnownGrows ==
    ASSUME SignedInv, signed' = signed \/ signed' = Append(signed, SignEvent)
    PROVE  /\ Known \subseteq Known'
           /\ Mark \subseteq Mark'
           /\ Seq(Known) \subseteq Seq(Known')
<1>1. Len(signed) \in Nat /\ Len(signed') \in Nat /\ Len(signed') >= Len(signed)
  BY DEF SignedInv
<1>2. Known \subseteq Known'
  <2>1. \A e \in Known : e \in Event /\ e.event_hash \in Nat /\ e.event_hash <= Len(signed)
    <3>1. \A e \in Known : e \in Event /\ e.event_hash <= Len(signed)
      BY DEF Known
    <3>2. QED
      BY <3>1, HashIsNat
  <2>2. \A e \in Known : e.event_hash <= Len(signed')
    BY <1>1, <2>1
  <2>3. QED
    BY <2>1, <2>2 DEF Known
<1>3. Mark \subseteq Mark'
  BY <1>1 DEF Mark
<1>4. QED
  BY <1>2, <1>3

LEMMA SignEventKnown ==
    ASSUME SignedInv, state \in Mark, Len(signed) < MaxEvents
    PROVE  /\ SignEvent \in Event
           /\ SignEvent.event_hash = Len(signed) + 1
           /\ SignEvent.sequence <= Len(signed) + 1
           /\ SignEvent.previous_hash = state.last_hash
BY BoundsAssumption DEF SignEvent, SignedInv, Mark, Event, Hash, NoHash

LEMMA KnownMark ==
    ASSUME SignedInv, NEW e \in Known
    PROVE  [sequence |-> e.sequence, last_hash |-> e.event_hash] \in Mark
BY DEF Known, Mark, Event, Hash, SignedInv

\* An ingested event extends the chain or changes nothing.
LEMMA IngestInv ==
    ASSUME ServiceInv, NEW e \in Known, Ingest(e)
    PROVE  \/ UNCHANGED service
           \/ /\ e.sequence = Len(stored) + 1
              /\ e.previous_hash = head.last_event_hash
              /\ stored' = Append(stored, e)
              /\ stored' \in Seq(Known)
              /\ head' = [last_sequence |-> Len(stored'),
                          last_event_hash |-> stored'[Len(stored')].event_hash]
              /\ stored' # <<>>
              /\ stored'[Len(stored')].sequence = Len(stored')
              /\ head'.last_event_hash = e.event_hash
<1>1. CASE ~Valid(VerifyEvent(e, head))
  BY <1>1 DEF Ingest
<1>2. CASE Valid(VerifyEvent(e, head))
  <2>1. /\ e.sequence = Len(stored) + 1
        /\ e.previous_hash = head.last_event_hash
    BY <1>2 DEF Valid, VerifyEvent, ServiceInv
  <2>2. /\ stored' = Append(stored, e)
        /\ head' = [last_sequence |-> e.sequence, last_event_hash |-> e.event_hash]
    BY <1>2 DEF Ingest
  <2>3. stored \in Seq(Known)
    BY DEF ServiceInv
  <2>4. QED
    BY <2>1, <2>2, <2>3
<1>3. QED
  BY <1>1, <1>2

LEMMA ServiceStep ==
    ASSUME ServiceInv, NEW e \in Known, Ingest(e), signed' = signed
    PROVE  ServiceInv'
<1>1. Known' = Known
  BY DEF Known
<1>2. CASE UNCHANGED service
  BY <1>1, <1>2 DEF ServiceInv, service
<1>3. CASE ~UNCHANGED service
  BY <1>1, <1>3, IngestInv DEF ServiceInv
<1>4. QED
  BY <1>2, <1>3

\* Steps of the agent that sign nothing and leave the service alone.
LEMMA FrameStep ==
    ASSUME IInv, UNCHANGED <<signed, service>>
    PROVE  SignedInv' /\ ServiceInv' /\ Known' = Known /\ Mark' = Mark
BY DEF IInv, SignedInv, ServiceInv, Known, Mark, service

LEMMA ServeInv == ASSUME IInv, Serve PROVE IInv'
<1>1. call.event \in Known /\ signed' = signed /\ Known' = Known /\ Mark' = Mark
  BY DEF Serve, IInv, CallInv, history, Known, Mark
<1>2. ServiceInv'
  BY <1>1, ServiceStep DEF Serve, IInv
<1>3. SignedInv' /\ CountInv' /\ AgentInv'
  BY <1>1 DEF Serve, IInv, SignedInv, CountInv, AgentInv, disk, memory, history
<1>4. CallInv'
  BY <1>1, NoCallAssumption DEF Serve, IInv, CallInv, memory, Known
<1>5. QED
  BY <1>2, <1>3, <1>4 DEF IInv

LEMMA ServeLateInv == ASSUME IInv, NEW c \in late, ServeLate(c) PROVE IInv'
<1>1. c.event \in Known /\ signed' = signed /\ Known' = Known /\ Mark' = Mark
  BY DEF ServeLate, IInv, CallInv, history, Known, Mark
<1>2. ServiceInv'
  BY <1>1, ServiceStep DEF ServeLate, IInv
<1>3. SignedInv' /\ CountInv' /\ AgentInv'
  BY <1>1 DEF ServeLate, IInv, SignedInv, CountInv, AgentInv, disk, memory, history
<1>4. CallInv'
  BY <1>1 DEF ServeLate, IInv, CallInv, memory
<1>5. QED
  BY <1>2, <1>3, <1>4 DEF IInv

\* Giving a call up leaves no open call and at most one more late one.
LEMMA GiveUpInv ==
    ASSUME IInv, GiveUp, call # NoCall
    PROVE  /\ call.event \in Known
           /\ call' = NoCall
           /\ late' \subseteq [event : Known, at : Nat]
           /\ {c.event : c \in late'} \subseteq {c.event : c \in late} \cup {call.event}
<1>1. call.event \in Known
  BY DEF IInv, CallInv
<1>2. failures + crashes \in Nat
  BY BoundsAssumption DEF IInv, CountInv
<1>3. QED
  BY <1>1, <1>2 DEF GiveUp, IInv, CallInv

\* The agent's steps that only move pc, or fill and empty its local lists.
LEMMA QuietInv ==
    ASSUME IInv, ReadSpool \/ Resend \/ EndFlush \/ NoMoreHeartbeats \/ Wake \/ Restart
    PROVE  IInv'
<1>1. UNCHANGED <<signed, service>>
  BY DEF ReadSpool, Resend, EndFlush, NoMoreHeartbeats, Wake, Restart, history
<1>2. SignedInv' /\ ServiceInv' /\ Known' = Known /\ Mark' = Mark
  BY <1>1, FrameStep
<1>3. CountInv'
  BY DEF ReadSpool, Resend, EndFlush, NoMoreHeartbeats, Wake, Restart, IInv, CountInv
<1>4. AgentInv'
  <2>. USE <1>2 DEF IInv, AgentInv, disk, memory, history
  <2>1. CASE ReadSpool
    BY <2>1 DEF ReadSpool
  <2>2. CASE Resend
    BY <2>2 DEF Resend
  <2>3. CASE EndFlush
    BY <2>3 DEF EndFlush
  <2>4. CASE NoMoreHeartbeats \/ Wake
    BY <2>4 DEF NoMoreHeartbeats, Wake
  <2>5. CASE Restart
    BY <2>5 DEF Restart
  <2>6. QED
    BY <2>1, <2>2, <2>3, <2>4, <2>5
<1>5. CallInv'
  <2>1. ASSUME Resend PROVE call' \in [event : Known, answered : BOOLEAN]
    BY <2>1 DEF Resend, Open, IInv, AgentInv
  <2>2. QED
    BY <1>2, <2>1, NoCallAssumption
       DEF ReadSpool, Resend, EndFlush, NoMoreHeartbeats, Wake, Restart, IInv,
           CallInv, disk, memory, Known
<1>6. QED
  BY <1>2, <1>3, <1>4, <1>5 DEF IInv

LEMMA ResendAcknowledgedInv == ASSUME IInv, ResendAcknowledged PROVE IInv'
<1>1. UNCHANGED <<signed, service>>
  BY DEF ResendAcknowledged, history
<1>2. SignedInv' /\ ServiceInv' /\ Known' = Known /\ Mark' = Mark
  BY <1>1, FrameStep
<1>3. call.event \in Known /\ todo # <<>>
  BY DEF ResendAcknowledged, IInv, CallInv
<1>4. state' \in Mark /\ saved' \in Mark /\ call' = NoCall
  BY <1>3, KnownMark DEF ResendAcknowledged, Acknowledge, IInv
<1>5. todo' \in Seq(Known)
  BY <1>3 DEF ResendAcknowledged, IInv, AgentInv
<1>6. AgentInv' /\ CountInv'
  BY <1>2, <1>4, <1>5
     DEF ResendAcknowledged, IInv, AgentInv, CountInv, history
<1>7. CallInv'
  BY <1>2, <1>4 DEF ResendAcknowledged, IInv, CallInv
<1>8. QED
  BY <1>2, <1>6, <1>7 DEF IInv

LEMMA HeartbeatAcknowledgedInv == ASSUME IInv, HeartbeatAcknowledged PROVE IInv'
<1>1. UNCHANGED <<signed, service>>
  BY DEF HeartbeatAcknowledged, history
<1>2. SignedInv' /\ ServiceInv' /\ Known' = Known /\ Mark' = Mark
  BY <1>1, FrameStep
<1>3. call.event \in Known
  BY DEF HeartbeatAcknowledged, IInv, CallInv
<1>4. state' \in Mark /\ saved' \in Mark /\ call' = NoCall
  BY <1>3, KnownMark DEF HeartbeatAcknowledged, Acknowledge, IInv
<1>5. AgentInv' /\ CountInv'
  BY <1>2, <1>4 DEF HeartbeatAcknowledged, IInv, AgentInv, CountInv, history
<1>6. CallInv'
  BY <1>2, <1>4 DEF HeartbeatAcknowledged, IInv, CallInv
<1>7. QED
  BY <1>2, <1>5, <1>6 DEF IInv

LEMMA ResendFailedInv == ASSUME IInv, ResendFailed PROVE IInv'
<1>1. UNCHANGED <<signed, service>> /\ call # NoCall /\ GiveUp
  BY DEF ResendFailed, Fail, history
<1>2. SignedInv' /\ ServiceInv' /\ Known' = Known /\ Mark' = Mark
  BY <1>1, FrameStep
<1>3. /\ call.event \in Known
      /\ call' = NoCall
      /\ late' \subseteq [event : Known, at : Nat]
  BY <1>1, GiveUpInv
<1>4. todo # <<>>
  BY <1>1 DEF ResendFailed, IInv, CallInv
<1>5. todo' \in Seq(Known) /\ remaining' \in Seq(Known)
  BY <1>3, <1>4 DEF ResendFailed, IInv, AgentInv
<1>6. AgentInv' /\ CountInv'
  BY <1>2, <1>5, BoundsAssumption
     DEF ResendFailed, Fail, IInv, AgentInv, CountInv, disk, history
<1>7. CallInv'
  BY <1>2, <1>3 DEF ResendFailed, IInv, CallInv
<1>8. QED
  BY <1>2, <1>6, <1>7 DEF IInv

LEMMA HeartbeatFailedInv == ASSUME IInv, HeartbeatFailed PROVE IInv'
<1>1. UNCHANGED <<signed, service>> /\ call # NoCall /\ GiveUp
  BY DEF HeartbeatFailed, Fail
<1>2. SignedInv' /\ ServiceInv' /\ Known' = Known /\ Mark' = Mark
  BY <1>1, FrameStep
<1>3. /\ call.event \in Known
      /\ call' = NoCall
      /\ late' \subseteq [event : Known, at : Nat]
  BY <1>1, GiveUpInv
<1>4. spool' \in Seq(Known) /\ spooled' \subseteq Known
  BY <1>3 DEF HeartbeatFailed, IInv, AgentInv
<1>5. AgentInv' /\ CountInv'
  BY <1>2, <1>4, BoundsAssumption
     DEF HeartbeatFailed, Fail, IInv, AgentInv, CountInv
<1>6. CallInv'
  BY <1>2, <1>3 DEF HeartbeatFailed, IInv, CallInv
<1>7. QED
  BY <1>2, <1>5, <1>6 DEF IInv

LEMMA CrashInv == ASSUME IInv, Crash PROVE IInv'
<1>1. UNCHANGED <<signed, service>>
  BY DEF Crash, history
<1>2. SignedInv' /\ ServiceInv' /\ Known' = Known /\ Mark' = Mark
  BY <1>1, FrameStep
<1>3. call' = NoCall /\ late' \subseteq [event : Known, at : Nat]
  BY GiveUpInv DEF Crash, IInv, CallInv
<1>4. state' \in Mark
  BY DEF Crash, Mark, NoState, NoHash, IInv, SignedInv
<1>5. AgentInv' /\ CountInv'
  BY <1>2, <1>4, BoundsAssumption
     DEF Crash, IInv, AgentInv, CountInv, disk, history
<1>6. CallInv'
  BY <1>2, <1>3 DEF Crash, IInv, CallInv
<1>7. QED
  BY <1>2, <1>5, <1>6 DEF IInv

LEMMA HeartbeatInv == ASSUME IInv, Heartbeat PROVE IInv'
<1>1. /\ signed' = Append(signed, SignEvent)
      /\ Len(signed) < MaxEvents
      /\ UNCHANGED <<state, todo, remaining, disk, late, service, spooled, failures, crashes>>
  BY DEF Heartbeat
<1>2. /\ SignEvent \in Event
      /\ SignEvent.event_hash = Len(signed) + 1
      /\ SignEvent.sequence <= Len(signed) + 1
  BY <1>1, SignEventKnown DEF IInv, AgentInv
<1>3. SignedInv' /\ Len(signed') = Len(signed) + 1
  BY <1>1, <1>2, BoundsAssumption DEF IInv, SignedInv
<1>4. SignEvent \in Known'
  BY <1>2, <1>3 DEF Known
<1>5. Known \subseteq Known' /\ Mark \subseteq Mark' /\ Seq(Known) \subseteq Seq(Known')
  BY <1>1, KnownGrows DEF IInv
<1>6. AgentInv'
  BY <1>1, <1>5 DEF Heartbeat, IInv, AgentInv, disk
<1>7. ServiceInv' /\ CountInv'
  BY <1>1, <1>5 DEF IInv, ServiceInv, CountInv, service
<1>8. CallInv'
  <2>1. call' \in [event : Known', answered : BOOLEAN]
    BY <1>4 DEF Heartbeat, Open
  <2>2. Known' \subseteq Event
    BY DEF Known
  <2>3. call' # NoCall
    BY <2>1, <2>2, NoCallAssumption
  <2>4. late' \subseteq [event : Known', at : Nat]
    BY <1>1, <1>5 DEF IInv, CallInv
  <2>5. QED
    BY <2>1, <2>3, <2>4 DEF CallInv, Heartbeat
<1>9. QED
  BY <1>3, <1>6, <1>7, <1>8 DEF IInv

LEMMA NextInv == IInv /\ [Next]_vars => IInv'
<1>. SUFFICES ASSUME IInv, [Next]_vars PROVE IInv'
  OBVIOUS
<1>1. ASSUME Agent PROVE IInv'
  BY <1>1, QuietInv, ResendAcknowledgedInv, ResendFailedInv, HeartbeatInv,
     HeartbeatAcknowledgedInv, HeartbeatFailedInv DEF Agent
<1>2. ASSUME Serve \/ Crash PROVE IInv'
  BY <1>2, ServeInv, CrashInv
<1>3. ASSUME NEW c \in late, ServeLate(c) PROVE IInv'
  BY <1>3, ServeLateInv
<1>4. ASSUME UNCHANGED vars PROVE IInv'
  <2>1. UNCHANGED <<signed, service>>
    BY <1>4 DEF vars, history
  <2>2. SignedInv' /\ ServiceInv' /\ Known' = Known /\ Mark' = Mark
    BY <2>1, FrameStep
  <2>3. QED
    BY <1>4, <2>2 DEF vars, disk, memory, history, IInv, AgentInv, CallInv, CountInv
<1>5. QED
  BY <1>1, <1>2, <1>3, <1>4 DEF Next

THEOREM Invariant == Spec => []IInv
BY InitInv, NextInv, PTL DEF Spec

------------------------------------------------------------------------------
(* The results.                                                            *)

\* Every file, list and message of the agent holds events of the right form,
\* with any number of failures and crashes (trust_agent/main.py).
THEOREM TypeCorrect == Spec => []TypeOK
<1>1. ASSUME IInv PROVE TypeOK
  <2>1. Known \subseteq Event
    BY DEF Known
  <2>2. Mark \subseteq [sequence : 0..MaxEvents, last_hash : 0..MaxEvents]
    BY <1>1, BoundsAssumption DEF IInv, SignedInv, Mark
  <2>3. /\ head.last_sequence \in 0..MaxEvents
        /\ head.last_event_hash \in 0..MaxEvents
    <3>1. CASE stored = <<>>
      BY <1>1, <3>1, BoundsAssumption DEF IInv, ServiceInv, NoHash
    <3>2. CASE stored # <<>>
      <4>1. stored[Len(stored)] \in Event
        BY <1>1, <2>1, <3>2 DEF IInv, ServiceInv
      <4>2. /\ stored[Len(stored)].sequence \in 1..MaxEvents
            /\ stored[Len(stored)].event_hash \in 1..MaxEvents
        BY <4>1 DEF Event, Hash
      <4>3. QED
        BY <1>1, <3>2, <4>2, BoundsAssumption DEF IInv, ServiceInv
    <3>3. QED
      BY <3>1, <3>2
  <2>4. QED
    BY <1>1, <2>1, <2>2, <2>3
       DEF IInv, SignedInv, AgentInv, CallInv, ServiceInv, CountInv, TypeOK
<1>2. QED
  BY Invariant, <1>1, PTL

\* What the service has stored of this agent is, from end to end and through
\* every loss and restart, the abstract append-only chain.
THEOREM ImplementsChainedLog == Spec => LogSpec
<1>. DEFINE log == [c \in {"source"} |-> stored]
<1>1. Init => Log!Init
  BY DEF Init, Log!Init
<1>2. ASSUME IInv, NEW e \in Known, Ingest(e)
      PROVE  [Log!Next]_log
  <2>1. CASE UNCHANGED service
    BY <2>1 DEF service
  <2>2. CASE ~UNCHANGED service
    <3>1. /\ e.sequence = Len(stored) + 1
          /\ e.previous_hash = head.last_event_hash
          /\ stored' = Append(stored, e)
      BY <1>2, <2>2, IngestInv DEF IInv
    <3>2. head.last_event_hash = Log!Tip(log["source"])
      BY <1>2 DEF IInv, ServiceInv, Log!Tip
    <3>3. log' = [log EXCEPT !["source"] = Append(@, e)]
      BY <3>1
    <3>4. e \in Event
      BY <1>2 DEF Known
    <3>5. Log!Extend("source", e)
      BY <3>1, <3>2, <3>3 DEF Log!Extend
    <3>6. QED
      BY <3>4, <3>5 DEF Log!Next
  <2>3. QED
    BY <2>1, <2>2
<1>3. ASSUME IInv, [Next]_vars
      PROVE  [Log!Next]_log
  <2>1. ASSUME Serve PROVE [Log!Next]_log
    BY <1>2, <1>3, <2>1 DEF Serve, IInv, CallInv
  <2>2. ASSUME NEW c \in late, ServeLate(c) PROVE [Log!Next]_log
    BY <1>2, <1>3, <2>2 DEF ServeLate, IInv, CallInv
  <2>3. ASSUME Agent \/ Crash \/ UNCHANGED vars PROVE stored' = stored
    BY <2>3 DEF Agent, ReadSpool, Resend, ResendAcknowledged, ResendFailed, EndFlush,
         Heartbeat, NoMoreHeartbeats, HeartbeatAcknowledged, HeartbeatFailed, Wake,
         Restart, Crash, vars, service
  <2>4. QED
    BY <1>3, <2>1, <2>2, <2>3 DEF Next
<1>4. QED
  BY <1>1, <1>3, Invariant, PTL DEF Spec, LogSpec, Log!Spec

\* The elements of the sequences that the agent's steps build.
LEMMA RangeFacts ==
    ASSUME NEW S, NEW s \in Seq(S), NEW e \in S
    PROVE  /\ Range(<<>>) = {}
           /\ Range(Append(s, e)) = Range(s) \cup {e}
           /\ s # <<>> => Range(Tail(s)) \subseteq Range(s) /\ Head(s) \in Range(s)
<1>1. Range(<<>>) = {}
  BY DEF Range
<1>2. Range(Append(s, e)) = Range(s) \cup {e}
  <2>1. /\ DOMAIN Append(s, e) = 1..(Len(s) + 1)
        /\ DOMAIN s = 1..Len(s)
        /\ Append(s, e)[Len(s) + 1] = e
        /\ \A i \in 1..Len(s) : Append(s, e)[i] = s[i]
        /\ Len(s) \in Nat
    OBVIOUS
  <2>2. \A i \in 1..(Len(s) + 1) : i = Len(s) + 1 \/ i \in 1..Len(s)
    BY <2>1
  <2>3. \A i \in 1..Len(s) : i \in 1..(Len(s) + 1)
    BY <2>1
  <2>4. Len(s) + 1 \in 1..(Len(s) + 1)
    BY <2>1
  <2>5. ASSUME NEW x \in Range(Append(s, e)) PROVE x \in Range(s) \cup {e}
    BY <2>1, <2>2 DEF Range
  <2>6. ASSUME NEW x \in Range(s) \cup {e} PROVE x \in Range(Append(s, e))
    BY <2>1, <2>3, <2>4 DEF Range
  <2>7. QED
    BY <2>5, <2>6
<1>3. ASSUME s # <<>> PROVE Range(Tail(s)) \subseteq Range(s) /\ Head(s) \in Range(s)
  <2>1. /\ DOMAIN Tail(s) = 1..(Len(s) - 1)
        /\ DOMAIN s = 1..Len(s)
        /\ Head(s) = s[1]
        /\ \A i \in 1..(Len(s) - 1) : Tail(s)[i] = s[i + 1]
        /\ Len(s) \in Nat \ {0}
    BY <1>3
  <2>2. 1 \in 1..Len(s) /\ \A i \in 1..(Len(s) - 1) : i + 1 \in 1..Len(s)
    BY <2>1
  <2>3. ASSUME NEW x \in Range(Tail(s)) PROVE x \in Range(s)
    BY <2>1, <2>2 DEF Range
  <2>4. Head(s) \in Range(s)
    BY <2>1, <2>2 DEF Range
  <2>5. QED
    BY <2>3, <2>4
<1>4. QED
  BY <1>1, <1>2, <1>3

\* Out of reach of the head: no outstanding event is it or extends it, and the
\* agent's marks do not name it.
OutOfReach(h) ==
    /\ saved.last_hash # h
    /\ pc # "down" => state.last_hash # h
    /\ \A e \in Outstanding : e.event_hash # h /\ e.previous_hash # h

LEMMA OutOfReachMeans == ~Recoverable <=> OutOfReach(head.last_event_hash)
BY DEF Recoverable, OutOfReach

\* Where the outstanding events come from.
LEMMA OutstandingMembers ==
    /\ \A e \in Range(spool) \cup Range(todo) \cup Range(remaining) : e \in Outstanding
    /\ \A c \in late : c.event \in Outstanding
    /\ call # NoCall => call.event \in Outstanding
BY DEF Outstanding

\* Only a new heartbeat adds to them.
LEMMA OutstandingMoves ==
    ASSUME IInv, [Next]_vars
    PROVE  \/ Heartbeat /\ Outstanding' \subseteq Outstanding \cup {SignEvent}
           \/ ~Heartbeat /\ signed' = signed /\ Outstanding' \subseteq Outstanding
<1>1. ASSUME Heartbeat PROVE Outstanding' \subseteq Outstanding \cup {SignEvent}
  BY <1>1 DEF Heartbeat, Open, Outstanding, disk
<1>2. ASSUME ~Heartbeat PROVE signed' = signed /\ Outstanding' \subseteq Outstanding
  <2>1. Range(<<>>) = {}
    BY DEF Range
  <2>2. CASE Serve
    <3>1. call' # NoCall /\ call'.event = call.event
      BY <2>2, NoCallAssumption DEF Serve, IInv, CallInv, Known
    <3>2. QED
      BY <2>2, <3>1 DEF Serve, Outstanding, disk, memory, history
  <2>3. CASE \E c \in late : ServeLate(c)
    BY <2>3 DEF ServeLate, Outstanding, disk, memory, history
  <2>4. CASE ResendAcknowledged \/ HeartbeatAcknowledged
    <3>1. Range(todo') \subseteq Range(todo)
      BY <2>4, RangeFacts
         DEF ResendAcknowledged, HeartbeatAcknowledged, IInv, AgentInv, CallInv
    <3>2. QED
      BY <2>4, <3>1
         DEF ResendAcknowledged, HeartbeatAcknowledged, Acknowledge, Outstanding, history
  <2>5. CASE ResendFailed
    <3>1. call # NoCall /\ todo # <<>> /\ GiveUp
      BY <2>5 DEF ResendFailed, Fail, IInv, CallInv
    <3>2. /\ call.event \in Known
          /\ call' = NoCall
          /\ {c.event : c \in late'} \subseteq {c.event : c \in late} \cup {call.event}
      BY <3>1, GiveUpInv
    <3>3. /\ Range(todo') \subseteq Range(todo)
          /\ Range(remaining') = Range(remaining) \cup {call.event}
          /\ spool' = spool
      BY <2>5, <3>1, <3>2, RangeFacts DEF ResendFailed, IInv, AgentInv, disk
    <3>4. QED
      BY <2>5, <3>1, <3>2, <3>3 DEF Outstanding, ResendFailed, history
  <2>6. CASE HeartbeatFailed
    <3>1. call # NoCall /\ GiveUp
      BY <2>6 DEF HeartbeatFailed, Fail
    <3>2. /\ call.event \in Known
          /\ call' = NoCall
          /\ {c.event : c \in late'} \subseteq {c.event : c \in late} \cup {call.event}
      BY <3>1, GiveUpInv
    <3>3. /\ Range(spool') = Range(spool) \cup {call.event}
          /\ UNCHANGED <<todo, remaining>>
      BY <2>6, <3>2, RangeFacts DEF HeartbeatFailed, IInv, AgentInv
    <3>4. QED
      BY <2>6, <3>1, <3>2, <3>3 DEF Outstanding, HeartbeatFailed
  <2>7. CASE Crash
    <3>1. /\ call' = NoCall
          /\ spool' = spool /\ signed' = signed
          /\ Range(todo') = {} /\ Range(remaining') = {}
      BY <2>1, <2>7 DEF Crash, GiveUp, disk, history
    <3>2. CASE call = NoCall
      BY <2>7, <3>1, <3>2 DEF Crash, Outstanding
    <3>3. CASE call # NoCall
      <4>1. {c.event : c \in late'} \subseteq {c.event : c \in late} \cup {call.event}
        BY <2>7, <3>3, GiveUpInv DEF Crash
      <4>2. QED
        BY <3>1, <3>3, <4>1 DEF Outstanding
    <3>4. QED
      BY <3>2, <3>3
  <2>8. CASE ReadSpool
    BY <2>1, <2>8 DEF ReadSpool, Outstanding, disk, history
  <2>9. CASE Resend
    <3>1. Head(todo) \in Range(todo)
      BY <2>9, RangeFacts DEF Resend, IInv, AgentInv
    <3>2. QED
      BY <2>9, <3>1 DEF Resend, Open, Outstanding, disk, memory, history
  <2>10. CASE EndFlush
    BY <2>1, <2>10 DEF EndFlush, Outstanding, history
  <2>11. CASE NoMoreHeartbeats \/ Wake \/ Restart
    BY <2>11 DEF NoMoreHeartbeats, Wake, Restart, Outstanding, disk, history
  <2>12. CASE UNCHANGED vars
    BY <2>12 DEF vars, disk, memory, history, Outstanding
  <2>13. QED
    BY <1>2, <2>2, <2>3, <2>4, <2>5, <2>6, <2>7, <2>8, <2>9, <2>10, <2>11, <2>12
       DEF Next, Agent
<1>3. QED
  BY <1>1, <1>2

LEMMA FromOutstanding ==
    ASSUME NEW h, NEW S,
           \A e \in S : e.event_hash # h /\ e.previous_hash # h,
           Outstanding' \subseteq S,
           saved'.last_hash # h,
           pc' # "down" => state'.last_hash # h,
           head'.last_event_hash = h
    PROVE  ~Recoverable'
BY DEF Recoverable

\* While the head is out of reach the service stores nothing.
LEMMA NothingStored ==
    ASSUME IInv, OutOfReach(head.last_event_hash),
           NEW e \in Outstanding, e \in Known, Ingest(e)
    PROVE  UNCHANGED service
BY IngestInv DEF IInv, OutOfReach

LEMMA ServiceKeepsOut ==
    ASSUME IInv, ~Recoverable, Serve \/ \E c \in late : ServeLate(c),
           Outstanding' \subseteq Outstanding
    PROVE  ~Recoverable'
<1>. DEFINE h == head.last_event_hash
<1>1. OutOfReach(h)
  BY OutOfReachMeans
<1>2. UNCHANGED <<saved, state, pc>>
  BY DEF Serve, ServeLate, disk, memory
<1>3. UNCHANGED service
  <2>1. CASE Serve
    <3>1. call.event \in Known /\ call.event \in Outstanding /\ Ingest(call.event)
      BY <2>1, OutstandingMembers DEF Serve, IInv, CallInv
    <3>2. QED
      BY <1>1, <3>1, NothingStored
  <2>2. ASSUME NEW c \in late, ServeLate(c) PROVE UNCHANGED service
    <3>1. c.event \in Known /\ c.event \in Outstanding /\ Ingest(c.event)
      BY <2>2, OutstandingMembers DEF ServeLate, IInv, CallInv
    <3>2. QED
      BY <1>1, <3>1, NothingStored
  <2>3. QED
    BY <2>1, <2>2
<1>4. QED
  BY <1>1, <1>2, <1>3, FromOutstanding DEF OutOfReach, service

\* A new heartbeat builds on the agent's mark, not on the head.
LEMMA HeartbeatKeepsOut ==
    ASSUME IInv, ~Recoverable, Heartbeat
    PROVE  ~Recoverable'
<1>. DEFINE h == head.last_event_hash
            S == Outstanding \cup {SignEvent}
<1>1. OutOfReach(h)
  BY OutOfReachMeans
<1>2. /\ SignEvent.event_hash = Len(signed) + 1
      /\ SignEvent.previous_hash = state.last_hash
  BY SignEventKnown DEF Heartbeat, IInv, AgentInv
<1>3. h \in Nat /\ h <= Len(signed) /\ Len(signed) \in Nat
  <2>1. CASE stored = <<>>
    BY <2>1 DEF IInv, ServiceInv, SignedInv, NoHash
  <2>2. CASE stored # <<>>
    <3>1. stored[Len(stored)] \in Known
      BY <2>2 DEF IInv, ServiceInv
    <3>2. stored[Len(stored)] \in Event /\ stored[Len(stored)].event_hash <= Len(signed)
      BY <3>1 DEF Known
    <3>3. stored[Len(stored)].event_hash \in Nat
      BY <3>2, HashIsNat
    <3>4. h = stored[Len(stored)].event_hash
      BY <2>2 DEF IInv, ServiceInv
    <3>5. Len(signed) \in Nat
      BY DEF IInv, SignedInv
    <3>6. QED
      BY <3>2, <3>3, <3>4, <3>5
  <2>3. QED
    BY <2>1, <2>2
<1>4. \A e \in S : e.event_hash # h /\ e.previous_hash # h
  BY <1>1, <1>2, <1>3 DEF OutOfReach, Heartbeat
<1>5. Outstanding' \subseteq S
  BY DEF Heartbeat, Open, Outstanding, disk
<1>6. UNCHANGED <<service, saved, state>> /\ pc # "down"
  BY DEF Heartbeat, disk
<1>. HIDE DEF S
<1>7. QED
  BY <1>1, <1>4, <1>5, <1>6, FromOutstanding DEF OutOfReach, service

\* Every other step moves events between the places they wait in, and the
\* agent to the file's mark or to an acknowledged event, which is not the head.
LEMMA OthersKeepOut ==
    ASSUME IInv, ~Recoverable, (Agent /\ ~Heartbeat) \/ Crash \/ UNCHANGED vars,
           Outstanding' \subseteq Outstanding
    PROVE  ~Recoverable'
<1>. DEFINE h == head.last_event_hash
<1>1. OutOfReach(h)
  BY OutOfReachMeans
<1>2. UNCHANGED service
  BY DEF Agent, ReadSpool, Resend, ResendAcknowledged, ResendFailed, EndFlush,
         NoMoreHeartbeats, HeartbeatAcknowledged, HeartbeatFailed, Wake, Restart, Crash, vars
<1>3. saved'.last_hash # h /\ (pc' # "down" => state'.last_hash # h)
  <2>1. CASE ResendAcknowledged \/ HeartbeatAcknowledged
    <3>1. call # NoCall
      BY <2>1 DEF ResendAcknowledged, HeartbeatAcknowledged, IInv, CallInv
    <3>2. call.event \in Outstanding
      BY <3>1, OutstandingMembers
    <3>3. QED
      BY <1>1, <2>1, <3>2
         DEF ResendAcknowledged, HeartbeatAcknowledged, Acknowledge, OutOfReach
  <2>2. CASE Restart
    BY <1>1, <2>2 DEF Restart, OutOfReach, disk
  <2>3. CASE Crash
    BY <1>1, <2>3 DEF Crash, OutOfReach, disk
  <2>4. CASE \/ ReadSpool \/ Resend \/ ResendFailed \/ EndFlush
             \/ NoMoreHeartbeats \/ HeartbeatFailed \/ Wake
    <3>1. UNCHANGED <<saved, state>> /\ pc # "down"
      BY <2>4 DEF ReadSpool, Resend, ResendFailed, EndFlush, NoMoreHeartbeats,
                  HeartbeatFailed, Wake, disk, memory
    <3>2. QED
      BY <1>1, <3>1 DEF OutOfReach
  <2>5. CASE UNCHANGED vars
    BY <1>1, <2>5 DEF OutOfReach, vars, disk, memory
  <2>6. QED
    BY <2>1, <2>2, <2>3, <2>4, <2>5 DEF Agent
<1>4. QED
  BY <1>1, <1>2, <1>3, FromOutstanding DEF OutOfReach, service

\* Once nothing the agent has or can sign extends the stored chain, nothing
\* ever will: 200 is the answer to every further event, each is quarantined,
\* and each becomes what the next is built upon (trust_agent/main.py:43-48).
THEOREM LockOutIsPermanent == Spec => LockedOutForGood
<1>1. ASSUME IInv, ~Recoverable, [Next]_vars
      PROVE  ~Recoverable'
  BY <1>1, OutstandingMoves, HeartbeatKeepsOut, ServiceKeepsOut, OthersKeepOut
     DEF Next
<1>2. IInv /\ [Next]_vars => [~Recoverable => ~Recoverable']_vars
  BY <1>1
<1>3. QED
  BY <1>2, Invariant, PTL DEF Spec, LockedOutForGood

------------------------------------------------------------------------------
(* The chain as the agent signs it                                         *)

\* An event's digest is its place among those signed, the events that wait,
\* travel or are stored were signed, and the agent's marks name one of them.
Origin(e) == e.event_hash \in 1..Len(signed) /\ signed[e.event_hash] = e
MarkOrigin(m) ==
    m = NoState \/ \E k \in 1..Len(signed) :
                      m = [sequence |-> signed[k].sequence, last_hash |-> k]

OriginInv ==
    /\ \A k \in 1..Len(signed) : signed[k].event_hash = k
    /\ \A e \in Outstanding : Origin(e)
    /\ MarkOrigin(state) /\ MarkOrigin(saved)

\* The events signed are numbered in order, each after the one before it.
Linear ==
    \A k \in 1..Len(signed) : signed[k].sequence = k /\ signed[k].previous_hash = k - 1

\* What the service has stored is a beginning of what was signed that lacks
\* at most the last event, and what was acknowledged is stored.
ChainInv ==
    /\ Linear
    /\ Len(stored) <= Len(signed) /\ Len(signed) <= Len(stored) + 1
    /\ \A k \in 1..Len(stored) : stored[k] = signed[k]
    /\ state.sequence <= Len(stored) /\ saved.sequence <= Len(stored)
    /\ call # NoCall => (call.answered => call.event.sequence <= Len(stored))

\* The list s, of what has yet to be acknowledged, is empty or holds the last
\* event signed, and the agent's state is the one before it.
Waiting(s) ==
    \/ s = <<>> /\ state.sequence = Len(signed)
    \/ /\ Len(s) = 1 /\ Len(signed) > 0 /\ s[1] = signed[Len(signed)]
       /\ state.sequence = Len(signed) - 1

\* Without a crash at most one event waits.
WaitInv ==
    /\ saved = state
    /\ pc \in {"flush", "beat", "sleep"} => Waiting(spool)
    /\ pc = "flushing" => /\ todo = <<>> => Waiting(remaining)
                          /\ todo # <<>> => Waiting(todo) /\ remaining = <<>>
                          /\ call # NoCall => call.event = Head(todo)
    /\ pc = "beating" => Waiting(<<call.event>>) /\ spool = <<>>
    /\ pc # "down"

\* One failure leaves one event in the spool, and the next flush sends it.
HealInv ==
    /\ ~Forked
    /\ remaining = <<>>
    /\ failures = 0 => spool = <<>> /\ todo = <<>>
    /\ pc \in {"beat", "beating"} => spool = <<>>

JInv ==
    /\ OriginInv
    /\ ~Forked => ChainInv
    /\ ~Forked /\ crashes = 0 => WaitInv
    /\ failures <= 1 /\ crashes = 0 => HealInv

\* The agent's marks after a step: as before, forgotten, read from the file,
\* or the event just acknowledged.
LEMMA MarksMove ==
    ASSUME IInv, [Next]_vars
    PROVE  \/ UNCHANGED <<state, saved>>
           \/ Crash /\ state' = NoState /\ saved' = saved
           \/ Restart /\ state' = saved /\ saved' = saved
           \/ /\ ResendAcknowledged \/ HeartbeatAcknowledged
              /\ call # NoCall /\ call.answered /\ call.event \in Outstanding
              /\ state' = [sequence |-> call.event.sequence,
                           last_hash |-> call.event.event_hash]
              /\ saved' = state'
<1>1. CASE ResendAcknowledged \/ HeartbeatAcknowledged
  <2>1. call # NoCall
    BY <1>1 DEF ResendAcknowledged, HeartbeatAcknowledged, IInv, CallInv
  <2>2. QED
    BY <1>1, <2>1, OutstandingMembers
       DEF ResendAcknowledged, HeartbeatAcknowledged, Acknowledge
<1>2. CASE Crash \/ Restart
  BY <1>2 DEF Crash, Restart, disk
<1>3. CASE \/ ReadSpool \/ Resend \/ ResendFailed \/ EndFlush \/ Heartbeat
           \/ NoMoreHeartbeats \/ HeartbeatFailed \/ Wake
  BY <1>3 DEF ReadSpool, Resend, ResendFailed, EndFlush, Heartbeat, NoMoreHeartbeats,
              HeartbeatFailed, Wake, disk, memory
<1>4. CASE Serve \/ \E c \in late : ServeLate(c)
  BY <1>4 DEF Serve, ServeLate, disk, memory
<1>5. CASE UNCHANGED vars
  BY <1>5 DEF vars, disk, memory
<1>6. QED
  BY <1>1, <1>2, <1>3, <1>4, <1>5 DEF Next, Agent

LEMMA OriginStep ==
    ASSUME IInv, OriginInv, [Next]_vars
    PROVE  OriginInv'
<1>1. signed \in Seq(Event) /\ Len(signed) \in Nat
  BY DEF IInv, SignedInv
<1>2. CASE Heartbeat
  <2>1. /\ signed' = Append(signed, SignEvent)
        /\ UNCHANGED <<state, saved>>
    BY <1>2 DEF Heartbeat, disk
  <2>2. SignEvent \in Event /\ SignEvent.event_hash = Len(signed) + 1
    BY <1>2, SignEventKnown DEF Heartbeat, IInv, AgentInv
  <2>3. /\ Len(signed') = Len(signed) + 1
        /\ signed'[Len(signed) + 1] = SignEvent
        /\ \A k \in 1..Len(signed) : signed'[k] = signed[k]
    BY <1>1, <2>1, <2>2
  <2>4. \A k \in 1..Len(signed') : k \in 1..Len(signed) \/ k = Len(signed) + 1
    BY <1>1, <2>3
  <2>5. \A k \in 1..Len(signed) : k \in 1..Len(signed')
    BY <1>1, <2>3
  <2>6. \A k \in 1..Len(signed') : signed'[k].event_hash = k
    BY <2>2, <2>3, <2>4 DEF OriginInv
  <2>7. \A e \in Outstanding' : Origin(e)'
    <3>1. Outstanding' \subseteq Outstanding \cup {SignEvent}
      BY <1>2, OutstandingMoves
    <3>2. \A e \in Outstanding : Origin(e)'
      BY <2>3, <2>5 DEF OriginInv, Origin
    <3>3. \A e : e = SignEvent => Origin(e)'
      BY <1>1, <2>2, <2>3 DEF Origin
    <3>4. QED
      BY <3>1, <3>2, <3>3
  <2>8. MarkOrigin(state)' /\ MarkOrigin(saved)'
    BY <2>1, <2>3, <2>5 DEF OriginInv, MarkOrigin
  <2>9. QED
    BY <2>6, <2>7, <2>8 DEF OriginInv
<1>3. CASE ~Heartbeat
  <2>1. signed' = signed /\ Outstanding' \subseteq Outstanding
    BY <1>3, OutstandingMoves
  <2>2. \A e \in Outstanding' : Origin(e)'
    BY <2>1 DEF OriginInv, Origin
  <2>3. ASSUME call.event \in Outstanding
        PROVE  MarkOrigin([sequence |-> call.event.sequence,
                           last_hash |-> call.event.event_hash])
    BY <2>3 DEF OriginInv, Origin, MarkOrigin
  <2>4. MarkOrigin(state') /\ MarkOrigin(saved')
    <3>1. MarkOrigin(NoState)
      BY DEF MarkOrigin
    <3>2. QED
      BY <2>3, <3>1, MarksMove DEF OriginInv
  <2>5. MarkOrigin(state)' /\ MarkOrigin(saved)'
    BY <2>1, <2>4 DEF MarkOrigin
  <2>6. QED
    BY <2>1, <2>2, <2>5 DEF OriginInv
<1>4. QED
  BY <1>2, <1>3

\* On a chain numbered in order, marks and events are told by their number.
LEMMA LinearMark ==
    ASSUME IInv, Linear, NEW m, MarkOrigin(m)
    PROVE  m.sequence = m.last_hash /\ m.sequence \in 0..Len(signed)
<1>1. Len(signed) \in Nat
  BY DEF IInv, SignedInv
<1>2. CASE m = NoState
  BY <1>1, <1>2 DEF NoState, NoHash
<1>3. CASE \E k \in 1..Len(signed) :
              m = [sequence |-> signed[k].sequence, last_hash |-> k]
  BY <1>1, <1>3 DEF Linear
<1>4. QED
  BY <1>2, <1>3 DEF MarkOrigin

LEMMA LinearEvent ==
    ASSUME IInv, Linear, NEW e, Origin(e)
    PROVE  /\ e.sequence \in 1..Len(signed) /\ e = signed[e.sequence]
           /\ e.event_hash = e.sequence /\ e.previous_hash = e.sequence - 1
BY DEF Origin, Linear

\* A heartbeat forks the chain, or it follows the last event signed.
LEMMA HeartbeatLinear ==
    ASSUME IInv, OriginInv, Linear, Heartbeat
    PROVE  /\ state.sequence = Len(signed) <=> ~Forked'
           /\ ~Forked' => Linear'
<1>1. signed \in Seq(Event) /\ Len(signed) \in Nat
  BY DEF IInv, SignedInv
<1>2. signed' = Append(signed, SignEvent)
  BY DEF Heartbeat
<1>3. /\ SignEvent \in Event /\ SignEvent.sequence = state.sequence + 1
      /\ SignEvent.previous_hash = state.last_hash
  BY SignEventKnown DEF Heartbeat, IInv, AgentInv, SignEvent
<1>4. /\ Len(signed') = Len(signed) + 1 /\ DOMAIN signed' = 1..(Len(signed) + 1)
      /\ signed'[Len(signed) + 1] = SignEvent
      /\ \A k \in 1..Len(signed) : signed'[k] = signed[k]
  BY <1>1, <1>2, <1>3
<1>5. state.sequence = state.last_hash /\ state.sequence \in 0..Len(signed)
  BY LinearMark DEF OriginInv
<1>6. ASSUME state.sequence = Len(signed)
      PROVE  ~Forked' /\ Linear'
  <2>1. \A k \in 1..(Len(signed) + 1) :
          signed'[k].sequence = k /\ signed'[k].previous_hash = k - 1
    BY <1>1, <1>3, <1>4, <1>5, <1>6 DEF Linear
  <2>2. QED
    BY <1>4, <2>1 DEF Forked, Linear
<1>7. ASSUME state.sequence # Len(signed)
      PROVE  Forked'
  <2> DEFINE k == state.sequence + 1
  <2>1. k \in 1..Len(signed) /\ k # Len(signed) + 1
    BY <1>1, <1>5, <1>7
  <2>2. signed'[k].sequence = k /\ signed'[Len(signed) + 1].sequence = k
    BY <1>3, <1>4, <2>1 DEF Linear
  <2>3. k \in DOMAIN signed' /\ Len(signed) + 1 \in DOMAIN signed'
    BY <1>1, <1>4, <2>1
  <2> HIDE DEF k
  <2>4. QED
    BY <2>1, <2>2, <2>3 DEF Forked
<1>8. QED
  BY <1>6, <1>7

\* The tip of what is stored.
LEMMA StoredTip ==
    ASSUME IInv, OriginInv, ChainInv
    PROVE  /\ head.last_sequence = Len(stored) /\ head.last_event_hash = Len(stored)
           /\ Len(stored) \in Nat
<1>1. /\ Len(stored) \in Nat /\ (stored = <<>> => Len(stored) = 0)
      /\ stored # <<>> => Len(stored) \in 1..Len(stored)
  BY DEF IInv, ServiceInv
<1>2. stored # <<>> => stored[Len(stored)].event_hash = Len(stored)
  <2>1. Len(stored) <= Len(signed) /\ Len(signed) \in Nat
    BY DEF ChainInv, IInv, SignedInv
  <2>2. stored # <<>> => /\ stored[Len(stored)] = signed[Len(stored)]
                         /\ Len(stored) \in 1..Len(signed)
    BY <1>1, <2>1 DEF ChainInv
  <2>3. QED
    BY <2>2 DEF OriginInv
<1>3. QED
  BY <1>1, <1>2 DEF IInv, ServiceInv, NoHash

\* Whatever reaches the service, in whatever order, is stored afterwards.
LEMMA IngestChain ==
    ASSUME IInv, OriginInv, ChainInv, NEW e \in Known, e \in Outstanding, Ingest(e)
    PROVE  /\ Len(stored') \in Nat /\ Len(stored') >= Len(stored)
           /\ Len(stored') <= Len(signed) /\ e.sequence <= Len(stored')
           /\ \A k \in 1..Len(stored') : stored'[k] = signed[k]
<1>1. /\ e.sequence \in 1..Len(signed) /\ e = signed[e.sequence]
      /\ e.previous_hash = e.sequence - 1
  BY LinearEvent DEF OriginInv, ChainInv
<1>2. /\ head.last_sequence = Len(stored) /\ head.last_event_hash = Len(stored)
      /\ Len(stored) \in Nat /\ stored \in Seq(Known)
  BY StoredTip DEF IInv, ServiceInv
<1>3. Len(signed) \in Nat /\ Len(signed) <= Len(stored) + 1
  BY DEF IInv, SignedInv, ChainInv
<1>4. CASE e.sequence = Len(stored) + 1
  <2>1. VerifyEvent(e, head) =
          [hash_valid |-> TRUE, signature_valid |-> TRUE,
           chain_valid |-> TRUE, sequence_valid |-> TRUE]
    <3>1. e.hash_valid = TRUE /\ e.signature_valid = TRUE
      BY DEF Known, Event
    <3>2. /\ (e.previous_hash = head.last_event_hash) = TRUE
          /\ (e.sequence = head.last_sequence + 1) = TRUE
      BY <1>1, <1>2, <1>4
    <3>3. QED
      BY <3>1, <3>2 DEF VerifyEvent
  <2>2. Valid(VerifyEvent(e, head))
    BY <2>1 DEF Valid
  <2>3. stored' = Append(stored, e)
    BY <2>2 DEF Ingest
  <2>4. /\ Len(stored') = Len(stored) + 1 /\ stored'[Len(stored) + 1] = e
        /\ \A k \in 1..Len(stored) : stored'[k] = stored[k]
    BY <1>2, <2>3
  <2>5. QED
    BY <1>1, <1>2, <1>4, <2>4 DEF ChainInv
<1>5. CASE e.sequence # Len(stored) + 1
  <2>1. stored' = stored
    BY <1>2, <1>5 DEF Valid, VerifyEvent, Ingest, service
  <2>2. QED
    BY <1>1, <1>2, <1>3, <1>5, <2>1 DEF ChainInv
<1>6. QED
  BY <1>4, <1>5

LEMMA ForkStays ==
    ASSUME IInv, [Next]_vars, ~Forked'
    PROVE  ~Forked
<1>1. CASE ~Heartbeat
  BY <1>1, OutstandingMoves DEF Forked
<1>2. CASE Heartbeat
  <2>1. signed \in Seq(Event) /\ signed' = Append(signed, SignEvent) /\ SignEvent \in Event
    BY <1>2, SignEventKnown DEF Heartbeat, IInv, SignedInv, AgentInv
  <2>2. \A k \in DOMAIN signed : k \in DOMAIN signed' /\ signed'[k] = signed[k]
    BY <2>1
  <2>3. QED
    BY <2>2 DEF Forked
<1>3. QED
  BY <1>1, <1>2

LEMMA ServiceChain ==
    ASSUME IInv, OriginInv, ChainInv, Serve \/ \E c \in late : ServeLate(c)
    PROVE  ChainInv'
<1>1. UNCHANGED <<signed, state, saved>>
  BY DEF Serve, ServeLate, memory, disk, history
<1>2. /\ Len(stored) \in Nat /\ state.sequence \in Nat /\ saved.sequence \in Nat
      /\ Len(signed) \in Nat
  BY DEF IInv, ServiceInv, AgentInv, Mark, SignedInv
<1>3. CASE Serve
  <2>1. call.event \in Known /\ call.event \in Outstanding /\ Ingest(call.event)
    BY <1>3, OutstandingMembers DEF Serve, IInv, CallInv
  <2>2. /\ Len(stored') \in Nat /\ Len(stored') >= Len(stored)
        /\ Len(stored') <= Len(signed) /\ call.event.sequence <= Len(stored')
        /\ \A k \in 1..Len(stored') : stored'[k] = signed[k]
    BY <2>1, IngestChain
  <2>3. call'.event = call.event
    BY <1>3 DEF Serve, IInv, CallInv
  <2>4. QED
    BY <1>1, <1>2, <2>2, <2>3 DEF ChainInv, Linear
<1>4. ASSUME NEW c \in late, ServeLate(c) PROVE ChainInv'
  <2>1. c.event \in Known /\ c.event \in Outstanding /\ Ingest(c.event)
    BY <1>4, OutstandingMembers DEF ServeLate, IInv, CallInv
  <2>2. /\ Len(stored') \in Nat /\ Len(stored') >= Len(stored)
        /\ Len(stored') <= Len(signed)
        /\ \A k \in 1..Len(stored') : stored'[k] = signed[k]
    BY <2>1, IngestChain
  <2>3. call' = call
    BY <1>4 DEF ServeLate
  <2>4. call # NoCall /\ call.answered => call.event.sequence <= Len(stored')
    <3>1. call # NoCall => call.event \in Event
      BY DEF IInv, CallInv, Known
    <3>2. \A e \in Event : e.sequence \in Nat
      BY BoundsAssumption DEF Event
    <3>3. QED
      BY <1>2, <2>2, <3>1, <3>2 DEF ChainInv
  <2>5. /\ Len(signed) <= Len(stored') + 1
        /\ state.sequence <= Len(stored') /\ saved.sequence <= Len(stored')
    BY <1>2, <2>2 DEF ChainInv
  <2>6. Linear'
    BY <1>1 DEF ChainInv, Linear
  <2>7. QED
    BY <1>1, <2>2, <2>3, <2>4, <2>5, <2>6 DEF ChainInv
<1>5. QED
  BY <1>3, <1>4

LEMMA HeartbeatChain ==
    ASSUME IInv, OriginInv, ChainInv, Heartbeat, ~Forked'
    PROVE  ChainInv'
<1>1. /\ signed \in Seq(Event) /\ Len(signed) \in Nat /\ Len(stored) \in Nat
      /\ signed' = Append(signed, SignEvent) /\ SignEvent \in Event
      /\ UNCHANGED <<state, saved, stored>>
  BY SignEventKnown DEF Heartbeat, IInv, SignedInv, ServiceInv, AgentInv, disk, service
<1>2. Linear' /\ state.sequence = Len(signed)
  BY HeartbeatLinear DEF ChainInv
<1>3. /\ Len(signed') = Len(signed) + 1
      /\ \A k \in 1..Len(signed) : signed'[k] = signed[k]
  BY <1>1
<1>4. \A k \in 1..Len(stored) : k \in 1..Len(signed)
  BY <1>1 DEF ChainInv
<1>5. ~call'.answered
  BY DEF Heartbeat, Open
<1>6. QED
  BY <1>1, <1>2, <1>3, <1>4, <1>5 DEF ChainInv

LEMMA OtherChain ==
    ASSUME IInv, OriginInv, ChainInv, (Agent /\ ~Heartbeat) \/ Crash \/ UNCHANGED vars
    PROVE  ChainInv'
<1>1. UNCHANGED <<signed, stored>>
  BY DEF Agent, ReadSpool, Resend, ResendAcknowledged, ResendFailed, EndFlush,
         NoMoreHeartbeats, HeartbeatAcknowledged, HeartbeatFailed, Wake, Restart,
         Crash, vars, service, history
<1>2. state'.sequence <= Len(stored) /\ saved'.sequence <= Len(stored)
  <2>1. [Next]_vars
    BY DEF Next
  <2>2. NoState.sequence <= Len(stored)
    BY DEF NoState, IInv, ServiceInv
  <2>3. QED
    BY <2>1, <2>2, MarksMove DEF ChainInv
<1>3. call' # NoCall /\ call'.answered => call' = call
  BY DEF Agent, ReadSpool, Resend, Open, ResendAcknowledged, ResendFailed, EndFlush,
         NoMoreHeartbeats, HeartbeatAcknowledged, HeartbeatFailed, Acknowledge, Fail,
         GiveUp, Wake, Restart, Crash, vars
<1>4. QED
  BY <1>1, <1>2, <1>3 DEF ChainInv, Linear

LEMMA ChainStep ==
    ASSUME IInv, OriginInv, ~Forked => ChainInv, [Next]_vars
    PROVE  ~Forked' => ChainInv'
BY ForkStays, ServiceChain, HeartbeatChain, OtherChain DEF Next

\* The acknowledgement of the last event signed.
LEMMA WaitingAcknowledged ==
    ASSUME IInv, OriginInv, ChainInv, NEW s \in Seq(Event), s # <<>>, Waiting(s),
           signed' = signed,
           state' = [sequence |-> s[1].sequence, last_hash |-> s[1].event_hash]
    PROVE  Waiting(<<>>)'
<1>1. Len(s) # 0
  OBVIOUS
<1>2. s[1] = signed[Len(signed)] /\ Len(signed) \in 1..Len(signed)
  BY <1>1 DEF Waiting, IInv, SignedInv
<1>3. QED
  BY <1>2 DEF Waiting, ChainInv, Linear

LEMMA SingletonSequence ==
    ASSUME NEW S, NEW s \in Seq(S), Len(s) = 1
    PROVE  s = <<Head(s)>> /\ Tail(s) = <<>> /\ Head(s) = s[1]
<1>1. Head(s) = s[1] /\ s # <<>>
  OBVIOUS
<1>2. Tail(s) \in Seq(S) /\ Len(Tail(s)) = 0
  BY <1>1
<1>3. Tail(s) = <<>>
  <2>1. \A t \in Seq(S) : t # <<>> => Len(t) # 0
    OBVIOUS
  <2>2. QED
    BY <1>2, <2>1
<1>4. s = <<s[1]>>
  OBVIOUS
<1>5. QED
  BY <1>1, <1>3, <1>4

LEMMA FlushWait ==
    ASSUME IInv, OriginInv, ChainInv, WaitInv,
           ReadSpool \/ Resend \/ ResendAcknowledged \/ ResendFailed \/ EndFlush
    PROVE  WaitInv'
<1>1. /\ spool \in Seq(Event) /\ todo \in Seq(Event) /\ remaining \in Seq(Event)
      /\ signed' = signed
  BY DEF IInv, AgentInv, Known, ReadSpool, Resend, ResendAcknowledged, ResendFailed,
         EndFlush, history
<1>2. todo # <<>> /\ Waiting(todo) => /\ todo = <<Head(todo)>> /\ Tail(todo) = <<>>
                                      /\ Head(todo) = todo[1]
  <2>1. todo # <<>> => Len(todo) # 0
    BY <1>1
  <2>2. todo # <<>> /\ Waiting(todo) => Len(todo) = 1
    BY <2>1 DEF Waiting
  <2>3. QED
    BY <1>1, <2>2, SingletonSequence
<1>3. CASE ReadSpool
  BY <1>1, <1>3 DEF ReadSpool, WaitInv, Waiting, IInv, CallInv, disk, history
<1>4. CASE Resend
  BY <1>1, <1>4 DEF Resend, Open, WaitInv, Waiting, disk, memory
<1>5. CASE ResendAcknowledged
  <2>1. todo # <<>> /\ Waiting(todo) /\ remaining = <<>> /\ call.event = todo[1]
    BY <1>2, <1>5 DEF ResendAcknowledged, WaitInv, IInv, CallInv
  <2>2. /\ state' = [sequence |-> todo[1].sequence, last_hash |-> todo[1].event_hash]
        /\ saved' = state' /\ call' = NoCall
    BY <1>5, <2>1 DEF ResendAcknowledged, Acknowledge
  <2>3. Waiting(<<>>)'
    BY <1>1, <2>1, <2>2, WaitingAcknowledged
  <2>4. pc' = "flushing" /\ todo' = <<>> /\ remaining' = <<>>
    BY <1>2, <1>5, <2>1 DEF ResendAcknowledged
  <2>5. Waiting(remaining)'
    BY <2>3, <2>4 DEF Waiting
  <2>6. QED
    BY <2>2, <2>4, <2>5 DEF WaitInv
<1>6. CASE ResendFailed
  <2>1. /\ todo # <<>> /\ Waiting(todo) /\ remaining = <<>>
        /\ call.event = Head(todo) /\ call' = NoCall
    BY <1>6 DEF ResendFailed, Fail, GiveUp, WaitInv, IInv, CallInv
  <2>2. todo' = <<>> /\ remaining' = todo /\ UNCHANGED <<pc, state, saved>>
    BY <1>2, <1>6, <2>1 DEF ResendFailed, disk
  <2>3. Waiting(remaining)'
    BY <1>1, <2>1, <2>2 DEF Waiting
  <2>4. QED
    BY <1>6, <2>1, <2>2, <2>3 DEF WaitInv, ResendFailed
<1>7. CASE EndFlush
  BY <1>1, <1>7 DEF EndFlush, WaitInv, Waiting, history
<1>8. QED
  BY <1>3, <1>4, <1>5, <1>6, <1>7

LEMMA BeatWait ==
    ASSUME IInv, OriginInv, ChainInv, WaitInv,
           \/ Heartbeat /\ ~Forked'
           \/ NoMoreHeartbeats \/ HeartbeatAcknowledged \/ HeartbeatFailed \/ Wake
    PROVE  WaitInv'
<1>1. Len(signed) \in Nat /\ spool \in Seq(Event) /\ signed \in Seq(Event)
  BY DEF IInv, SignedInv, AgentInv, Known
<1>2. CASE Heartbeat /\ ~Forked'
  <2>1. state.sequence = Len(signed) /\ spool = <<>>
    BY <1>1, <1>2, HeartbeatLinear DEF ChainInv, WaitInv, Waiting, Heartbeat
  <2>2. SignEvent \in Event /\ signed' = Append(signed, SignEvent)
    BY <1>2, SignEventKnown DEF Heartbeat, IInv, AgentInv
  <2>3. call'.event = SignEvent /\ pc' = "beating" /\ UNCHANGED <<state, saved, spool>>
    BY <1>2 DEF Heartbeat, Open, disk
  <2>4. /\ Len(signed') = Len(signed) + 1
        /\ signed'[Len(signed')] = call'.event
    BY <1>1, <2>2, <2>3
  <2>5. Waiting(<<call.event>>)'
    BY <1>1, <2>1, <2>3, <2>4 DEF Waiting
  <2>6. QED
    BY <2>1, <2>3, <2>5 DEF WaitInv
<1>3. CASE NoMoreHeartbeats \/ Wake
  BY <1>3 DEF NoMoreHeartbeats, Wake, WaitInv, Waiting, disk, history
<1>4. CASE HeartbeatAcknowledged
  <2> DEFINE s == <<call.event>>
  <2>1. call.event \in Event /\ Waiting(s) /\ spool = <<>>
    BY <1>4 DEF HeartbeatAcknowledged, WaitInv, IInv, CallInv, Known
  <2>2. s \in Seq(Event) /\ s # <<>> /\ s[1] = call.event
    BY <2>1
  <2>3. /\ state' = [sequence |-> call.event.sequence, last_hash |-> call.event.event_hash]
        /\ saved' = state' /\ pc' = "sleep" /\ spool' = spool /\ signed' = signed
    BY <1>4 DEF HeartbeatAcknowledged, Acknowledge, history
  <2> HIDE DEF s
  <2>4. Waiting(<<>>)'
    BY <2>1, <2>2, <2>3, WaitingAcknowledged
  <2>5. Waiting(spool)'
    BY <2>1, <2>3, <2>4 DEF Waiting
  <2>6. QED
    BY <2>3, <2>5 DEF WaitInv
<1>5. CASE HeartbeatFailed
  <2>1. call.event \in Event /\ Waiting(<<call.event>>) /\ spool = <<>>
    BY <1>5 DEF HeartbeatFailed, WaitInv, IInv, CallInv, Known
  <2>2. spool' = <<call.event>> /\ pc' = "sleep" /\ UNCHANGED <<state, saved, signed>>
    BY <1>5, <2>1 DEF HeartbeatFailed
  <2>3. Waiting(spool)'
    BY <2>1, <2>2 DEF Waiting
  <2>4. QED
    BY <2>2, <2>3, <1>5 DEF WaitInv, HeartbeatFailed
<1>6. QED
  BY <1>2, <1>3, <1>4, <1>5

LEMMA WaitStep ==
    ASSUME IInv, OriginInv, ~Forked => ChainInv, ~Forked /\ crashes = 0 => WaitInv,
           [Next]_vars, ~Forked', crashes' = 0
    PROVE  WaitInv'
<1>1. ~Forked /\ ChainInv
  BY ForkStays
<1>2. crashes = 0 /\ ~Crash
  BY DEF Next, Agent, Serve, ServeLate, Crash, ReadSpool, Resend, ResendAcknowledged,
         ResendFailed, EndFlush, Heartbeat, NoMoreHeartbeats, HeartbeatAcknowledged,
         HeartbeatFailed, Wake, Restart, vars, IInv, CountInv
<1>3. WaitInv
  BY <1>1, <1>2
<1>4. CASE Serve \/ (\E c \in late : ServeLate(c)) \/ UNCHANGED vars
  <2>1. UNCHANGED <<state, saved, spool, pc, todo, remaining, signed>>
    BY <1>4 DEF Serve, ServeLate, vars, memory, disk, history
  <2>2. call' # NoCall \/ pc = "beating" => call # NoCall /\ call'.event = call.event
    BY <1>4 DEF Serve, ServeLate, vars, IInv, CallInv
  <2>3. QED
    BY <1>3, <2>1, <2>2 DEF WaitInv, Waiting
<1>5. CASE Restart
  BY <1>3, <1>5 DEF Restart, WaitInv
<1>6. QED
  BY <1>1, <1>2, <1>3, <1>4, <1>5, FlushWait, BeatWait DEF Next, Agent

LEMMA HealStep ==
    ASSUME IInv, JInv, [Next]_vars, failures' <= 1, crashes' = 0
    PROVE  HealInv'
<1>1. /\ crashes = 0 /\ ~Crash /\ failures \in Nat
      /\ failures' \in {failures, failures + 1}
  BY DEF Next, Agent, Serve, ServeLate, Crash, ReadSpool, Resend, ResendAcknowledged,
         ResendFailed, EndFlush, Heartbeat, NoMoreHeartbeats, HeartbeatAcknowledged,
         HeartbeatFailed, Fail, Wake, Restart, vars, IInv, CountInv
<1>2. HealInv /\ WaitInv /\ ChainInv /\ OriginInv
  <2>1. failures <= 1
    BY <1>1
  <2>2. QED
    BY <1>1, <2>1 DEF JInv, HealInv
<1>3. CASE Heartbeat
  <2>1. state.sequence = Len(signed)
    BY <1>2, <1>3 DEF HealInv, WaitInv, Waiting, Heartbeat
  <2>2. ~Forked'
    BY <1>2, <1>3, <2>1, HeartbeatLinear DEF ChainInv
  <2>3. QED
    BY <1>2, <1>3, <2>2 DEF HealInv, Heartbeat, disk
<1>4. CASE ~Heartbeat
  <2>1. ~Forked'
    BY <1>2, <1>4, OutstandingMoves DEF HealInv, Forked
  <2>2. CASE \/ Serve \/ (\E c \in late : ServeLate(c)) \/ Resend
             \/ NoMoreHeartbeats \/ HeartbeatAcknowledged \/ Wake \/ UNCHANGED vars
    BY <1>2, <2>1, <2>2
       DEF Serve, ServeLate, Resend, NoMoreHeartbeats, HeartbeatAcknowledged,
           Acknowledge, Wake, vars, disk, memory, HealInv
  <2>3. CASE ReadSpool \/ EndFlush
    BY <1>2, <2>1, <2>3 DEF ReadSpool, EndFlush, disk, HealInv
  <2>4. CASE ResendAcknowledged
    <3>1. todo # <<>> /\ failures # 0
      BY <1>2, <2>4 DEF ResendAcknowledged, IInv, CallInv, HealInv
    <3>2. QED
      BY <1>2, <2>1, <2>4, <3>1 DEF ResendAcknowledged, HealInv
  <2>5. CASE ResendFailed
    <3>1. todo # <<>> /\ failures' = failures + 1
      BY <2>5 DEF ResendFailed, Fail, IInv, CallInv
    <3>2. failures = 0
      BY <1>1, <3>1
    <3>3. QED
      BY <1>2, <3>1, <3>2 DEF HealInv
  <2>6. CASE HeartbeatFailed
    BY <1>1, <1>2, <2>1, <2>6 DEF HeartbeatFailed, Fail, HealInv
  <2>7. CASE Restart
    BY <1>2, <2>7 DEF Restart, WaitInv
  <2>8. QED
    BY <1>1, <1>4, <2>2, <2>3, <2>4, <2>5, <2>6, <2>7 DEF Next, Agent
<1>5. QED
  BY <1>3, <1>4

LEMMA JStart == Init => JInv
<1>. SUFFICES ASSUME Init PROVE JInv
  OBVIOUS
<1>1. Len(signed) = 0 /\ Len(stored) = 0 /\ Outstanding = {}
  BY DEF Init, Outstanding, Range
<1>2. OriginInv /\ Linear /\ ~Forked
  BY <1>1 DEF Init, OriginInv, MarkOrigin, Linear, Forked
<1>3. ChainInv
  BY <1>1, <1>2 DEF Init, ChainInv, NoState
<1>4. WaitInv /\ HealInv
  BY <1>1, <1>2 DEF Init, WaitInv, Waiting, HealInv, NoState
<1>5. QED
  BY <1>2, <1>3, <1>4 DEF JInv

\* While no number is signed twice, what the service has stored is a beginning
\* of the agent's own chain; without a crash at most one event waits; one
\* failure never makes the agent sign a number twice.
THEOREM ChainInvariant == Spec => []JInv
<1>1. IInv /\ JInv /\ [Next]_vars => JInv'
  <2> SUFFICES ASSUME IInv, JInv, [Next]_vars PROVE JInv'
    OBVIOUS
  <2>1. OriginInv'
    BY OriginStep DEF JInv
  <2>2. ~Forked' => ChainInv'
    BY ChainStep DEF JInv
  <2>3. ~Forked' /\ crashes' = 0 => WaitInv'
    BY WaitStep DEF JInv
  <2>4. failures' <= 1 /\ crashes' = 0 => HealInv'
    BY HealStep
  <2>5. QED
    BY <2>1, <2>2, <2>3, <2>4 DEF JInv
<1>2. QED
  BY <1>1, JStart, Invariant, PTL DEF Spec

\* send replaces the state file only after an answer of 200, so as long as
\* no number was signed twice it names an event the service has stored, and
\* without a crash the last one or the one before.
THEOREM StateFileTrue == Spec => []StateFileOnChain
<1>1. ASSUME IInv, JInv PROVE StateFileOnChain
  <2> SUFFICES ASSUME ~Forked PROVE /\ saved.sequence <= Len(stored)
                                    /\ saved.last_hash =
                                         IF saved.sequence = 0 THEN NoHash
                                         ELSE stored[saved.sequence].event_hash
                                    /\ crashes = 0 => saved.sequence >= Len(stored) - 1
    BY DEF StateFileOnChain
  <2>1. ChainInv /\ OriginInv /\ Len(stored) \in Nat /\ Len(signed) \in Nat
    BY <1>1 DEF JInv, IInv, ServiceInv, SignedInv
  <2>2. saved.sequence = saved.last_hash /\ saved.sequence \in 0..Len(signed)
    BY <1>1, <2>1, LinearMark DEF OriginInv, ChainInv
  <2>3. saved.sequence # 0 => stored[saved.sequence].event_hash = saved.sequence
    <3>1. saved.sequence # 0 => /\ saved.sequence \in 1..Len(stored)
                                /\ saved.sequence \in 1..Len(signed)
      BY <2>1, <2>2 DEF ChainInv
    <3>2. QED
      BY <2>1, <3>1 DEF ChainInv, OriginInv
  <2>4. crashes = 0 => saved.sequence >= Len(stored) - 1
    <3>1. ASSUME crashes = 0 PROVE saved.sequence >= Len(signed) - 1
      <4>1. WaitInv /\ pc \in {"flush", "flushing", "beat", "beating", "sleep"}
        BY <1>1, <3>1 DEF JInv, IInv, AgentInv, WaitInv
      <4>2. \E s : Waiting(s)
        BY <4>1 DEF WaitInv
      <4>3. QED
        BY <2>1, <4>1, <4>2 DEF WaitInv, Waiting
    <3>2. QED
      BY <2>1, <2>2, <3>1 DEF ChainInv
  <2>5. QED
    BY <2>1, <2>2, <2>3, <2>4 DEF ChainInv, NoHash
<1>2. QED
  BY <1>1, Invariant, ChainInvariant, PTL

\* One failed call, wherever its request or its answer was lost and whenever a
\* late copy arrives, leaves the chain of a running agent whole: flush sends
\* the spooled event before the next heartbeat is signed.
THEOREM OneFailureIsHealed == Spec => []OneFailureHeals
<1>1. ASSUME IInv, JInv PROVE OneFailureHeals
  <2> SUFFICES ASSUME failures <= 1, crashes = 0, pc = "beat", spool = <<>>
               PROVE  /\ stored = signed
                      /\ state.last_hash = head.last_event_hash
                      /\ state.sequence = head.last_sequence
    BY DEF OneFailureHeals
  <2>1. ChainInv /\ OriginInv /\ WaitInv
    BY <1>1 DEF JInv, HealInv
  <2>2. state.sequence = Len(signed) /\ Len(signed) \in Nat /\ Len(stored) \in Nat
    BY <1>1, <2>1 DEF WaitInv, Waiting, IInv, SignedInv, ServiceInv
  <2>3. Len(stored) = Len(signed)
    BY <2>1, <2>2 DEF ChainInv
  <2>4. stored = signed
    <3>1. stored \in Seq(Known) /\ signed \in Seq(Event)
      BY <1>1 DEF IInv, ServiceInv, SignedInv
    <3>2. \A k \in 1..Len(stored) : stored[k] = signed[k]
      BY <2>1 DEF ChainInv
    <3>3. stored \in Seq(Event)
      BY <3>1 DEF Known
    <3>4. QED
      BY <2>3, <3>1, <3>2, <3>3
  <2>5. state.sequence = state.last_hash
    BY <1>1, <2>1, LinearMark DEF OriginInv, ChainInv
  <2>6. QED
    BY <1>1, <2>1, <2>2, <2>3, <2>4, <2>5, StoredTip
<1>2. QED
  BY <1>1, Invariant, ChainInvariant, PTL
=============================================================================
