--------------------- MODULE MixConnectionHandlerProofs ---------------------
(***************************************************************************)
(* Proofs about the mix connection handler, for every value of the         *)
(* constants that satisfies ConstantsAssumption.                           *)
(***************************************************************************)
EXTENDS MixConnectionHandler, SequenceTheorems, TLAPS

USE ConstantsAssumption

-----------------------------------------------------------------------------
(* Lemmas on the helpers the actions are built from.                       *)

\* A delivered event keeps the behaviour's observations well typed.
LEMMA DeliverType ==
    ASSUME TypeOK, NEW ev \in Event, Deliver(ev)
    PROVE  linkUp' \in BOOLEAN /\ delivered' \in Seq(Frame)
<1>1. linkUp' \in BOOLEAN
    <2>1. CASE ev.kind = "FullyNegotiatedOutbound"
        BY <2>1 DEF Deliver
    <2>2. CASE ev.kind \in {"NegotiationFailed", "IOError"}
        BY <2>2 DEF Deliver
    <2>3. CASE ev.kind \notin {"FullyNegotiatedOutbound", "NegotiationFailed", "IOError"}
        BY <2>3, Zenon DEF Deliver, TypeOK
    <2>. QED
        BY <2>1, <2>2, <2>3
<1>2. ev.msg \in Frame
    BY DEF Event
<1>3. delivered' \in Seq(Frame)
    BY <1>2 DEF Deliver, TypeOK
<1>. QED
    BY <1>1, <1>3

\* Popping the queue yields a frame and leaves a queue of payloads.
LEMMA QueuePopType ==
    ASSUME TypeOK
    PROVE  QueueHead \in {Noise} \cup Payload /\ QueueTail \in Seq(Payload)
BY DEF QueueHead, QueueTail, TypeOK, Frame, Noise

-----------------------------------------------------------------------------
(* Lemmas on sequences of payloads, used for OutboundFIFO.                 *)

\* Appending a value larger than every element keeps a sequence strictly
\* increasing and adds the value to its range.
LEMMA IncreasingAppend ==
    ASSUME NEW s \in Seq(Nat), NEW n \in Nat, StrictlyIncreasing(s),
           \A i \in DOMAIN s : s[i] < n
    PROVE  /\ StrictlyIncreasing(Append(s, n))
           /\ Range(Append(s, n)) = Range(s) \cup {n}
<1>1. StrictlyIncreasing(Append(s, n))
    BY DEF StrictlyIncreasing
<1>2. Range(Append(s, n)) = Range(s) \cup {n}
    BY DEF Range
<1>. QED
    BY <1>1, <1>2

\* Removing one element of a strictly increasing sequence keeps it strictly
\* increasing and removes exactly that element from its range.
LEMMA IncreasingRemove ==
    ASSUME NEW a \in Seq(Nat), NEW b \in Seq(Nat), NEW x \in Nat,
           StrictlyIncreasing(a \o <<x>> \o b)
    PROVE  /\ StrictlyIncreasing(a \o b)
           /\ Range(a \o <<x>> \o b) = Range(a \o b) \cup {x}
           /\ x \notin Range(a \o b)
<1> DEFINE t == a \o <<x>> \o b
<1>0. /\ t \in Seq(Nat) /\ a \o b \in Seq(Nat)
      /\ Len(a) \in Nat /\ Len(b) \in Nat
    OBVIOUS
<1>1. /\ Len(t) = Len(a) + 1 + Len(b)
      /\ \A i \in 1 .. Len(a) : t[i] = a[i]
      /\ t[Len(a) + 1] = x
      /\ \A i \in 1 .. Len(b) : t[Len(a) + 1 + i] = b[i]
    OBVIOUS
<1>2. /\ Len(a \o b) = Len(a) + Len(b)
      /\ \A i \in 1 .. Len(a) : (a \o b)[i] = a[i]
      /\ \A i \in 1 .. Len(b) : (a \o b)[Len(a) + i] = b[i]
    OBVIOUS
<1> DEFINE pos(i) == IF i <= Len(a) THEN i ELSE i + 1
<1>3. \A i \in 1 .. Len(a) + Len(b) :
         /\ pos(i) \in 1 .. Len(t)
         /\ (a \o b)[i] = t[pos(i)]
    BY <1>1, <1>2
<1>4. \A i, j \in 1 .. Len(a) + Len(b) : i < j => pos(i) < pos(j)
    OBVIOUS
<1>5. \A i \in 1 .. Len(a) + Len(b) : pos(i) # Len(a) + 1
    OBVIOUS
<1>6. DOMAIN t = 1 .. Len(t) /\ DOMAIN (a \o b) = 1 .. Len(a) + Len(b)
    BY <1>1, <1>2
<1>7. StrictlyIncreasing(a \o b)
    <2> SUFFICES ASSUME NEW i \in 1 .. Len(a) + Len(b),
                        NEW j \in 1 .. Len(a) + Len(b), i < j
                 PROVE  (a \o b)[i] < (a \o b)[j]
        BY <1>6 DEF StrictlyIncreasing
    <2>1. pos(i) \in DOMAIN t /\ pos(j) \in DOMAIN t /\ pos(i) < pos(j)
        BY <1>3, <1>4, <1>6
    <2>2. t[pos(i)] < t[pos(j)]
        BY <2>1 DEF StrictlyIncreasing
    <2>. QED
        BY <2>2, <1>3
<1>8. Range(t) = Range(a \o b) \cup {x}
    <2>1. Range(a \o b) \subseteq Range(t)
        BY <1>3, <1>6 DEF Range
    <2>2. x \in Range(t)
        <3>1. Len(a) + 1 \in DOMAIN t
            BY <1>0, <1>1, <1>6
        <3>. QED
            BY <3>1, <1>1 DEF Range
    <2>3. ASSUME NEW k \in 1 .. Len(t), k # Len(a) + 1
          PROVE  t[k] \in Range(a \o b)
        <3>1. CASE k <= Len(a)
            <4>1. k \in 1 .. Len(a) + Len(b) /\ pos(k) = k
                BY <3>1
            <4>. QED
                BY <4>1, <1>3, <1>6 DEF Range
        <3>2. CASE k > Len(a)
            <4>1. k - 1 \in 1 .. Len(a) + Len(b) /\ pos(k - 1) = k
                BY <3>2, <1>0, <1>1, <2>3
            <4>. QED
                BY <4>1, <1>3, <1>6 DEF Range
        <3>. QED
            BY <3>1, <3>2
    <2>4. Range(t) \subseteq Range(a \o b) \cup {x}
        <3> SUFFICES ASSUME NEW k \in DOMAIN t
                     PROVE  t[k] \in Range(a \o b) \cup {x}
            BY DEF Range
        <3>1. CASE k = Len(a) + 1
            BY <1>1, <3>1
        <3>2. CASE k # Len(a) + 1
            BY <1>6, <2>3, <3>2
        <3>. QED
            BY <3>1, <3>2
    <2>. QED
        BY <2>1, <2>2, <2>4
<1>9. x \notin Range(a \o b)
    <2> SUFFICES ASSUME NEW i \in 1 .. Len(a) + Len(b), (a \o b)[i] = x
                 PROVE  FALSE
        BY <1>6 DEF Range
    <2>1. pos(i) \in DOMAIN t /\ Len(a) + 1 \in DOMAIN t /\ pos(i) # Len(a) + 1
        BY <1>0, <1>1, <1>3, <1>5, <1>6
    <2>2. t[pos(i)] # t[Len(a) + 1]
        <3>1. CASE pos(i) < Len(a) + 1
            <4>1. t[pos(i)] < t[Len(a) + 1]
                BY <2>1, <3>1 DEF StrictlyIncreasing
            <4>2. t[Len(a) + 1] \in Nat /\ t[pos(i)] \in Nat
                BY <1>0, <2>1
            <4>. QED
                BY <4>1, <4>2
        <3>2. CASE pos(i) > Len(a) + 1
            <4>1. t[Len(a) + 1] < t[pos(i)]
                BY <2>1, <3>2 DEF StrictlyIncreasing
            <4>2. t[Len(a) + 1] \in Nat /\ t[pos(i)] \in Nat
                BY <1>0, <2>1
            <4>. QED
                BY <4>1, <4>2
        <3>. QED
            BY <1>0, <1>6, <2>1, <3>1, <3>2
    <2>. QED
        BY <2>2, <1>1, <1>3
<1>. QED
    BY <1>7, <1>8, <1>9

\* A non-empty sequence is its head followed by its tail.
LEMMA HeadTailConcat ==
    ASSUME NEW q \in Seq(Nat), q # << >>
    PROVE  <<Head(q)>> \o Tail(q) = q
BY HeadTailProperties

\* Appending to the second part of a concatenation.
LEMMA ConcatAppend ==
    ASSUME NEW s \in Seq(Nat), NEW q \in Seq(Nat), NEW n \in Nat
    PROVE  s \o Append(q, n) = Append(s \o q, n)
BY AppendIsConcat, ConcatAssociative, ConcatProperties

-----------------------------------------------------------------------------
(* TypeOK is inductive.                                                    *)

\* Every step of poll keeps the type.
LEMMA PollType ==
    ASSUME TypeOK, Poll
    PROVE  TypeOK'
<1>1. CASE PollPendingEvent
    <2>1. Head(pending) \in Event /\ Tail(pending) \in Seq(Event)
        BY <1>1 DEF PollPendingEvent, TypeOK
    <2>2. linkUp' \in BOOLEAN /\ delivered' \in Seq(Frame)
        BY <1>1, <2>1, DeliverType DEF PollPendingEvent
    <2>. QED
        BY <1>1, <2>1, <2>2 DEF PollPendingEvent, TypeOK, inVars, outVars, envVars
<1>2. CASE PollInboundMessage
    <2>1. MessageEv(Head(inWire)) \in Event
        BY <1>2 DEF PollInboundMessage, InboundReadOk, TypeOK, MessageEv, Event, EventKind
    <2>2. linkUp' \in BOOLEAN /\ delivered' \in Seq(Frame)
        BY <1>2, <2>1, DeliverType DEF PollInboundMessage
    <2>. QED
        BY <1>2, <2>2 DEF PollInboundMessage, InboundReadOk, TypeOK, inVars, outVars, envVars
<1>3. CASE PollOutbound
    <2>1. inbound' \in {"None", "Recv"} /\ inWire' \in Seq(Frame) /\ inErr' \in BOOLEAN
        <3>1. CASE InboundReadOk /\ Head(inWire) = Noise /\ inWire' = Tail(inWire)
                   /\ UNCHANGED <<inbound, inErr>>
            BY <3>1 DEF InboundReadOk, TypeOK
        <3>2. CASE InboundReadErr /\ inbound' = "None" /\ inErr' = FALSE /\ UNCHANGED inWire
            BY <3>2 DEF TypeOK
        <3>3. CASE UNCHANGED inVars
            BY <3>3 DEF TypeOK, inVars
        <3>. QED
            BY <1>3, <3>1, <3>2, <3>3 DEF PollOutbound, InboundNoEvent
    <2>2. /\ outbound' \in OutboundState
          /\ sending' \in {Noise} \cup Payload
          /\ writeRes' \in {"Pending", "Ok", "Err"}
          /\ elapsed' \in 0 .. Interval
          /\ queue' \in Seq(Payload)
          /\ swarmReqs' \in Nat
          /\ sincePop' \in 0 .. Interval
          /\ linkUp' \in BOOLEAN
          /\ delivered' \in Seq(Frame)
        <3>1. QueueHead \in {Noise} \cup Payload /\ QueueTail \in Seq(Payload)
            BY QueuePopType
        <3>2. Ev("IOError") \in Event
            BY DEF Ev, Event, EventKind, Frame, Noise
        <3>3. CASE SendFailed
            BY <3>2, <3>3, DeliverType DEF SendFailed, TypeOK, OutboundState
        <3>. QED
            BY <1>3, <3>1, <3>3 DEF PollOutbound, OutboundLoop, RequestSubstream,
                SendNext, IdleWait, TypeOK, OutboundState, outVars, obsVars
    <2>. QED
        BY <1>3, <2>1, <2>2 DEF PollOutbound, TypeOK, envVars
<1>. QED
    BY <1>1, <1>2, <1>3 DEF Poll

\* Every step of the environment keeps the type.
LEMMA EnvironmentType ==
    ASSUME TypeOK, Environment
    PROVE  TypeOK'
<1>1. CASE OnBehaviourMessage
    BY <1>1 DEF OnBehaviourMessage, TypeOK, Payload, inVars, obsVars
<1>2. CASE OnFullyNegotiatedInbound
    <2>1. inErr' \in BOOLEAN
        BY <1>2, Zenon DEF OnFullyNegotiatedInbound
    <2>. QED
        BY <1>2, <2>1 DEF OnFullyNegotiatedInbound, TypeOK, inVars, outVars, envVars, obsVars
<1>3. CASE OnFullyNegotiatedOutbound
    <2>1. Ev("FullyNegotiatedOutbound") \in Event
        BY DEF Ev, Event, EventKind, Frame, Noise
    <2>. QED
        BY <1>3, <2>1 DEF OnFullyNegotiatedOutbound, TypeOK, OutboundState,
            inVars, envVars, obsVars
<1>4. ASSUME NEW e \in DialErrors, OnDialUpgradeError(e)
      PROVE  TypeOK'
    <2>1. Ev(IF e = "NegotiationFailed" THEN "NegotiationFailed" ELSE "IOError") \in Event
        BY DEF Ev, Event, EventKind, Frame, Noise
    <2>. QED
        BY <1>4, <2>1 DEF OnDialUpgradeError, TypeOK, inVars, envVars, obsVars
<1>5. ASSUME NEW f \in Frame, PeerWrite(f)
      PROVE  TypeOK'
    <2>1. inWire' \in Seq(Frame) /\ peerNext' \in 1 .. MaxPeerFrames + 1
        BY <1>5 DEF PeerWrite, TypeOK
    <2>. QED
        BY <1>5, <2>1 DEF PeerWrite, TypeOK, outVars, obsVars
<1>6. CASE InboundFault
    BY <1>6 DEF InboundFault, TypeOK, outVars, obsVars
<1>7. CASE WriteComplete
    <2>1. CASE sending = Noise
        BY <1>7, <2>1 DEF WriteComplete, TypeOK, inVars, obsVars
    <2>2. CASE sending # Noise
        <3>1. sending \in Payload
            BY <2>2 DEF TypeOK
        <3>2. sent' \in Seq(Payload) /\ lost' \in SUBSET Payload
            <4>1. CASE writeRes' = "Ok"
                <5>1. sent' = Append(sent, sending) /\ lost' = lost
                    BY <1>7, <2>2, <4>1 DEF WriteComplete
                <5>. QED
                    BY <3>1, <5>1 DEF TypeOK
            <4>2. CASE writeRes' = "Err"
                <5>1. sent' = sent /\ lost' = lost \cup {sending}
                    BY <1>7, <2>2, <4>2 DEF WriteComplete
                <5>. QED
                    BY <3>1, <5>1 DEF TypeOK
            <4>. QED
                BY <1>7, <4>1, <4>2 DEF WriteComplete
        <3>. QED
            BY <1>7, <3>2 DEF WriteComplete, TypeOK, inVars, obsVars
    <2>. QED
        BY <2>1, <2>2
<1>8. CASE Tick
    BY <1>8 DEF Tick, TypeOK, inVars, envVars, obsVars
<1>. QED
    BY <1>1, <1>2, <1>3, <1>4, <1>5, <1>6, <1>7, <1>8 DEF Environment

\* The handler's state, its environment and the observation variables
\* always have their types.
\* One step of the specification keeps the type.
LEMMA TypeStep == TypeOK /\ [Next]_vars => TypeOK'
<1> SUFFICES ASSUME TypeOK, [Next]_vars PROVE TypeOK'
    OBVIOUS
<1>1. CASE Poll
    BY <1>1, PollType
<1>2. CASE Environment
    BY <1>2, EnvironmentType
<1>3. CASE UNCHANGED vars
    BY <1>3 DEF vars, inVars, outVars, envVars, obsVars, TypeOK
<1>. QED
    BY <1>1, <1>2, <1>3 DEF Next

\* The initial state has the type.
LEMMA TypeInit == Init => TypeOK
<1> SUFFICES ASSUME Init PROVE TypeOK
    OBVIOUS
<1>1. inErr \in BOOLEAN /\ linkUp \in BOOLEAN
    BY Zenon DEF Init
<1>. QED
    BY <1>1 DEF Init, TypeOK, Noise, OutboundState

THEOREM TypeCorrect == Spec => []TypeOK
BY TypeInit, TypeStep, PTL DEF Spec

-----------------------------------------------------------------------------
(* SingleSubstreamRequest.  It is inductive once the type of swarmReqs is  *)
(* known: a request is made only from "None", where no request can be     *)
(* outstanding, and every answer of the swarm consumes the one request.   *)

SSRInv == TypeOK /\ SingleSubstreamRequest

\* Outside PendingOpenSubstream no request is outstanding.
LEMMA NoRequestOutsidePendingOpen ==
    ASSUME SSRInv, outbound # "PendingOpen"
    PROVE  swarmReqs = 0
BY DEF SSRInv, TypeOK, SingleSubstreamRequest

LEMMA SSRStep == SSRInv /\ [Next]_vars => SSRInv'
<1> SUFFICES ASSUME SSRInv, [Next]_vars PROVE SingleSubstreamRequest'
    BY TypeStep DEF SSRInv
<1>1. CASE UNCHANGED <<outbound, swarmReqs>>
    BY <1>1 DEF SSRInv, SingleSubstreamRequest
<1>2. CASE RequestSubstream
    <2>1. outbound # "PendingOpen"
        BY <1>2 DEF RequestSubstream
    <2>2. swarmReqs = 0
        BY <2>1, NoRequestOutsidePendingOpen
    <2>. QED
        BY <1>2, <2>2 DEF RequestSubstream, SingleSubstreamRequest
<1>3. CASE SendFailed
    <2>1. outbound # "PendingOpen"
        BY <1>3 DEF SendFailed
    <2>2. swarmReqs = 0
        BY <2>1, NoRequestOutsidePendingOpen
    <2>. QED
        BY <1>3, <2>2 DEF SendFailed, SingleSubstreamRequest
<1>4. CASE outbound # "PendingOpen" /\ (SendNext \/ IdleWait)
    <2>1. swarmReqs = 0
        BY <1>4, NoRequestOutsidePendingOpen
    <2>. QED
        BY <1>4, <2>1 DEF SendNext, IdleWait, SingleSubstreamRequest
<1>5. CASE OnFullyNegotiatedOutbound
    BY <1>5 DEF OnFullyNegotiatedOutbound, SSRInv, TypeOK, SingleSubstreamRequest
<1>6. ASSUME NEW e \in DialErrors, OnDialUpgradeError(e)
      PROVE  SingleSubstreamRequest'
    BY <1>6 DEF OnDialUpgradeError, SSRInv, TypeOK, SingleSubstreamRequest
<1>7. CASE PollOutbound
    <2>1. OutboundLoop
        BY <1>7 DEF PollOutbound
    <2>. QED
        BY <1>1, <1>2, <1>3, <1>4, <2>1 DEF OutboundLoop, outVars
<1>8. CASE Poll
    BY <1>1, <1>7, <1>8 DEF Poll, PollPendingEvent, PollInboundMessage, outVars
<1>9. CASE Environment
    BY <1>1, <1>5, <1>6, <1>9 DEF Environment, OnBehaviourMessage,
        OnFullyNegotiatedInbound, PeerWrite, InboundFault, WriteComplete, Tick, outVars
<1>10. CASE UNCHANGED vars
    BY <1>1, <1>10 DEF vars, outVars
<1>. QED
    BY <1>8, <1>9, <1>10 DEF Next

\* The handler never has two outbound substream requests outstanding, and
\* while one is outstanding it is in PendingOpenSubstream
\* (poll's request at handler.rs:181-186 and the answers handled at
\* handler.rs:216-245).
THEOREM SingleRequestTheorem == Spec => []SingleSubstreamRequest
<1>1. Init => SSRInv
    BY TypeInit DEF Init, SSRInv, SingleSubstreamRequest
<1>. QED
    BY <1>1, SSRStep, PTL DEF Spec, SSRInv

-----------------------------------------------------------------------------
(* OutboundFIFO.  It needs SingleSubstreamRequest: FullyNegotiatedOutbound  *)
(* overwrites the outbound state whatever it is (handler.rs:221), and only *)
(* the fact that it arrives in PendingOpenSubstream, where no write is in  *)
(* flight, keeps the in-flight payload from being dropped from the trail.   *)

FIFOInv == SSRInv /\ OutboundFIFO

\* The parts of the outbound trail are sequences of numbers.
LEMMA TrailTypes ==
    ASSUME TypeOK
    PROVE  /\ sent \in Seq(Nat) /\ queue \in Seq(Nat)
           /\ InFlight \in Seq(Nat)
           /\ sent \o InFlight \in Seq(Nat)
           /\ OutboundTrail \in Seq(Nat)
<1>1. sent \in Seq(Nat) /\ queue \in Seq(Nat)
    BY DEF TypeOK, Payload
<1>2. InFlight \in Seq(Nat)
    BY DEF TypeOK, Payload, Noise, InFlight
<1>. QED
    BY <1>1, <1>2 DEF OutboundTrail

\* A step that changes neither the trail's parts nor lost nor nextId keeps
\* OutboundFIFO.
LEMMA TrailKept ==
    ASSUME OutboundFIFO, sent' = sent, InFlight' = InFlight, queue' = queue,
           lost' = lost, nextId' = nextId
    PROVE  OutboundFIFO'
BY DEF OutboundFIFO, OutboundTrail

\* No payload is in flight outside PendingSend with a pending write.
LEMMA NothingInFlight ==
    ASSUME ~(outbound = "PendingSend" /\ writeRes = "Pending")
    PROVE  InFlight = << >>
BY DEF InFlight

\* The pop of SendNext moves the head of the queue into flight.
LEMMA SendNextFIFO ==
    ASSUME TypeOK, OutboundFIFO, InFlight = << >>, SendNext,
           UNCHANGED <<sent, lost, nextId>>
    PROVE  OutboundFIFO'
<1>1. CASE queue = << >>
    <2>1. sending' = Noise /\ queue' = queue
        BY <1>1 DEF SendNext, QueueHead, QueueTail
    <2>. QED
        BY <2>1, TrailKept DEF InFlight
<1>2. CASE queue # << >>
    <2>1. queue \in Seq(Nat) /\ sent \in Seq(Nat)
        BY TrailTypes
    <2>2. sending' = Head(queue) /\ queue' = Tail(queue)
        BY <1>2 DEF SendNext, QueueHead, QueueTail
    <2>3. Head(queue) \in Payload /\ Head(queue) # Noise
        BY <1>2, HeadTailProperties DEF TypeOK, Payload, Noise
    <2>4. InFlight' = <<Head(queue)>>
        BY <2>2, <2>3 DEF SendNext, InFlight
    <2>5. OutboundTrail' = sent \o (<<Head(queue)>> \o Tail(queue))
        <3>1. <<Head(queue)>> \in Seq(Nat) /\ Tail(queue) \in Seq(Nat)
            BY <1>2, <2>1, HeadTailProperties
        <3>. QED
            BY <2>1, <2>2, <2>4, <3>1, ConcatAssociative DEF OutboundTrail
    <2>6. OutboundTrail' = OutboundTrail
        BY <1>2, <2>1, <2>5, HeadTailConcat, ConcatEmptySeq DEF OutboundTrail
    <2>. QED
        BY <2>6 DEF OutboundFIFO
<1>. QED
    BY <1>1, <1>2

\* OnBehaviourMessage appends nextId, larger than every payload so far.
LEMMA PushFIFO ==
    ASSUME TypeOK, OutboundFIFO, OnBehaviourMessage
    PROVE  OutboundFIFO'
<1> DEFINE s == sent \o InFlight
<1>1. s \in Seq(Nat) /\ queue \in Seq(Nat) /\ nextId \in Nat
    BY TrailTypes DEF TypeOK
<1>2. InFlight' = InFlight
    BY DEF OnBehaviourMessage, InFlight
<1>3. OutboundTrail' = Append(OutboundTrail, nextId)
    BY <1>1, <1>2, ConcatAppend DEF OnBehaviourMessage, OutboundTrail
<1>4. \A i \in DOMAIN OutboundTrail : OutboundTrail[i] < nextId
    <2>1. Range(OutboundTrail) \subseteq 1 .. nextId - 1
        BY DEF OutboundFIFO
    <2>2. \A i \in DOMAIN OutboundTrail : OutboundTrail[i] \in Range(OutboundTrail)
        BY DEF Range
    <2>. QED
        BY <1>1, <2>1, <2>2
<1>5. /\ StrictlyIncreasing(OutboundTrail')
      /\ Range(OutboundTrail') = Range(OutboundTrail) \cup {nextId}
    <2>1. OutboundTrail \in Seq(Nat) /\ StrictlyIncreasing(OutboundTrail)
        BY TrailTypes DEF OutboundFIFO
    <2>. QED
        BY <1>1, <1>3, <1>4, <2>1, IncreasingAppend
<1>6. nextId \notin lost /\ lost' = lost /\ nextId' = nextId + 1
    BY DEF OutboundFIFO, OnBehaviourMessage, TypeOK
<1>. QED
    BY <1>5, <1>6 DEF OutboundFIFO, TypeOK

\* A completed write moves the in-flight payload to sent, a failed one to
\* lost.
LEMMA WriteCompleteFIFO ==
    ASSUME TypeOK, OutboundFIFO, WriteComplete
    PROVE  OutboundFIFO'
<1>1. UNCHANGED <<queue, nextId>> /\ InFlight' = << >>
    BY DEF WriteComplete, InFlight
<1>2. CASE sending = Noise
    <2>1. InFlight = << >> /\ sent' = sent /\ lost' = lost
        BY <1>2 DEF WriteComplete, InFlight, Noise
    <2>. QED
        BY <1>1, <2>1, TrailKept
<1>3. CASE sending # Noise
    <2>1. InFlight = <<sending>> /\ sending \in Nat
        BY <1>3 DEF WriteComplete, InFlight, TypeOK, Payload
    <2>2. sent \in Seq(Nat) /\ queue \in Seq(Nat)
        BY TrailTypes
    <2>3. CASE writeRes' = "Ok"
        <3>1. sent' = Append(sent, sending) /\ lost' = lost
            BY <1>3, <2>3 DEF WriteComplete
        <3>2. OutboundTrail' = OutboundTrail
            BY <1>1, <2>1, <2>2, <3>1, AppendIsConcat, ConcatEmptySeq
            DEF OutboundTrail
        <3>. QED
            BY <3>1, <3>2, <1>1 DEF OutboundFIFO
    <2>4. CASE writeRes' = "Err"
        <3>1. sent' = sent /\ lost' = lost \cup {sending}
            BY <1>3, <2>4 DEF WriteComplete, Noise
        <3>2. OutboundTrail' = sent \o queue /\ OutboundTrail = sent \o <<sending>> \o queue
            BY <1>1, <2>1, <2>2, <3>1, ConcatEmptySeq DEF OutboundTrail
        <3>3. /\ StrictlyIncreasing(sent \o queue)
              /\ Range(OutboundTrail) = Range(sent \o queue) \cup {sending}
              /\ sending \notin Range(sent \o queue)
            BY <2>1, <2>2, <3>2, IncreasingRemove DEF OutboundFIFO
        <3>. QED
            BY <1>1, <3>1, <3>2, <3>3 DEF OutboundFIFO
    <2>. QED
        BY <2>3, <2>4 DEF WriteComplete
<1>. QED
    BY <1>2, <1>3


\* The outbound loop of poll keeps OutboundFIFO.  Only SendNext changes the
\* trail's parts; the other branches keep InFlight empty.
LEMMA OutboundLoopFIFO ==
    ASSUME TypeOK, OutboundFIFO, OutboundLoop, UNCHANGED envVars
    PROVE  OutboundFIFO'
<1>0. UNCHANGED <<sent, lost, nextId>>
    BY DEF envVars
<1>1. CASE RequestSubstream
    BY <1>0, <1>1, NothingInFlight, TrailKept DEF RequestSubstream, InFlight
<1>2. CASE SendFailed
    BY <1>0, <1>2, NothingInFlight, TrailKept DEF SendFailed, InFlight
<1>3. CASE UNCHANGED <<outVars, obsVars>>
    BY <1>0, <1>3, TrailKept DEF InFlight, outVars, obsVars
<1>4. CASE SendNext /\ InFlight = << >>
    BY <1>0, <1>4, SendNextFIFO
<1>5. CASE IdleWait /\ InFlight = << >>
    <2>1. outbound' = "Idle" /\ UNCHANGED <<sending, writeRes, queue>>
        BY <1>5 DEF IdleWait
    <2>2. InFlight' = << >>
        BY <2>1 DEF InFlight
    <2>. QED
        BY <1>0, <1>5, <2>1, <2>2, TrailKept
<1>6. \/ RequestSubstream
      \/ SendFailed
      \/ UNCHANGED <<outVars, obsVars>>
      \/ /\ ~(outbound = "PendingSend" /\ writeRes = "Pending")
         /\ SendNext \/ IdleWait
    BY Zenon DEF OutboundLoop
<1>7. ~(outbound = "PendingSend" /\ writeRes = "Pending") => InFlight = << >>
    BY NothingInFlight
<1>. QED
    BY <1>1, <1>2, <1>3, <1>4, <1>5, <1>6, <1>7

LEMMA FIFOStep == FIFOInv /\ [Next]_vars => FIFOInv'
<1> SUFFICES ASSUME FIFOInv, [Next]_vars PROVE OutboundFIFO'
    BY SSRStep DEF FIFOInv
<1>0. TypeOK /\ OutboundFIFO
    BY DEF FIFOInv, SSRInv
<1>1. CASE PollPendingEvent \/ PollInboundMessage
    BY <1>0, <1>1, TrailKept
    DEF PollPendingEvent, PollInboundMessage, InFlight, outVars, envVars
<1>2. CASE PollOutbound
    BY <1>0, <1>2, OutboundLoopFIFO DEF PollOutbound
<1>3. CASE OnBehaviourMessage
    BY <1>0, <1>3, PushFIFO
<1>4. CASE OnFullyNegotiatedOutbound
    <2>1. outbound = "PendingOpen"
        BY <1>4 DEF OnFullyNegotiatedOutbound, FIFOInv, SSRInv, TypeOK,
                    SingleSubstreamRequest
    <2>. QED
        BY <1>0, <1>4, <2>1, NothingInFlight, TrailKept
        DEF OnFullyNegotiatedOutbound, InFlight, envVars
<1>5. CASE WriteComplete
    BY <1>0, <1>5, WriteCompleteFIFO
<1>6. CASE \/ OnFullyNegotiatedInbound
           \/ \E e \in DialErrors : OnDialUpgradeError(e)
           \/ \E f \in Frame : PeerWrite(f)
           \/ InboundFault
           \/ Tick
    BY <1>0, <1>6, TrailKept
    DEF OnFullyNegotiatedInbound, OnDialUpgradeError, PeerWrite, InboundFault,
        Tick, InFlight, outVars, envVars
<1>7. CASE UNCHANGED vars
    BY <1>0, <1>7, TrailKept DEF vars, InFlight, outVars, envVars
<1>. QED
    BY <1>1, <1>2, <1>3, <1>4, <1>5, <1>6, <1>7 DEF Next, Poll, Environment

\* Outbound order and conservation hold in every reachable state: payloads
\* pushed by on_behaviour_event are written by poll's send futures in push
\* order, each at most once, and each is written, in flight, queued or lost
\* by a failed write.
THEOREM FIFOTheorem == Spec => []OutboundFIFO
<1>1. Init => FIFOInv
    <2> SUFFICES ASSUME Init PROVE FIFOInv
        OBVIOUS
    <2>1. SSRInv
        BY TypeInit DEF Init, SSRInv, SingleSubstreamRequest
    <2>2. OutboundTrail = << >> /\ nextId = 1 /\ lost = {}
        BY DEF Init, OutboundTrail, InFlight
    <2>3. OutboundFIFO
        BY <2>2 DEF OutboundFIFO, StrictlyIncreasing, Range
    <2>. QED
        BY <2>1, <2>3 DEF FIFOInv
<1>2. FIFOInv => OutboundFIFO
    BY DEF FIFOInv
<1>. QED
    BY <1>1, <1>2, FIFOStep, PTL DEF Spec

-----------------------------------------------------------------------------
(* LinkViewConsistent.  It needs two facts about the buffer of events: a  *)
(* request is made only by a poll that found the buffer empty, and each    *)
(* request is answered once, so at most one event is ever buffered; and    *)
(* while it is, poll does not run the outbound loop, so the buffered event *)
(* still describes the outbound state.                                     *)

\* The event buffered for the behaviour, when there is one, is the answer
\* to the one substream request: FullyNegotiatedOutbound with the handler
\* Idle, or an upgrade error with the handler still in PendingOpenSubstream;
\* the behaviour has not seen the link up, and no request is outstanding.
BufferedAnswer ==
    /\ Len(pending) <= 1
    /\ pending # << >> =>
         /\ ~linkUp /\ swarmReqs = 0
         /\ pending[1].kind = "FullyNegotiatedOutbound" => outbound = "Idle"
         /\ pending[1].kind # "FullyNegotiatedOutbound" =>
              /\ outbound = "PendingOpen"
              /\ pending[1].kind \in {"NegotiationFailed", "IOError"}

LVInv == SSRInv /\ BufferedAnswer /\ LinkViewConsistent


\* A step that leaves the buffer, the outbound state, the requests and the
\* behaviour's view of the link alone keeps both facts.
LEMMA LVKept ==
    ASSUME BufferedAnswer, LinkViewConsistent,
           UNCHANGED <<pending, outbound, swarmReqs, linkUp>>
    PROVE  BufferedAnswer' /\ LinkViewConsistent'
BY DEF BufferedAnswer, LinkViewConsistent

\* With the buffer empty and staying empty, the outbound loop keeps the
\* view: a request leaves linkUp FALSE and goes to PendingOpenSubstream, a
\* failed write goes to None and reports IOError, and a send or a wait goes
\* from Idle or a completed send to PendingSend or Idle with the link up.
LEMMA OutboundLoopLV ==
    ASSUME TypeOK, LinkViewConsistent, pending = << >>, pending' = << >>,
           OutboundLoop
    PROVE  LinkViewConsistent'
<1>1. CASE RequestSubstream /\ linkUp' = linkUp
    <2>1. ~linkUp
        BY <1>1 DEF RequestSubstream, LinkViewConsistent
    <2>. QED
        BY <1>1, <2>1 DEF RequestSubstream, LinkViewConsistent
<1>2. CASE SendFailed
    BY <1>2 DEF SendFailed, Deliver, Ev, LinkViewConsistent
<1>3. CASE outbound' = outbound /\ linkUp' = linkUp
    BY <1>3 DEF LinkViewConsistent
<1>4. CASE /\ outbound \in {"Idle", "PendingSend"}
           /\ outbound' \in {"Idle", "PendingSend"}
           /\ linkUp' = linkUp
    BY <1>4 DEF LinkViewConsistent
<1>5. \/ RequestSubstream /\ linkUp' = linkUp
      \/ SendFailed
      \/ outbound' = outbound /\ linkUp' = linkUp
      \/ /\ outbound \in {"Idle", "PendingSend"}
         /\ outbound' \in {"Idle", "PendingSend"}
         /\ linkUp' = linkUp
    BY Zenon DEF OutboundLoop, SendNext, IdleWait, outVars, obsVars
<1>. QED
    BY <1>1, <1>2, <1>3, <1>4, <1>5

\* The buffered event is delivered: the buffer empties, and the behaviour's
\* view becomes the one the event describes, which is the outbound state.
LEMMA PollPendingEventLV ==
    ASSUME TypeOK, BufferedAnswer, PollPendingEvent
    PROVE  BufferedAnswer' /\ LinkViewConsistent'
<1> DEFINE ev == pending[1]
<1>0. pending # << >> /\ pending \in Seq(Event)
    BY DEF PollPendingEvent, TypeOK
<1>1. Len(pending) = 1 /\ Head(pending) = ev
    <2>1. Len(pending) \in Nat /\ Len(pending) # 0
        BY <1>0, EmptySeq
    <2>2. Len(pending) <= 1
        BY DEF BufferedAnswer
    <2>. QED
        BY <2>1, <2>2
<1>2. pending' = << >>
    BY <1>0, <1>1 DEF PollPendingEvent
<1>3. BufferedAnswer'
    BY <1>2 DEF BufferedAnswer
<1>4. /\ Deliver(ev)
      /\ outbound' = outbound
      /\ ~linkUp
      /\ ev.kind = "FullyNegotiatedOutbound" => outbound = "Idle"
      /\ ev.kind # "FullyNegotiatedOutbound" =>
            /\ outbound = "PendingOpen"
            /\ ev.kind \in {"NegotiationFailed", "IOError"}
    BY <1>0, <1>1, Zenon DEF PollPendingEvent, BufferedAnswer, outVars
<1>5. CASE ev.kind = "FullyNegotiatedOutbound"
    <2>1. outbound' = "Idle" /\ linkUp'
        BY <1>4, <1>5 DEF Deliver
    <2>. QED
        BY <1>2, <1>3, <2>1 DEF LinkViewConsistent
<1>6. CASE ev.kind # "FullyNegotiatedOutbound"
    <2>1. outbound' = "PendingOpen" /\ ~linkUp'
        BY <1>4, <1>6 DEF Deliver
    <2>. QED
        BY <1>2, <1>3, <2>1 DEF LinkViewConsistent
<1>. QED
    BY <1>3, <1>5, <1>6

\* An answer to the request is buffered: the request was made by a poll
\* that found the buffer empty and the link down, and it is the only one.
LEMMA AnswerLV ==
    ASSUME SSRInv, BufferedAnswer, LinkViewConsistent, swarmReqs > 0,
           NEW k \in {"FullyNegotiatedOutbound", "NegotiationFailed", "IOError"},
           pending' = Append(pending, Ev(k)), swarmReqs' = swarmReqs - 1,
           linkUp' = linkUp,
           outbound' = IF k = "FullyNegotiatedOutbound" THEN "Idle" ELSE outbound
    PROVE  BufferedAnswer' /\ LinkViewConsistent'
<1>1. outbound = "PendingOpen" /\ swarmReqs = 1
    BY DEF SSRInv, TypeOK, SingleSubstreamRequest
<1>2. pending = << >>
    BY <1>1 DEF BufferedAnswer, SSRInv, TypeOK
<1>3. ~linkUp
    BY <1>1, <1>2 DEF LinkViewConsistent
<1>4. pending' = <<Ev(k)>> /\ swarmReqs' = 0
    BY <1>1, <1>2
<1>5. BufferedAnswer'
    BY <1>1, <1>3, <1>4 DEF BufferedAnswer, Ev
<1>. QED
    BY <1>4, <1>5 DEF LinkViewConsistent

LEMMA LVStep == LVInv /\ [Next]_vars => LVInv'
<1> SUFFICES ASSUME LVInv, [Next]_vars
             PROVE  BufferedAnswer' /\ LinkViewConsistent'
    BY SSRStep DEF LVInv
<1>0. SSRInv /\ TypeOK /\ BufferedAnswer /\ LinkViewConsistent
    BY DEF LVInv, SSRInv
<1>1. CASE PollPendingEvent
    BY <1>0, <1>1, PollPendingEventLV
<1>2. CASE PollInboundMessage
    <2>1. linkUp' = linkUp
        BY <1>2 DEF PollInboundMessage, Deliver, MessageEv
    <2>. QED
        BY <1>0, <1>2, <2>1, LVKept DEF PollInboundMessage, outVars
<1>3. CASE PollOutbound
    <2>1. pending = << >> /\ pending' = << >> /\ OutboundLoop
        BY <1>3 DEF PollOutbound
    <2>2. BufferedAnswer'
        BY <2>1 DEF BufferedAnswer
    <2>. QED
        BY <1>0, <2>1, <2>2, OutboundLoopLV
<1>4. CASE OnFullyNegotiatedOutbound
    <2>1. /\ swarmReqs > 0
          /\ pending' = Append(pending, Ev("FullyNegotiatedOutbound"))
          /\ swarmReqs' = swarmReqs - 1 /\ linkUp' = linkUp
          /\ outbound' = "Idle"
        BY <1>4 DEF OnFullyNegotiatedOutbound, obsVars
    <2>. QED
        BY <1>0, <2>1, AnswerLV
<1>5. ASSUME NEW e \in DialErrors, OnDialUpgradeError(e)
      PROVE  BufferedAnswer' /\ LinkViewConsistent'
    <2> DEFINE k == IF e = "NegotiationFailed" THEN "NegotiationFailed"
                    ELSE "IOError"
    <2>1. /\ k \in {"FullyNegotiatedOutbound", "NegotiationFailed", "IOError"}
          /\ k # "FullyNegotiatedOutbound"
        OBVIOUS
    <2>2. /\ swarmReqs > 0
          /\ pending' = Append(pending, Ev(k))
          /\ swarmReqs' = swarmReqs - 1 /\ linkUp' = linkUp
          /\ outbound' = outbound
        BY <1>5 DEF OnDialUpgradeError, obsVars
    <2>. QED
        BY <1>0, <2>1, <2>2, AnswerLV
<1>6. CASE \/ OnBehaviourMessage \/ OnFullyNegotiatedInbound
           \/ \E f \in Frame : PeerWrite(f)
           \/ InboundFault \/ WriteComplete \/ Tick \/ UNCHANGED vars
    <2>1. UNCHANGED <<pending, outbound, swarmReqs, linkUp>>
        BY <1>6 DEF OnBehaviourMessage, OnFullyNegotiatedInbound, PeerWrite,
                    InboundFault, WriteComplete, Tick, vars, outVars, obsVars
    <2>. QED
        BY <1>0, <2>1, LVKept
<1>. QED
    BY <1>1, <1>2, <1>3, <1>4, <1>5, <1>6 DEF Next, Poll, Environment

\* The behaviour's view of the link agrees with the outbound state in
\* every reachable state where no event is buffered: after the events
\* on_connection_event buffers have been handed out by poll, the behaviour
\* has seen FullyNegotiatedOutbound last exactly when the handler holds a
\* negotiated outbound substream.
THEOREM LinkViewTheorem == Spec => []LinkViewConsistent
<1>1. Init => LVInv
    <2> SUFFICES ASSUME Init PROVE LVInv
        OBVIOUS
    <2>1. TypeOK
        BY TypeInit
    <2>2. SingleSubstreamRequest /\ BufferedAnswer /\ LinkViewConsistent
        BY DEF Init, SingleSubstreamRequest, BufferedAnswer, LinkViewConsistent
    <2>. QED
        BY <2>1, <2>2 DEF LVInv, SSRInv
<1>2. LVInv => LinkViewConsistent
    BY DEF LVInv
<1>. QED
    BY <1>1, <1>2, LVStep, PTL DEF Spec

-----------------------------------------------------------------------------
(* CadenceSpacing.  The send path pops only when the Delay timer has       *)
(* reached the interval (handler.rs:143), and the timer is reset together  *)
(* with every pop (handler.rs:150), so it never runs ahead of the time     *)
(* since the last pop.                                                     *)

\* The Delay timer was last reset no earlier than the last pop.
TimerInv == elapsed <= sincePop

CadInv == TypeOK /\ TimerInv

\* Every step resets both clocks, is a tick, or leaves both alone.
LEMMA ClockSteps ==
    ASSUME [Next]_vars
    PROVE  \/ elapsed' = 0 /\ sincePop' = 0
           \/ Tick
           \/ UNCHANGED <<elapsed, sincePop>>
<1>1. CASE PollOutbound
    <2>1. OutboundLoop
        BY <1>1 DEF PollOutbound
    <2>. QED
        BY <2>1 DEF OutboundLoop, RequestSubstream, SendFailed, SendNext,
                    IdleWait, outVars
<1>2. CASE PollPendingEvent \/ PollInboundMessage
    BY <1>2 DEF PollPendingEvent, PollInboundMessage, outVars
<1>3. CASE \/ OnBehaviourMessage \/ OnFullyNegotiatedInbound
           \/ OnFullyNegotiatedOutbound
           \/ \E e \in DialErrors : OnDialUpgradeError(e)
           \/ \E f \in Frame : PeerWrite(f)
           \/ InboundFault \/ WriteComplete \/ UNCHANGED vars
    BY <1>3 DEF OnBehaviourMessage, OnFullyNegotiatedInbound,
                OnFullyNegotiatedOutbound, OnDialUpgradeError, PeerWrite,
                InboundFault, WriteComplete, vars, outVars
<1>. QED
    BY <1>1, <1>2, <1>3 DEF Next, Poll, Environment

LEMMA TimerStep == CadInv /\ [Next]_vars => CadInv'
<1> SUFFICES ASSUME CadInv, [Next]_vars PROVE TimerInv'
    BY TypeStep DEF CadInv
<1>0. elapsed \in 0 .. Interval /\ sincePop \in 0 .. Interval
      /\ elapsed <= sincePop
    BY DEF CadInv, TypeOK, TimerInv
<1>1. CASE Tick
    BY <1>0, <1>1 DEF Tick, TimerInv
<1>. QED
    BY <1>0, <1>1, ClockSteps DEF TimerInv

\* Only SendNext starts a send: every other step leaves the outbound state
\* and the send future alone, or moves them elsewhere.
LEMMA PopNeedsTimer ==
    ASSUME [Next]_vars, PopStep
    PROVE  elapsed >= Interval
<1>1. CASE PollOutbound
    <2>1. OutboundLoop
        BY <1>1 DEF PollOutbound
    <2>2. ~RequestSubstream /\ ~SendFailed /\ ~IdleWait /\ ~UNCHANGED outVars
        BY DEF PopStep, RequestSubstream, SendFailed, IdleWait, outVars
    <2>3. SendNext
        BY <2>1, <2>2 DEF OutboundLoop
    <2>. QED
        BY <2>3 DEF SendNext
<1>2. CASE ~PollOutbound
    <2>1. ~(outbound' = outbound /\ writeRes' = writeRes)
        BY DEF PopStep
    <2>2. ~OnFullyNegotiatedOutbound /\ ~WriteComplete
        BY DEF PopStep, OnFullyNegotiatedOutbound, WriteComplete
    <2>. QED
        BY <1>2, <2>1, <2>2
        DEF Next, Poll, Environment, PollPendingEvent, PollInboundMessage,
            OnBehaviourMessage, OnFullyNegotiatedInbound, OnDialUpgradeError,
            PeerWrite, InboundFault, Tick, vars, outVars
<1>. QED
    BY <1>1, <1>2

\* Constant cadence, upper bound, for every interval: every step that pops
\* a frame in poll (handler.rs:144-150) comes at least one interval after
\* the previous pop, or after the handler was created.
THEOREM CadenceTheorem == Spec => CadenceSpacing
<1>1. Init => CadInv
    BY TypeInit DEF Init, CadInv, TimerInv
<1>2. CadInv /\ [Next]_vars => [PopStep => sincePop >= Interval]_vars
    <2> SUFFICES ASSUME CadInv, [Next]_vars, PopStep
                 PROVE  sincePop >= Interval
        OBVIOUS
    <2>1. elapsed >= Interval
        BY PopNeedsTimer
    <2>. QED
        BY <2>1 DEF CadInv, TimerInv, TypeOK
<1>. QED
    BY <1>1, <1>2, TimerStep, PTL DEF Spec, CadenceSpacing

-----------------------------------------------------------------------------
(* InboundFiltering.  The peer writes noise or the next of its payloads,   *)
(* which is larger than every payload it wrote before; poll reads the wire *)
(* from its head, drops noise and delivers real frames.  The invariant     *)
(* needs that bound on what the behaviour has received and what is on the  *)
(* wire, and that no event buffered for the behaviour is a Message.        *)

\* InboundFiltering of a received sequence d and a wire w.
Filtered(d, w) ==
    /\ \A i \in DOMAIN d : IsReal(d[i])
    /\ StrictlyIncreasing(d)
    /\ \A i, j \in DOMAIN w :
          i < j /\ IsReal(w[i]) /\ IsReal(w[j]) => w[i] < w[j]
    /\ \A i \in DOMAIN d, j \in DOMAIN w : IsReal(w[j]) => d[i] < w[j]

\* Every payload received or on the wire is below the peer's next payload n.
BelowNext(d, w, n) ==
    /\ \A i \in DOMAIN d : d[i] < n
    /\ \A j \in DOMAIN w : IsReal(w[j]) => w[j] < n

\* Dropping the wire keeps both facts.
LEMMA WireClear ==
    ASSUME NEW d \in Seq(Nat), NEW w \in Seq(Nat), NEW n \in Nat,
           Filtered(d, w), BelowNext(d, w, n)
    PROVE  Filtered(d, << >>) /\ BelowNext(d, << >>, n)
BY DEF Filtered, BelowNext

\* Dropping the head of the wire keeps both facts.
LEMMA WireTail ==
    ASSUME NEW d \in Seq(Nat), NEW w \in Seq(Nat), NEW n \in Nat, w # << >>,
           Filtered(d, w), BelowNext(d, w, n)
    PROVE  Filtered(d, Tail(w)) /\ BelowNext(d, Tail(w), n)
<1>1. /\ DOMAIN Tail(w) = 1 .. Len(w) - 1 /\ DOMAIN w = 1 .. Len(w)
      /\ \A j \in 1 .. Len(w) - 1 : Tail(w)[j] = w[j + 1]
    OBVIOUS
<1>2. \A i, j \in DOMAIN Tail(w) :
         i < j /\ IsReal(Tail(w)[i]) /\ IsReal(Tail(w)[j])
           => Tail(w)[i] < Tail(w)[j]
    <2> SUFFICES ASSUME NEW i \in DOMAIN Tail(w), NEW j \in DOMAIN Tail(w),
                        i < j, IsReal(Tail(w)[i]), IsReal(Tail(w)[j])
                 PROVE  Tail(w)[i] < Tail(w)[j]
        OBVIOUS
    <2>1. i + 1 \in DOMAIN w /\ j + 1 \in DOMAIN w /\ i + 1 < j + 1
        BY <1>1
    <2>. QED
        BY <1>1, <2>1 DEF Filtered
<1>3. \A i \in DOMAIN d, j \in DOMAIN Tail(w) :
         IsReal(Tail(w)[j]) => d[i] < Tail(w)[j]
    BY <1>1 DEF Filtered
<1>4. BelowNext(d, Tail(w), n)
    BY <1>1 DEF BelowNext
<1>. QED
    BY <1>2, <1>3, <1>4 DEF Filtered

\* Delivering a real head of the wire keeps both facts.
LEMMA WireDeliver ==
    ASSUME NEW d \in Seq(Nat), NEW w \in Seq(Nat), NEW n \in Nat, w # << >>,
           IsReal(Head(w)), Filtered(d, w), BelowNext(d, w, n)
    PROVE  /\ Filtered(Append(d, Head(w)), Tail(w))
           /\ BelowNext(Append(d, Head(w)), Tail(w), n)
<1> DEFINE d2 == Append(d, Head(w))
<1>1. /\ DOMAIN Tail(w) = 1 .. Len(w) - 1 /\ DOMAIN w = 1 .. Len(w)
      /\ \A j \in 1 .. Len(w) - 1 : Tail(w)[j] = w[j + 1]
      /\ Head(w) = w[1] /\ 1 \in DOMAIN w /\ IsReal(w[1])
      /\ DOMAIN d2 = 1 .. Len(d) + 1 /\ DOMAIN d = 1 .. Len(d)
      /\ \A i \in 1 .. Len(d) : d2[i] = d[i]
      /\ d2[Len(d) + 1] = w[1]
    OBVIOUS
<1>2. \A i \in DOMAIN d2 : IsReal(d2[i])
    BY <1>1 DEF Filtered
<1>3. StrictlyIncreasing(d2)
    <2> SUFFICES ASSUME NEW i \in DOMAIN d2, NEW j \in DOMAIN d2, i < j
                 PROVE  d2[i] < d2[j]
        BY DEF StrictlyIncreasing
    <2>1. CASE j <= Len(d)
        BY <1>1, <2>1 DEF Filtered, StrictlyIncreasing
    <2>2. CASE j = Len(d) + 1
        <3>1. i \in DOMAIN d /\ d2[i] = d[i] /\ d2[j] = w[1]
            BY <1>1, <2>2
        <3>. QED
            BY <1>1, <3>1 DEF Filtered
    <2>. QED
        BY <1>1, <2>1, <2>2
<1>4. \A i, j \in DOMAIN Tail(w) :
         i < j /\ IsReal(Tail(w)[i]) /\ IsReal(Tail(w)[j])
           => Tail(w)[i] < Tail(w)[j]
    BY WireTail DEF Filtered
<1>5. \A i \in DOMAIN d2, j \in DOMAIN Tail(w) :
         IsReal(Tail(w)[j]) => d2[i] < Tail(w)[j]
    <2> SUFFICES ASSUME NEW i \in DOMAIN d2, NEW j \in DOMAIN Tail(w),
                        IsReal(Tail(w)[j])
                 PROVE  d2[i] < Tail(w)[j]
        OBVIOUS
    <2>0. j + 1 \in DOMAIN w /\ Tail(w)[j] = w[j + 1] /\ IsReal(w[j + 1])
        BY <1>1
    <2>1. CASE i <= Len(d)
        <3>1. i \in DOMAIN d /\ d2[i] = d[i]
            BY <1>1, <2>1
        <3>. QED
            BY <2>0, <3>1 DEF Filtered
    <2>2. CASE i = Len(d) + 1
        <3>1. d2[i] = w[1] /\ 1 < j + 1
            BY <1>1, <2>2
        <3>. QED
            BY <1>1, <2>0, <3>1 DEF Filtered
    <2>. QED
        BY <1>1, <2>1, <2>2
<1>6. BelowNext(d2, Tail(w), n)
    <2>1. \A i \in DOMAIN d2 : d2[i] < n
        <3> SUFFICES ASSUME NEW i \in DOMAIN d2 PROVE d2[i] < n
            OBVIOUS
        <3>1. CASE i <= Len(d)
            BY <1>1, <3>1 DEF BelowNext
        <3>2. CASE i = Len(d) + 1
            BY <1>1, <3>2 DEF BelowNext
        <3>. QED
            BY <1>1, <3>1, <3>2
    <2>2. \A j \in DOMAIN Tail(w) : IsReal(Tail(w)[j]) => Tail(w)[j] < n
        BY WireTail DEF BelowNext
    <2>. QED
        BY <2>1, <2>2 DEF BelowNext
<1>. QED
    BY <1>2, <1>3, <1>4, <1>5, <1>6 DEF Filtered

\* The peer writing noise, or its next payload n (which then becomes
\* n + 1), keeps both facts.
LEMMA WireAppend ==
    ASSUME NEW d \in Seq(Nat), NEW w \in Seq(Nat), NEW n \in Nat,
           NEW f \in Nat, NEW n2 \in Nat,
           \/ f = Noise /\ n2 = n
           \/ f = n /\ n2 = n + 1,
           Filtered(d, w), BelowNext(d, w, n)
    PROVE  Filtered(d, Append(w, f)) /\ BelowNext(d, Append(w, f), n2)
<1> DEFINE w2 == Append(w, f)
<1>1. /\ Len(w2) = Len(w) + 1
      /\ \A j \in 1 .. Len(w) : w2[j] = w[j]
      /\ w2[Len(w) + 1] = f
    OBVIOUS
<1>2. \A i, j \in DOMAIN w2 :
         i < j /\ IsReal(w2[i]) /\ IsReal(w2[j]) => w2[i] < w2[j]
    <2> SUFFICES ASSUME NEW i \in DOMAIN w2, NEW j \in DOMAIN w2, i < j,
                        IsReal(w2[i]), IsReal(w2[j])
                 PROVE  w2[i] < w2[j]
        OBVIOUS
    <2>1. CASE j <= Len(w)
        BY <1>1, <2>1 DEF Filtered
    <2>2. CASE j = Len(w) + 1
        BY <1>1, <2>2 DEF BelowNext, IsReal, Noise
    <2>. QED
        BY <1>1, <2>1, <2>2
<1>3. \A i \in DOMAIN d, j \in DOMAIN w2 : IsReal(w2[j]) => d[i] < w2[j]
    BY <1>1 DEF Filtered, BelowNext, IsReal, Noise
<1>4. BelowNext(d, w2, n2)
    BY <1>1 DEF BelowNext, IsReal, Noise
<1>. QED
    BY <1>2, <1>3, <1>4 DEF Filtered

\* No event buffered by on_connection_event is a Message: messages reach the
\* behaviour only from the inbound side of poll.
NoMessagePending == \A i \in DOMAIN pending : pending[i].kind # "Message"

IFInv ==
    /\ TypeOK
    /\ Filtered(delivered, inWire)
    /\ BelowNext(delivered, inWire, peerNext)
    /\ NoMessagePending

\* What the handler received and what is on the wire are sequences of
\* numbers, and the peer's next payload is a number.
LEMMA WireTypes ==
    ASSUME TypeOK
    PROVE  delivered \in Seq(Nat) /\ inWire \in Seq(Nat) /\ peerNext \in Nat
<1>1. Frame \subseteq Nat
    BY DEF Frame, Noise, Payload, PeerPayload
<1>2. delivered \in Seq(Frame) /\ inWire \in Seq(Frame) /\ peerNext \in Nat
    BY DEF TypeOK
<1>3. delivered \in Seq(Nat)
    BY <1>1, <1>2, SeqMonotonic
<1>4. inWire \in Seq(Nat)
    BY <1>1, <1>2, SeqMonotonic
<1>. QED
    BY <1>2, <1>3, <1>4

\* An event that is not a Message leaves what the behaviour received alone.
LEMMA DeliverKeepsReceived ==
    ASSUME NEW ev, Deliver(ev), ev.kind # "Message"
    PROVE  delivered' = delivered
BY DEF Deliver

\* The outbound loop hands the behaviour no message: it reports at most a
\* failed write.
LEMMA OutboundLoopKeepsReceived ==
    ASSUME OutboundLoop
    PROVE  delivered' = delivered
<1>1. CASE SendFailed
    BY <1>1, DeliverKeepsReceived DEF SendFailed, Ev
<1>2. CASE UNCHANGED obsVars
    BY <1>2 DEF obsVars
<1>. QED
    BY <1>1, <1>2, Zenon DEF OutboundLoop

\* The facts other than the type are kept by a step that leaves the wire,
\* the received messages, the peer's counter and the buffer alone.
LEMMA IFKept ==
    ASSUME Filtered(delivered, inWire), BelowNext(delivered, inWire, peerNext),
           NoMessagePending,
           UNCHANGED <<delivered, inWire, peerNext, pending>>
    PROVE  /\ Filtered(delivered, inWire)'
           /\ BelowNext(delivered, inWire, peerNext)'
           /\ NoMessagePending'
BY DEF Filtered, BelowNext, NoMessagePending

\* Buffering an event that is not a Message keeps NoMessagePending.
LEMMA BufferNoMessage ==
    ASSUME pending \in Seq(Event), NoMessagePending,
           NEW k \in EventKind \ {"Message"},
           pending' = Append(pending, Ev(k))
    PROVE  NoMessagePending'
BY DEF NoMessagePending, Ev

LEMMA IFStep == IFInv /\ [Next]_vars => IFInv'
<1> SUFFICES ASSUME IFInv, [Next]_vars
             PROVE  /\ Filtered(delivered, inWire)'
                    /\ BelowNext(delivered, inWire, peerNext)'
                    /\ NoMessagePending'
    BY TypeStep DEF IFInv
<1>0. /\ TypeOK /\ Filtered(delivered, inWire)
      /\ BelowNext(delivered, inWire, peerNext) /\ NoMessagePending
      /\ delivered \in Seq(Nat) /\ inWire \in Seq(Nat) /\ peerNext \in Nat
    BY WireTypes DEF IFInv
<1>1. CASE PollPendingEvent
    <2>1. pending # << >> /\ pending \in Seq(Event)
        BY <1>0, <1>1 DEF PollPendingEvent, TypeOK
    <2>2. Head(pending).kind # "Message"
        BY <1>0, <2>1 DEF NoMessagePending
    <2>3. delivered' = delivered
        BY <1>1, <2>2, DeliverKeepsReceived DEF PollPendingEvent
    <2>4. NoMessagePending'
        BY <1>0, <1>1, <2>1 DEF PollPendingEvent, NoMessagePending
    <2>. QED
        BY <1>0, <1>1, <2>3, <2>4 DEF PollPendingEvent, inVars, envVars,
                                      Filtered, BelowNext
<1>2. CASE PollInboundMessage
    <2>1. /\ inWire # << >> /\ IsReal(Head(inWire))
          /\ inWire' = Tail(inWire)
          /\ delivered' = Append(delivered, Head(inWire))
          /\ UNCHANGED <<pending, peerNext>>
        BY <1>2 DEF PollInboundMessage, InboundReadOk, Deliver, MessageEv,
                    IsReal, envVars
    <2>2. /\ Filtered(delivered, inWire)'
          /\ BelowNext(delivered, inWire, peerNext)'
        BY <1>0, <2>1, WireDeliver
    <2>. QED
        BY <1>0, <2>1, <2>2 DEF NoMessagePending
<1>3. CASE PollOutbound
    <2>1. /\ InboundNoEvent /\ OutboundLoop
          /\ UNCHANGED <<pending, peerNext>>
        BY <1>3 DEF PollOutbound, envVars
    <2>2. delivered' = delivered
        BY <2>1, OutboundLoopKeepsReceived
    <2>3. \/ inWire # << >> /\ inWire' = Tail(inWire)
          \/ inWire' = inWire
        BY <2>1 DEF InboundNoEvent, InboundReadOk, inVars
    <2>4. CASE inWire # << >> /\ inWire' = Tail(inWire)
        <3>1. /\ Filtered(delivered, inWire)'
              /\ BelowNext(delivered, inWire, peerNext)'
            BY <1>0, <2>1, <2>2, <2>4, WireTail
        <3>. QED
            BY <1>0, <2>1, <3>1 DEF NoMessagePending
    <2>5. CASE inWire' = inWire
        BY <1>0, <2>1, <2>2, <2>5, IFKept
    <2>. QED
        BY <2>3, <2>4, <2>5
<1>4. CASE OnFullyNegotiatedInbound \/ InboundFault
    <2>1. /\ inWire' = << >>
          /\ UNCHANGED <<delivered, pending, peerNext>>
        BY <1>4 DEF OnFullyNegotiatedInbound, InboundFault, envVars, obsVars
    <2>2. /\ Filtered(delivered, inWire)'
          /\ BelowNext(delivered, inWire, peerNext)'
        BY <1>0, <2>1, WireClear
    <2>. QED
        BY <1>0, <2>1, <2>2 DEF NoMessagePending
<1>5. ASSUME NEW f \in Frame, PeerWrite(f)
      PROVE  /\ Filtered(delivered, inWire)'
             /\ BelowNext(delivered, inWire, peerNext)'
             /\ NoMessagePending'
    <2>1. /\ inWire' = Append(inWire, f)
          /\ \/ f = Noise /\ peerNext' = peerNext
             \/ f = peerNext /\ peerNext' = peerNext + 1
          /\ UNCHANGED <<delivered, pending>>
        BY <1>5 DEF PeerWrite, obsVars
    <2>2. f \in Nat /\ peerNext' \in Nat
        BY <1>0, <2>1 DEF Frame, Noise, Payload, PeerPayload
    <2>3. /\ Filtered(delivered, inWire)'
          /\ BelowNext(delivered, inWire, peerNext)'
        BY <1>0, <2>1, <2>2, WireAppend
    <2>. QED
        BY <1>0, <2>1, <2>3 DEF NoMessagePending
<1>6. CASE OnFullyNegotiatedOutbound
    <2>1. /\ pending' = Append(pending, Ev("FullyNegotiatedOutbound"))
          /\ UNCHANGED <<delivered, inWire, peerNext>>
        BY <1>6 DEF OnFullyNegotiatedOutbound, inVars, envVars, obsVars
    <2>2. NoMessagePending'
        BY <1>0, <2>1, BufferNoMessage DEF TypeOK, EventKind
    <2>. QED
        BY <1>0, <2>1, <2>2 DEF Filtered, BelowNext
<1>7. ASSUME NEW e \in DialErrors, OnDialUpgradeError(e)
      PROVE  /\ Filtered(delivered, inWire)'
             /\ BelowNext(delivered, inWire, peerNext)'
             /\ NoMessagePending'
    <2> DEFINE k == IF e = "NegotiationFailed" THEN "NegotiationFailed"
                    ELSE "IOError"
    <2>1. /\ pending' = Append(pending, Ev(k))
          /\ UNCHANGED <<delivered, inWire, peerNext>>
        BY <1>7 DEF OnDialUpgradeError, inVars, envVars, obsVars
    <2>2. k \in EventKind \ {"Message"}
        BY DEF EventKind
    <2>3. NoMessagePending'
        BY <1>0, <2>1, <2>2, BufferNoMessage DEF TypeOK
    <2>. QED
        BY <1>0, <2>1, <2>3 DEF Filtered, BelowNext
<1>8. CASE OnBehaviourMessage \/ WriteComplete \/ Tick \/ UNCHANGED vars
    <2>1. UNCHANGED <<delivered, inWire, peerNext, pending>>
        BY <1>8 DEF OnBehaviourMessage, WriteComplete, Tick, vars, inVars,
                    envVars, obsVars
    <2>. QED
        BY <1>0, <2>1, IFKept
<1>. QED
    BY <1>1, <1>2, <1>3, <1>4, <1>5, <1>6, <1>7, <1>8
       DEF Next, Poll, Environment

\* Every message the behaviour receives from the peer is a real frame, and
\* they arrive in the order the peer wrote them, each once: recv_msg's
\* is_noise check (handler.rs:113-130) drops exactly the noise frames, the
\* frames the peer wrote earlier are read first, and a replaced or failed
\* inbound substream only loses frames.
THEOREM InboundFilteringTheorem == Spec => []InboundFiltering
<1>1. Init => IFInv
    <2> SUFFICES ASSUME Init PROVE IFInv
        OBVIOUS
    <2>1. TypeOK
        BY TypeInit
    <2>2. Filtered(delivered, inWire) /\ BelowNext(delivered, inWire, peerNext)
          /\ NoMessagePending
        BY DEF Init, Filtered, BelowNext, NoMessagePending, StrictlyIncreasing
    <2>. QED
        BY <2>1, <2>2 DEF IFInv
<1>2. IFInv => InboundFiltering
    BY DEF IFInv, Filtered, InboundFiltering
<1>. QED
    BY <1>1, <1>2, IFStep, PTL DEF Spec

=============================================================================
