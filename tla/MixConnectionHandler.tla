------------------------ MODULE MixConnectionHandler ------------------------
(***************************************************************************)
(* The per-connection handler of the mix protocol                          *)
(* (src/nomos-mix/network/src/handler.rs, MixConnectionHandler).           *)
(*                                                                         *)
(* The handler is driven by libp2p: the swarm calls poll() whenever one of *)
(* the futures the handler waits on is ready, and delivers connection      *)
(* events (negotiated substreams, dial upgrade errors) and behaviour       *)
(* events (messages to send) through on_connection_event and               *)
(* on_behaviour_event.  All of these run on one task with &mut self, so    *)
(* each call is one atomic action here; what runs concurrently with the    *)
(* handler is its environment: the remote peer writing frames, the         *)
(* network completing or failing a write, the swarm answering a substream *)
(* request, and time passing.                                              *)
(*                                                                         *)
(* Data is abstracted to what the properties tell apart: a frame is the    *)
(* noise sentinel Noise or a real payload, and real payloads are numbered  *)
(* in the order they were produced, so that order and duplication can be   *)
(* read off the logs.                                                      *)
(***************************************************************************)
EXTENDS Naturals, Sequences, Functions

CONSTANTS
    Interval,       \* the cadence interval, in ticks of the model clock
    MaxPayload,     \* how many payloads the behaviour enqueues at most
    MaxPeerFrames,  \* how many real frames the remote peer writes at most
    WireCap,        \* how many unread frames an inbound substream buffers
    MaxFaults,      \* how many I/O faults (read or write) the network injects
    DialErrors      \* which DialUpgradeError kinds the swarm may report

\* Interval is derived from a float by a truncating cast
\* (handler.rs:50-51), so 0 is a value the code can produce.
ASSUME ConstantsAssumption ==
    /\ Interval \in Nat
    /\ MaxPayload \in Nat
    /\ MaxPeerFrames \in Nat
    /\ WireCap \in Nat \ {0}
    /\ MaxFaults \in Nat
    /\ DialErrors \subseteq {"NegotiationFailed", "Io", "Timeout"}

-----------------------------------------------------------------------------
(* Frames and events.                                                      *)

\* The NOISE sentinel of nomos_mix_message; real payloads are 1, 2, ...
Noise == 0
Payload == 1 .. MaxPayload
PeerPayload == 1 .. MaxPeerFrames
Frame == {Noise} \cup Payload \cup PeerPayload

\* ToBehaviour (handler.rs:77-86).  The msg field is meaningful for
\* Message only; the io::Error cause of IOError is abstracted away.
EventKind == {"FullyNegotiatedOutbound", "NegotiationFailed", "Message", "IOError"}
Event == [kind : EventKind, msg : Frame]
Ev(k) == [kind |-> k, msg |-> Noise]
MessageEv(m) == [kind |-> "Message", msg |-> m]

\* Option<OutboundSubstreamState> (handler.rs:28, 39-46).
OutboundState == {"None", "PendingOpen", "Idle", "PendingSend"}

-----------------------------------------------------------------------------
VARIABLES
    inbound,      \* inbound_substream: "None" or "Recv" (a recv_msg future)
    inWire,       \* frames the peer wrote on the inbound substream, unread
    inErr,        \* the inbound substream has failed: the read returns Err
    outbound,     \* outbound_substream
    sending,      \* the frame held by the PendingSend future
    writeRes,     \* the state of that future: "Pending", "Ok" or "Err"
    elapsed,      \* time since the timer was last (re)set, capped at Interval
    queue,        \* the NonMixQueue of payloads waiting to be sent
    pending,      \* pending_events_to_behaviour
    swarmReqs,    \* outbound substream requests the swarm has not answered
    \* the environment and what it has observed
    nextId,       \* the next payload the behaviour enqueues
    peerNext,     \* the next real payload the peer writes
    faults,       \* I/O faults injected so far
    sent,         \* real payloads whose write completed, in order
    lost,         \* real payloads whose write failed
    delivered,    \* payloads of the Message events the behaviour received
    linkUp,       \* the behaviour's view: the outbound substream is usable
    sincePop      \* time since the queue was last popped, capped at Interval

inVars == <<inbound, inWire, inErr>>
outVars == <<outbound, sending, writeRes, elapsed, queue, swarmReqs, sincePop>>
envVars == <<nextId, peerNext, faults, sent, lost>>
obsVars == <<linkUp, delivered>>
vars == <<inVars, outVars, pending, envVars, obsVars>>

TypeOK ==
    /\ inbound \in {"None", "Recv"}
    /\ inWire \in Seq(Frame)
    /\ inErr \in BOOLEAN
    /\ outbound \in OutboundState
    /\ sending \in {Noise} \cup Payload
    /\ writeRes \in {"Pending", "Ok", "Err"}
    /\ elapsed \in 0 .. Interval
    /\ queue \in Seq(Payload)
    /\ pending \in Seq(Event)
    /\ swarmReqs \in Nat
    /\ nextId \in 1 .. MaxPayload + 1
    /\ peerNext \in 1 .. MaxPeerFrames + 1
    /\ faults \in 0 .. MaxFaults
    /\ sent \in Seq(Payload)
    /\ lost \in SUBSET Payload
    /\ delivered \in Seq(Frame)
    /\ linkUp \in BOOLEAN
    /\ sincePop \in 0 .. Interval

\* MixConnectionHandler::new (handler.rs:49-61): no substreams, an empty
\* queue, no pending event, and a timer armed for one interval.
Init ==
    /\ inbound = "None"
    /\ inWire = << >>
    /\ inErr = FALSE
    /\ outbound = "None"
    /\ sending = Noise
    /\ writeRes = "Pending"
    /\ elapsed = 0
    /\ queue = << >>
    /\ pending = << >>
    /\ swarmReqs = 0
    /\ nextId = 1
    /\ peerNext = 1
    /\ faults = 0
    /\ sent = << >>
    /\ lost = {}
    /\ delivered = << >>
    /\ linkUp = FALSE
    /\ sincePop = 0

-----------------------------------------------------------------------------
(* The behaviour receiving an event returned by poll (NotifyBehaviour):     *)
(* what it learns about the outbound link and the messages it gets.        *)
Deliver(ev) ==
    /\ linkUp' = IF ev.kind = "FullyNegotiatedOutbound" THEN TRUE
                 ELSE IF ev.kind \in {"NegotiationFailed", "IOError"} THEN FALSE
                 ELSE linkUp
    /\ delivered' = IF ev.kind = "Message" THEN Append(delivered, ev.msg)
                    ELSE delivered

\* NonMixQueue::pop: the oldest payload, or the noise frame when empty.
QueueHead == IF queue = << >> THEN Noise ELSE Head(queue)

QueueTail == IF queue = << >> THEN << >> ELSE Tail(queue)

-----------------------------------------------------------------------------
(* poll (handler.rs:100-189), one call per step.                           *)

\* handler.rs:106-109: a buffered event is returned before anything else.
PollPendingEvent ==
    /\ pending # << >>
    /\ Deliver(Head(pending))
    /\ pending' = Tail(pending)
    /\ UNCHANGED <<inVars, outVars, envVars>>

\* The recv_msg future is ready with a frame, or with an error.
InboundReadOk == inbound = "Recv" /\ ~inErr /\ inWire # << >>
InboundReadErr == inbound = "Recv" /\ inErr

\* A receive path that forwards frames without the is_noise check.
PollInboundMessage_NoFilter ==
    /\ pending = << >>
    /\ InboundReadOk
    /\ inWire' = Tail(inWire)
    /\ Deliver(MessageEv(Head(inWire)))
    /\ UNCHANGED <<inbound, inErr, outVars, pending, envVars>>

\* handler.rs:115-122: a real frame re-arms recv_msg and is returned as
\* ToBehaviour::Message; the outbound side is not polled in this call.
PollInboundMessage ==
    /\ pending = << >>
    /\ InboundReadOk
    /\ Head(inWire) # Noise
    /\ inWire' = Tail(inWire)
    /\ Deliver(MessageEv(Head(inWire)))
    /\ UNCHANGED <<inbound, inErr, outVars, pending, envVars>>

\* handler.rs:113-130 when it does not return: a noise frame is dropped and
\* recv_msg re-armed, a read error drops the inbound substream, and a
\* pending read leaves everything as it is.
InboundNoEvent ==
    \/ /\ InboundReadOk
       /\ Head(inWire) = Noise
       /\ inWire' = Tail(inWire)
       /\ UNCHANGED <<inbound, inErr>>
    \/ /\ InboundReadErr
       /\ inbound' = "None"
       /\ inErr' = FALSE
       /\ UNCHANGED inWire
    \/ /\ ~InboundReadOk
       /\ ~InboundReadErr
       /\ UNCHANGED inVars

\* Variants of the definitions below, each the way a plausible bug in the
\* code would change it; the properties are checked to reject each one.
\* A send path that peeks at the queue instead of popping it.
SendNext_NoPop ==
    /\ elapsed >= Interval
    /\ outbound' = "PendingSend"
    /\ sending' = QueueHead
    /\ writeRes' = "Pending"
    /\ elapsed' = 0
    /\ sincePop' = 0
    /\ UNCHANGED <<queue, swarmReqs>>

\* A send path that forgets timer.reset.
SendNext_NoReset ==
    /\ elapsed >= Interval
    /\ outbound' = "PendingSend"
    /\ sending' = QueueHead
    /\ queue' = QueueTail
    /\ writeRes' = "Pending"
    /\ sincePop' = 0
    /\ UNCHANGED <<elapsed, swarmReqs>>

\* handler.rs:144-150: the timer has fired; pop a frame, start sending it
\* and reset the timer.  The new send future is pending when first polled.
SendNext ==
    /\ elapsed >= Interval
    /\ outbound' = "PendingSend"
    /\ sending' = QueueHead
    /\ queue' = QueueTail
    /\ writeRes' = "Pending"
    /\ elapsed' = 0
    /\ sincePop' = 0
    /\ UNCHANGED swarmReqs

\* handler.rs:152-156: the timer has not fired; stay Idle and wait.
IdleWait ==
    /\ elapsed < Interval
    /\ outbound' = "Idle"
    /\ UNCHANGED <<sending, writeRes, elapsed, queue, swarmReqs, sincePop>>

\* A request that does not record PendingOpenSubstream.
RequestSubstream_NoState ==
    /\ outbound = "None"
    /\ swarmReqs' = swarmReqs + 1
    /\ UNCHANGED <<outbound, sending, writeRes, elapsed, queue, sincePop>>

\* handler.rs:181-186: no outbound substream; request one.
RequestSubstream ==
    /\ outbound = "None"
    /\ outbound' = "PendingOpen"
    /\ swarmReqs' = swarmReqs + 1
    /\ UNCHANGED <<sending, writeRes, elapsed, queue, sincePop>>

\* A failed write that is logged but not reported to the behaviour.
SendFailed_Silent ==
    /\ outbound = "PendingSend"
    /\ writeRes = "Err"
    /\ outbound' = "None"
    /\ UNCHANGED <<sending, writeRes, elapsed, queue, swarmReqs, sincePop,
                   obsVars>>

\* A failed write that waits for a substream it never requests.
SendFailed_NoReopen ==
    /\ outbound = "PendingSend"
    /\ writeRes = "Err"
    /\ outbound' = "PendingOpen"
    /\ Deliver(Ev("IOError"))
    /\ UNCHANGED <<sending, writeRes, elapsed, queue, swarmReqs, sincePop>>

\* handler.rs:161-171: the write failed; drop the substream and return
\* ToBehaviour::IOError.
SendFailed ==
    /\ outbound = "PendingSend"
    /\ writeRes = "Err"
    /\ outbound' = "None"
    /\ Deliver(Ev("IOError"))
    /\ UNCHANGED <<sending, writeRes, elapsed, queue, swarmReqs, sincePop>>

\* The loop of handler.rs:134-188, from the state it is entered in.  A
\* completed write (161-164) goes back to Idle and is handled as Idle in
\* the next iteration of the loop; every branch that returns Pending is a
\* step that leaves the outbound state unchanged.
OutboundLoop ==
    \/ RequestSubstream /\ UNCHANGED obsVars
    \/ SendFailed
    \/ /\ outbound = "PendingOpen"
       /\ UNCHANGED <<outVars, obsVars>>
    \/ /\ \/ outbound = "Idle"
          \/ outbound = "PendingSend" /\ writeRes = "Ok"
       /\ SendNext \/ IdleWait
       /\ UNCHANGED obsVars
    \/ /\ outbound = "PendingSend"
       /\ writeRes = "Pending"
       /\ UNCHANGED <<outVars, obsVars>>

\* A poll that returns no event from the inbound side: it goes on to the
\* outbound loop after the inbound side has done its part.
PollOutbound ==
    /\ pending = << >>
    /\ ~(InboundReadOk /\ Head(inWire) # Noise)
    /\ InboundNoEvent
    /\ OutboundLoop
    /\ UNCHANGED <<pending, envVars>>

Poll == PollPendingEvent \/ PollInboundMessage \/ PollOutbound

-----------------------------------------------------------------------------
(* on_behaviour_event and on_connection_event (handler.rs:191-252).  The   *)
(* try_wake at the end of on_connection_event only makes the swarm poll    *)
(* again, which the fairness of Poll stands for.                           *)

\* handler.rs:191-197: FromBehaviour::Message is pushed to the queue.
OnBehaviourMessage ==
    /\ nextId <= MaxPayload
    /\ queue' = Append(queue, nextId)
    /\ nextId' = nextId + 1
    /\ UNCHANGED <<inVars, outbound, sending, writeRes, elapsed, swarmReqs,
                   sincePop, pending, peerNext, faults, sent, lost, obsVars>>

\* handler.rs:209-215: the peer opened an inbound substream; it replaces
\* the current one, whose unread frames are dropped with it.
OnFullyNegotiatedInbound ==
    /\ inbound' = "Recv"
    /\ inWire' = << >>
    /\ inErr' = FALSE
    /\ UNCHANGED <<outVars, pending, envVars, obsVars>>

\* A negotiated substream that is reported but not stored.
OnFullyNegotiatedOutbound_NoState ==
    /\ swarmReqs > 0
    /\ swarmReqs' = swarmReqs - 1
    /\ pending' = Append(pending, Ev("FullyNegotiatedOutbound"))
    /\ UNCHANGED <<inVars, outbound, sending, writeRes, elapsed, queue,
                   sincePop, envVars, obsVars>>

\* A negotiated substream accepted without a request being outstanding.
OnFullyNegotiatedOutbound_NoGuard ==
    /\ swarmReqs' = swarmReqs - 1
    /\ outbound' = "Idle"
    /\ pending' = Append(pending, Ev("FullyNegotiatedOutbound"))
    /\ UNCHANGED <<inVars, sending, writeRes, elapsed, queue, sincePop,
                   envVars, obsVars>>

\* handler.rs:216-224: the swarm answers a request with a substream.
OnFullyNegotiatedOutbound ==
    /\ swarmReqs > 0
    /\ swarmReqs' = swarmReqs - 1
    /\ outbound' = "Idle"
    /\ pending' = Append(pending, Ev("FullyNegotiatedOutbound"))
    /\ UNCHANGED <<inVars, sending, writeRes, elapsed, queue, sincePop,
                   envVars, obsVars>>

\* handler.rs:225-245: the swarm answers a request with an upgrade error.
\* The event is buffered; the outbound state is left as it is.  Apply is
\* unreachable!() in the code and is not among the kinds the swarm reports.
OnDialUpgradeError(e) ==
    /\ swarmReqs > 0
    /\ swarmReqs' = swarmReqs - 1
    /\ pending' = Append(pending, Ev(IF e = "NegotiationFailed"
                                     THEN "NegotiationFailed" ELSE "IOError"))
    /\ UNCHANGED <<inVars, outbound, sending, writeRes, elapsed, queue,
                   sincePop, envVars, obsVars>>

-----------------------------------------------------------------------------
(* The network and the remote peer.                                        *)

\* The peer writes a frame (send_msg on its side) to the inbound substream.
PeerWrite(f) ==
    /\ inbound = "Recv"
    /\ ~inErr
    /\ Len(inWire) < WireCap
    /\ \/ f = Noise /\ UNCHANGED peerNext
       \/ f = peerNext /\ peerNext <= MaxPeerFrames /\ peerNext' = peerNext + 1
    /\ inWire' = Append(inWire, f)
    /\ UNCHANGED <<inbound, inErr, outVars, pending, nextId, faults, sent,
                   lost, obsVars>>

\* The inbound substream fails: recv_msg's read_exact (handler.rs:266)
\* will return an error, and the frames not yet read are gone.
InboundFault ==
    /\ inbound = "Recv"
    /\ ~inErr
    /\ faults < MaxFaults
    /\ inErr' = TRUE
    /\ inWire' = << >>
    /\ faults' = faults + 1
    /\ UNCHANGED <<inbound, outVars, pending, nextId, peerNext, sent, lost,
                   obsVars>>

\* send_msg (handler.rs:256-260) completes: write_all and flush succeed, or
\* one of them fails and the frame is lost.
WriteComplete ==
    /\ outbound = "PendingSend"
    /\ writeRes = "Pending"
    /\ \/ /\ writeRes' = "Ok"
          /\ sent' = IF sending = Noise THEN sent ELSE Append(sent, sending)
          /\ UNCHANGED <<faults, lost>>
       \/ /\ faults < MaxFaults
          /\ writeRes' = "Err"
          /\ lost' = lost \cup ({sending} \ {Noise})
          /\ faults' = faults + 1
          /\ UNCHANGED sent
    /\ UNCHANGED <<inVars, outbound, sending, elapsed, queue, swarmReqs,
                   sincePop, pending, nextId, peerNext, obsVars>>

\* One tick of the clock: the Delay timer (and the time since the last pop)
\* moves towards the interval.
Tick ==
    /\ elapsed < Interval \/ sincePop < Interval
    /\ elapsed' = IF elapsed < Interval THEN elapsed + 1 ELSE elapsed
    /\ sincePop' = IF sincePop < Interval THEN sincePop + 1 ELSE sincePop
    /\ UNCHANGED <<inVars, outbound, sending, writeRes, queue, swarmReqs,
                   pending, envVars, obsVars>>

-----------------------------------------------------------------------------
Environment ==
    \/ OnBehaviourMessage
    \/ OnFullyNegotiatedInbound
    \/ OnFullyNegotiatedOutbound
    \/ \E e \in DialErrors : OnDialUpgradeError(e)
    \/ \E f \in Frame : PeerWrite(f)
    \/ InboundFault
    \/ WriteComplete
    \/ Tick

Next == Poll \/ Environment

\* The swarm polls the handler whenever polling would make progress (the
\* futures and the timer register the waker; on_connection_event calls
\* try_wake), the swarm answers every substream request, every write
\* eventually completes, and time passes.
Fairness ==
    /\ WF_vars(Poll)
    /\ WF_vars(OnFullyNegotiatedOutbound \/ \E e \in DialErrors : OnDialUpgradeError(e))
    /\ WF_vars(WriteComplete)
    /\ WF_vars(Tick)

Spec == Init /\ [][Next]_vars
FairSpec == Spec /\ Fairness

-----------------------------------------------------------------------------
(* Properties.                                                             *)

StrictlyIncreasing(s) == \A i, j \in DOMAIN s : i < j => s[i] < s[j]
IsReal(f) == f # Noise

\* The payload held by a send future that has not completed yet.
InFlight ==
    IF outbound = "PendingSend" /\ writeRes = "Pending" /\ sending # Noise
    THEN <<sending>> ELSE << >>

\* The payloads written, in flight and queued, in that order.
OutboundTrail == sent \o InFlight \o queue

\* Outbound order and conservation (queue push in on_behaviour_event, pop
\* and send in poll, write completion): every payload the behaviour has
\* enqueued is written, in flight, queued or lost by a failed write, and
\* exactly one of these; the written, in-flight and queued payloads, in
\* that order, are in the order they were enqueued.  So no payload is
\* reordered, sent twice or dropped except by a failed write.
OutboundFIFO ==
    /\ StrictlyIncreasing(OutboundTrail)
    /\ Range(OutboundTrail) \cup lost = 1 .. nextId - 1
    /\ Range(OutboundTrail) \cap lost = {}

\* Inbound filtering (recv_msg and the is_noise check in poll): the
\* behaviour receives no Message for a noise frame, and the Messages it
\* receives, followed by the real frames still unread, are in the order
\* the peer wrote them, each at most once.  (That is, delivered followed by
\* the real frames of inWire is strictly increasing; it is stated by
\* positions so that it can be reasoned about without SelectSeq.)
InboundFiltering ==
    /\ \A i \in DOMAIN delivered : IsReal(delivered[i])
    /\ StrictlyIncreasing(delivered)
    /\ \A i, j \in DOMAIN inWire :
          i < j /\ IsReal(inWire[i]) /\ IsReal(inWire[j]) => inWire[i] < inWire[j]
    /\ \A i \in DOMAIN delivered, j \in DOMAIN inWire :
          IsReal(inWire[j]) => delivered[i] < inWire[j]

\* Event delivery (pending_events_to_behaviour drained first in poll, the
\* IOError returned on a failed write, FullyNegotiatedOutbound buffered in
\* on_connection_event): once no event is buffered, the behaviour believes
\* the outbound substream is usable exactly when the handler has one.
LinkViewConsistent ==
    pending = << >> => (linkUp <=> outbound \in {"Idle", "PendingSend"})

\* Substream requests (poll requesting a substream, the swarm answering
\* through on_connection_event): the handler never has more than one
\* request outstanding, and while one is outstanding it is waiting for it.
SingleSubstreamRequest ==
    /\ swarmReqs <= 1
    /\ swarmReqs = 1 => outbound = "PendingOpen"

\* The converse, which the spec asks for after a failed negotiation ("the
\* handler requests a new substream on the next cycle"): whenever the
\* handler waits in PendingOpenSubstream, a request is outstanding.
PendingOpenHasRequest ==
    outbound = "PendingOpen" => swarmReqs = 1

\* A step of poll that pops the queue and starts a new send future.
PopStep ==
    /\ outbound' = "PendingSend"
    /\ writeRes' = "Pending"
    /\ ~(outbound = "PendingSend" /\ writeRes = "Pending")

\* Constant cadence, upper bound (the timer polled and reset in poll): a
\* frame is popped only when at least one interval has passed since the
\* previous pop, or since the handler was created.
CadenceSpacing == [][PopStep => sincePop >= Interval]_vars

\* Constant cadence, lower bound: the handler pops a frame again and
\* again for ever (under the fairness of the swarm, the network and time).
EmitsForever == []<><<PopStep>>_vars

\* Every payload the behaviour enqueues is eventually written to the wire,
\* unless a failed write loses it.
EnqueuedEventuallySent ==
    \A p \in Payload : (p \in Range(queue)) ~> (p \in Range(sent) \cup lost)

=============================================================================
