------------------------- MODULE NodeServicesProofs -------------------------
(***************************************************************************)
(* Proofs about the network and mempool services, for every set of        *)
(* clients and transactions and every relay capacity: every variable      *)
(* keeps its type, and no caller waits on a reply that nobody will send.   *)
(***************************************************************************)
EXTENDS NodeServices, SequenceTheorems, TLAPS

-----------------------------------------------------------------------------
(* Lemmas on the helpers the actions are built from.                       *)

\* The first message of a non-empty relay is a message, and the rest is a
\* relay one shorter.
LEMMA RelayHeadTail ==
  ASSUME NEW q \in Seq(Msg), q # << >>
  PROVE  /\ Head(q) \in Msg /\ Head(q).from \in Clients /\ Head(q).req \in Request
         /\ Tail(q) \in Seq(Msg) /\ Len(Tail(q)) = Len(q) - 1
<1>1. Head(q) \in Msg /\ Tail(q) \in Seq(Msg) /\ Len(q) \in Nat \ {0}
  BY HeadTailProperties, EmptySeq
<1> QED
  BY <1>1, HeadTailProperties DEF Msg

\* An AddTx request carries a transaction.
LEMMA AddTxCarriesTx ==
  ASSUME NEW r \in Request, r.kind = "AddTx"
  PROVE  r.tx \in Txs
BY DEF Request, NetworkReq, MempoolReq

\* A oneshot reply keeps the clients' states well typed.
LEMMA ReplyType ==
  ASSUME TypeOK, NEW c \in Clients, Reply(c)
  PROVE  client' \in [Clients -> {"Idle", "Waiting", "Done", "Failed", "HungUp"}]
BY DEF TypeOK, Reply

\* Dropping a relay keeps the clients' states well typed.
LEMMA DropRepliesType ==
  ASSUME TypeOK, NEW q, DropReplies(q)
  PROVE  client' \in [Clients -> {"Idle", "Waiting", "Done", "Failed", "HungUp"}]
BY DEF TypeOK, DropReplies

-----------------------------------------------------------------------------
(* Type correctness, one lemma per step of a service.                      *)

LEMMA NetHandleRelayType ==
  ASSUME TypeOK, NetHandleRelay
  PROVE  TypeOK'
<1> DEFINE m == Head(netRelay)
<1>1. /\ m \in Msg /\ m.from \in Clients /\ m.req \in Request
      /\ Tail(netRelay) \in Seq(Msg) /\ Len(Tail(netRelay)) = Len(netRelay) - 1
  BY RelayHeadTail DEF NetHandleRelay, TypeOK
<1>2. netRelay' \in Seq(Msg) /\ Len(netRelay') <= RelayCap
  BY <1>1, ServicesAssumption DEF NetHandleRelay, TypeOK
<1>3. commands' \in Seq(Msg)
  BY <1>1, AppendProperties DEF NetHandleRelay, TypeOK
<1>4. client' \in [Clients -> {"Idle", "Waiting", "Done", "Failed", "HungUp"}]
  BY <1>1, ReplyType DEF NetHandleRelay, TypeOK
<1>5. UNCHANGED <<req, netRunning, lifecycle, ack, lifeSent, mpVars>>
  BY DEF NetHandleRelay
<1> QED
  BY <1>2, <1>3, <1>4, <1>5 DEF TypeOK, mpVars

LEMMA NetStopType ==
  ASSUME TypeOK, NetStop
  PROVE  TypeOK'
<1>1. lifecycle' \in Seq({"Kill", "Shutdown"})
  BY HeadTailProperties DEF NetStop, TypeOK
<1>2. netRelay' \in Seq(Msg) /\ Len(netRelay') <= RelayCap
  BY EmptySeq, ServicesAssumption DEF NetStop
<1>3. client' \in [Clients -> {"Idle", "Waiting", "Done", "Failed", "HungUp"}]
  BY DropRepliesType DEF NetStop
<1>4. /\ ack' \in {"None", "Waiting", "Acked"}
      /\ netRunning' = FALSE /\ netTxOpen' = FALSE
      /\ UNCHANGED <<req, lifeSent, commands, mpRunning, mpRelay,
                     mpRelayOpen, netTxs, pool, peerTxs>>
  BY DEF NetStop, TypeOK
<1> QED
  BY <1>1, <1>2, <1>3, <1>4 DEF TypeOK

LEMMA MpHandleRelayType ==
  ASSUME TypeOK, MpHandleRelay
  PROVE  TypeOK'
<1> DEFINE m == Head(mpRelay)
<1>1. /\ m \in Msg /\ m.from \in Clients /\ m.req \in Request
      /\ Tail(mpRelay) \in Seq(Msg) /\ Len(Tail(mpRelay)) = Len(mpRelay) - 1
  BY RelayHeadTail DEF MpHandleRelay, TypeOK
<1>2. mpRelay' \in Seq(Msg) /\ Len(mpRelay') <= RelayCap
  BY <1>1, ServicesAssumption DEF MpHandleRelay, TypeOK
<1>3. /\ pool' \in SUBSET Txs
      /\ client' \in [Clients -> {"Idle", "Waiting", "Done", "Failed", "HungUp"}]
  <2>1. CASE m.req.kind = "AddTx"
    <3>1. pool' = pool \cup {m.req.tx} /\ UNCHANGED client
      BY <2>1, Zenon DEF MpHandleRelay, PoolAdd
    <3>2. m.req.tx \in Txs
      BY <1>1, <2>1, AddTxCarriesTx
    <3> QED
      BY <3>1, <3>2 DEF TypeOK
  <2>2. CASE m.req.kind = "View"
    <3>1. Reply(m.from) /\ UNCHANGED pool
      BY <2>2, Zenon DEF MpHandleRelay
    <3> QED
      BY <1>1, <3>1, ReplyType DEF TypeOK
  <2>3. CASE m.req.kind # "AddTx" /\ m.req.kind # "View"
    <3>1. pool' = pool \ m.req.ids /\ UNCHANGED client
      BY <2>3, Zenon DEF MpHandleRelay
    <3> QED
      BY <3>1 DEF TypeOK
  <2> QED
    BY <2>1, <2>2, <2>3
<1>4. UNCHANGED <<req, netVars, mpRunning, mpRelayOpen, netTxs, netTxOpen,
                  peerTxs>>
  BY DEF MpHandleRelay
<1> QED
  BY <1>2, <1>3, <1>4 DEF TypeOK, netVars

LEMMA MpHandleNetTxType ==
  ASSUME TypeOK, MpHandleNetTx
  PROVE  TypeOK'
<1>1. Head(netTxs) \in Txs /\ Tail(netTxs) \in Seq(Txs)
  BY HeadTailProperties, EmptySeq DEF MpHandleNetTx, TypeOK
<1> QED
  BY <1>1 DEF MpHandleNetTx, PoolAdd, TypeOK, clientVars, netVars

LEMMA ClientSendType ==
  ASSUME TypeOK, NEW c \in Clients, ClientSend(c)
  PROVE  TypeOK'
<1> DEFINE toNet == req[c].svc = "Network"
           q == IF toNet THEN netRelay ELSE mpRelay
           open == IF toNet THEN netRunning ELSE mpRunning
           msg == [from |-> c, req |-> req[c]]
           q2 == Append(q, msg)
<1>1. msg \in Msg /\ q \in Seq(Msg)
  BY DEF TypeOK, Msg
<1>2. client' \in [Clients -> {"Idle", "Waiting", "Done", "Failed", "HungUp"}]
  BY DEF ClientSend, TypeOK
<1>3. /\ netRelay' \in Seq(Msg) /\ Len(netRelay') <= RelayCap
      /\ mpRelay' \in Seq(Msg) /\ Len(mpRelay') <= RelayCap
  <2>1. CASE open
    <3>1. /\ Len(q) < RelayCap
          /\ netRelay' = IF toNet THEN q2 ELSE netRelay
          /\ mpRelay' = IF toNet THEN mpRelay ELSE q2
      BY <2>1 DEF ClientSend
    <3>2. q2 \in Seq(Msg) /\ Len(q2) = Len(q) + 1
      BY <1>1, AppendProperties
    <3> QED
      BY <3>1, <3>2, ServicesAssumption DEF TypeOK
  <2>2. CASE ~open
    BY <2>2 DEF ClientSend, TypeOK
  <2> QED
    BY <2>1, <2>2
<1>4. UNCHANGED <<req, netRunning, lifecycle, ack, lifeSent, commands,
                  mpRunning, mpRelayOpen, netTxs, netTxOpen, pool, peerTxs>>
  BY DEF ClientSend
<1> QED
  BY <1>2, <1>3, <1>4 DEF TypeOK

LEMMA EnvironmentType ==
  ASSUME TypeOK, Environment
  PROVE  TypeOK'
<1>1. CASE \E c \in Clients : ClientSend(c)
  BY <1>1, ClientSendType
<1>2. CASE \E c \in Clients : ClientHangUp(c)
  BY <1>2 DEF ClientHangUp, TypeOK, netVars, mpVars
<1>3. CASE \E t \in Txs : PeerTx(t)
  <2> PICK t \in Txs : PeerTx(t)
    BY <1>3
  <2>1. netTxs' \in Seq(Txs) /\ peerTxs' \in 0 .. MaxPeerTxs
    BY AppendProperties, ServicesAssumption DEF PeerTx, TypeOK
  <2> QED
    BY <2>1 DEF PeerTx, TypeOK, clientVars, netVars
<1>4. CASE \E l \in {"Kill", "Shutdown"} : SendLifecycle(l)
  <2> PICK l \in {"Kill", "Shutdown"} : SendLifecycle(l)
    BY <1>4
  <2>1. lifecycle' \in Seq({"Kill", "Shutdown"})
    BY AppendProperties DEF SendLifecycle, TypeOK
  <2> QED
    BY <2>1 DEF SendLifecycle, TypeOK, clientVars, mpVars
<1>5. CASE DropMempoolSenders
  BY <1>5 DEF DropMempoolSenders, TypeOK, clientVars, netVars
<1> QED
  BY <1>1, <1>2, <1>3, <1>4, <1>5 DEF Environment

LEMMA BackendCommandType ==
  ASSUME TypeOK, BackendCommand
  PROVE  TypeOK'
<1> DEFINE m == Head(commands)
<1>1. /\ m \in Msg /\ m.from \in Clients
      /\ Tail(commands) \in Seq(Msg)
  BY RelayHeadTail DEF BackendCommand, TypeOK
<1>2. client' \in [Clients -> {"Idle", "Waiting", "Done", "Failed", "HungUp"}]
  BY <1>1, ReplyType DEF BackendCommand, TypeOK
<1> QED
  BY <1>1, <1>2 DEF BackendCommand, TypeOK, mpVars

LEMMA NextType == TypeOK /\ [Next]_vars => TypeOK'
<1> SUFFICES ASSUME TypeOK, [Next]_vars PROVE TypeOK'
  OBVIOUS
<1>1. CASE NetHandleRelay
  BY <1>1, NetHandleRelayType
<1>2. CASE NetStop
  BY <1>2, NetStopType
<1>3. CASE MpHandleRelay
  BY <1>3, MpHandleRelayType
<1>4. CASE MpHandleNetTx
  BY <1>4, MpHandleNetTxType
<1>8. CASE BackendCommand
  BY <1>8, BackendCommandType
<1>5. CASE MpPanic
  BY <1>5 DEF MpPanic, TypeOK, clientVars, netVars
<1>6. CASE Environment
  BY <1>6, EnvironmentType
<1>7. CASE UNCHANGED vars
  BY <1>7 DEF TypeOK, vars, clientVars, netVars, mpVars
<1> QED
  BY <1>1, <1>2, <1>3, <1>4, <1>5, <1>6, <1>7, <1>8
     DEF Next, NetworkStep, MempoolStep

LEMMA InitType == Init => TypeOK
<1> SUFFICES ASSUME Init PROVE TypeOK
  OBVIOUS
<1>1. /\ netRelay \in Seq(Msg) /\ Len(netRelay) <= RelayCap
      /\ mpRelay \in Seq(Msg) /\ Len(mpRelay) <= RelayCap
      /\ lifecycle \in Seq({"Kill", "Shutdown"})
      /\ commands \in Seq(Msg) /\ netTxs \in Seq(Txs)
  BY EmptySeq, ServicesAssumption DEF Init
<1>2. /\ netRunning \in BOOLEAN /\ lifeSent \in BOOLEAN /\ mpRunning \in BOOLEAN
      /\ mpRelayOpen \in BOOLEAN /\ netTxOpen \in BOOLEAN
      /\ req \in [Clients -> Request]
      /\ client \in [Clients -> {"Idle", "Waiting", "Done", "Failed", "HungUp"}]
      /\ ack \in {"None", "Waiting", "Acked"} /\ pool \in SUBSET Txs
  BY Zenon DEF Init
<1>3. peerTxs \in 0 .. MaxPeerTxs
  BY ServicesAssumption DEF Init
<1> QED
  BY <1>1, <1>2, <1>3, Zenon DEF TypeOK

\* Every variable of the services and their clients keeps its type in
\* every reachable state: in particular no relay ever holds more than its
\* capacity, since every send waits for room (ClientSend, PeerTx).
THEOREM TypeCorrect == Spec => []TypeOK
BY InitType, NextType, PTL DEF Spec

-----------------------------------------------------------------------------
(* No caller waits on a reply nobody will send.  Each caller sends one     *)
(* request, carrying its reply sender, to the relay of the service the     *)
(* request is for.  A service's loop consumes a request only from the head *)
(* of its relay: it answers a Subscribe or a View, and hands a Process     *)
(* message to the network backend, whose swarm task answers the commands  *)
(* that carry a reply.  A loop that ends drops its relay, which fails the  *)
(* callers waiting on it, and the mempool's loop ends only with an empty   *)
(* relay.                                                                  *)

\* Client c has a message in queue q.
InRelay(q, c) == \E i \in DOMAIN q : q[i].from = c

\* Something that will answer or drop client c's reply sender holds it.
Held(c) ==
  \/ netRunning /\ InRelay(netRelay, c)
  \/ mpRunning /\ InRelay(mpRelay, c)
  \/ InRelay(commands, c)

\* Every message in a relay, or handed to the backend, is its sender's
\* request, to that service.
RelaysCarryRequests ==
  /\ \A i \in DOMAIN netRelay :
        netRelay[i].req = req[netRelay[i].from] /\ netRelay[i].req.svc = "Network"
  /\ \A i \in DOMAIN mpRelay :
        mpRelay[i].req = req[mpRelay[i].from] /\ mpRelay[i].req.svc = "Mempool"
  /\ \A i \in DOMAIN commands :
        /\ commands[i].req = req[commands[i].from]
        /\ commands[i].req.svc = "Network" /\ IsProcess(commands[i].req)

\* Only a request with a reply leaves its caller waiting.
WaitersHaveReply == \A c \in Clients : client[c] = "Waiting" => HasReply(req[c])

\* The inductive invariant of WaiterQueued.
WQInv == TypeOK /\ RelaysCarryRequests /\ WaitersHaveReply /\ WaiterQueued

\* The requests that carry a reply: a Query or a Subscribe to the network
\* service, a View to the mempool.
LEMMA ReplyKinds ==
  ASSUME NEW r \in Request, HasReply(r)
  PROVE  /\ r.svc = "Network" => r.kind \in {"Query", "Subscribe"}
         /\ r.svc = "Mempool" => r.kind = "View"
BY DEF Request, NetworkReq, MempoolReq, HasReply

\* Every request is for one of the two services.
LEMMA RequestServices ==
  ASSUME NEW r \in Request
  PROVE  r.svc \in {"Network", "Mempool"}
BY DEF Request, NetworkReq, MempoolReq

\* WaiterQueued says that every waiting caller's sender is held.
LEMMA WaiterQueuedHeld ==
  /\ WaiterQueued <=> \A c \in Clients : client[c] = "Waiting" => Held(c)
  /\ WaiterQueued' <=> \A c \in Clients : client'[c] = "Waiting" => Held(c)'
BY DEF WaiterQueued, Held, InRelay

\* A step that leaves the requests, the queues and the services alone, and
\* puts no caller into the waiting state, keeps the three facts.
LEMMA WQShrink ==
  ASSUME RelaysCarryRequests, WaitersHaveReply, WaiterQueued,
         UNCHANGED <<req, netRunning, netRelay, mpRunning, mpRelay, commands>>,
         \A c \in Clients : client'[c] = "Waiting" => client[c] = "Waiting"
  PROVE  RelaysCarryRequests' /\ WaitersHaveReply' /\ WaiterQueued'
BY DEF RelaysCarryRequests, WaitersHaveReply, WaiterQueued

\* Appending to a queue keeps every sender in it and adds the new one.
LEMMA InRelayAppend ==
  ASSUME NEW q \in Seq(Msg), NEW m, NEW c
  PROVE  /\ InRelay(q, c) => InRelay(Append(q, m), c)
         /\ InRelay(Append(q, m), m.from)
BY DEF InRelay

\* Taking the head off a queue keeps every sender of a later message.
LEMMA InRelayTail ==
  ASSUME NEW q \in Seq(Msg), q # << >>, NEW c, InRelay(q, c),
         Head(q).from # c
  PROVE  InRelay(Tail(q), c)
<1> PICK i \in DOMAIN q : q[i].from = c
  BY DEF InRelay
<1>1. i # 1 /\ i - 1 \in DOMAIN Tail(q) /\ Tail(q)[i - 1] = q[i]
  BY EmptySeq
<1> QED
  BY <1>1 DEF InRelay

\* The network's relay branch answers a Subscribe at the head of its relay
\* and hands a Process message, with its reply sender, to the backend.
LEMMA NetHandleRelayWQ ==
  ASSUME TypeOK, RelaysCarryRequests, WaitersHaveReply, WaiterQueued,
         NetHandleRelay
  PROVE  RelaysCarryRequests' /\ WaitersHaveReply' /\ WaiterQueued'
<1> DEFINE m == Head(netRelay)
<1>1. /\ netRelay \in Seq(Msg) /\ netRelay # << >> /\ commands \in Seq(Msg)
      /\ m \in Msg /\ m.from \in Clients /\ m.req \in Request
      /\ m = netRelay[1] /\ 1 \in DOMAIN netRelay
  BY RelayHeadTail DEF NetHandleRelay, TypeOK
<1>2. /\ netRelay' = Tail(netRelay)
      /\ commands' = IF IsProcess(m.req) THEN Append(commands, m) ELSE commands
      /\ UNCHANGED <<req, netRunning, mpRunning, mpRelay>>
      /\ m.req.kind = "Subscribe" => Reply(m.from)
      /\ m.req.kind # "Subscribe" => UNCHANGED client
  BY DEF NetHandleRelay, mpVars
<1>3. m.req = req[m.from] /\ m.req.svc = "Network"
  BY <1>1 DEF RelaysCarryRequests
<1>4. \A c \in Clients : client'[c] = "Waiting" =>
         /\ client[c] = "Waiting"
         /\ c = m.from => m.req.kind # "Subscribe"
  BY <1>1, <1>2 DEF Reply, TypeOK
<1>5. RelaysCarryRequests'
  <2>1. \A i \in DOMAIN netRelay' :
           netRelay'[i].req = req'[netRelay'[i].from]
           /\ netRelay'[i].req.svc = "Network"
    BY <1>1, <1>2 DEF RelaysCarryRequests
  <2>2. \A i \in DOMAIN commands' :
           /\ commands'[i].req = req'[commands'[i].from]
           /\ commands'[i].req.svc = "Network" /\ IsProcess(commands'[i].req)
    BY <1>1, <1>2, <1>3 DEF RelaysCarryRequests
  <2> QED
    BY <1>2, <2>1, <2>2 DEF RelaysCarryRequests
<1>6. WaitersHaveReply'
  BY <1>2, <1>4 DEF WaitersHaveReply
<1>7. ASSUME NEW c \in Clients, client'[c] = "Waiting"
      PROVE  Held(c)'
  <2>1. client[c] = "Waiting" /\ HasReply(req[c]) /\ Held(c)
    BY <1>4, <1>7, WaiterQueuedHeld DEF WaitersHaveReply
  <2>2. InRelay(commands, c) => InRelay(commands', c)
    BY <1>1, <1>2, InRelayAppend
  <2>3. CASE netRunning /\ InRelay(netRelay, c)
    <3>1. CASE m.from = c
      <4>1. req[c] = m.req /\ m.req.svc = "Network"
        BY <1>3, <3>1
      <4>2. m.req.kind = "Query"
        BY <1>1, <1>4, <1>7, <2>1, <3>1, <4>1, ReplyKinds
      <4>3. commands' = Append(commands, m)
        BY <1>2, <4>2 DEF IsProcess
      <4> QED
        BY <1>1, <3>1, <4>3, InRelayAppend DEF Held
    <3>2. CASE m.from # c
      BY <1>1, <1>2, <2>3, <3>2, InRelayTail DEF Held
    <3> QED
      BY <3>1, <3>2
  <2>4. CASE ~(netRunning /\ InRelay(netRelay, c))
    BY <1>2, <2>1, <2>2, <2>4 DEF Held
  <2> QED
    BY <2>3, <2>4
<1> QED
  BY <1>5, <1>6, <1>7, WaiterQueuedHeld

\* The backend's swarm task answers the command at the head of its queue
\* when it carries a reply.
LEMMA BackendCommandWQ ==
  ASSUME TypeOK, RelaysCarryRequests, WaitersHaveReply, WaiterQueued,
         BackendCommand
  PROVE  RelaysCarryRequests' /\ WaitersHaveReply' /\ WaiterQueued'
<1> DEFINE m == Head(commands)
<1>1. /\ commands \in Seq(Msg) /\ commands # << >>
      /\ m \in Msg /\ m.from \in Clients /\ m.req \in Request
      /\ m = commands[1] /\ 1 \in DOMAIN commands
  BY RelayHeadTail DEF BackendCommand, TypeOK
<1>2. /\ commands' = Tail(commands)
      /\ UNCHANGED <<req, netRunning, netRelay, mpRunning, mpRelay>>
      /\ m.req.kind = "Query" => Reply(m.from)
      /\ m.req.kind # "Query" => UNCHANGED client
  BY DEF BackendCommand, mpVars
<1>3. m.req = req[m.from] /\ m.req.svc = "Network" /\ IsProcess(m.req)
  BY <1>1 DEF RelaysCarryRequests
<1>4. \A c \in Clients : client'[c] = "Waiting" =>
         /\ client[c] = "Waiting"
         /\ c = m.from => m.req.kind # "Query"
  BY <1>1, <1>2 DEF Reply, TypeOK
<1>5. RelaysCarryRequests'
  BY <1>1, <1>2 DEF RelaysCarryRequests
<1>6. WaitersHaveReply'
  BY <1>2, <1>4 DEF WaitersHaveReply
<1>7. ASSUME NEW c \in Clients, client'[c] = "Waiting"
      PROVE  Held(c)'
  <2>1. client[c] = "Waiting" /\ HasReply(req[c]) /\ Held(c)
    BY <1>4, <1>7, WaiterQueuedHeld DEF WaitersHaveReply
  <2>2. CASE InRelay(commands, c)
    <3>1. m.from # c
      <4> SUFFICES ASSUME m.from = c PROVE FALSE
        OBVIOUS
      <4>1. req[c] = m.req /\ m.req.svc = "Network" /\ IsProcess(m.req)
        BY <1>3
      <4>2. m.req.kind = "Query"
        BY <1>1, <2>1, <4>1, ReplyKinds DEF IsProcess
      <4> QED
        BY <1>4, <1>7, <4>2
    <3> QED
      BY <1>1, <1>2, <2>2, <3>1, InRelayTail DEF Held
  <2>3. CASE ~InRelay(commands, c)
    BY <1>2, <2>1, <2>3 DEF Held
  <2> QED
    BY <2>2, <2>3
<1> QED
  BY <1>5, <1>6, <1>7, WaiterQueuedHeld

\* The network's loop ends and drops its relay: every caller whose sender
\* was in it fails.
LEMMA NetStopWQ ==
  ASSUME TypeOK, RelaysCarryRequests, WaitersHaveReply, WaiterQueued, NetStop
  PROVE  RelaysCarryRequests' /\ WaitersHaveReply' /\ WaiterQueued'
<1>1. /\ netRelay' = << >> /\ ~netRunning'
      /\ UNCHANGED <<req, commands, mpRunning, mpRelay>>
  BY DEF NetStop
<1>2. \A c \in Clients : client'[c] = "Waiting" =>
         client[c] = "Waiting" /\ ~InRelay(netRelay, c)
  BY DEF NetStop, DropReplies, InRelay
<1>3. RelaysCarryRequests' /\ WaitersHaveReply'
  BY <1>1, <1>2 DEF RelaysCarryRequests, WaitersHaveReply
<1>4. \A c \in Clients : client'[c] = "Waiting" => Held(c)'
  BY <1>1, <1>2, WaiterQueuedHeld DEF Held
<1> QED
  BY <1>3, <1>4, WaiterQueuedHeld

\* The mempool's relay branch answers a View at the head of its relay.
LEMMA MpHandleRelayWQ ==
  ASSUME TypeOK, RelaysCarryRequests, WaitersHaveReply, WaiterQueued,
         MpHandleRelay
  PROVE  RelaysCarryRequests' /\ WaitersHaveReply' /\ WaiterQueued'
<1> DEFINE m == Head(mpRelay)
<1>1. /\ mpRelay \in Seq(Msg) /\ mpRelay # << >>
      /\ m \in Msg /\ m.from \in Clients /\ m.req \in Request
      /\ m = mpRelay[1] /\ 1 \in DOMAIN mpRelay
  BY RelayHeadTail DEF MpHandleRelay, TypeOK
<1>2. /\ mpRelay' = Tail(mpRelay)
      /\ UNCHANGED <<req, netRunning, netRelay, commands, mpRunning>>
  BY DEF MpHandleRelay, netVars
<1>3. /\ m.req.kind = "View" => Reply(m.from)
      /\ m.req.kind # "View" => UNCHANGED client
  BY Zenon DEF MpHandleRelay
<1>4. m.req = req[m.from] /\ m.req.svc = "Mempool"
  BY <1>1 DEF RelaysCarryRequests
<1>5. \A c \in Clients : client'[c] = "Waiting" =>
         /\ client[c] = "Waiting"
         /\ c = m.from => m.req.kind # "View"
  BY <1>1, <1>3 DEF Reply, TypeOK
<1>6. RelaysCarryRequests'
  BY <1>1, <1>2 DEF RelaysCarryRequests
<1>7. WaitersHaveReply'
  BY <1>2, <1>5 DEF WaitersHaveReply
<1>8. ASSUME NEW c \in Clients, client'[c] = "Waiting"
      PROVE  Held(c)'
  <2>1. client[c] = "Waiting" /\ HasReply(req[c]) /\ Held(c)
    BY <1>5, <1>8, WaiterQueuedHeld DEF WaitersHaveReply
  <2>2. CASE mpRunning /\ InRelay(mpRelay, c)
    <3>1. m.from # c
      <4> SUFFICES ASSUME m.from = c PROVE FALSE
        OBVIOUS
      <4>1. m.req.kind = "View"
        BY <1>1, <1>4, <2>1, ReplyKinds
      <4> QED
        BY <1>5, <1>8, <4>1
    <3> QED
      BY <1>1, <1>2, <2>2, <3>1, InRelayTail DEF Held
  <2>3. CASE ~(mpRunning /\ InRelay(mpRelay, c))
    BY <1>2, <2>1, <2>3 DEF Held
  <2> QED
    BY <2>2, <2>3
<1> QED
  BY <1>6, <1>7, <1>8, WaiterQueuedHeld

\* The mempool's loop panics only when its relay is empty.
LEMMA MpPanicWQ ==
  ASSUME TypeOK, RelaysCarryRequests, WaitersHaveReply, WaiterQueued, MpPanic
  PROVE  RelaysCarryRequests' /\ WaitersHaveReply' /\ WaiterQueued'
<1>1. /\ mpRelay = << >>
      /\ UNCHANGED <<req, client, netRunning, netRelay, commands, mpRelay>>
  BY DEF MpPanic, clientVars, netVars
<1> QED
  BY <1>1 DEF RelaysCarryRequests, WaitersHaveReply, WaiterQueued

\* A caller that sends a request with a reply waits with its sender at the
\* tail of the relay.
LEMMA ClientSendWQ ==
  ASSUME TypeOK, RelaysCarryRequests, WaitersHaveReply, WaiterQueued,
         NEW c \in Clients, ClientSend(c)
  PROVE  RelaysCarryRequests' /\ WaitersHaveReply' /\ WaiterQueued'
<1> DEFINE toNet == req[c].svc = "Network"
           open == IF toNet THEN netRunning ELSE mpRunning
           m == [from |-> c, req |-> req[c]]
<1>0. /\ req[c] \in Request /\ m \in Msg
      /\ netRelay \in Seq(Msg) /\ mpRelay \in Seq(Msg)
  BY DEF TypeOK, Msg
<1>1. UNCHANGED <<req, netRunning, mpRunning, commands>>
  BY DEF ClientSend
<1>2. client[c] = "Idle"
  BY DEF ClientSend
<1>3. CASE ~open
  <2>1. UNCHANGED <<netRelay, mpRelay>>
        /\ \A d \in Clients : client'[d] = "Waiting" => client[d] = "Waiting"
    BY <1>3 DEF ClientSend, TypeOK
  <2> QED
    BY <1>1, <2>1, WQShrink
<1>4. CASE open
  <2>1. /\ netRelay' = IF toNet THEN Append(netRelay, m) ELSE netRelay
        /\ mpRelay' = IF toNet THEN mpRelay ELSE Append(mpRelay, m)
        /\ client' = [client EXCEPT ![c] =
                        IF HasReply(req[c]) THEN "Waiting" ELSE "Done"]
    BY <1>4 DEF ClientSend
  <2>2. toNet \/ req[c].svc = "Mempool"
    BY <1>0, RequestServices
  <2>3. RelaysCarryRequests'
    BY <1>0, <1>1, <2>1, <2>2 DEF RelaysCarryRequests
  <2>4. WaitersHaveReply'
    BY <1>1, <2>1 DEF WaitersHaveReply, TypeOK
  <2>5. ASSUME NEW d \in Clients, client'[d] = "Waiting"
        PROVE  Held(d)'
    <3>1. CASE d = c
      BY <1>0, <1>1, <1>4, <2>1, <2>2, <3>1, InRelayAppend DEF Held
    <3>2. CASE d # c
      <4>1. client[d] = "Waiting" /\ Held(d)
        BY <2>1, <2>5, <3>2, WaiterQueuedHeld DEF TypeOK
      <4> QED
        BY <1>0, <1>1, <2>1, <4>1, InRelayAppend DEF Held
    <3> QED
      BY <3>1, <3>2
  <2> QED
    BY <2>3, <2>4, <2>5, WaiterQueuedHeld
<1> QED
  BY <1>3, <1>4

\* The step of the environment that keeps the queues as they are.
LEMMA EnvironmentWQ ==
  ASSUME TypeOK, RelaysCarryRequests, WaitersHaveReply, WaiterQueued,
         Environment
  PROVE  RelaysCarryRequests' /\ WaitersHaveReply' /\ WaiterQueued'
<1>1. CASE \E c \in Clients : ClientSend(c)
  BY <1>1, ClientSendWQ
<1>2. CASE \E c \in Clients : ClientHangUp(c)
  <2> PICK c \in Clients : ClientHangUp(c)
    BY <1>2
  <2>1. \A d \in Clients : client'[d] = "Waiting" => client[d] = "Waiting"
    BY DEF ClientHangUp, TypeOK
  <2> QED
    BY <2>1, WQShrink DEF ClientHangUp, netVars, mpVars
<1>3. CASE \E t \in Txs : PeerTx(t)
  BY <1>3, WQShrink DEF PeerTx, clientVars, netVars
<1>4. CASE \E l \in {"Kill", "Shutdown"} : SendLifecycle(l)
  BY <1>4, WQShrink DEF SendLifecycle, clientVars, mpVars
<1>5. CASE DropMempoolSenders
  BY <1>5, WQShrink DEF DropMempoolSenders, clientVars, netVars
<1> QED
  BY <1>1, <1>2, <1>3, <1>4, <1>5 DEF Environment

LEMMA NextWQInv == WQInv /\ [Next]_vars => WQInv'
<1> SUFFICES ASSUME WQInv, [Next]_vars
             PROVE  RelaysCarryRequests' /\ WaitersHaveReply' /\ WaiterQueued'
  BY NextType DEF WQInv
<1>0. TypeOK /\ RelaysCarryRequests /\ WaitersHaveReply /\ WaiterQueued
  BY DEF WQInv
<1>1. CASE NetHandleRelay
  BY <1>0, <1>1, NetHandleRelayWQ
<1>2. CASE NetStop
  BY <1>0, <1>2, NetStopWQ
<1>3. CASE BackendCommand
  BY <1>0, <1>3, BackendCommandWQ
<1>4. CASE MpHandleRelay
  BY <1>0, <1>4, MpHandleRelayWQ
<1>5. CASE MpHandleNetTx
  BY <1>0, <1>5, WQShrink DEF MpHandleNetTx, clientVars, netVars
<1>6. CASE MpPanic
  BY <1>0, <1>6, MpPanicWQ
<1>7. CASE Environment
  BY <1>0, <1>7, EnvironmentWQ
<1>8. CASE UNCHANGED vars
  BY <1>0, <1>8, WQShrink DEF vars, clientVars, netVars, mpVars
<1> QED
  BY <1>1, <1>2, <1>3, <1>4, <1>5, <1>6, <1>7, <1>8
     DEF Next, NetworkStep, MempoolStep

LEMMA InitWQInv == Init => WQInv
<1> SUFFICES ASSUME Init PROVE WQInv
  OBVIOUS
<1>1. \A c \in Clients : client[c] # "Waiting"
  BY DEF Init
<1> QED
  BY <1>1, InitType DEF WQInv, Init, RelaysCarryRequests, WaitersHaveReply,
     WaiterQueued

\* No API handler awaits a reply that nobody holds: every caller waiting
\* on a reply receiver (make_request_and_return_response, api.rs:139-152)
\* has its reply sender in the relay of a running service (the loops of
\* lib.rs:90-114 and mempool lib.rs:127-153), or handed to the network
\* backend with a Process command (command.rs:26-52).
THEOREM WaiterQueuedTheorem == Spec => []WaiterQueued
<1>1. Init => WQInv
  BY InitWQInv
<1>2. WQInv /\ [Next]_vars => WQInv'
  BY NextWQInv
<1>3. WQInv => WaiterQueued
  BY DEF WQInv
<1> QED
  BY <1>1, <1>2, <1>3, PTL DEF Spec

=============================================================================
