---------------------------- MODULE NodeServices ----------------------------
(***************************************************************************)
(* The network and mempool services of a node and the clients that talk   *)
(* to them through overwatch relays                                        *)
(* (src/nomos-services/network/src/lib.rs, NetworkService::run;           *)
(*  src/nomos-services/mempool/src/lib.rs, MempoolService::run;           *)
(*  src/nodes/nomos-node/src/api.rs, the HTTP handlers).                   *)
(*                                                                         *)
(* Each service is one task running a loop around tokio::select!.  One    *)
(* iteration of the loop (one branch taken and its handler run to the end) *)
(* is one action.  A relay is a bounded mpsc channel: a send waits while   *)
(* it is full and fails once the receiver is dropped, and dropping the     *)
(* receiver drops the messages still in it, with their reply channels.     *)
(* The network service's backend feeds the mempool's transaction stream;  *)
(* the stream ends when the backend is dropped, that is when the network   *)
(* service's run returns.  A Process message is handed to the backend,     *)
(* whose swarm task carries out the command (backends/libp2p/command.rs)  *)
(* and answers the oneshot reply the Discovery and Network commands carry. *)
(***************************************************************************)
EXTENDS Naturals, Sequences

CONSTANTS
    Clients,      \* API callers, each making one request
    Txs,          \* transactions
    RelayCap,     \* capacity of a relay channel
    MaxPeerTxs    \* how many transactions peers gossip to the node

ASSUME ServicesAssumption ==
    /\ RelayCap \in Nat \ {0}
    /\ MaxPeerTxs \in Nat

\* NetworkMsg (lib.rs:24-30) and MempoolMsg (mempool lib.rs:36-51).  A
\* Process message carries a Command (command.rs:47-52): "PubSub" stands for
\* Command::PubSub, which has no reply, and "Query" for the Discovery and
\* Network commands (GetClosestPeers, DumpRoutingTable, Info, Connect),
\* each with a oneshot sender.  The subscription kind and the block header
\* are abstracted away; ids are a set of transactions.
NetworkReq == [svc : {"Network"}, kind : {"PubSub", "Query", "Subscribe"}]
MempoolReq ==
    [svc : {"Mempool"}, kind : {"AddTx"}, tx : Txs]
    \cup [svc : {"Mempool"}, kind : {"View"}]
    \cup [svc : {"Mempool"}, kind : {"Prune", "MarkInBlock"}, ids : SUBSET Txs]
Request == NetworkReq \cup MempoolReq
Msg == [from : Clients, req : Request]

\* The requests that carry a oneshot reply channel.
HasReply(r) == r.kind \in {"Query", "Subscribe", "View"}

\* The requests sent as NetworkMsg::Process.
IsProcess(r) == r.kind \in {"PubSub", "Query"}

VARIABLES
    \* the clients
    req,          \* the request each client makes
    client,       \* "Idle", "Waiting" (for a reply), "Done", "Failed", "HungUp"
    \* the network service
    netRunning,   \* NetworkService::run has not returned
    netRelay,     \* its inbound relay
    lifecycle,    \* its lifecycle stream: lifecycle messages not yet read
    ack,          \* overwatch's Shutdown signal: "None", "Waiting", "Acked"
    lifeSent,     \* overwatch has sent its lifecycle message
    commands,     \* Process messages handed to the backend, not yet carried out
    \* the mempool service
    mpRunning,    \* MempoolService::run has not panicked
    mpRelay,      \* its inbound relay
    mpRelayOpen,  \* some sender of the mempool relay is alive
    netTxs,       \* the mempool's network transaction stream: buffered items
    netTxOpen,    \* that stream has not ended
    pool,         \* the transactions the pool holds
    peerTxs       \* transactions gossiped so far

clientVars == <<req, client>>
netVars == <<netRunning, netRelay, lifecycle, ack, lifeSent, commands>>
mpVars == <<mpRunning, mpRelay, mpRelayOpen, netTxs, netTxOpen, pool, peerTxs>>
vars == <<clientVars, netVars, mpVars>>

TypeOK ==
    /\ req \in [Clients -> Request]
    /\ client \in [Clients -> {"Idle", "Waiting", "Done", "Failed", "HungUp"}]
    /\ netRunning \in BOOLEAN
    /\ netRelay \in Seq(Msg) /\ Len(netRelay) <= RelayCap
    /\ lifecycle \in Seq({"Kill", "Shutdown"})
    /\ ack \in {"None", "Waiting", "Acked"}
    /\ lifeSent \in BOOLEAN
    /\ commands \in Seq(Msg)
    /\ mpRunning \in BOOLEAN
    /\ mpRelay \in Seq(Msg) /\ Len(mpRelay) <= RelayCap
    /\ mpRelayOpen \in BOOLEAN
    /\ netTxs \in Seq(Txs)
    /\ netTxOpen \in BOOLEAN
    /\ pool \in SUBSET Txs
    /\ peerTxs \in 0 .. MaxPeerTxs

\* Both services running with empty relays; the mempool has subscribed to
\* the network's transactions (mempool lib.rs:119-125).
Init ==
    /\ req \in [Clients -> Request]
    /\ client = [c \in Clients |-> "Idle"]
    /\ netRunning = TRUE
    /\ netRelay = << >>
    /\ lifecycle = << >>
    /\ ack = "None"
    /\ lifeSent = FALSE
    /\ commands = << >>
    /\ mpRunning = TRUE
    /\ mpRelay = << >>
    /\ mpRelayOpen = TRUE
    /\ netTxs = << >>
    /\ netTxOpen = TRUE
    /\ pool = {}
    /\ peerTxs = 0

-----------------------------------------------------------------------------
(* A oneshot reply: the client gets it if it is still waiting.  A client  *)
(* that hung up makes the send fail, which the services only log.          *)
Reply(c) == client' = IF client[c] = "Waiting"
                      THEN [client EXCEPT ![c] = "Done"] ELSE client

\* Dropping a relay receiver drops the reply senders of the messages in it:
\* their clients' receivers fail.
DropReplies(q) ==
    client' = [c \in Clients |->
                 IF client[c] = "Waiting" /\ \E i \in DOMAIN q : q[i].from = c
                 THEN "Failed" ELSE client[c]]

-----------------------------------------------------------------------------
(* NetworkService::run (lib.rs:90-114).                                    *)

\* The relay branch: handle_network_service_message (lib.rs:103-104,
\* 122-138).  backend.process hands a Process message, with its reply
\* sender, to the backend; a Subscribe is answered here.
NetHandleRelay ==
    /\ netRunning
    /\ netRelay # << >>
    /\ LET m == Head(netRelay) IN
       /\ commands' = IF IsProcess(m.req) THEN Append(commands, m) ELSE commands
       /\ IF m.req.kind = "Subscribe" THEN Reply(m.from)
          ELSE UNCHANGED client
    /\ netRelay' = Tail(netRelay)
    /\ UNCHANGED <<req, netRunning, lifecycle, ack, lifeSent, mpVars>>

\* The lifecycle branch with should_stop_service (lib.rs:106-110,
\* 140-154): both messages stop the loop, Shutdown after sending its
\* signal.  run returns: the relay is dropped with what it holds, and so is
\* the backend, which ends the mempool's transaction stream.
NetStop_NoAck ==
    /\ netRunning
    /\ lifecycle # << >>
    /\ lifecycle' = Tail(lifecycle)
    /\ netRunning' = FALSE
    /\ netRelay' = << >>
    /\ DropReplies(netRelay)
    /\ netTxOpen' = FALSE
    /\ UNCHANGED <<req, ack, lifeSent, commands, mpRunning, mpRelay,
                   mpRelayOpen, netTxs, pool, peerTxs>>

NetStop_KeepRelay ==
    /\ netRunning
    /\ lifecycle # << >>
    /\ lifecycle' = Tail(lifecycle)
    /\ ack' = IF Head(lifecycle) = "Shutdown" /\ ack = "Waiting"
              THEN "Acked" ELSE ack
    /\ netRunning' = FALSE
    /\ netTxOpen' = FALSE
    /\ UNCHANGED <<req, client, netRelay, lifeSent, commands, mpRunning,
                   mpRelay, mpRelayOpen, netTxs, pool, peerTxs>>

NetStop ==
    /\ netRunning
    /\ lifecycle # << >>
    /\ lifecycle' = Tail(lifecycle)
    /\ ack' = IF Head(lifecycle) = "Shutdown" /\ ack = "Waiting"
              THEN "Acked" ELSE ack
    /\ netRunning' = FALSE
    /\ netRelay' = << >>
    /\ DropReplies(netRelay)
    /\ netTxOpen' = FALSE
    /\ UNCHANGED <<req, lifeSent, commands, mpRunning, mpRelay,
                   mpRelayOpen, netTxs, pool, peerTxs>>

NetworkStep == NetHandleRelay \/ NetStop

\* The backend's swarm task carries out the oldest command it was handed
\* and sends the reply of a Discovery or Network command (Dial answers with
\* its result, an error included).  The task is spawned by the backend and
\* is not stopped by the return of NetworkService::run.
BackendCommand ==
    /\ commands # << >>
    /\ IF Head(commands).req.kind = "Query" THEN Reply(Head(commands).from)
       ELSE UNCHANGED client
    /\ commands' = Tail(commands)
    /\ UNCHANGED <<req, netRunning, netRelay, lifecycle, ack, lifeSent, mpVars>>

-----------------------------------------------------------------------------
(* MempoolService::run (mempool lib.rs:127-153).  The pool backend is not  *)
(* in the repository: it is a set; add_tx of a transaction already there  *)
(* fails, which the loop only logs.  MarkInBlock and Prune both take their *)
(* ids out of what View returns.                                           *)

PoolAdd(t) == pool' = pool \cup {t}

\* A relay branch whose View handler drops the reply sender unsent.
MpHandleRelay_NoViewReply ==
    /\ mpRunning
    /\ mpRelay # << >>
    /\ LET m == Head(mpRelay) IN
       CASE m.req.kind = "AddTx" -> PoolAdd(m.req.tx) /\ UNCHANGED client
         [] m.req.kind = "View" -> UNCHANGED <<client, pool>>
         [] OTHER -> pool' = pool \ m.req.ids /\ UNCHANGED client
    /\ mpRelay' = Tail(mpRelay)
    /\ UNCHANGED <<req, netVars, mpRunning, mpRelayOpen, netTxs, netTxOpen,
                   peerTxs>>

\* The relay branch (lib.rs:129-146).
MpHandleRelay ==
    /\ mpRunning
    /\ mpRelay # << >>
    /\ LET m == Head(mpRelay) IN
       CASE m.req.kind = "AddTx" -> PoolAdd(m.req.tx) /\ UNCHANGED client
         [] m.req.kind = "View" -> Reply(m.from) /\ UNCHANGED pool
         [] OTHER -> pool' = pool \ m.req.ids /\ UNCHANGED client
    /\ mpRelay' = Tail(mpRelay)
    /\ UNCHANGED <<req, netVars, mpRunning, mpRelayOpen, netTxs, netTxOpen,
                   peerTxs>>

\* The network branch (lib.rs:147-151).
MpHandleNetTx ==
    /\ mpRunning
    /\ netTxs # << >>
    /\ PoolAdd(Head(netTxs))
    /\ netTxs' = Tail(netTxs)
    /\ UNCHANGED <<clientVars, netVars, mpRunning, mpRelay, mpRelayOpen,
                   netTxOpen, peerTxs>>

\* Both branches disabled: both streams have returned None, and select!
\* without an else branch panics (lib.rs:128).  The task ends and its
\* relay receiver is dropped.
MpPanic ==
    /\ mpRunning
    /\ mpRelay = << >> /\ ~mpRelayOpen
    /\ netTxs = << >> /\ ~netTxOpen
    /\ mpRunning' = FALSE
    /\ UNCHANGED <<clientVars, netVars, mpRelay, mpRelayOpen, netTxs,
                   netTxOpen, pool, peerTxs>>

MempoolStep == MpHandleRelay \/ MpHandleNetTx \/ MpPanic

-----------------------------------------------------------------------------
(* The clients and the environment.                                        *)

ClientSend_NoCap(c) ==
    /\ client[c] = "Idle"
    /\ LET toNet == req[c].svc = "Network"
           q2 == Append(IF toNet THEN netRelay ELSE mpRelay,
                        [from |-> c, req |-> req[c]])
       IN IF IF toNet THEN netRunning ELSE mpRunning
          THEN /\ client' = [client EXCEPT ![c] =
                               IF HasReply(req[c]) THEN "Waiting" ELSE "Done"]
               /\ netRelay' = IF toNet THEN q2 ELSE netRelay
               /\ mpRelay' = IF toNet THEN mpRelay ELSE q2
          ELSE /\ client' = [client EXCEPT ![c] = "Failed"]
               /\ UNCHANGED <<netRelay, mpRelay>>
    /\ UNCHANGED <<req, netRunning, lifecycle, ack, lifeSent, commands,
                   mpRunning, mpRelayOpen, netTxs, netTxOpen, pool, peerTxs>>

\* An API handler sends its request through the relay
\* (make_request_and_return_response, api.rs:139-152, 300-311): a send to a
\* dropped receiver fails and the handler answers 500; a request without a
\* reply is answered 200 once it is in the relay.
ClientSend(c) ==
    /\ client[c] = "Idle"
    /\ LET toNet == req[c].svc = "Network"
           q == IF toNet THEN netRelay ELSE mpRelay
           open == IF toNet THEN netRunning ELSE mpRunning
           q2 == Append(q, [from |-> c, req |-> req[c]])
       IN IF open
          THEN /\ Len(q) < RelayCap
               /\ client' = [client EXCEPT ![c] =
                               IF HasReply(req[c]) THEN "Waiting" ELSE "Done"]
               /\ netRelay' = IF toNet THEN q2 ELSE netRelay
               /\ mpRelay' = IF toNet THEN mpRelay ELSE q2
          ELSE /\ client' = [client EXCEPT ![c] = "Failed"]
               /\ UNCHANGED <<netRelay, mpRelay>>
    /\ UNCHANGED <<req, netRunning, lifecycle, ack, lifeSent, commands,
                   mpRunning, mpRelayOpen, netTxs, netTxOpen, pool, peerTxs>>

\* A client drops its reply receiver (the HTTP connection is closed).
ClientHangUp(c) ==
    /\ client[c] = "Waiting"
    /\ client' = [client EXCEPT ![c] = "HungUp"]
    /\ UNCHANGED <<req, netVars, mpVars>>

\* A peer gossips a transaction, which the backend broadcasts to the
\* mempool's stream.
PeerTx(t) ==
    /\ netRunning
    /\ peerTxs < MaxPeerTxs
    /\ Len(netTxs) < RelayCap
    /\ netTxs' = Append(netTxs, t)
    /\ peerTxs' = peerTxs + 1
    /\ UNCHANGED <<clientVars, netVars, mpRunning, mpRelay, mpRelayOpen,
                   netTxOpen, pool>>

\* Overwatch asks the network service to stop, once.
SendLifecycle(l) ==
    /\ ~lifeSent
    /\ lifecycle' = Append(lifecycle, l)
    /\ ack' = IF l = "Shutdown" THEN "Waiting" ELSE ack
    /\ lifeSent' = TRUE
    /\ UNCHANGED <<clientVars, netRunning, netRelay, commands, mpVars>>

\* Every sender of the mempool relay is dropped: the clients have sent
\* and overwatch is shutting the node down.
DropMempoolSenders ==
    /\ mpRelayOpen
    /\ lifeSent
    /\ \A c \in Clients : client[c] # "Idle"
    /\ mpRelayOpen' = FALSE
    /\ UNCHANGED <<clientVars, netVars, mpRunning, mpRelay, netTxs,
                   netTxOpen, pool, peerTxs>>

Environment ==
    \/ \E c \in Clients : ClientSend(c) \/ ClientHangUp(c)
    \/ \E t \in Txs : PeerTx(t)
    \/ \E l \in {"Kill", "Shutdown"} : SendLifecycle(l)
    \/ DropMempoolSenders

Next == NetworkStep \/ BackendCommand \/ MempoolStep \/ Environment

\* The services' tasks and the backend's swarm task are scheduled by tokio
\* whenever a branch of their select! is ready.
Fairness ==
    /\ WF_vars(NetworkStep)
    /\ WF_vars(BackendCommand)
    /\ WF_vars(MempoolStep)

Spec == Init /\ [][Next]_vars
FairSpec == Spec /\ Fairness

-----------------------------------------------------------------------------
(* Properties.                                                             *)

\* A request with a reply never leaves its caller waiting for ever: the
\* service answers it (handle_network_service_message, the View branch),
\* the network backend answers the command it was handed, or the service
\* drops it with its relay when its loop ends (the break of lib.rs:108 and
\* the panic of mempool lib.rs:128), or the caller hangs up.
RequestsResolved ==
    \A c \in Clients :
        client[c] = "Waiting" ~> client[c] \in {"Done", "Failed", "HungUp"}

\* A Shutdown that overwatch sends to the network service is acknowledged
\* (should_stop_service, lib.rs:143-151).
ShutdownAcknowledged == ack = "Waiting" ~> ack = "Acked"

\* A caller waiting on its oneshot reply (api.rs:139-152) has its request,
\* with the reply sender, in the relay of a service whose loop still runs
\* or among the commands handed to the network backend: a handler never
\* consumes a request with a reply without sending it or passing it on, and
\* a loop that ends (the break of lib.rs:108, the panic of mempool
\* lib.rs:128) never leaves a caller waiting on a sender nobody holds.
WaiterQueued ==
    \A c \in Clients : client[c] = "Waiting" =>
        \/ netRunning /\ \E i \in DOMAIN netRelay : netRelay[i].from = c
        \/ mpRunning /\ \E i \in DOMAIN mpRelay : mpRelay[i].from = c
        \/ \E i \in DOMAIN commands : commands[i].from = c

=============================================================================
