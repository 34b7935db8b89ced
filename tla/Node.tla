-------------------------------- MODULE Node --------------------------------
(***************************************************************************)
(* The Node (node/node.go) and the RPC controller it serves: Start and     *)
(* Stop bring the node's three parts up and down one call after another,   *)
(* while the requests of the clients are handled in goroutines of their    *)
(* own.  The RPC server hands requests to the router between its Start and *)
(* its Stop; a handler that has begun runs on after the server's Stop.     *)
(* The TxBuffer's loop belongs to og and receives while og runs.           *)
(***************************************************************************)
EXTENDS RpcController

CONSTANTS
    P2PEnabled,     \* the values of the setting p2p.enabled
    RPCEnabled      \* the values of the setting rpc.enabled

ASSUME P2PEnabled \subseteq BOOLEAN /\ RPCEnabled \subseteq BOOLEAN

VARIABLES
    part,           \* part[x]: Nil, "new", "running" or "stopped"
    call            \* the call of Start or Stop the node has come to

nodeVars == <<part, call>>
vars == <<rpcVars, nodeVars>>

Parts == {"og", "p2pServer", "rpcServer"}

\* A plausible slip: Stop takes the parts down in the order Start brought
\* them up.
StopInStartOrder == <<"og", "p2pServer", "rpcServer">>

\* Start: og first, then the servers.
StartOrder == <<"og", "p2pServer", "rpcServer">>

\* Stop: the servers first, og last.
StopOrder == <<"rpcServer", "p2pServer", "og">>

\* NewNode: a server exists when its setting is on.
NewNode(p2p, rpc) ==
    [x \in Parts |->
        CASE x = "p2pServer" -> IF p2p THEN "new" ELSE Nil
          [] x = "rpcServer" -> IF rpc THEN "new" ELSE Nil
          [] OTHER           -> "new"]

Init ==
    /\ RpcInit
    /\ \E p2p \in P2PEnabled, rpc \in RPCEnabled : part = NewNode(p2p, rpc)
    /\ call = [of |-> "Start", at |-> 1]

\* The parts after the call at position at of an order: the part, when the
\* node has it, gets the status.
Called(order, at, status) ==
    IF part[order[at]] = Nil THEN part ELSE [part EXCEPT ![order[at]] = status]

\* Start, one call at a time.
Start ==
    /\ call.of = "Start" /\ call.at <= Len(StartOrder)
    /\ part' = Called(StartOrder, call.at, "running")
    /\ call' = [call EXCEPT !.at = @ + 1]
    /\ UNCHANGED rpcVars

\* Stop, one call at a time, called once Start has returned.
Stop ==
    LET at == IF call.of = "Start" THEN 1 ELSE call.at
    IN  /\ call.of = "Start" => call.at > Len(StartOrder)
        /\ at <= Len(StopOrder)
        /\ part' = Called(StopOrder, at, "stopped")
        /\ call' = [of |-> "Stop", at |-> at + 1]
        /\ UNCHANGED rpcVars

\* The RPC server accepts a request and its router dispatches it.
Request(c) ==
    /\ part["rpcServer"] = "running"
    /\ \E req \in Requests : Serve(c, req)
    /\ UNCHANGED nodeVars

\* The TxBuffer's loop receives from a handler.
Receive(c) ==
    /\ part["og"] = "running"
    /\ Deliver(c)
    /\ UNCHANGED nodeVars

Next ==
    \/ Start
    \/ Stop
    \/ \E c \in Clients : Request(c) \/ Receive(c)
    \/ \E c \in Clients : Continue(c) /\ UNCHANGED nodeVars
    \/ SwitchSyncer /\ UNCHANGED nodeVars

Spec == Init /\ [][Next]_vars
-----------------------------------------------------------------------------
Responses ==
    [code : {StatusOK, StatusBadRequest, StatusNotFound,
             StatusInternalServerError},
     err : STRING \cup {Nil}, data : Seq(STRING) \cup {Nil}]

TypeOK ==
    /\ ArchiveMode \in BOOLEAN /\ Enabled \in BOOLEAN
    /\ switches \in 0 .. MaxSwitches
    /\ part \in [Parts -> {Nil, "new", "running", "stopped"}]
    /\ call.of \in {"Start", "Stop"} /\ call.at \in 1 .. 4
    /\ \A c \in Clients :
        LET h == handler[c]
        IN  /\ h.pc \in {"Idle", "Checking", "Sending", "Answered"}
            /\ h.pc = "Idle" <=> h.req = Nil
            /\ h.pc = "Sending" <=> h.tx # Nil
            /\ h.pc = "Answered" <=> h.response # Nil
            /\ h.response # Nil =>
                  IF h.name = "writeListOfEndpoints"
                  THEN h.response.data = Links
                  ELSE h.response \in Responses
            /\ h.req # Nil => h.i \in 1 .. Max({1, Len(h.req.txs)})
    /\ \A k \in DOMAIN ReceivedNewTxChan :
        ReceivedNewTxChan[k].from \in Clients

\* The hashes of the transactions a request names, in its order.
Named(req) == [k \in DOMAIN req.txs |-> req.txs[k].hash]

\* The hashes the TxBuffer has received from client c, in order.
SubmittedBy(c) ==
    LET received == SelectSeq(ReceivedNewTxChan, LAMBDA tx : tx.from = c)
    IN  [k \in DOMAIN received |-> received[k].hash]

\* What a handler has handed to the TxBuffer is, at every moment, the
\* transactions its request names up to some point, each once and in the
\* request's order; and a response without an error, but for the page of
\* endpoints, lists the hashes of all of them (NewTransactions' loop with
\* its two sends and its continue, and the response after the send in
\* NewTransaction).
AcknowledgedAreSubmitted ==
    \A c \in Clients :
        LET h == handler[c]
        IN  h.req # Nil =>
                /\ IsPrefix(SubmittedBy(c), Named(h.req))
                /\ /\ h.pc = "Answered" /\ h.response.err = Nil
                   /\ h.name # "writeListOfEndpoints"
                   => /\ h.response.data = Named(h.req)
                      /\ SubmittedBy(c) = Named(h.req)

\* In archive mode the node takes no transaction: NewTransaction and
\* NewTransactions refuse, and NewSequencer, which does not ask for the
\* flag, has no route in addRouter.
NothingSubmittedInArchiveMode ==
    ArchiveMode => ReceivedNewTxChan = <<>>

\* Requests are served only while og runs: Start brings og up before the
\* RPC server and Stop takes the RPC server down before og.
RpcServesOnlyWhileOgRuns ==
    part["rpcServer"] = "running" => part["og"] = "running"

\* A transaction that NewTransactions marks as VerifiedFormat and hands to
\* the TxBuffer has passed FormatVerifier's VerifySignature and
\* VerifySourceAddress.
SubmittedWereVerified ==
    \A k \in DOMAIN ReceivedNewTxChan :
        ReceivedNewTxChan[k].via = "NewTransactions" =>
            ReceivedNewTxChan[k].checked
=============================================================================
