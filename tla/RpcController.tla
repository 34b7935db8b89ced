--------------------------- MODULE RpcController ---------------------------
(***************************************************************************)
(* The transaction handlers of the RPC controller (rpc/tx_controller.go)   *)
(* behind the routes of rpc/router.go.  Every HTTP request runs its        *)
(* handler in a goroutine of its own; the handlers share the archive flag, *)
(* the syncer's Enabled flag and the unbuffered channel ReceivedNewTxChan  *)
(* of the TxBuffer.                                                        *)
(*                                                                         *)
(* A handler is a list of checks, each an early return with a response,    *)
(* followed by a send on the channel.  A step of a handler runs from one   *)
(* blocking point to the next: from the request to the first send, from a  *)
(* completed send to the next one, or to the response.  What a request     *)
(* carries is abstracted to the hash of each transaction and the first     *)
(* check its text fails; what TxCreator and FormatVerifier answer is       *)
(* chosen at each step.                                                    *)
(***************************************************************************)
EXTENDS Integers, Sequences, FiniteSets, SequencesExt, TLC

CONSTANTS
    Clients,         \* the connections; each sends one request
    Requests,        \* the requests a client may send
    ArchiveModes,    \* the values status.ArchiveMode may have been started with
    CreateOutcomes,  \* whether TxCreator makes the transaction
    VerifyOutcomes,  \* whether FormatVerifier approves a transaction
    MaxSwitches,     \* bound: the times the syncer is switched on or off
    Nil              \* no error, no data, no request

\* The faults a transaction's text may have, named after the check it fails.
Faults == {"none", "parent", "from", "guarantee", "treasure", "signature",
           "pubkey", "crypto"}

ASSUME /\ ArchiveModes \subseteq BOOLEAN /\ ArchiveModes # {}
       /\ CreateOutcomes \subseteq BOOLEAN /\ VerifyOutcomes \subseteq BOOLEAN
       /\ MaxSwitches \in Nat
       /\ \A r \in Requests :
            /\ r.bindOk \in BOOLEAN
            /\ \A i \in DOMAIN r.txs : r.txs[i].fault \in Faults

VARIABLES
    ArchiveMode,         \* status.ArchiveMode
    Enabled,             \* SyncerManager.IncrementalSyncer.Enabled
    handler,             \* handler[c]: the goroutine serving client c
    ReceivedNewTxChan,   \* what the TxBuffer has received, in order
    switches             \* the times the syncer has been switched

rpcVars == <<ArchiveMode, Enabled, handler, ReceivedNewTxChan, switches>>

StatusOK == 200
StatusBadRequest == 400
StatusNotFound == 404
StatusInternalServerError == 500

-----------------------------------------------------------------------------
\* addRouter's calls of router.GET and router.POST: method, path, handler.
Routes ==
    {<<"GET", "/", "writeListOfEndpoints">>, <<"GET", "/ping", "ping">>,
     <<"GET", "status", "Status">>, <<"GET", "net_info", "NetInfo">>,
     <<"GET", "peers_info", "PeersInfo">>,
     <<"GET", "og_peers_info", "OgPeersInfo">>,
     <<"GET", "transaction", "Transaction">>,
     <<"GET", "transaction_size", "TransactionSize">>,
     <<"GET", "confirm", "Confirm">>,
     <<"GET", "transactions", "Transactions">>,
     <<"GET", "transaction_hashes", "TransactionHashes">>,
     <<"GET", "validators", "Validator">>,
     <<"GET", "sequencer", "Sequencer">>,
     <<"GET", "/v1/sequencer", "SequencerV1">>,
     <<"GET", "genesis", "Genesis">>,
     <<"POST", "new_transaction", "NewTransaction">>,
     <<"GET", "new_transaction", "NewTransaction">>,
     <<"POST", "new_transactions", "NewTransactions">>,
     <<"POST", "new_account", "NewAccount">>,
     <<"POST", "new_archive", "NewArchive">>,
     <<"GET", "auto_tx", "AutoTx">>, <<"GET", "query", "Query">>,
     <<"GET", "query_nonce", "QueryNonce">>,
     <<"GET", "query_balance", "QueryBalance">>,
     <<"GET", "query_share", "QueryShare">>,
     <<"GET", "contract_payload", "ContractPayload">>,
     <<"GET", "query_receipt", "QueryReceipt">>,
     <<"POST", "query_contract", "QueryContract">>,
     <<"GET", "query_contract", "QueryContract">>,
     <<"GET", "net_io", "NetIo">>, <<"GET", "debug", "Debug">>,
     <<"GET", "tps", "Tps">>, <<"GET", "monitor", "Monitor">>,
     <<"GET", "sync_status", "SyncStatus">>,
     <<"GET", "performance", "Performance">>,
     <<"GET", "consensus", "ConStatus">>,
     <<"GET", "confirm_status", "ConfirmStatus">>,
     <<"GET", "debug/bft_status", "BftStatus">>,
     <<"GET", "debug/pool_hashes", "GetPoolHashes">>,
     <<"POST", "token/second_offering", "NewSecondOffering">>,
     <<"POST", "token/initial_offering", "NewPublicOffering">>,
     <<"POST", "token/destroy", "TokenDestroy">>,
     <<"GET", "token/latestId", "LatestTokenId">>,
     <<"GET", "token/list", "Tokens">>, <<"GET", "token", "GetToken">>,
     <<"GET", "ledger_size", "GetLedgerSize">>}

\* The handlers of this module.
Handlers ==
    {"NewTransaction", "NewSequencer", "NewTransactions",
     "writeListOfEndpoints"}

\* The routes among routes that lead to a handler of this module, as the
\* router looks them up: by method and path.
Dispatch(routes) ==
    LET served == {r \in routes : r[3] \in Handlers}
    IN  [route \in {<<r[1], r[2]>> : r \in served} |->
            CHOOSE name \in Handlers : <<route[1], route[2], name>> \in served]

\* A plausible slip: the sequencer handler gets a route like the others.
addRouterWithSequencer ==
    Dispatch(Routes \cup {<<"POST", "new_sequencer", "NewSequencer">>})

\* addRouter.  No route leads to NewSequencer.
addRouter == Dispatch(Routes)

\* writeListOfEndpoints' routerMap: the arguments of every endpoint listed.
routerMap ==
    [name \in {"status", "net_info", "peers_info", "og_peers_info",
               "validators", "sequencer", "/v1/sequencer", "genesis",
               "new_transactions", "net_io", "tps", "monitor", "sync_status",
               "performance", "consensus", "confirm_status",
               "debug/bft_status", "debug/pool_hashes", "token/latestId",
               "token/list", "ledger_size"} |-> <<>>]
        @@ [name \in {"transaction", "transaction_size", "confirm",
                      "query_receipt"} |-> <<"hash">>]
        @@ [name \in {"query_nonce", "query_balance"} |-> <<"address">>]
        @@ [name \in {"new_transaction", "new_archive"} |-> <<"tx">>]
        @@ ("transactions" :> <<"height", "address">>)
        @@ ("transaction_hashes" :> <<"height">>)
        @@ ("new_account" :> <<"POSTBODY">>)
        @@ ("auto_tx" :> <<"interval_us">>) @@ ("query" :> <<"query">>)
        @@ ("query_share" :> <<"pubkey">>)
        @@ ("contract_payload" :> <<"payload", " abistr">>)
        @@ ("query_contract" :> <<"address", "data">>)
        @@ ("debug" :> <<"f">>) @@ ("token" :> <<"id">>)

\* The page of writeListOfEndpoints: first the endpoints without arguments,
\* then those with arguments, each as a link that a GET follows.
noArgNames == {name \in DOMAIN routerMap : routerMap[name] = <<>>}
argNames == DOMAIN routerMap \ noArgNames
Links == {<<"GET", name>> : name \in noArgNames \cup argNames}

\* The links of the page that no route answers.  Every endpoint of the page
\* is the path of a route, but three of them are routed for POST only.
DeadLinks == {link \in Links : \A r \in Routes : <<r[1], r[2]>> # link}

ASSUME /\ \A link \in Links : \E r \in Routes : r[2] = link[2]
       /\ DeadLinks = {<<"GET", name>> :
               name \in {"new_transactions", "new_account", "new_archive"}}

\* A handler goroutine before its request.
Idle == [pc |-> "Idle", req |-> Nil, name |-> Nil, i |-> 1, tx |-> Nil,
         hashes |-> <<>>, response |-> Nil]

\* Response: the handler answers and returns.
Response(h, code, err, data) ==
    [h EXCEPT !.pc = "Answered", !.tx = Nil,
              !.response = [code |-> code, err |-> err, data |-> data]]

\* An early return: the condition under which it is taken, and its answer.
Check(fails, code, err) == [fails |-> fails, code |-> code, err |-> err]

\* tx.SetVerified(VerifiedFormat) and the handler's arrival at the send.
\* checked records whether FormatVerifier has approved this very object.
Send(h, hash, checked) ==
    [h EXCEPT !.pc = "Sending",
              !.tx = [hash |-> hash, checked |-> checked]]

\* The handler takes the first early return whose condition holds, and
\* reaches the send when none does.
Run(h, checks, hash, checked) ==
    LET first == SelectInSeq(checks, LAMBDA check : check.fails)
    IN  IF first = 0
        THEN Send(h, hash, checked)
        ELSE Response(h, checks[first].code, checks[first].err, Nil)

\* The checks of a request's text that answer StatusBadRequest.
BadText(txReq, faults) ==
    [k \in DOMAIN faults |->
        Check(txReq.fault = faults[k], StatusBadRequest, faults[k])]

ArchiveCheck == <<Check(ArchiveMode, StatusBadRequest, "archive mode")>>

BindCheck(h, empty) ==
    <<Check(~h.req.bindOk \/ empty, StatusBadRequest, "request format error")>>

SyncingCheck ==
    <<Check(~Enabled, StatusOK, "tx is disabled when syncing")>>

-----------------------------------------------------------------------------
\* NewTransaction, up to the send: the archive flag, the request's text, the
\* transaction made from the hash and parents the client names, the syncer.
NewTransaction(h, createOk) ==
    LET txReq == h.req.txs[1]
    IN  Run(h, ArchiveCheck \o BindCheck(h, FALSE)
                \o BadText(txReq, <<"parent", "from", "guarantee">>)
                \o <<Check(~createOk, StatusInternalServerError, "new tx failed")>>
                \o SyncingCheck,
            txReq.hash, FALSE)

\* NewSequencer, up to the send: as NewTransaction, without the archive flag.
NewSequencer(h, createOk) ==
    LET txReq == h.req.txs[1]
    IN  Run(h, BindCheck(h, FALSE)
                \o BadText(txReq, <<"parent", "from", "treasure">>)
                \o <<Check(~createOk, StatusInternalServerError, "new tx failed")>>
                \o SyncingCheck,
            txReq.hash, FALSE)

\* NewTransactions, from NewTxWithSeal to the send.  When the first attempt
\* fails, the verifier is asked about what that attempt returned and the
\* transaction of the second attempt is sent as it comes.
Seal(sealed, sigOk, srcOk, againOk) ==
    [checks |-> <<Check(~sigOk, StatusInternalServerError, "signature invalid"),
                  Check(~srcOk, StatusInternalServerError,
                        "source address invalid"),
                  Check(~sealed /\ ~againOk, StatusInternalServerError,
                        "new tx failed")>>,
     checked |-> sealed]

\* NewTransactions, one iteration of its loop up to the send, preceded in
\* the first iteration by the checks of the request.
NewTransactions(h, sealed, sigOk, srcOk, againOk) ==
    LET empty  == Len(h.req.txs) = 0
        txReq  == IF empty THEN [hash |-> Nil, fault |-> "none"]
                  ELSE h.req.txs[h.i]
        sealing == Seal(sealed, sigOk, srcOk, againOk)
    IN  Run(h, (IF h.i = 1 THEN ArchiveCheck \o BindCheck(h, empty) ELSE <<>>)
                \o BadText(txReq, <<"from", "guarantee", "signature", "pubkey">>)
                \o <<Check(txReq.fault = "crypto", StatusOK,
                           "crypto algorithm mismatch")>>
                \o SyncingCheck \o sealing.checks,
            txReq.hash, sealing.checked)

\* writeListOfEndpoints: the page of the links, whatever the node's state.
writeListOfEndpoints(h) == Response(h, StatusOK, Nil, Links)

\* The handler from where it stands to its next send or to its response.
Handle(h, createOk, sigOk, srcOk, againOk) ==
    CASE h.name = "NewTransaction"  -> NewTransaction(h, createOk)
      [] h.name = "NewSequencer"    -> NewSequencer(h, createOk)
      [] h.name = "NewTransactions" ->
            NewTransactions(h, createOk, sigOk, srcOk, againOk)
      [] h.name = "writeListOfEndpoints" -> writeListOfEndpoints(h)
      [] OTHER -> Response(h, StatusNotFound, "no route", Nil)

\* A plausible slip: the hash of the sent transaction replaces the list.
SentForgetful(h) ==
    LET hashes == <<h.tx.hash>>
    IN  IF h.name = "NewTransactions" /\ h.i < Len(h.req.txs)
        THEN [h EXCEPT !.pc = "Checking", !.i = @ + 1, !.tx = Nil,
                       !.hashes = hashes]
        ELSE Response([h EXCEPT !.hashes = hashes], StatusOK, Nil, hashes)

\* A plausible slip: the loop goes on once more after the last transaction.
SentOnceMore(h) ==
    LET hashes == Append(h.hashes, h.tx.hash)
    IN  IF h.name = "NewTransactions" /\ h.i <= Len(h.req.txs)
        THEN [h EXCEPT !.pc = "Checking", !.i = @ + 1, !.tx = Nil,
                       !.hashes = hashes]
        ELSE Response([h EXCEPT !.hashes = hashes], StatusOK, Nil, hashes)

\* The handler after its send has completed: NewTransactions appends the
\* hash and goes on with the next transaction of the request; after the
\* last one, and in the other handlers, the hashes are the answer.
Sent(h) ==
    LET hashes == Append(h.hashes, h.tx.hash)
    IN  IF h.name = "NewTransactions" /\ h.i < Len(h.req.txs)
        THEN [h EXCEPT !.pc = "Checking", !.i = @ + 1, !.tx = Nil,
                       !.hashes = hashes]
        ELSE Response([h EXCEPT !.hashes = hashes], StatusOK, Nil, hashes)

-----------------------------------------------------------------------------
RpcInit ==
    /\ ArchiveMode \in ArchiveModes
    /\ Enabled \in BOOLEAN
    /\ handler = [c \in Clients |-> Idle]
    /\ ReceivedNewTxChan = <<>>
    /\ switches = 0

\* The router hands a request to the handler of its route, which runs to
\* its first send or to its response; a request without a route is answered
\* by the router.  Requests for the handlers of other files are left out.
Serve(c, req) ==
    LET route == <<req.method, req.path>>
        name  == IF route \in DOMAIN addRouter THEN addRouter[route] ELSE Nil
    IN  /\ handler[c].pc = "Idle"
        /\ \A r \in Routes : <<r[1], r[2]>> = route => r[3] \in Handlers
        /\ \E createOk \in CreateOutcomes, sigOk, srcOk \in VerifyOutcomes,
              againOk \in CreateOutcomes :
                handler' = [handler EXCEPT ![c] =
                    Handle([Idle EXCEPT !.req = req, !.name = name],
                           createOk, sigOk, srcOk, againOk)]
        /\ UNCHANGED <<ArchiveMode, Enabled, ReceivedNewTxChan, switches>>

\* NewTransactions goes on with the next transaction of its request.
Continue(c) ==
    /\ handler[c].pc = "Checking"
    /\ \E createOk \in CreateOutcomes, sigOk, srcOk \in VerifyOutcomes,
          againOk \in CreateOutcomes :
            handler' = [handler EXCEPT ![c] =
                Handle(@, createOk, sigOk, srcOk, againOk)]
    /\ UNCHANGED <<ArchiveMode, Enabled, ReceivedNewTxChan, switches>>

\* r.TxBuffer.ReceivedNewTxChan <- tx: the buffer's loop receives what the
\* handler sends, and the handler goes on.
Deliver(c) ==
    /\ handler[c].pc = "Sending"
    /\ ReceivedNewTxChan' =
            Append(ReceivedNewTxChan,
                   [from |-> c, via |-> handler[c].name,
                    hash |-> handler[c].tx.hash,
                    checked |-> handler[c].tx.checked])
    /\ handler' = [handler EXCEPT ![c] = Sent(@)]
    /\ UNCHANGED <<ArchiveMode, Enabled, switches>>

\* The syncer switches the acceptance of transactions on or off.
SwitchSyncer ==
    /\ switches < MaxSwitches
    /\ Enabled' = ~Enabled
    /\ switches' = switches + 1
    /\ UNCHANGED <<ArchiveMode, handler, ReceivedNewTxChan>>
=============================================================================
