------------------------------- MODULE MCNode -------------------------------
(***************************************************************************)
(* The Node and its RPC controller instantiated for model checking.        *)
(***************************************************************************)
EXTENDS Node

TwoClients == {"c1", "c2"}

Tx(hash, fault) == [hash |-> hash, fault |-> fault]

Req(method, path, bindOk, txs) ==
    [method |-> method, path |-> path, bindOk |-> bindOk, txs |-> txs]

\* One transaction; one that does not parse; a request of two transactions;
\* one whose second transaction has a bad public key; one without
\* transactions; a sequencer, for which there is no route; the page of
\* endpoints, and its link to new_transactions followed.
RpcRequests ==
    {Req("POST", "new_transaction", TRUE, <<Tx("h1", "none")>>),
     Req("GET", "new_transaction", FALSE, <<Tx("h1", "none")>>),
     Req("POST", "new_transactions", TRUE, <<Tx("h2", "none"), Tx("h3", "none")>>),
     Req("POST", "new_transactions", TRUE, <<Tx("h2", "none"), Tx("h3", "pubkey")>>),
     Req("POST", "new_transactions", TRUE, <<>>),
     Req("POST", "new_sequencer", TRUE, <<Tx("h4", "none")>>),
     Req("GET", "/", TRUE, <<>>),
     Req("GET", "new_transactions", TRUE, <<>>)}
=============================================================================
