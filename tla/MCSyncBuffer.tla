---------------------------- MODULE MCSyncBuffer ----------------------------
(***************************************************************************)
(* A small graph of transactions for checking SyncBuffer: "g" is in the    *)
(* dag; "a" and "b" are its children, "c" and "d" have both as parents,    *)
(* in either order; the sequencer "s" confirms "c" and the sequencer "t"   *)
(* confirms "d".  The format of "a" does not verify.                       *)
(***************************************************************************)
EXTENDS SyncBuffer

Dag == {"g"}
Graph == {"a", "b", "c", "d", "s", "t"}
GraphSequencers == {"s", "t"}
GraphWellFormed == Graph \ {"a"}
GraphParents ==
    [h \in Graph |-> CASE h \in {"a", "b"} -> <<"g">>
                      [] h = "c" -> <<"a", "b">>
                      [] h = "d" -> <<"b", "a">>
                      [] h = "s" -> <<"c">>
                      [] h = "t" -> <<"d">>]

\* A batch that does not fit, the batch of a second sequencer with a nil
\* entry and transactions of the first again, and a call without a
\* sequencer.
SyncBatches ==
    { [txs |-> <<"a", "b", "c", "d">>, seq |-> "s"],
      [txs |-> <<Nil, "b", "a", "d">>, seq |-> "t"],
      [txs |-> <<"b">>, seq |-> Nil] }

TwoCallers == {"c1", "c2"}
=============================================================================
