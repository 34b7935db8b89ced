------------------------- MODULE SignatureCollector -------------------------
(***************************************************************************)
(* The BLS signature collector: partial signatures on one message, keyed   *)
(* by signer index.  The collector is the set of indices that have signed; *)
(* the signature bytes and their aggregation are left out.                 *)
(***************************************************************************)
EXTENDS HotStuffData

\* The quorum: 2F+1 distinct signers.
Threshold == 2 * F + 1

NewCollector == {}

\* Recording a signer is idempotent: a second signature of the same signer
\* does not raise the count.
Collect(collector, signer) == collector \cup {signer}

\* A plausible slip: the quorum is taken for reached one signer early.
CollectedEarly(collector) == Cardinality(collector) >= Threshold - 1

\* Collected: the distinct signers have reached the quorum.
Collected(collector) == Cardinality(collector) >= Threshold
=============================================================================
