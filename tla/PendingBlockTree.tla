-------------------------- MODULE PendingBlockTree --------------------------
(***************************************************************************)
(* The tree of executed but uncommitted blocks of one replica, the highest *)
(* QC it has recorded, and the sequence of blocks it has committed.        *)
(***************************************************************************)
EXTENDS HotStuffData

InitTree == [pending |-> {}, highQC |-> GenesisQC, committed |-> <<>>]

\* The last committed block: the root the pending blocks hang from.
Anchor(tree) ==
    IF tree.committed = <<>> THEN GenesisId ELSE Last(tree.committed)

\* The blocks the replica has executed: genesis, the committed and the pending.
Executed(tree) == tree.pending \cup Range(tree.committed) \cup {GenesisId}

\* A proposal is executed and inserted under its parent; a proposal whose
\* parent is neither pending nor the anchor is left out.
ExecuteProposal(tree, block) ==
    IF block.parentQC.voteData.id \in tree.pending \cup {Anchor(tree)}
    THEN [tree EXCEPT !.pending = @ \cup {block.id}]
    ELSE tree

\* The high QC is replaced only by a QC of a strictly greater round.
EnsureHighQC(tree, qc) ==
    IF qc.voteData.round > tree.highQC.voteData.round
    THEN [tree EXCEPT !.highQC = qc]
    ELSE tree

\* Commit(id): finalize the pending ancestors of id and id itself in round
\* order, make id the anchor, and prune every pending block that does not
\* descend from it.  An unknown or already committed id changes nothing.
Commit(tree, id) ==
    IF id \notin tree.pending
    THEN tree
    ELSE LET path == {b \in tree.pending : IsPrefix(b, id)}
             byRound == SetToSortSeq(path, LAMBDA a, b : Len(a) < Len(b))
         IN  [tree EXCEPT
                 !.committed = @ \o byRound,
                 !.pending = {b \in @ : IsStrictPrefix(id, b)}]
=============================================================================
