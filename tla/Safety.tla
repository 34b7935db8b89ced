------------------------------- MODULE Safety -------------------------------
(***************************************************************************)
(* The voting rules of one replica: the lock (preferredRound), the         *)
(* highest round voted in (lastVotedRound), and the construction of a      *)
(* vote with its commit decision.                                          *)
(***************************************************************************)
EXTENDS HotStuffData

InitSafety == [preferredRound |-> 0, lastVotedRound |-> 0]

\* The lock rises to the round of the parent of the certified block.
UpdatePreferredRound(safety, qc) ==
    [safety EXCEPT !.preferredRound = Max({@, qc.voteData.parentRound})]

\* The three-chain rule: a vote for a block of round r whose parent has
\* round r-1 and whose grandparent has round r-2 commits the grandparent.
\* The result is the id to commit, or Nil.
CommitRule(parentQC, round) ==
    IF /\ parentQC.voteData.parentRound + 1 = parentQC.voteData.round
       /\ parentQC.voteData.round + 1 = round
    THEN parentQC.voteData.parentId
    ELSE Nil

\* A plausible slip: the round voted in last may be voted in again.
MayVoteAgain(safety, round, parentQC) ==
    /\ round >= safety.lastVotedRound
    /\ round >= safety.preferredRound
    /\ round > parentQC.voteData.round

\* A replica votes at most once in a round, never below its lock, and only
\* for a block whose round is above that of the block it extends.
MayVote(safety, round, parentQC) ==
    /\ round > safety.lastVotedRound
    /\ round >= safety.preferredRound
    /\ round > parentQC.voteData.round

\* The ledger's state id of a block: Empty for a block it has not executed.
ExecStateId(executed, id) == IF id \in executed THEN StateOf(id) ELSE Empty

\* The vote for block id of the given round on top of parentQC, one level
\* deeper than parentQC's vote information; executed is the set of blocks
\* the replica's ledger has executed.
VoteFor(id, round, parentQC, executed) ==
    LET parent      == [id |-> parentQC.voteData.id,
                        round |-> parentQC.voteData.round]
        grandParent == [id |-> parentQC.voteData.parentId,
                        round |-> parentQC.voteData.parentRound]
        voteInfo    == VoteInfo(id, round, parent, grandParent,
                                ExecStateId(executed, id))
        commitId    == CommitRule(parentQC, round)
        commitState == IF commitId = Nil THEN Empty
                       ELSE ExecStateId(executed, commitId)
    IN  [voteInfo |-> voteInfo,
         ledgerCommitInfo |-> LedgerCommitInfo(commitState, voteInfo)]

\* A plausible slip: the vote is built but the round voted in is not recorded.
MakeVoteForgetful(safety, id, round, parentQC, executed) ==
    IF MayVote(safety, round, parentQC)
    THEN [vote   |-> VoteFor(id, round, parentQC, executed), safety |-> safety]
    ELSE [vote |-> Nil, safety |-> safety]

\* MakeVote: the vote, or Nil where the rules refuse one, and the rules'
\* state after the call.
MakeVote(safety, id, round, parentQC, executed) ==
    IF MayVote(safety, round, parentQC)
    THEN [vote   |-> VoteFor(id, round, parentQC, executed),
          safety |-> [safety EXCEPT !.lastVotedRound = round]]
    ELSE [vote |-> Nil, safety |-> safety]
=============================================================================
