---------------------------- MODULE HotStuffData ----------------------------
(***************************************************************************)
(* The data model of the HotStuff engine: blocks, vote information,        *)
(* certificates and the three message contents (model.go).  Payload bytes, *)
(* signatures and the String() renderings are left out; a digest is        *)
(* represented by the content it was computed from, which is what a        *)
(* collision-free hash lets a replica tell apart.                          *)
(***************************************************************************)
EXTENDS Integers, Sequences, FiniteSets, SequencesExt

CONSTANTS
    Replicas,   \* committee member indices, 0 .. N-1
    Payloads,   \* proposed transaction batches
    MaxRound,   \* bound: no replica enters a round beyond this one
    Nil,        \* a nil *QC / *TC pointer, or "no vote"
    Empty       \* the empty string of ExecStateId and CommitStateId

N == Cardinality(Replicas)
\* The number of Byzantine members the committee tolerates.
F == (N - 1) \div 3

ASSUME /\ Replicas = 0 .. (N - 1)
       /\ N >= 1
       /\ MaxRound \in Nat
       /\ Payloads # {}

Rounds == 0 .. MaxRound

\* MsgType and its String(): the kinds a wire message can announce.  "String"
\* is a kind the consensus dispatcher does not support.
MsgTypes == {"Proposal", "Vote", "Timeout", "String"}

-----------------------------------------------------------------------------
(***************************************************************************)
(* Block.Id is the digest of (round, payload, parentQC.id).  The digest    *)
(* of a block is modelled as the chain of <<round, payload>> pairs from    *)
(* genesis to the block: two blocks have the same id iff they agree on     *)
(* round, payload and parent, and ancestry is the prefix order on ids.     *)
(***************************************************************************)
GenesisId == <<>>

BlockId(round, payload, parentId) == Append(parentId, <<round, payload>>)

RoundOf(id) == IF id = GenesisId THEN 0 ELSE Last(id)[1]

\* The ledger's name for the state reached by executing the chain up to id.
StateOf(id) == <<"state", id>>

\* VoteInfo: the three-ancestor chain a vote attests to.
VoteInfo(id, round, parent, grandParent, execStateId) ==
    [id |-> id, round |-> round,
     parentId |-> parent.id, parentRound |-> parent.round,
     grandParentId |-> grandParent.id, grandParentRound |-> grandParent.round,
     execStateId |-> execStateId]

\* VoteInfo.GetHashContent: the seven fields, in order.
VoteInfoHashContent(i) ==
    <<i.id, i.round, i.parentId, i.parentRound,
      i.grandParentId, i.grandParentRound, i.execStateId>>

\* LedgerCommitInfo.GetHashContent: the commit state and the vote-info hash.
CommitInfoHashContent(l) == <<l.commitStateId, l.voteInfoHash>>

\* The Hasher collaborator: collision-free, so a digest stands for its input.
Hash(content) == [digest |-> content]

LedgerCommitInfo(commitStateId, voteInfo) ==
    [commitStateId |-> commitStateId,
     voteInfoHash  |-> Hash(VoteInfoHashContent(voteInfo))]

\* QC and TC.  The joint signature is never inspected by the Partner and is
\* left out: a certificate is what it certifies.
QC(voteInfo) == [voteData |-> voteInfo]
TC(round) == [round |-> round]

GenesisQC ==
    LET g == [id |-> GenesisId, round |-> 0]
    IN  QC(VoteInfo(GenesisId, 0, g, g, StateOf(GenesisId)))

\* Block: round, payload, the QC of the parent, and the digest of the three.
Block(round, payload, parentQC) ==
    [round |-> round, payload |-> payload, parentQC |-> parentQC,
     id |-> BlockId(round, payload, parentQC.voteData.id)]

-----------------------------------------------------------------------------
\* The three message contents, wrapped with the envelope's kind and sender.
\* Proposals and timeouts are multicast to the committee, votes are unicast.
ProposalMsg(block, tc, sender) ==
    [type |-> "Proposal", proposal |-> block, tc |-> tc, sender |-> sender]

VoteMsg(voteInfo, ledgerCommitInfo, qc, tc, sender, to) ==
    [type |-> "Vote", voteInfo |-> voteInfo,
     ledgerCommitInfo |-> ledgerCommitInfo, qc |-> qc, tc |-> tc,
     sender |-> sender, to |-> to]

TimeoutMsg(round, highQC, tc, sender) ==
    [type |-> "Timeout", round |-> round, highQC |-> highQC, tc |-> tc,
     sender |-> sender]

-----------------------------------------------------------------------------
\* Shapes, for the type invariant.
RECURSIVE IsBlockId(_)
IsBlockId(id) ==
    \/ id = GenesisId
    \/ /\ Len(id) \in 1 .. MaxRound
       /\ Last(id) \in (1 .. MaxRound) \X Payloads
       /\ IsBlockId(Front(id))
       /\ RoundOf(Front(id)) < RoundOf(id)

\* Every block id of the bounded rounds and payloads.
BlockIds ==
    {id \in UNION {[1 .. k -> (1 .. MaxRound) \X Payloads] : k \in 0 .. MaxRound} :
        IsBlockId(id)}

IsStateId(s) == s = Empty \/ (s[1] = "state" /\ IsBlockId(s[2]))

IsVoteInfo(i) ==
    /\ DOMAIN i = {"id", "round", "parentId", "parentRound",
                   "grandParentId", "grandParentRound", "execStateId"}
    /\ IsBlockId(i.id) /\ IsBlockId(i.parentId) /\ IsBlockId(i.grandParentId)
    /\ {i.round, i.parentRound, i.grandParentRound} \subseteq Rounds
    /\ IsStateId(i.execStateId)

IsQC(qc) == DOMAIN qc = {"voteData"} /\ IsVoteInfo(qc.voteData)
IsTC(tc) == DOMAIN tc = {"round"} /\ tc.round \in Rounds

IsBlock(b) ==
    /\ DOMAIN b = {"round", "payload", "parentQC", "id"}
    /\ b.round \in 1 .. MaxRound /\ b.payload \in Payloads
    /\ IsQC(b.parentQC) /\ IsBlockId(b.id)
=============================================================================
