------------------------------- MODULE Partner -------------------------------
(***************************************************************************)
(* The HotStuff Partner (arefactor/consensus/partner.go): the event loop   *)
(* of one replica and its handlers, composed with the replica's PaceMaker, *)
(* Safety rules, PendingBlockTree and signature collectors, for a          *)
(* committee of replicas that exchange messages over an asynchronous       *)
(* network.                                                                *)
(*                                                                         *)
(* A handler is an operator from the replica's state before the event to   *)
(* its state after it; the loop's actions apply one handler to one event.  *)
(* The network is the set of all messages correct replicas have sent: a    *)
(* message in it may be delivered any number of times, in any order, or    *)
(* never.  Byzantine members do not run the handlers; what they may send   *)
(* is a set computed from what has been sent so far.                       *)
(***************************************************************************)
EXTENDS PaceMaker, Safety, PendingBlockTree

CONSTANTS
    Byzantine,      \* the committee members that do not follow the protocol
    ByzantineKinds, \* the kinds of message they send, a subset of MsgTypes
    ByzantineTricks,\* what else they try: "ForgedQC", "MisalignedVote",
                    \* "ForgedSender"
    Outsider,       \* a sender id that is no member of the committee
    Stoppable,      \* the correct replicas whose Stop() may be called
    TimerRounds,    \* bound: the rounds in which a round timer may expire
    Proposable,     \* the payloads the ProposalGenerator may supply
    VerifyOutcomes, \* what the external ProposalVerifier may answer
    SignOutcomes    \* whether the account provider yields the signing key

Correct == Replicas \ Byzantine

ASSUME /\ Byzantine \subseteq Replicas
       /\ ByzantineKinds \subseteq MsgTypes
       /\ ByzantineTricks \subseteq
            {"ForgedQC", "MisalignedVote", "ForgedSender"}
       /\ Outsider \notin Replicas
       /\ Stoppable \subseteq Correct
       /\ Proposable \subseteq Payloads
       /\ TimerRounds \subseteq 0 .. (MaxRound - 1)
       /\ VerifyOutcomes \subseteq BOOLEAN /\ SignOutcomes \subseteq BOOLEAN

VARIABLES
    paceMaker,        \* paceMaker[n]: round, last TC and timeout collectors
    safety,           \* safety[n]: preferredRound and lastVotedRound
    pendingBlockTree, \* pendingBlockTree[n]: pending blocks, highQC, commits
    pendingQCs,       \* pendingQCs[n]: vote collectors by vote digest
    running,          \* the replicas whose event loop is running
    msgs              \* every message a correct replica has sent

vars == <<paceMaker, safety, pendingBlockTree, pendingQCs, running, msgs>>

-----------------------------------------------------------------------------
\* CommitteeProvider: leaders rotate round-robin over the member indices.
GetLeader(round) == round % N
AmILeader(me, round) == GetLeader(round) = me

\* GetPeerIndex: a committee member's index, Nil for an unknown peer id.
GetPeerIndex(peerId) == IF peerId \in Replicas THEN peerId ELSE Nil

(***************************************************************************)
(* The state of replica me as a handler sees it, with what the replica's   *)
(* collaborators answer during this event: the verifier's verdict, whether *)
(* signing succeeds, and the payload the proposal generator supplies.      *)
(* out collects the letters handed to the outbound sinks; halted records   *)
(* that the handler ended the process.                                     *)
(***************************************************************************)
Self(me, verifyOk, signOk, payload) ==
    [me |-> me, verifyOk |-> verifyOk, signOk |-> signOk, payload |-> payload,
     paceMaker |-> paceMaker[me], safety |-> safety[me],
     pendingBlockTree |-> pendingBlockTree[me],
     pendingQCs |-> pendingQCs[me],
     out |-> {}, halted |-> FALSE]

\* notifyNewOutgoingMessage: hand the letter to the subscribed sinks.
notifyNewOutgoingMessage(p, letter) == [p EXCEPT !.out = @ \cup {letter}]

\* sign: fails when the account provider has no private key.
sign(p) == p.signOk

\* A plausible slip: a new collector starts from the signers of the others.
ensureQCCollectorShared(qcs, key) ==
    IF key \in DOMAIN qcs
    THEN qcs
    ELSE qcs @@ (key :> UNION {qcs[k] : k \in DOMAIN qcs})

\* ensureQCCollector: the collector map with a collector under the key.
ensureQCCollector(qcs, key) ==
    IF key \in DOMAIN qcs THEN qcs ELSE qcs @@ (key :> NewCollector)

-----------------------------------------------------------------------------
\* ProcessNewRoundEvent: the leader of the round now current proposes a block
\* on top of its high QC, carrying its last TC, to the whole committee.
ProcessNewRoundEvent(p) ==
    IF AmILeader(p.me, p.paceMaker.currentRound) /\ sign(p)
    THEN notifyNewOutgoingMessage(p,
            ProposalMsg(Block(p.paceMaker.currentRound, p.payload,
                              p.pendingBlockTree.highQC),
                        p.paceMaker.lastTC, p.me))
    ELSE p

\* PaceMaker.AdvanceRound as the Partner experiences it: when the round
\* changes, the NewRound event is handled before the call returns.
AdvanceRoundAndNotify(p, qc, tc) ==
    LET advanced == AdvanceRound(p.paceMaker, qc, tc)
    IN  IF advanced.currentRound = p.paceMaker.currentRound
        THEN p
        ELSE ProcessNewRoundEvent([p EXCEPT !.paceMaker = advanced])

\* A plausible slip: the execution state of the QC is not asked for.
CommitsOnAnyQC(qc) == TRUE

\* Whether a certified block is committed when its QC is processed.
CommitsOnQC(qc) == qc.voteData.execStateId # Empty

\* ProcessCertificates: advance the round, then raise the lock and commit.
ProcessCertificates(p, qc, tc) ==
    LET advanced == AdvanceRoundAndNotify(p, qc, tc)
    IN  IF qc = Nil
        THEN advanced
        ELSE [advanced EXCEPT
                !.safety = UpdatePreferredRound(@, qc),
                !.pendingBlockTree =
                    IF CommitsOnQC(qc) THEN Commit(@, qc.voteData.id) ELSE @]

\* Plausible slips: the round comparison, or the leader comparison, left out.
ProposalOfAnyRound(p, msg) == TRUE
ProposalFromAnyone(p, msg) == TRUE

\* The proposal is for the round the replica is in.
ProposalIsCurrent(p, msg) == msg.proposal.round = p.paceMaker.currentRound

\* The proposal comes from the leader of the round the replica is in.
ProposalFromLeader(p, msg) == msg.sender = GetLeader(p.paceMaker.currentRound)

\* A plausible slip: the vote goes to the leader of the round voted in.
VoteAggregatorOfTheRound(currentRound) == GetLeader(currentRound)

\* The vote of a round is sent to the leader of the next round.
VoteAggregator(currentRound) == GetLeader(currentRound + 1)

\* ProcessProposalMessage: certificates first; then, for a verified proposal
\* of the current round's leader, execute it and vote, and send the vote to
\* the leader of the next round.
ProcessProposalMessage(p, msg) ==
    LET certified == ProcessCertificates(p, msg.proposal.parentQC, msg.tc)
        block     == msg.proposal
        executed  == [certified EXCEPT
                         !.pendingBlockTree = ExecuteProposal(@, block)]
        made      == MakeVote(executed.safety, block.id, block.round,
                              block.parentQC,
                              Executed(executed.pendingBlockTree))
        voted     == [executed EXCEPT !.safety = made.safety]
        voteAggregator == VoteAggregator(certified.paceMaker.currentRound)
    IN  IF ~ /\ ProposalIsCurrent(certified, msg)
             /\ ProposalFromLeader(certified, msg)
             /\ p.verifyOk
        THEN certified
        ELSE IF made.vote = Nil \/ ~sign(p)
        THEN voted
        ELSE notifyNewOutgoingMessage(voted,
                VoteMsg(made.vote.voteInfo, made.vote.ledgerCommitInfo,
                        Nil, Nil, p.me, voteAggregator))

\* The key of the collector a vote is counted in.
VoteIndex(vote) == Hash(CommitInfoHashContent(vote.ledgerCommitInfo))

\* A plausible slip: the result of the peer lookup is not looked at.
UnknownPeerIgnored(fromId) == FALSE

\* The sender of a vote has no index in the committee.
UnknownPeer(fromId) == GetPeerIndex(fromId) = Nil

\* ProcessVote: count the vote under its digest; on a quorum build the QC
\* from this vote's VoteInfo, record it as high QC and advance the round.
\* A vote of an unknown peer ends the process.
ProcessVote(p, vote, fromId) ==
    LET voteIndex == VoteIndex(vote)
        counted   == [ensureQCCollector(p.pendingQCs, voteIndex)
                         EXCEPT ![voteIndex] = Collect(@, GetPeerIndex(fromId))]
        collected == [p EXCEPT !.pendingQCs = counted]
        qc        == QC(vote.voteInfo)
    IN  IF UnknownPeer(fromId)
        THEN [p EXCEPT !.halted = TRUE]
        ELSE IF Collected(counted[voteIndex])
        THEN AdvanceRoundAndNotify(
                [collected EXCEPT !.pendingBlockTree = EnsureHighQC(@, qc)],
                qc, Nil)
        ELSE collected

\* ProcessVoteMessage: certificates first, then the vote.
ProcessVoteMessage(p, msg) ==
    ProcessVote(ProcessCertificates(p, msg.qc, msg.tc), msg, msg.sender)

\* PaceMaker.ProcessRemoteTimeoutMessage: count the timeout for its round;
\* on a quorum keep the TC and advance the round.
ProcessRemoteTimeoutMessage(p, msg) ==
    LET counted == CollectTimeout(p.paceMaker, msg.round, msg.sender)
        tc      == TimeoutCertificate(counted, msg.round)
    IN  IF StaleTimeout(p.paceMaker, msg.round)
        THEN p
        ELSE IF tc = Nil
        THEN [p EXCEPT !.paceMaker = counted]
        ELSE AdvanceRoundAndNotify(
                [p EXCEPT !.paceMaker = [counted EXCEPT !.lastTC = tc]],
                Nil, tc)

\* PaceMaker.LocalTimeoutRound: announce the timeout of the current round to
\* the committee and count it locally.
LocalTimeoutRound(p) ==
    LET msg == TimeoutMsg(p.paceMaker.currentRound, p.pendingBlockTree.highQC,
                          p.paceMaker.lastTC, p.me)
    IN  ProcessRemoteTimeoutMessage(notifyNewOutgoingMessage(p, msg), msg)

\* handleIncomingMessage: dispatch on the kind; an unsupported kind panics.
handleIncomingMessage(p, msg) ==
    CASE msg.type = "Proposal" -> ProcessProposalMessage(p, msg)
      [] msg.type = "Vote"     -> ProcessVoteMessage(p, msg)
      [] msg.type = "Timeout"  -> ProcessRemoteTimeoutMessage(p, msg)
      [] OTHER                 -> [p EXCEPT !.halted = TRUE]
-----------------------------------------------------------------------------
(***************************************************************************)
(* What Byzantine members may send.  They see every message and sign       *)
(* anything with their own keys.  handleIncomingMessage checks neither the *)
(* sender nor a signature (the TODOs in it), so the code itself would take *)
(* any certificate and any sender's name from them.  With ByzantineTricks  *)
(* empty the environment is the one the protocol is designed for, as if    *)
(* those checks were made: a certificate they present is backed by the     *)
(* votes or timeouts correct replicas have sent, completed by their own,   *)
(* and they speak under their own name or a stranger's.  Each trick gives  *)
(* back one thing the code does not prevent.  Their votes carry no         *)
(* certificates: ProcessVoteMessage does with a vote's certificates what   *)
(* ProcessProposalMessage does with a proposal's, and they reach the       *)
(* replicas in the proposals of the runs that have Byzantine proposals.    *)
(***************************************************************************)
Sent(kind) == {m \in msgs : m.type = kind}

\* The members that support a VoteInfo: the correct ones that voted for it,
\* and every Byzantine one.
Supporters(voteInfo) ==
    {m.sender : m \in {v \in Sent("Vote") : v.voteInfo = voteInfo}}
        \cup Byzantine

Certified(voteInfo) == Cardinality(Supporters(voteInfo)) >= Threshold

TimedOut(round) ==
    {m.sender : m \in {t \in Sent("Timeout") : t.round = round}} \cup Byzantine

\* The QCs they present: of certified VoteInfos and, with the trick
\* "ForgedQC", of any VoteInfo some correct replica voted for, under a joint
\* signature that would not verify.
ByzantineQCs ==
    {GenesisQC} \cup
    {QC(v.voteInfo) :
        v \in {m \in Sent("Vote") :
                 "ForgedQC" \in ByzantineTricks \/ Certified(m.voteInfo)}}

ByzantineTCs ==
    {TC(r) : r \in {t \in TimerRounds : Cardinality(TimedOut(t)) >= Threshold}}

\* Proposals for any round, from any certified parent of a lower round.
ByzantineProposals(b) ==
    {ProposalMsg(Block(r, pl, qc), tc, b) :
        r \in 1 .. MaxRound, pl \in Payloads,
        qc \in ByzantineQCs, tc \in ByzantineTCs \cup {Nil}}

\* The VoteInfo of a block like the one voted for, with another payload.
Sibling(voteInfo, payload) ==
    [voteInfo EXCEPT !.id = BlockId(voteInfo.round, payload, voteInfo.parentId)]

\* The names a Byzantine member votes under: its own, a stranger's and,
\* with the trick "ForgedSender", any member's (SenderMemberId is a field of
\* the message that nothing compares with a signature).
VoteSenders(b) ==
    {b, Outsider} \cup
        (IF "ForgedSender" \in ByzantineTricks THEN Replicas ELSE {})

\* Votes that repeat what a correct replica voted, under another name, sent
\* where the correct replica sent its vote (anywhere else a Byzantine vote
\* stays short of a quorum for ever).  With the trick "MisalignedVote", also
\* votes whose LedgerCommitInfo is that of a correct vote and whose VoteInfo
\* is that of another block.
ByzantineVotes(b) ==
    {VoteMsg(v.voteInfo, v.ledgerCommitInfo, Nil, Nil, s, v.to) :
        v \in Sent("Vote"), s \in VoteSenders(b)}
    \cup {VoteMsg(Sibling(v.voteInfo, pl), v.ledgerCommitInfo, Nil, Nil, b, v.to) :
            v \in {m \in Sent("Vote") : "MisalignedVote" \in ByzantineTricks},
            pl \in Payloads}

ByzantineTimeouts(b) ==
    {TimeoutMsg(r, GenesisQC, Nil, b) : r \in TimerRounds}

ByzantineMessages ==
    UNION {
        {m \in ByzantineProposals(b) :
            m.proposal.round > m.proposal.parentQC.voteData.round}
        \cup ByzantineVotes(b) \cup ByzantineTimeouts(b)
        \cup {[type |-> "String", sender |-> b]} : b \in Byzantine}

\* What the transport may deliver to replica n: multicast proposals and
\* timeouts, the votes addressed to it, and anything of a Byzantine member.
Inbox(n) ==
    {m \in msgs : m.type = "Vote" => m.to = n}
    \cup {m \in ByzantineMessages :
            /\ m.type \in ByzantineKinds
            /\ m.type = "Vote" => m.to = n}

-----------------------------------------------------------------------------
Init ==
    /\ paceMaker = [n \in Correct |-> InitPaceMaker]
    /\ safety = [n \in Correct |-> InitSafety]
    /\ pendingBlockTree = [n \in Correct |-> InitTree]
    /\ pendingQCs = [n \in Correct |-> <<>>]
    /\ running = Correct
    /\ msgs = {}

\* The loop of replica n takes the state a handler leaves.  MaxRound bounds
\* the rounds: an event that would take the replica beyond it is not taken.
Apply(n, p) ==
    /\ p.paceMaker.currentRound <= MaxRound
    /\ paceMaker' = [paceMaker EXCEPT ![n] = p.paceMaker]
    /\ safety' = [safety EXCEPT ![n] = p.safety]
    /\ pendingBlockTree' = [pendingBlockTree EXCEPT ![n] = p.pendingBlockTree]
    /\ pendingQCs' = [pendingQCs EXCEPT ![n] = p.pendingQCs]
    /\ running' = IF p.halted THEN running \ {n} ELSE running
    /\ msgs' = msgs \cup p.out

\* Start's loop, case msg := <-myNewIncomingMessageEventChan.
Receive(n) ==
    /\ n \in running
    /\ \E msg \in Inbox(n), verifyOk \in VerifyOutcomes,
          signOk \in SignOutcomes, payload \in Proposable :
            Apply(n, handleIncomingMessage(
                        Self(n, verifyOk, signOk, payload), msg))

\* Start's loop, case <-paceMaker.timer.C.
Timeout(n) ==
    /\ n \in running
    /\ paceMaker[n].currentRound \in TimerRounds
    /\ \E signOk \in SignOutcomes, payload \in Proposable :
            Apply(n, LocalTimeoutRound(Self(n, TRUE, signOk, payload)))

\* Stop, and the loop's case <-quit: the loop returns.
Stop(n) ==
    /\ n \in running \cap Stoppable
    /\ running' = running \ {n}
    /\ UNCHANGED <<paceMaker, safety, pendingBlockTree, pendingQCs, msgs>>

Next == \E n \in Correct : Receive(n) \/ Timeout(n) \/ Stop(n)

Spec == Init /\ [][Next]_vars

\* The select of Start takes a case that stays ready: a message that waits
\* in the channel is handled and an expired timer is served, at every
\* replica whose loop runs.
Fairness == \A n \in Correct : WF_vars(Receive(n)) /\ WF_vars(Timeout(n))

FairSpec == Spec /\ Fairness
-----------------------------------------------------------------------------
IsMessage(m) ==
    /\ m.sender \in Correct
    /\ CASE m.type = "Proposal" ->
              IsBlock(m.proposal) /\ (m.tc = Nil \/ IsTC(m.tc))
         [] m.type = "Vote" ->
              /\ IsVoteInfo(m.voteInfo)
              /\ IsStateId(m.ledgerCommitInfo.commitStateId)
              /\ m.qc = Nil /\ m.tc = Nil /\ m.to \in Replicas
         [] m.type = "Timeout" ->
              /\ m.round \in Rounds /\ IsQC(m.highQC)
              /\ (m.tc = Nil \/ IsTC(m.tc))
         [] OTHER -> FALSE

TypeOK ==
    /\ running \subseteq Correct
    /\ \A m \in msgs : IsMessage(m)
    /\ \A n \in Correct :
        /\ paceMaker[n].currentRound \in Rounds
        /\ paceMaker[n].lastTC = Nil \/ IsTC(paceMaker[n].lastTC)
        /\ \A r \in Rounds : paceMaker[n].timeouts[r] \subseteq Replicas
        /\ {safety[n].preferredRound, safety[n].lastVotedRound} \subseteq Rounds
        /\ IsQC(pendingBlockTree[n].highQC)
        /\ \A b \in Executed(pendingBlockTree[n]) : IsBlockId(b)
        /\ \A k \in DOMAIN pendingQCs[n] : pendingQCs[n][k] \subseteq Replicas

-----------------------------------------------------------------------------
\* The QCs correct replicas hold or have announced.
HeldQCs ==
    {pendingBlockTree[n].highQC : n \in Correct}
        \cup {m.proposal.parentQC : m \in Sent("Proposal")}

\* At most one block of a round is ever certified, whatever a Byzantine
\* leader proposes and to whom: ProcessProposalMessage lets a correct replica
\* vote once in a round, so two quorums of one round cannot both fill.
OneCertifiedBlockPerRound ==
    \A v, w \in Sent("Vote") :
        /\ v.voteInfo.round = w.voteInfo.round
        /\ Certified(v.voteInfo) /\ Certified(w.voteInfo)
        => v.voteInfo.id = w.voteInfo.id

\* A QC that ProcessVote builds, and every QC a correct leader puts into a
\* proposal, certifies a VoteInfo that a quorum voted for: the votes counted
\* in one collector of pendingQCs are votes for the same VoteInfo.
HeldQCsAreBacked ==
    \A qc \in HeldQCs : qc = GenesisQC \/ Certified(qc.voteData)

\* ProcessProposalMessage votes only for what the leader of the round
\* proposed: a correct replica's vote for a round with a correct leader is a
\* vote for the block that leader announced.
VotesAreForTheLeadersBlock ==
    \A v \in Sent("Vote") :
        GetLeader(v.voteInfo.round) \in Correct =>
            \E m \in Sent("Proposal") :
                /\ m.sender = GetLeader(v.voteInfo.round)
                /\ m.proposal.id = v.voteInfo.id

\* ProcessProposalMessage treats a proposal of another round than the
\* current one as stale, also when the round has just moved because of the
\* certificates the proposal carries: every vote a step sends is a vote for
\* the round the voter is in after the step.
VotesAreForTheCurrentRound ==
    [][\A v \in msgs' \ msgs :
          v.type = "Vote" =>
              v.voteInfo.round = paceMaker'[v.sender].currentRound]_vars

\* AdvanceRound takes a replica into round r+1 only when a certificate of
\* round r exists: a QC of a quorum of votes, a TC of a quorum of distinct
\* replicas' timeouts of round r however often they were delivered, or the
\* genesis QC once some proposal carries it.
RoundsAreEnteredByCertificate ==
    \A n \in Correct :
        LET r == paceMaker[n].currentRound - 1
        IN  \/ r = -1
            \/ r = 0 /\ (Byzantine # {} \/ Sent("Proposal") # {})
            \/ \E v \in Sent("Vote") :
                    v.voteInfo.round = r /\ Certified(v.voteInfo)
            \/ Cardinality(TimedOut(r)) >= Threshold

\* Agreement: the blocks correct replicas commit lie on one chain; no two
\* replicas finalize conflicting blocks while at most F members are
\* Byzantine.  ProcessCertificates is what commits.
Agreement ==
    \A n, o \in Correct :
        \A b \in Range(pendingBlockTree[n].committed),
           c \in Range(pendingBlockTree[o].committed) :
            IsPrefix(b, c) \/ IsPrefix(c, b)

\* While no round is left by a timeout, correct replicas agree, whatever a
\* Byzantine leader proposes, on whatever certified parent and to whom.  A
\* replica enters a round only over the QC of the round before, and
\* ProcessCertificates commits that QC's block before ProcessProposalMessage
\* executes the proposal.  A fork below the committed block is certified all
\* the same, but by votes without an execution state, those of the replicas
\* whose tree refused it, and ProcessCertificates commits no such QC; the
\* vote of a replica that executed the fork is counted by ProcessVote under
\* a digest of its own and completes no quorum.  The agreement run shows
\* what one timeout certificate does to this.
AgreementWithoutTimeouts == TimerRounds = {} => Agreement

-----------------------------------------------------------------------------
\* The vote record of the committee as the Partner keeps it: the Safety
\* state of each correct replica, and the votes correct replicas have sent.
Voting ==
    INSTANCE VoteRecord WITH
        Voters <- Correct,
        Blocks <- BlockIds,
        preferredRound <- [n \in Correct |-> safety[n].preferredRound],
        lastVotedRound <- [n \in Correct |-> safety[n].lastVotedRound],
        cast <- {[voter |-> m.sender, round |-> m.voteInfo.round,
                  block |-> m.voteInfo.id] : m \in Sent("Vote")}

\* The Partner implements the vote record: whatever handleIncomingMessage
\* and LocalTimeoutRound do with a message or a timer, in one event a
\* replica raises its lock or leaves it, and spends at most one vote, of a
\* round above every round it has voted in and not below its lock
\* (ProcessCertificates before MakeVote in ProcessProposalMessage).
VoteRecordIsImplemented == Voting!Spec

\* Start's loop keeps the committee moving: with the timers of the early
\* rounds served and every sent message delivered in the end, the replicas
\* that still run all reach the last round, by a TC where the leader fell
\* silent (LocalTimeoutRound, ProcessRemoteTimeoutMessage) and by a QC where
\* no timer is modelled (ProcessProposalMessage, ProcessVote), and stay there.
RunningReplicasReachTheLastRound ==
    <>[](\A n \in running : paceMaker[n].currentRound = MaxRound)
=============================================================================
