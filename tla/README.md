# TLA+ models of Annchain.OG

This directory holds TLA+ specifications of the concurrent and distributed
parts of the repository, the TLC configurations that check them, and
`PROJECT.json`, which records for every definition the source lines it
translates, for every run what it checks, and what the runs have found.

Run a configuration with `tlc -workers 2 -config <file>.cfg <MC module>`.

## 1. Inventory

### The parts of the system

| Part | Source | State | Operations | Talks to |
|---|---|---|---|---|
| HotStuff Partner | `arefactor/consensus/partner.go` | the replica's pace maker, safety record, block tree, vote collectors `pendingQCs`, `quit` | `InitDefault`, `Start` (select over incoming messages, the local timer and quit), `Stop`, `ProcessProposalMessage`, `ProcessVoteMessage`/`ProcessVote`, `ProcessCertificates`, `ProcessNewRoundEvent`, `handleIncomingMessage`, `ensureQCCollector`, `sign`, `notifyNewOutgoingMessage` | the other replicas, through messages; PaceMaker, Safety, PendingBlockTree, SignatureCollector, Ledger, ProposalGenerator, ProposalVerifier, Hasher, Signer |
| HotStuff data model | `poc/hotstuff_event/model.go` | none (value types) | `Block`, `VoteInfo`, `LedgerCommitInfo`, `QC`, `TC`, the message contents, the two `GetHashContent` conversions | Partner |
| PaceMaker, Safety, PendingBlockTree, SignatureCollector | described by `spec.md`, code not in the repository's sources here | current round, last TC, timeout collectors; `lastVotedRound`, `preferredRound`; pending blocks, high QC, committed chain; signers | `AdvanceRound`, `ProcessRemoteTimeoutMessage`, `LocalTimeoutRound`; `UpdatePreferredRound`, `MakeVote`, `CommitRule`; `ExecuteProposal`, `EnsureHighQC`, `Commit`; `Collect`, `Collected` | Partner |
| SyncBuffer | `og/sync_buffer.go` | `Txs`, `Seq`, `acceptTxs`, the channels `start`, `done`, `quit`, the lock | `AddTxs`/`addTxs`, `loop`, `Handle`, `HandelOne`, `clean`, `Get`, `GetAllKeys`, `Remove`, `Count`, `Start`, `Stop` | the syncer (callers of `AddTxs`), TxBuffer (`isKnownHash`, `verifyTxFormat`), the tx pool |
| TxCounter | `performance/tx_counter.go` | six atomic counters, three channels, `quit` | `loop`, `Start`, `Stop`, `GetBenchmarks` | whoever sends on the three channels, the performance monitor |
| Sequencer | `og/types/sequencer.go` | fields of one sequencer | setters and getters, `GetWeight`, `CalculateWeight`, `Compare`, `SignatureTargets` | nothing among the sources (the SyncBuffer's sequencer is of package `types`) |
| RPC transaction controller | `rpc/tx_controller.go` | none of its own; one goroutine per request | `NewTransaction`, `NewSequencer`, `NewTransactions` | TxCreator, FormatVerifier, the syncer's `Enabled` flag, `status.ArchiveMode`, TxBuffer (channel `ReceivedNewTxChan`) |
| RPC router | `rpc/router.go` | the route table | `NewRouter`, `addRouter`, `writeListOfEndpoints` | the controller |
| Node | `node/node.go` | the three parts `og`, `p2pServer`, `rpcServer` | `NewNode`, `Start`, `Stop` | og, p2p server, rpc server |
| BLS | `dedis/kyber/v3/sign/bls/bls.go` | none; keys and signatures are held by its callers | `NewKeyPair`, `Sign`, `Verify`, `AggregateSignatures`, `AggregatePublicKeys`, `BatchVerify`, `hashToPoint`, `distinct` | the pairing suite (kyber's groups), whoever signs, aggregates and verifies |
| Standalone bootstrap | `poc/hotstuff_event/app/cmd/standalone.go` | none | builds and starts one Partner | files, libp2p |
| Generated and test code | `types/statistic_gen.go`, `consensus/annsensus_test/dummy_test.go`, `og/verifier/tx_format_verifier_test.go` | | | |

### What makes them hard, and what they must guarantee

**HotStuff.** N = 3F+1 replicas, up to F of them Byzantine, exchange
proposals, votes and timeouts over a network that may delay, reorder,
duplicate and lose messages. A replica handles one event at a time (one
goroutine, one select), so the hard behaviour is the interleaving of the
replicas and of the messages, not of threads. It must guarantee: a replica
votes at most once per round and only for the block of the round's leader; at
most one block per round gathers a quorum; a QC held by a correct replica is
backed by 2F+1 votes for exactly the block it names; a round is entered only
on a QC or TC of the round before; the chains two correct replicas commit never
conflict; with a silent leader the
replicas time out and move on.

**SyncBuffer.** Several goroutines call `AddTxs` while one goroutine handles
batches; they synchronise through an atomic flag and two unbuffered channels,
with a 100 ms poll as a fallback. It must guarantee: `AddTxs` returns; every
transaction inserted is handled before the buffer is cleaned; a transaction
reaches the pool after its parents, verified, and once; the buffer stays
within its capacity.

**TxCounter.** One goroutine counts, others read and stop. It must guarantee:
every transaction offered is counted once in the right counter; readings are
current; `Stop` stops the goroutine.

**RPC controller and Node.** Every request runs its handler in a goroutine
of its own. A handler is a succession of early returns followed by a send on
an unbuffered channel, where it waits for the TxBuffer's loop; meanwhile the
syncer switches `Enabled`, other handlers run, and the node is stopped.
`NewTransactions` does this once per transaction of its request and has two
paths to the send. It must guarantee: what a request hands to the buffer is
what it names, in order and once, and a response without an error
acknowledges all of it; a transaction marked as verified was verified; an
archive node takes no transaction; a request is accepted only while something
receives what its handler sends.

**BLS.** Holders sign, anybody aggregates what circulates, in any order and
grouping, and verifiers check aggregates against keys and messages they
arrange themselves. It must guarantee: an aggregate of signatures that were
made verifies, in a batch of distinct messages and under the aggregated key
for one message; a signature that verifies under a holder's key for a message
was made by that holder for that message.

`PROJECT.json` lists the hazards one by one, each at the source line where it
bites.

## 2. Plan

Modules, in the order they are built:

1. `HotStuffData` - values. 2. `SignatureCollector`, 3. `Safety`,
4. `PendingBlockTree`, 5. `PaceMaker` - the collaborators, as operators on
   their state. 6. `Partner` - the handlers of `partner.go` as operators on a
   replica's state, composed with a network and Byzantine members into one
   specification. 7. `SyncBuffer`. 8. `TxCounter`.
9. Liveness of the Partner: with weak fairness on the delivery of messages to
   correct replicas and on their timers, every running replica eventually
   reaches the last round.
10. `VoteRecord`, an abstract specification of the replicas' vote records
    (rounds voted in increase, a vote is not below the lock) that `Partner`
    implements under `INSTANCE ... WITH`.
11. `RpcController`: the handlers `NewTransaction`, `NewSequencer` and
    `NewTransactions` as successions of checks ending in a send to the
    TxBuffer; `Node`: the start and stop order around them.
12. `BLS`: the signature package over a symbolic group, with the holders
    and an aggregating environment. 13. The full route table and the page of
    endpoints in `RpcController`.
14. SyncBuffer: what the flag of `HandelOne` does ensure (the last parent
    first), with the batches of two sequencers, and progress of the callers
    that wait, under fairness of the loop and of the timer. `Start` of the
    SyncBuffer and of the TxCounter as actions.
    *(1 to 14 are done.)*

Left for later: the SyncBuffer properties that no inserted transaction is
cleaned unhandled and that a batch adds the same transactions in every order
of the map, which the code does not satisfy (findings at sync_buffer.go:93
and 195), as runs of their own; progress of the Partner with failing
signatures, on an instance TLC can check under fairness; an adversary of the
BLS package that registers keys of its choice.

The Partner composes its collaborators by `EXTENDS`: each collaborator module
defines operators from state to state, and `Partner` applies them inside one
atomic handler, as the code calls them inside one iteration of its select.
SyncBuffer and TxCounter share no state with the consensus and are
specifications of their own. `Node` extends `RpcController`: the actions of
the controller are guarded by the state of the node's parts.

## 3. The modules and the code

### HotStuff (`HotStuffData`, `SignatureCollector`, `Safety`, `PendingBlockTree`, `PaceMaker`, `Partner`, `MCPartner`)

*Data.* A block id is the digest of round, payload and parent id; it is
modelled as the chain of `<<round, payload>>` pairs from genesis, so that equal
ids mean equal content and ancestry is the prefix order. A digest is
`[digest |-> content]`. `GetHashContent` of `VoteInfo` and `LedgerCommitInfo`
are the tuples of the fields they format. A certificate is what it certifies
(`QC(voteInfo)`, `TC(round)`); who may hold one is decided by the environment
(below), since the code never inspects the signatures.

*State.* `paceMaker`, `safety`, `pendingBlockTree` and `pendingQCs` are
functions from correct replicas to the records of the corresponding Go fields;
`running` is the set of replicas whose loop has not ended; `msgs` is the set of
messages correct replicas have sent.

*Handlers.* Each handler of `partner.go` is an operator with the same name on
a context record `p` (the replica's four components, its outbox `out`, the
flag `halted`, and the outcome of this event's calls to the verifier, the
signer and the proposal generator). `handleIncomingMessage` dispatches on the
message kind as the code's switch does; an unsupported kind and a vote of an
unknown sender end the replica (`panic`, `Fatal`). The calls a handler makes
are part of it: `ProcessProposalMessage` includes `ProcessCertificates`,
`AdvanceRound`, the NewRound event with the proposal it may send, the
execution of the block, `MakeVote`, `sign` and the send of the vote. `sign`
has one outcome per event: no event reaches both of its call sites, since a
replica that proposes on entering a round (partner.go:255) votes in the same
event only for a proposal of that round's leader, which is the proposal it
is about to send (partner.go:167).

*Actions.* The three cases of `Start`'s select: `Receive(n)` (a message of
`Inbox(n)` is handled), `Timeout(n)` (the local timer fires) and `Stop(n)`.
A message that fails to decode changes nothing and is a stuttering step.

*Network.* `msgs` only grows and a message can be received any number of
times, in any order, or never: duplication, reordering and loss.

*Byzantine members.* Their messages are not stored: `ByzantineMessages` is
the set of everything a Byzantine member can send in the current state -
proposals of any payload on any certified parent, echoes of correct votes
under their own name or an outsider's, timeouts, and messages of an
unsupported kind. Their votes carry no certificates: `ProcessVoteMessage`
does with them what `ProcessProposalMessage` does with a proposal's. A Byzantine member can present a QC when the correct votes
in `msgs` plus the Byzantine members reach the quorum (`Certified`), a TC
likewise. `ByzantineKinds` selects the kinds per configuration and
`ByzantineTricks` adds what the passing runs leave out: `"ForgedQC"` (a QC
nobody voted for), `"MisalignedVote"` (a vote whose `VoteInfo` and
`LedgerCommitInfo` disagree) and `"ForgedSender"` (a vote under another
member's name); section 4 says what each breaks.

*Modelled from the specification.* PaceMaker, Safety, PendingBlockTree and
SignatureCollector are described in `spec.md` and their code is not among the
sources; `PROJECT.json` marks their definitions `spec_modelled`. Assumptions
taken from the specification's text: timeouts of a past round are dropped and
the collectors of past rounds retired; the NewRound event is handled inside
the call that advances the round; honest votes carry no certificate.

*The vote record (`VoteRecord`).* The abstract specification keeps, for each
correct replica, the lock `preferredRound`, `lastVotedRound`, and the set
`cast` of the votes sent. One step is one event at one replica: the lock
rises or stays, and the replica abstains, or spends its vote of a round
above `lastVotedRound` and not below the lock, casting it or not (the
signature may fail). `Partner` instantiates it as `Voting`, with the two
rounds read from `safety[n]` and `cast` from the vote messages in `msgs`;
`VoteRecordIsImplemented` is `Voting!Spec`. That a replica never casts two
votes in a round follows from the abstract specification alone.

### RPC controller and Node (`RpcController`, `Node`, `MCNode`)

*Requests.* A request is its method and path, whether its body binds, and a
sequence of transactions, each a hash and the first check its text fails
(`fault`). What TxCreator and FormatVerifier answer is chosen at each step
from `CreateOutcomes` and `VerifyOutcomes`.

*Handlers.* A handler is the sequence of its early returns, in the code's
order, each a condition with the status and error it answers; `Run` takes the
first whose condition holds and otherwise arrives at the send.
`NewTransaction` and `NewSequencer` differ in the archive check, which only
the former has, and in the field they parse. `NewTransactions` runs the
request's checks once and the transaction's checks in every iteration; `Seal`
is its two paths from `NewTxWithSeal` to the send. `handler[c].tx.checked`
records whether the object that is sent is the object FormatVerifier
approved.

*Steps.* A handler runs from one blocking point to the next: `Serve` (the
router dispatches and the handler runs to its first send or its response),
`Deliver` (the TxBuffer's loop receives; the handler appends the hash and
answers, or goes on), `Continue` (the next iteration of `NewTransactions`).
The flags a handler reads are read in the step that uses them.
`SwitchSyncer` is the syncer turning `Enabled` on or off between any two
steps.

*Routes.* `Routes` is the table of `addRouter`, one `<<method, path,
handler>>` for each of its 46 calls, and `addRouter` is the lookup by method
and path that the router makes in it (`Dispatch`), for the handlers of this
module. A request without a route is answered 404; `NewSequencer` has no
route. Requests whose route leads to a handler of another file are not
served in the model (the guard of `Serve`).

*The page of endpoints.* `writeListOfEndpoints` builds its page from
`routerMap`, a second table of names and argument lists, split into the names
without and with arguments; each becomes a link, which is followed with GET.
The page is modelled by the set of its links (`Links`); the HTML and the
sorting are left out. `DeadLinks` is the set of links no route answers, and
an assumption of the module states which they are.

*Node.* `part[x]` is `Nil` (the node has no such server), `"new"`,
`"running"` or `"stopped"`; `call` is the call `Start` or `Stop` has come
to. `Start` and `Stop` take one step per call, in `StartOrder` and
`StopOrder`, and `Stop` is called once `Start` has returned (the caller is
not among the sources). Two more assumptions about code that is not among
the sources are stated in the module: the RPC server dispatches requests between its `Start`
and its `Stop`, and a handler that has begun runs on after it; the
TxBuffer's loop receives while og runs.

### BLS (`BLS`, `MCBLS`)

*Points.* The groups have prime order `Order` and a pairing. A point is
modelled by its logarithm to the base of its group, written as a linear form
in the private keys: a function from `Scalars` (the holders and `One`) to
`0 .. Order - 1`, where the coefficient at holder `i` multiplies the unknown
private key of `i` and the coefficient at `One` is a known number. `Add`
adds forms, `Mul` multiplies by a number, `MulByKey` multiplies a key-free
point by a private key, and `Pair` multiplies two forms of which one is
key-free, which is the case in every call the package makes. Two points are
equal when their forms are: an equation between points holds in the model
exactly when it holds for all private keys, which is what can be computed
without knowing them. These operators stand for kyber's groups, which are
not among the sources, and follow the equations of the package's comments.

*The package.* Each function is an operator with the function's name and its
returns in the code's order: `BatchVerify` answers "messages must be
distinct" before it unmarshals, unmarshals before it loops, and panics where
the loop would (a key missing, no message at all); `AggregateSignatures`
answers the error of a signature that does not unmarshal. `hashToPoint(m)`
is `Digest[m]` times the base, as in the code. `distinct` compares digests,
which are injective on the messages of the model.

*The environment.* `keys` holds the public keys made, `signed` the pairs of
holder and message `Sign` was called for, `wire` the signatures in
circulation. `KeyGen`, `SignMessage` and `Aggregate` call the package;
`Aggregate` takes any sequence of up to `MaxBatch` circulating signatures,
aggregates included; `Forge` publishes a multiple of the base, a point whose
logarithm its maker knows, which is what somebody without a private key can
make; `Damage` puts bytes into circulation that do not unmarshal (`Bad`).
`Init`, `Publish`, `Forge` and `Damage` are the callers and the network the
package is written for, and are not mapped to source lines.

### SyncBuffer (`SyncBuffer`, `MCSyncBuffer`)

A transaction is its hash; `Parents`, `Sequencers` and `WellFormed` are the
constant facts `HandelOne` reads. `caller[c].pc` follows `AddTxs` line by
line: `Load` (line 58), `Add` (`addTxs`, lines 59, 65, 70), `SendStart`
(lines 60, 66, 71), `Wait` (the select of line 63). `loop` follows `loop()`:
`New` (before `Start`), `Select`, `Accept` (start received), `GetAllKeys`,
`Handle`, `Clean`, `Release`, `SendDone`, and `Quit` or `Panic` at its end;
`Batch` is the disjunction of its steps between the two channel operations.
A send and a receive
on an unbuffered channel are one step (`StartHandshake`, `DoneHandshake`,
`QuitHandshake`), enabled only when both sides stand at it. `Poll` is the
timer case of the waiting branch. `HandelOne` and its loop over the parents
are recursive operators that return the buffer, the pool and the Go return
value; the iteration order over the map is a nondeterministic choice.
`unkownAfter` is the value of the flag after the recursion into a parent.
`Then(Op, v)` is `Op(v)`: it is there for TLC, which evaluates a definition
of a `LET` anew each time it is read, and so would repeat every recursive
call once per reading of its result.
`pool` records the calls of `txPool.AddRemoteTx` in order, and a transaction
handed to the pool counts as known thereafter.

### TxCounter (`TxCounter`, `MCTxCounter`)

A transaction is its type. `Start` takes the loop from `New` to its select.
The four select cases are `NewTxReceived`,
`NewTxGenerated`, `BatchConfirmed` followed by one `ConfirmOne` per element,
and `Quit`. `GetBenchmarks` is a reader that loads one counter per step.
`taken` and `atCall` are history variables used by the properties only.

## 4. The runs

| Run | Configuration | Result | Distinct states |
|---|---|---|---|
| `startup` | `PartnerStartup.cfg` | holds | 72,692 |
| `equivocation` | `PartnerEquivocation.cfg` | holds | 192,432 |
| `chain` | `PartnerChain.cfg` | holds | 43,375 |
| `liveness` | `PartnerLiveness.cfg` | holds | 329 |
| `agreement` | `PartnerAgreement.cfg` | `Agreement` violated | |
| `sync_buffer` | `SyncBuffer.cfg` | holds | 25,786 |
| `sync_buffer_blocked` | `SyncBufferBlocked.cfg` | `NoCallerBlockedForever` violated | |
| `tx_counter` | `TxCounter.cfg` | holds | 133,502 |
| `node` | `Node.cfg` | holds | 105,808 |
| `node_unverified` | `NodeUnverified.cfg` | `SubmittedWereVerified` violated | |
| `bls` | `BLS.cfg` | holds | 31,257 |
| `bls_forgery` | `BLSForgery.cfg` | `VerifiedWereSigned` violated | |

**startup.** Four correct replicas, rounds 0 and 1, timers in round 0, a
verifier and a signer that may fail, replica 3 may stop.
`RoundsAreEnteredByCertificate`: a replica is in round r+1 only if a QC or a
TC of round r can exist, however often a timeout was delivered (the
pacemaker's subscriber list holds every subscriber twice, partner.go:315).
`VoteRecordIsImplemented`, as in the chain run, here
with signatures that fail: a vote is then spent without being cast, the
branch of the abstract specification the chain run does not take.

**equivocation.** Replica 2 is Byzantine and leads round 2; two payloads.
`OneCertifiedBlockPerRound`: no two blocks of a round are both certified.
`VotesAreForTheLeadersBlock`: a correct vote is for a block its round's
leader proposed. `TypeOK`.

**chain.** Three rounds with a Byzantine proposer and no timer.
`HeldQCsAreBacked`: every QC a correct replica built or stores has a quorum
of votes for its block. `AgreementWithoutTimeouts`: the committed chains of
the correct replicas are prefixes of one another. The run is not an easy
one for it: the Byzantine leader of round 2 proposes on genesis beside the
certified block of round 1, correct replicas vote for the fork (the outcome
of `ExecuteProposal` is not looked at, partner.go:157) and the fork is
certified. It is committed nowhere, because the replicas whose tree refused
it vote without an execution state and `ProcessCertificates` commits no QC
without one (partner.go:235), and because the one replica that can have
executed it votes under a digest of its own (partner.go:207). Dropping the
test of line 235 breaks the property within 3,000 states.
`VotesAreForTheCurrentRound` (an action
property): a vote sent in a step is for the round its sender is then in.
`VoteRecordIsImplemented`: every step of the Partner is a step of
`VoteRecord` or leaves the vote record as it is, whatever the Byzantine
proposer sends and however often a proposal is delivered.

**liveness.** Replicas 0, 1 and 2 are correct and member 3 is silent; rounds
0 to 2, the timer may expire in round 0. Under `FairSpec`,
`RunningReplicasReachTheLastRound`: from some point on every running replica
is in round 2. Nobody proposes in round 0, so the committee has to gather a
TC from three timeouts, each sent twice; the leader of round 1 proposes on
entering it; the three votes have to reach the leader of round 2, which
builds the QC and proposes, and the proposal takes the others to round 2.
Without the timer nothing happens at all: the committee starts in round 0
(partner.go:65) and `Start` raises no NewRound event, so the first proposal
waits for the first TC.

**agreement.** The property every BFT protocol is for, that the committed
chains of two correct replicas are prefixes of one another, does not hold of
this code: `ProcessCertificates` (partner.go:235) commits a block as soon as a
QC for it is seen, where the specification commits under the three-chain
rule. TLC finds replica 0 committing the block of round 1 and replica 1
committing a block of round 2 built on genesis after a TC of round 1, with one
Byzantine member and valid certificates only.

*What the passing runs assume of a Byzantine member.* `handleIncomingMessage`
verifies neither the sender nor a signature (TODOs at partner.go:288-289),
so the code is weaker than the environment of the passing runs, in which a
certificate is backed by votes, a vote's two parts agree and a member speaks
under its own name. `ByzantineTricks` gives back what the code does not
prevent, one trick at a time, and the properties then fail:

| Trick | What the code lets through | Violated | Configuration |
|---|---|---|---|
| `"ForgedQC"` | a QC nobody voted for, applied before any check (partner.go:131) | `AgreementWithoutTimeouts` | `PartnerChain.cfg` |
| `"MisalignedVote"` | a vote whose `VoteInfo` is of another block than its `LedgerCommitInfo` (partner.go:218) | `HeldQCsAreBacked` | see below |
| `"ForgedSender"` | a vote under the `SenderMemberId` of a correct member (partner.go:197) | `HeldQCsAreBacked` | see below |

The two vote tricks need a correct vote aggregator: `Byzantine = {3}`,
`ByzantineKinds = {"Vote"}`, `MaxRound = 2`, `TimerRounds = {0}`,
`Payloads = {p1, p2}`. Each violation is found within 1,000 states. They are
recorded as findings in `PROJECT.json` and are not runs of their own; the
passing runs say what the protocol logic of the Partner keeps once the two
TODOs are done.

A vote of an unknown sender and a message of an unsupported kind end the
replica that receives them (partner.go:204, 302). The specification wants
both fatal, so this is no finding; it does mean that one member stops the
committee. The equivocation run has such messages and checks its invariants
on the replicas that are left.

**sync_buffer.** Two callers, three calls, the batches of two sequencers that
overlap, contain a nil entry or come without a sequencer, `MaxBufferSiza = 2`.
`BufferWithinBound`: never more than `MaxBufferSiza + 1` entries (the test
precedes the insertion). `AddedOnce`: no transaction is handed to the pool
twice. `LastParentFirst`: a transaction or a sequencer is handed to the pool
only after the last of its parents; this holds in every order of the map,
when a caller inserts while `Handle` runs, and when `Handle` reads the
sequencer of a later batch (`t`, whose transaction `d` never reaches the
pool, is then not added either). `WaitingCallersGetOn`, under fairness
(section 6): a caller in the waiting branch reaches `addTxs`, unless the loop
panics on a nil sequencer. `TypeOK`. The run does not check deadlock because
the component does stop (next run).

**sync_buffer_blocked.** `AddTxs` never returns once the loop stands at
`s.done <- true` and the caller at `s.start <- true`; this is the state after
any call that follows a handled batch.

*Parents.* The comment of `HandelOne` has a transaction added when its
parents are known. The flag `unkown` remembers the last parent only: `c`,
with parents `a` (invalid) and `b` (valid), is handed to the pool, while
`d`, with the same parents in the other order, is not. `LastParentFirst` is
the part of the comment the code keeps; the rest is recorded as a finding.

*Order.* What a batch adds depends on the order of the map. One call with
the batch `a, b, c, d`, of which `a, b, c` fit, and the sequencer `s` ends with the pool `b, c, s` when
`c` is handled before `a` (the recursion removes `a` and adds `b`), and with
the pool `b` when the iteration reaches `a` first: `c` then finds `a`
neither known nor buffered and is dropped, and `s` after it. Recorded as a
finding.

**tx_counter.** `EveryTxIsCounted`: each counter equals the number of
transactions of its channel and type the loop has taken. `BenchmarksAreRecent`:
each value of a reading lies between the counter at the call and the counter
now. `TypeOK`, which includes that the loop is at its select only with no
batch left.

*Stop.* After `Stop` the loop still counts: the `break` of the quit case
leaves the select only, so `Quit` changes nothing and the run takes messages
after `Stop`. Recorded as a finding; `EveryTxIsCounted` holds of the
messages taken after `Stop` as well.

**node.** Two clients, each with one of eight requests (a transaction by POST
and by GET with a body that does not bind, a batch of two, a batch whose
second transaction has a bad public key, an empty batch, a sequencer, the
page of endpoints, and the page's link to `new_transactions`, which is
answered 404), both
values of every setting and outcome, the syncer switching twice, the node
started and stopped. `AcknowledgedAreSubmitted`: what the TxBuffer has
received from a handler is a prefix of what its request names, and a response
without an error lists all of it, all of it received. (The converse does not
hold, and is not claimed: a batch that fails at its second transaction is
answered with an error after the first was submitted.)
`NothingSubmittedInArchiveMode`: the buffer of an archive node stays empty;
`NewSequencer` does not ask for the flag, and the property holds because no
route leads to it. `RpcServesOnlyWhileOgRuns`: the RPC server runs only
while og does. `TypeOK`, which includes that the loop index of
`NewTransactions` stays within the request. Deadlock is not checked: a
stopped node with answered requests is where the system ends.

**node_unverified.** `SubmittedWereVerified`: what `NewTransactions` marks
`VerifiedFormat` and submits has passed `VerifySignature` and
`VerifySourceAddress`. It fails on the retry path: when the first
`NewTxWithSeal` fails, the verifier is asked about what that call returned
and the transaction made by the second call is submitted as it comes
(tx_controller.go:324-352).

**bls.** Two holders, two messages, group order 5. `AggregatesVerify`: for
every sequence of up to two signatures that were made, their aggregate is
accepted by `BatchVerify` against the keys and messages in that order when
the messages differ, and by `Verify` against `AggregatePublicKeys` of the
keys when the message is one. `ForgeryNeedsASignature`: nothing in
circulation, however aggregated from signatures and from points of an
outsider's choice, is accepted by `Verify` or `BatchVerify` under the key
of a holder that has signed nothing. `TypeOK`, which includes
that every point stays reduced modulo the order.

**bls_forgery.** `VerifiedWereSigned`: what `Verify` accepts for a message
under a holder's key was made by `Sign` for that message. It fails after
three steps: holder `v` makes its key and signs `m1`, and
`AggregateSignatures` of that signature with itself is accepted for `m2`.
`hashToPoint` multiplies the base by the hash, so the point of `m2` is a
known multiple of the point of `m1` (here twice), and so are the signatures.
With a hash-to-point mapping whose logarithm nobody knows, as the comment at
bls.go:112 asks for, the forms of two messages would be independent and the
property would hold.

Every property of a passing run is paired in `PROJECT.json` with a mutation of
the definition it depends on (a votes-once record that forgets, a quorum one
short, a missing leader check, ...), under which TLC finds it violated.

## 5. Bounds, and why they are enough

| Bound | Value | Why |
|---|---|---|
| `Replicas` | 0..3 | the smallest committee that tolerates a fault (F = 1) |
| `MaxRound` | 1 to 3 | a replica does not handle events beyond it; 3 rounds give a chain of two certified blocks and a commit after a timeout, which is what the agreement counterexample needs |
| `TimerRounds` | per run | the rounds in which timers may fire; keeps timeouts to the rounds a run is about |
| `Payloads`, `Proposable` | 1 or 2 | two payloads let a Byzantine leader equivocate; correct leaders propose `Proposable` |
| `Byzantine` | `{}` or `{2}` | F = 1; replica 2 leads round 2 |
| `Callers`, `MaxCalls` | 2, 3 | one call being handled, one arriving during it and one after it cover the three branches of `AddTxs` |
| `Hashes`, `Batches` | 6, 3 | two transactions with the same two parents in either order, one parent invalid, tell the last parent from the others; two sequencers let `Handle` read the one of another batch; a batch of four does not fit |
| `MaxBufferSiza` | 2 | a batch of four reaches and tests the capacity |
| `MaxEvents`, `MaxStops` | 3, 2 | one message per channel; a second `Stop` |
| `Clients`, `Requests` | 2, 8 | two handlers interleave at the channel; the requests reach every handler, both paths of the router and a batch that fails after its first send |
| `Holders`, `Msgs` | 2, 2 | two signers make an aggregate of different keys; two messages make a batch of distinct messages and leave a message that was not signed |
| `Order`, `Digest` | 5; 1 and 2 | a prime, as the order of the groups is; large enough that the digests, their sums and their multiples below the order differ, so an equation that holds does not hold by the size of the field |
| `MaxBatch` | 2 | aggregates of two; aggregates of aggregates give the larger sums |
| `MaxWire` | 6 | the four signatures of two holders on two messages, and two aggregates, chosen points or damaged ones beside them |
| `MaxSwitches` | 2 | the syncer is switched off and on again between two steps of a handler |

The liveness run is small on purpose. TLC checks a temporal property on the
whole behaviour graph and evaluates the fairness conditions in every state;
for this specification that costs about a tenth of a second per state. One
silent member keeps the committee at the quorum exactly (every correct
timeout and vote is needed), two rounds contain each way of entering a round
(by TC and by QC), and the timer is confined to round 0, the one round nobody
proposes in. With a timer in every round, or with failing signatures, the
graph has 16,000 to 69,000 states, which is beyond what this check completes
in minutes.

No symmetry is used: the leader of a round is `round % N`, so replicas are not
interchangeable, and the SyncBuffer's transactions form a fixed graph.

An event that would take a replica beyond `MaxRound` is not taken (the guard
of `Apply`), so the vote that would complete a QC of the last round is never
handled; the properties are about the rounds below the bound and the
configurations are chosen one round larger than the behaviour they are about.

## 6. Fairness

The safety runs of the Partner, the Node, the TxCounter and the BLS package
assume none. The liveness run checks `FairSpec` of `Partner`, which adds to
`Spec`, for every correct replica `n`, `WF_vars(Receive(n))` and
`WF_vars(Timeout(n))`.

- `Receive(n)`: `Start` is a loop around one select (partner.go:88-110); a
  message that waits in the replica's channel keeps its case ready, and Go's
  select takes a ready case. Weak fairness is enough because a message, once
  sent, stays in `msgs`: `Receive(n)` stays enabled until the replica has
  handled what there is to handle.
- `Timeout(n)`: the timer's case (partner.go:102-104) stays ready once the
  timer has expired, until it is served or the round is left.
- No fairness is assumed of `Stop`, of the Byzantine members, or of any
  particular message: weak fairness of `Receive(n)` promises that the replica
  goes on handling messages, not which one; the property holds because
  handling a message twice changes nothing and the messages that matter stay
  deliverable. That the transport delivers what was sent is an assumption
  about the network the code runs on.

The `sync_buffer` run checks `FairSpec` of `SyncBuffer`, which adds
`WF_vars(Batch)` and, for every caller `c`, `WF_vars(Poll(c))`.

- `Batch`: between `<-s.start` and `s.done <- true` the loop runs straight
  code (sync_buffer.go:90-94) that waits for nothing but the lock, which no
  holder keeps across a blocking operation; `txPool.AddRemoteTx`, which is
  not among the sources, is taken to return.
- `Poll(c)`: the waiting branch of `AddTxs` makes a new 100 ms timer in every
  round of its `for` (sync_buffer.go:68), so the timer case keeps coming;
  the step is enabled only while `acceptTxs` is 0.
- Nothing is assumed of the three channels, of `Stop` or of new calls: that
  the loop's send on `done` is received is what `NoCallerBlockedForever`
  refutes. The invariants of the run do not depend on the fairness.
- Weak fairness of `Poll(c)` does not keep a caller from being overtaken:
  the step is disabled again whenever another caller's batch starts. With
  the calls bounded by `MaxCalls` that ends; `WaitingCallersGetOn` says
  nothing of a caller that is overtaken by new callers for ever.

## 7. What is not modelled

- The elliptic curves under the BLS package: a point is its logarithm
  (section 3), which keeps the equations between points and leaves out their
  encoding and the hardness of the logarithm. In the HotStuff modules a joint
  signature is the set of its signers.
- An adversary of the BLS package that registers keys of its choice (a key
  made from another member's key gives its owner the aggregated key): the
  public keys of the `bls` runs are made by `NewKeyPair`. Listed as a hazard.
- `String()` renderings, logging, JSON and msgp encodings
  (`types/statistic_gen.go` is generated encoder code).
- The HTML and the sorting of `writeListOfEndpoints`, the logging and
  recovery middleware of `NewRouter`, and the handlers of the routes that are
  not among the sources (queries, token offerings, debugging).
- The wiring of `standalone.go` (files, keys, libp2p), and the tests.
- The parts the Node starts (og, the p2p server, the RPC server) and the
  TxBuffer are not among the sources; each is abstracted to whether it runs.
- The Sequencer of `og/types/sequencer.go`: its setters and getters are
  field assignments, `CalculateWeight` is one maximum and one addition, and
  no component among the sources calls it, so there is no behaviour of
  several steps to check. The sequencer the SyncBuffer handles is of the
  package `types`, which is not among the sources: `GetType` in `SyncBuffer`
  is what its interface promises (a sequencer answers
  `TxBaseTypeSequencer`, every other transaction `TxBaseTypeNormal`).
- A second `Stop` of the Partner: `close(n.quit)` panics on the closed
  channel (partner.go:115). The replica's loop has ended by then, so the
  model has no state left to change; the panic takes the process with it.
- The error return of `Sign` when `MarshalBinary` fails (bls.go:29-32): a
  point of the suite always marshals.
- The SyncBuffer's lost-batch property (section 2), its property that all
  parents are known, that its result is independent of the map's order,
  and the TxCounter's end after `Stop`: the code does not satisfy them, the
  model has the behaviour, and the findings describe it; the runs that expect
  a violation are kept for one disagreement per component.
- Persistence and restart: the Partner keeps its state in memory only, so a
  replica that stops does not come back.
