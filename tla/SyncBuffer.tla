----------------------------- MODULE SyncBuffer -----------------------------
(***************************************************************************)
(* The buffer that holds the transactions of one synchronised sequencer    *)
(* until their parents are known (og/sync_buffer.go).  A transaction is    *)
(* its hash; what the handler reads of it (parents, type, whether its      *)
(* format verifies) is constant data.  The goroutine of loop() and the     *)
(* goroutines that call AddTxs and Stop are processes with a program       *)
(* counter; the three unbuffered channels are rendezvous: a send and its   *)
(* receive are one step, enabled when both sides stand at it.              *)
(***************************************************************************)
EXTENDS Integers, Sequences, FiniteSets, Functions

CONSTANTS
    Hashes,         \* the transactions and sequencers there are
    Parents,        \* Parents[h]: the parent hashes of h, in order
    Sequencers,     \* the hashes whose GetType() is TxBaseTypeSequencer
    WellFormed,     \* the hashes verifyTxFormat accepts
    InDag,          \* the hashes known before synchronisation starts
    Callers,        \* the goroutines that call AddTxs
    Batches,        \* the (txs, seq) arguments AddTxs is called with
    MaxBufferSiza,  \* the capacity constant (4096 * 4 in the code)
    MaxCalls,       \* bound: AddTxs is called at most this often
    MayStop,        \* whether some goroutine calls Stop
    Nil             \* a nil transaction or a nil *Sequencer

ASSUME /\ Parents \in [Hashes -> Seq(Hashes \cup InDag)]
       /\ Sequencers \subseteq Hashes /\ WellFormed \subseteq Hashes
       /\ \A b \in Batches : /\ b.txs \in Seq(Hashes \cup {Nil})
                             /\ b.seq \in Sequencers \cup {Nil}
       /\ MaxBufferSiza \in Nat /\ MaxCalls \in Nat /\ MayStop \in BOOLEAN

VARIABLES
    Txs,        \* s.Txs: the hashes buffered
    sSeq,       \* s.Seq (Seq is taken by the Sequences module)
    acceptTxs,  \* s.acceptTxs: 1 while the loop handles a batch
    loop,       \* where the goroutine of loop() stands
    txHashs,    \* Handle's snapshot of the keys, those not yet handled
    caller,     \* per caller of AddTxs: where it stands and its arguments
    stopper,    \* where the goroutine that calls Stop stands
    pool,       \* the calls of txPool.AddRemoteTx, in order
    calls       \* the number of AddTxs calls made

vars == <<Txs, sSeq, acceptTxs, loop, txHashs, caller, stopper, pool, calls>>

Idle == [pc |-> "Idle", txs |-> <<>>, seq |-> Nil]

GetType(h) == IF h \in Sequencers THEN "Sequencer" ELSE "Normal"

-----------------------------------------------------------------------------
(***************************************************************************)
(* Handle and HandelOne, as functions of the buffer b = [Txs, pool].       *)
(***************************************************************************)
\* TxBuffer.isKnownHash: "already in the dag or tx_pool".
isKnownHashInDag(b, hash) == hash \in InDag
isKnownHash(b, hash) == hash \in InDag \cup Range(b.pool)

Remove(b, hash) == [b EXCEPT !.Txs = @ \ {hash}]

Get(b, hash) == IF hash \in b.Txs THEN hash ELSE Nil

\* verifyTxFormat, then Remove and txPool.AddRemoteTx.
VerifyAndAdd(b, tx) ==
    IF tx \in WellFormed
    THEN [Remove(b, tx) EXCEPT !.pool = Append(@, tx), !.added = TRUE]
    ELSE [Remove(b, tx) EXCEPT !.added = FALSE]

\* A plausible slip: the flag is cleared whatever the recursion reports.
unkownCleared(added) == FALSE

\* The flag after the recursion into a buffered parent: set before the
\* call, cleared when the call reports the parent as added.
unkownAfter(added) == ~added

\* Then(Op, v) is Op(v), with v evaluated once: HandelOne reads the result
\* of the calls it makes several times, and TLC would make the call anew
\* for each reading.
Then(Op(_), v) == CHOOSE result \in {Op(x) : x \in {v}} : TRUE

RECURSIVE HandelOne(_, _, _, _), HandleParents(_, _, _, _)

\* The loop over tx.Parents().  The result carries the flag "unkown" and
\* whether a parent was neither known nor buffered.  The flag is set by
\* every parent that is not known and cleared by every parent the recursion
\* added, so its final value is that of the last parent that was not known.
HandleParents(b, seq, parents, unkown) ==
    IF parents = <<>> \/ b.panic
    THEN [b |-> b, unkown |-> unkown, missing |-> FALSE]
    ELSE LET pHash == Head(parents)
             Rest(r) ==
                 HandleParents(r, seq, Tail(parents), unkownAfter(r.added))
         IN  CASE isKnownHash(b, pHash) ->
                    HandleParents(b, seq, Tail(parents), unkown)
               [] Get(b, pHash) = Nil ->
                    [b |-> b, unkown |-> TRUE, missing |-> TRUE]
               [] OTHER ->
                    Then(Rest, HandelOne(b, seq, pHash, GetType(pHash)))

\* HandelOne: the result is the buffer with "added" set to the first return
\* value.  A sequencer-typed call handles s.Seq whatever hash was asked for,
\* and GetTxHash() on a nil *Sequencer is a nil dereference.
HandelOne(b, seq, hash, txType) ==
    LET tx == IF txType = "Sequencer" THEN seq ELSE Get(b, hash)
        AfterParents(p) ==
            CASE p.b.panic -> p.b
              [] p.missing -> [Remove(p.b, tx) EXCEPT !.added = FALSE]
              [] p.unkown -> [p.b EXCEPT !.added = FALSE]
              [] OTHER -> VerifyAndAdd(p.b, tx)
    IN  CASE txType = "Sequencer" /\ seq = Nil ->
                [b EXCEPT !.panic = TRUE, !.added = FALSE]
          [] tx = Nil -> [b EXCEPT !.added = FALSE]
          [] isKnownHash(b, tx) -> [Remove(b, tx) EXCEPT !.added = TRUE]
          [] OTHER ->
                Then(AfterParents, HandleParents(b, seq, Parents[tx], FALSE))

\* The buffer the loop's steps work on.
Buffer == [Txs |-> Txs, pool |-> pool, added |-> FALSE, panic |-> FALSE]

-----------------------------------------------------------------------------
(***************************************************************************)
(* addTxs, under s.mu: a nil sequencer is refused before anything changes; *)
(* otherwise s.Seq is replaced and the transactions are inserted one by   *)
(* one until the map holds more than MaxBufferSiza entries.                *)
(***************************************************************************)
RECURSIVE Insert(_, _), InsertNilToo(_, _)
InsertUnbounded(txs, new) ==
    txs \cup (Range(new) \ {Nil})
InsertNilToo(txs, new) ==
    CASE new = <<>> -> txs
      [] Cardinality(txs) > MaxBufferSiza -> txs
      [] OTHER -> InsertNilToo(txs \cup {Head(new)}, Tail(new))
Insert(txs, new) ==
    CASE new = <<>> -> txs
      [] Cardinality(txs) > MaxBufferSiza -> txs
      [] Head(new) = Nil -> Insert(txs, Tail(new))
      [] OTHER -> Insert(txs \cup {Head(new)}, Tail(new))

addTxs(c) ==
    IF caller[c].seq = Nil
    THEN UNCHANGED <<Txs, sSeq>>
    ELSE /\ sSeq' = caller[c].seq
         /\ Txs' = Insert(Txs, caller[c].txs)

-----------------------------------------------------------------------------
Init ==
    /\ Txs = {} /\ sSeq = Nil /\ acceptTxs = 0
    /\ loop = "New" /\ txHashs = {}
    /\ caller = [c \in Callers |-> Idle]
    /\ stopper = "Idle"
    /\ pool = <<>> /\ calls = 0

\* Start: go s.loop().
Start ==
    /\ loop = "New"
    /\ loop' = "Select"
    /\ UNCHANGED <<Txs, sSeq, acceptTxs, txHashs, caller, stopper, pool, calls>>

\* A goroutine calls AddTxs(txs, seq).
Call(c) ==
    /\ caller[c].pc = "Idle" /\ calls < MaxCalls
    /\ \E b \in Batches :
          caller' = [caller EXCEPT ![c] = [pc |-> "Load", txs |-> b.txs,
                                           seq |-> b.seq]]
    /\ calls' = calls + 1
    /\ UNCHANGED <<Txs, sSeq, acceptTxs, loop, txHashs, stopper, pool>>

\* AddTxs reads acceptTxs and takes the direct branch or starts to wait.
LoadAcceptTxs(c) ==
    /\ caller[c].pc = "Load"
    /\ caller' = [caller EXCEPT
                    ![c].pc = IF acceptTxs = 0 THEN "Add" ELSE "Wait"]
    /\ UNCHANGED <<Txs, sSeq, acceptTxs, loop, txHashs, stopper, pool, calls>>

\* The timer of the waiting branch fires and acceptTxs reads 0.  (When it
\* reads 1 the caller goes round the loop and nothing changes.)
Poll(c) ==
    /\ caller[c].pc = "Wait" /\ acceptTxs = 0
    /\ caller' = [caller EXCEPT ![c].pc = "Add"]
    /\ UNCHANGED <<Txs, sSeq, acceptTxs, loop, txHashs, stopper, pool, calls>>

\* s.addTxs(txs, seq) of any of the three branches; its error is ignored.
Add(c) ==
    /\ caller[c].pc = "Add"
    /\ addTxs(c)
    /\ caller' = [caller EXCEPT ![c].pc = "SendStart"]
    /\ UNCHANGED <<acceptTxs, loop, txHashs, stopper, pool, calls>>

\* s.start <- true meets <-s.start: AddTxs returns, the loop has a batch.
StartHandshake(c) ==
    /\ caller[c].pc = "SendStart" /\ loop = "Select"
    /\ caller' = [caller EXCEPT ![c] = Idle]
    /\ loop' = "Accept"
    /\ UNCHANGED <<Txs, sSeq, acceptTxs, txHashs, stopper, pool, calls>>

\* s.done <- true meets <-s.done of a waiting caller.
DoneHandshake(c) ==
    /\ loop = "SendDone" /\ caller[c].pc = "Wait"
    /\ loop' = "Select"
    /\ caller' = [caller EXCEPT ![c].pc = "Add"]
    /\ UNCHANGED <<Txs, sSeq, acceptTxs, txHashs, stopper, pool, calls>>

\* atomic.StoreUint32(&s.acceptTxs, 1)
StoreAccepting ==
    /\ loop = "Accept"
    /\ acceptTxs' = 1 /\ loop' = "GetAllKeys"
    /\ UNCHANGED <<Txs, sSeq, txHashs, caller, stopper, pool, calls>>

\* Handle: txHashs := s.GetAllKeys()
GetAllKeys ==
    /\ loop = "GetAllKeys"
    /\ txHashs' = Txs /\ loop' = "Handle"
    /\ UNCHANGED <<Txs, sSeq, acceptTxs, caller, stopper, pool, calls>>

\* The loop applies the result of a HandelOne call; a panic ends the loop.
Handled(r, next) ==
    /\ Txs' = r.Txs /\ pool' = r.pool
    /\ loop' = IF r.panic THEN "Panic" ELSE next

\* Handle: one iteration over the snapshot, in the map's arbitrary order.
HandleTx ==
    /\ loop = "Handle"
    /\ \E txHash \in txHashs :
          /\ Handled(HandelOne(Buffer, sSeq, txHash, "Normal"), "Handle")
          /\ txHashs' = txHashs \ {txHash}
    /\ UNCHANGED <<sSeq, acceptTxs, caller, stopper, calls>>

\* Handle: s.HandelOne(s.Seq.GetTxHash(), TxBaseTypeSequencer)
HandleSeq ==
    /\ loop = "Handle" /\ txHashs = {}
    /\ Handled(HandelOne(Buffer, sSeq, sSeq, "Sequencer"), "Clean")
    /\ UNCHANGED <<sSeq, acceptTxs, txHashs, caller, stopper, calls>>

\* s.clean(): whatever the buffer holds is deleted.
Clean ==
    /\ loop = "Clean"
    /\ Txs' = {} /\ loop' = "Release"
    /\ UNCHANGED <<sSeq, acceptTxs, txHashs, caller, stopper, pool, calls>>

\* A plausible slip: the loop goes on to its send with acceptTxs still 1.
StoreIdleSkipped ==
    /\ loop = "Release"
    /\ loop' = "SendDone"
    /\ UNCHANGED <<Txs, sSeq, acceptTxs, txHashs, caller, stopper, pool, calls>>

\* atomic.StoreUint32(&s.acceptTxs, 0); the loop then stands at s.done <- true.
StoreIdle ==
    /\ loop = "Release"
    /\ acceptTxs' = 0 /\ loop' = "SendDone"
    /\ UNCHANGED <<Txs, sSeq, txHashs, caller, stopper, pool, calls>>

\* A goroutine calls Stop and stands at s.quit <- true.
Stop ==
    /\ MayStop /\ stopper = "Idle"
    /\ stopper' = "SendQuit"
    /\ UNCHANGED <<Txs, sSeq, acceptTxs, loop, txHashs, caller, pool, calls>>

\* s.quit <- true meets <-s.quit: Stop returns and the loop ends.
QuitHandshake ==
    /\ stopper = "SendQuit" /\ loop = "Select"
    /\ stopper' = "Stopped" /\ loop' = "Quit"
    /\ UNCHANGED <<Txs, sSeq, acceptTxs, txHashs, caller, pool, calls>>

\* The steps of the loop between <-s.start and s.done <- true.
Batch ==
    \/ StoreAccepting \/ GetAllKeys \/ HandleTx \/ HandleSeq
    \/ Clean \/ StoreIdle

Next ==
    \/ \E c \in Callers :
          \/ Call(c) \/ LoadAcceptTxs(c) \/ Poll(c) \/ Add(c)
          \/ StartHandshake(c) \/ DoneHandshake(c)
    \/ Start \/ Batch
    \/ Stop \/ QuitHandshake

Spec == Init /\ [][Next]_vars

\* The goroutine of loop() keeps running between two channel operations,
\* and the 100 ms timer of a waiting caller keeps firing.  Nothing is
\* assumed of the channel operations themselves, nor of new calls.
Fairness ==
    /\ WF_vars(Batch)
    /\ \A c \in Callers : WF_vars(Poll(c))

FairSpec == Spec /\ Fairness

-----------------------------------------------------------------------------
TypeOK ==
    /\ Txs \subseteq Hashes
    /\ sSeq \in Sequencers \cup {Nil}
    /\ acceptTxs \in {0, 1}
    /\ loop \in {"New", "Select", "Accept", "GetAllKeys", "Handle", "Clean",
                 "Release", "SendDone", "Quit", "Panic"}
    /\ txHashs \subseteq Hashes
    /\ \A c \in Callers :
          /\ caller[c].pc \in {"Idle", "Load", "Wait", "Add", "SendStart"}
          /\ caller[c].txs \in {b.txs : b \in Batches} \cup {<<>>}
          /\ caller[c].seq \in Sequencers \cup {Nil}
    /\ stopper \in {"Idle", "SendQuit", "Stopped"}
    /\ pool \in Seq(Hashes)
    /\ calls \in 0 .. MaxCalls

-----------------------------------------------------------------------------
\* The buffer never holds more than MaxBufferSiza + 1 transactions: addTxs
\* tests len(s.Txs) > MaxBufferSiza before each insertion, whatever the sizes
\* of the batches and however the calls of several goroutines interleave.
BufferWithinBound == Cardinality(Txs) <= MaxBufferSiza + 1

\* txPool.AddRemoteTx is called at most once for a transaction, although
\* HandelOne reaches a parent both by recursion from its children and by
\* Handle's iteration, and although later batches bring the same
\* transactions and the same sequencer again.
AddedOnce == \A i, j \in DOMAIN pool : pool[i] = pool[j] => i = j

\* A transaction is handed to the pool only after the last of its parents:
\* when txPool.AddRemoteTx is called, the last hash of tx.Parents() is in
\* the dag or was handed to the pool before.  This is what the flag unkown
\* of HandelOne ensures, in whatever order Handle iterates the map, whichever
\* sequencer s.Seq holds when Handle reads it, and whatever the callers
\* insert meanwhile; it ensures it of no earlier parent.
LastParentFirst ==
    \A i \in DOMAIN pool :
       LET parents == Parents[pool[i]]
       IN  parents # <<>> =>
              parents[Len(parents)] \in InDag \cup {pool[j] : j \in 1 .. i - 1}

\* A caller in the waiting branch of AddTxs gets to add its transactions,
\* unless Handle panics: the loop ends every batch by storing acceptTxs = 0,
\* which the caller's next poll reads, also when the loop's send on done
\* goes to another caller and that caller's batch is handled first.
WaitingCallersGetOn ==
    \A c \in Callers :
       caller[c].pc = "Wait" ~> (caller[c].pc = "Add" \/ loop = "Panic")

\* A caller of AddTxs is never blocked for good: it does not stand at
\* s.start <- true while the loop stands at s.done <- true with no caller
\* left to receive from s.done.  (AddTxs has no return path that gives up.)
NoCallerBlockedForever ==
    ~ /\ loop = "SendDone"
      /\ \E c \in Callers : caller[c].pc = "SendStart"
      /\ \A c \in Callers : caller[c].pc # "Wait"

=============================================================================
