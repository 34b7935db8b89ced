------------------------------ MODULE TxCounter ------------------------------
(***************************************************************************)
(* The performance counters of a node (performance/tx_counter.go): one     *)
(* goroutine takes transactions from three unbuffered channels and counts  *)
(* them by channel and type; GetBenchmarks reads the six counters one      *)
(* atomic load after another; Stop closes the quit channel.  A transaction *)
(* is its type.  Senders on the channels are the environment: a send and   *)
(* its receive are one step, enabled while the loop stands at its select.  *)
(***************************************************************************)
EXTENDS Integers, Sequences, FiniteSets, Functions

CONSTANTS
    TxTypes,        \* the values of tx.GetType(); "Sequencer" is one of them
    ConfirmBatches, \* the batches sent on BatchConfirmedChan
    MaxEvents,      \* bound: the loop takes at most this many messages
    MaxStops        \* bound: Stop is called at most this often

ASSUME /\ "Sequencer" \in TxTypes
       /\ ConfirmBatches \subseteq Seq(TxTypes)
       /\ MaxEvents \in Nat /\ MaxStops \in Nat

\* The counters, in the order GetBenchmarks loads them.
Counters == <<"txGenerated", "txReceived", "txConfirmed",
              "sequencerGenerated", "sequencerReceived", "sequencerConfirmed">>

VARIABLES
    count,      \* the six atomic counters
    loop,       \* "New", "Select", "Range" (in a confirmed batch) or "Panic"
    batch,      \* the rest of the batch the loop is ranging over
    quit,       \* "open" or "closed"
    reader,     \* GetBenchmarks: the values loaded so far, in order
    atCall,     \* history: the counters when GetBenchmarks was called
    taken,      \* history: the messages the loop took, as <<channel, type>>
    stops       \* the number of Stop calls made

vars == <<count, loop, batch, quit, reader, atCall, taken, stops>>

\* The switch on tx.GetType(): sequencers have their own counter, every
\* other type is counted as a transaction.
CounterOfNormalOnly(kind, tx) ==
    IF tx = "Normal" THEN "tx" \o kind ELSE "sequencer" \o kind
CounterOf(kind, tx) ==
    IF tx = "Sequencer" THEN "sequencer" \o kind ELSE "tx" \o kind

Inc(name) == [count EXCEPT ![name] = @ + 1]

Init ==
    /\ count = [c \in Range(Counters) |-> 0]
    /\ loop = "New" /\ batch = <<>> /\ quit = "open"
    /\ reader = <<>> /\ atCall = count
    /\ taken = <<>> /\ stops = 0

\* Start: goroutine.New(t.loop).  Until then nothing receives, and a sender
\* on one of the channels waits.
Start ==
    /\ loop = "New"
    /\ loop' = "Select"
    /\ UNCHANGED <<count, batch, quit, reader, atCall, taken, stops>>

\* case tx := <-t.NewTxReceivedChan
NewTxReceived(tx) ==
    /\ loop = "Select" /\ Len(taken) < MaxEvents
    /\ count' = Inc(CounterOf("Received", tx))
    /\ taken' = Append(taken, <<"Received", tx>>)
    /\ UNCHANGED <<loop, batch, quit, reader, atCall, stops>>

\* case tx := <-t.NewTxGeneratedChan
NewTxGenerated(tx) ==
    /\ loop = "Select" /\ Len(taken) < MaxEvents
    /\ count' = Inc(CounterOf("Generated", tx))
    /\ taken' = Append(taken, <<"Generated", tx>>)
    /\ UNCHANGED <<loop, batch, quit, reader, atCall, stops>>

\* case batch := <-t.BatchConfirmedChan
BatchConfirmed(b) ==
    /\ loop = "Select" /\ Len(taken) < MaxEvents
    /\ batch' = b /\ loop' = "Range"
    /\ taken' = Append(taken, <<"Confirmed", b>>)
    /\ UNCHANGED <<count, quit, reader, atCall, stops>>

\* One iteration of the range over the batch; the loop returns to its
\* select when the batch is exhausted.
ConfirmOneAndBreak ==
    /\ loop = "Range"
    /\ IF batch = <<>>
       THEN loop' = "Select" /\ UNCHANGED <<count, batch>>
       ELSE /\ count' = Inc(CounterOf("Confirmed", Head(batch)))
            /\ batch' = Tail(batch)
            /\ loop' = "Select"
    /\ UNCHANGED <<quit, reader, atCall, taken, stops>>
ConfirmOne ==
    /\ loop = "Range"
    /\ IF batch = <<>>
       THEN loop' = "Select" /\ UNCHANGED <<count, batch>>
       ELSE /\ count' = Inc(CounterOf("Confirmed", Head(batch)))
            /\ batch' = Tail(batch)
            /\ UNCHANGED loop
    /\ UNCHANGED <<quit, reader, atCall, taken, stops>>

\* case <-t.quit: break.  The break leaves the select, not the for: the
\* loop goes round and stands at the select again.
Quit ==
    /\ loop = "Select" /\ quit = "closed"
    /\ UNCHANGED vars

\* Stop: close(t.quit).  Closing a closed channel panics.
Stop ==
    /\ stops < MaxStops /\ loop # "Panic"
    /\ stops' = stops + 1
    /\ IF quit = "open"
       THEN quit' = "closed" /\ UNCHANGED loop
       ELSE loop' = "Panic" /\ UNCHANGED quit
    /\ UNCHANGED <<count, batch, reader, atCall, taken>>

\* GetBenchmarks is called, loads the next counter, or returns its map.  A
\* panic ends the process and with it every caller.
LoadNeighbour(read, name) ==
    Append(read, count[Counters[1 + ((Len(read) + 1) % Len(Counters))]])
LoadNext(read, name) == Append(read, count[name])

GetBenchmarks ==
    /\ loop # "Panic"
    /\ \/ /\ reader = <<>>
          /\ atCall' = count
          /\ reader' = LoadNext(reader, Counters[1])
       \/ /\ Len(reader) \in 1 .. (Len(Counters) - 1)
          /\ reader' = LoadNext(reader, Counters[Len(reader) + 1])
          /\ UNCHANGED atCall
       \/ /\ Len(reader) = Len(Counters)
          /\ reader' = <<>>
          /\ UNCHANGED atCall
    /\ UNCHANGED <<count, loop, batch, quit, taken, stops>>

Next ==
    \/ \E tx \in TxTypes : NewTxReceived(tx) \/ NewTxGenerated(tx)
    \/ \E b \in ConfirmBatches : BatchConfirmed(b)
    \/ Start \/ ConfirmOne \/ Quit \/ Stop \/ GetBenchmarks

Spec == Init /\ [][Next]_vars

-----------------------------------------------------------------------------
TypeOK ==
    /\ count \in [Range(Counters) -> Nat]
    /\ loop \in {"New", "Select", "Range", "Panic"}
    /\ batch \in Seq(TxTypes) /\ (loop \in {"New", "Select"} => batch = <<>>)
    /\ quit \in {"open", "closed"}
    /\ reader \in Seq(Nat) /\ Len(reader) <= Len(Counters)
    /\ stops \in 0 .. MaxStops

\* The transactions of kind k among the messages the loop has taken and
\* finished with: single ones, and those of confirmed batches already ranged.
RECURSIVE Occurrences(_, _, _)
Occurrences(msgs, kind, isSeq) ==
    IF msgs = <<>> THEN 0
    ELSE LET m == Head(msgs)
             txs == IF m[1] = "Confirmed" THEN m[2] ELSE <<m[2]>>
             hits == {i \in DOMAIN txs : (txs[i] = "Sequencer") = isSeq}
         IN  (IF m[1] = kind THEN Cardinality(hits) ELSE 0)
             + Occurrences(Tail(msgs), kind, isSeq)

\* Nothing is lost and nothing counted twice: each counter is the number of
\* transactions of its channel and type the loop has taken, whatever the
\* type, less those of the batch still being ranged over.
EveryTxIsCounted ==
    \A kind \in {"Received", "Generated", "Confirmed"}, isSeq \in BOOLEAN :
       LET name == (IF isSeq THEN "sequencer" ELSE "tx") \o kind
           pending == {i \in DOMAIN batch : (batch[i] = "Sequencer") = isSeq}
       IN  count[name] + (IF kind = "Confirmed" THEN Cardinality(pending)
                          ELSE 0)
             = Occurrences(taken, kind, isSeq)

\* What GetBenchmarks returns lies between the counters at its call and the
\* counters at its return, counter by counter, although the six loads are
\* not one atomic step.
BenchmarksAreRecent ==
    \A i \in DOMAIN reader :
       /\ atCall[Counters[i]] <= reader[i]
       /\ reader[i] <= count[Counters[i]]

=============================================================================
