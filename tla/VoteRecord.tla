----------------------------- MODULE VoteRecord -----------------------------
(***************************************************************************)
(* What the voting rules of the replicas promise the committee, whatever   *)
(* messages arrive and in whatever order: a replica's lock never falls,    *)
(* the round it last voted in rises with every vote, and a vote is cast    *)
(* in a round above the last one voted in and not below the lock.  A vote  *)
(* may be spent without being cast, when it cannot be signed.              *)
(***************************************************************************)
EXTENDS Integers

CONSTANTS
    Voters,     \* the replicas that follow the rules
    Rounds,     \* the rounds
    Blocks      \* what can be voted for

VARIABLES
    preferredRound,   \* preferredRound[n]: the lock of replica n
    lastVotedRound,   \* lastVotedRound[n]: the last round n voted in
    cast              \* the votes cast

record == <<preferredRound, lastVotedRound, cast>>

Ballot(n, round, block) == [voter |-> n, round |-> round, block |-> block]

Init ==
    /\ preferredRound = [n \in Voters |-> 0]
    /\ lastVotedRound = [n \in Voters |-> 0]
    /\ cast = {}

\* Replica n does not vote.
Abstain == UNCHANGED <<lastVotedRound, cast>>

\* Replica n spends its vote of the round, and casts it when it can sign.
Vote(n, lock, round) ==
    /\ round > lastVotedRound[n]
    /\ round >= lock
    /\ lastVotedRound' = [lastVotedRound EXCEPT ![n] = round]
    /\ \/ cast' = cast
       \/ \E block \in Blocks : cast' = cast \cup {Ballot(n, round, block)}

\* One event at replica n: the lock rises or stays, then n votes or not.
Event(n) ==
    \E lock \in Rounds :
        /\ lock >= preferredRound[n]
        /\ preferredRound' = [preferredRound EXCEPT ![n] = lock]
        /\ Abstain \/ \E round \in Rounds : Vote(n, lock, round)

Next == \E n \in Voters : Event(n)

Spec == Init /\ [][Next]_record
=============================================================================
