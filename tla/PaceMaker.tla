------------------------------ MODULE PaceMaker ------------------------------
(***************************************************************************)
(* The round clock of one replica: the current round, the last timeout     *)
(* certificate, and one signature collector per round for the timeouts of  *)
(* the committee.  The timer itself is the environment: it may expire at   *)
(* any moment.                                                             *)
(***************************************************************************)
EXTENDS SignatureCollector

\* The Partner starts its pacemaker in round 0.
InitPaceMaker ==
    [currentRound |-> 0, lastTC |-> Nil,
     timeouts |-> [r \in Rounds |-> NewCollector]]

\* The highest round the given certificates certify, -1 when both are absent.
CertifiedRound(qc, tc) ==
    Max({IF qc = Nil THEN -1 ELSE qc.voteData.round,
         IF tc = Nil THEN -1 ELSE tc.round})

\* AdvanceRound: the round after the highest certificate, when that is
\* beyond the current round; otherwise nothing changes.  The collectors of
\* the rounds left behind are retired.
AdvanceRound(pm, qc, tc) ==
    LET candidate == CertifiedRound(qc, tc) + 1
    IN  IF candidate <= pm.currentRound
        THEN pm
        ELSE [pm EXCEPT
                !.currentRound = candidate,
                !.timeouts = [r \in Rounds |->
                                IF r < candidate THEN NewCollector ELSE @[r]]]

\* A timeout of a round the replica has left is stale.
StaleTimeout(pm, round) == round < pm.currentRound

\* The collector of a round, with one more signer.
CollectTimeout(pm, round, signer) ==
    [pm EXCEPT !.timeouts[round] = Collect(@, signer)]

\* The certificate a full collector of the round yields, else Nil.
TimeoutCertificate(pm, round) ==
    IF Collected(pm.timeouts[round]) THEN TC(round) ELSE Nil
=============================================================================
