--------------------------------- MODULE BLS ---------------------------------
(***************************************************************************)
(* The BLS signature package (dedis/kyber/v3/sign/bls/bls.go): key pairs,  *)
(* Sign, Verify, and the aggregation of signatures and of public keys.     *)
(*                                                                         *)
(* The groups G1, G2 and GT have prime order and a pairing e.  A point is  *)
(* modelled by its logarithm to the base of its group, written as a form   *)
(* that is linear in the private keys: the point P stands for              *)
(* (P[One] + SUM of P[i] * x_i) * B, where x_i, the private key of holder  *)
(* i, is an unknown, and the coefficients are numbers modulo the order.    *)
(* Two points are equal when their forms are.  The pairing multiplies the  *)
(* forms; in every call the package makes, one of the two points is free   *)
(* of private keys, so the product is a linear form again.                 *)
(*                                                                         *)
(* The holders sign; whoever sees signatures aggregates them, and adds      *)
(* points whose logarithm it knows; bytes may arrive damaged.  What the     *)
(* verification functions answer is asked of every state, for every key,   *)
(* message and signature in circulation.                                   *)
(***************************************************************************)
EXTENDS Integers, Sequences, FiniteSets, SequencesExt

CONSTANTS
    Holders,    \* the holders of the key pairs
    Msgs,       \* the messages
    Order,      \* the order of the groups
    Digest,     \* Digest[m]: the scalar made of suite.Hash() of message m
    MaxWire,    \* bound: the signatures in circulation
    MaxBatch,   \* bound: the signatures aggregated, or verified, in one call
    One,        \* the unit of the scalars
    Bad,        \* bytes that unmarshal to no point
    Nil         \* no error, no signature

ASSUME /\ Order \in Nat \ {0, 1} /\ MaxWire \in Nat /\ MaxBatch \in Nat
       /\ One \notin Holders
       /\ Digest \in [Msgs -> 1 .. Order - 1] /\ IsInjective(Digest)

VARIABLES
    keys,       \* keys[i]: the public key of holder i, once it has a pair
    signed,     \* the <<holder, message>> Sign has been called for
    wire        \* the signatures in circulation, as bytes

vars == <<keys, signed, wire>>

Scalars == Holders \cup {One}
Points == [Scalars -> 0 .. Order - 1]

-----------------------------------------------------------------------------
\* Point(): the neutral element.  Base(): the generator.
Null == [s \in Scalars |-> 0]
Base == [s \in Scalars |-> IF s = One THEN 1 ELSE 0]

\* A plausible slip: the sum is not reduced.
AddUnreduced(P, Q) == [s \in Scalars |-> P[s] + Q[s]]

\* Point.Add.
Add(P, Q) == [s \in Scalars |-> (P[s] + Q[s]) % Order]

\* Point.Mul by a number.
Mul(x, P) == [s \in Scalars |-> (x * P[s]) % Order]

\* Point.Mul by the private key of holder i, of a point that is free of
\* private keys.
MulByKey(i, P) == [s \in Scalars |-> IF s = i THEN P[One] ELSE 0]

\* suite.Pair, for two points of which one is free of private keys.
Pair(P, Q) ==
    [s \in Scalars |->
        (IF s = One THEN P[One] * Q[One]
         ELSE P[One] * Q[s] + P[s] * Q[One]) % Order]

-----------------------------------------------------------------------------
\* NewKeyPair: the private key x, picked at random, and X = x * B2.
NewKeyPair(i) == [x |-> i, X |-> MulByKey(i, Base)]

\* A plausible slip: the scalar of the hash is not multiplied in.
hashToPointNull(msg) == Null

\* hashToPoint: the hash of the message as a scalar, times the base of G1.
hashToPoint(msg) == Mul(Digest[msg], Base)

\* Sign: S = x * H(m), marshalled.
Sign(x, msg) == MulByKey(x, hashToPoint(msg))

\* A plausible slip: the point read last replaces the sum.
AggregateLast(sigs) ==
    IF Bad \in Range(sigs)
    THEN [sig |-> Nil, err |-> "unmarshal"]
    ELSE [sig |-> FoldLeft(LAMBDA sum, sig : sig, Null, sigs), err |-> Nil]

\* AggregateSignatures: the sum of the signatures, or the error of the
\* first that does not unmarshal.
AggregateSignatures(sigs) ==
    IF Bad \in Range(sigs)
    THEN [sig |-> Nil, err |-> "unmarshal"]
    ELSE [sig |-> FoldLeft(Add, Null, sigs), err |-> Nil]

\* AggregatePublicKeys: the sum of the public keys.
AggregatePublicKeys(Xs) == FoldLeft(Add, Null, Xs)

\* distinct: no two messages have the same SHA-256 digest.
distinct(msgs) == IsInjective(msgs)

\* BatchVerify: the pairings of the messages with their keys, summed, are
\* compared with the pairing of the signature.  The loop runs over the
\* messages: it panics on a missing key, and Equal panics on the nil sum
\* of no message.
BatchVerify(publics, msgs, sig) ==
    IF ~distinct(msgs) THEN "messages must be distinct"
    ELSE IF sig = Bad THEN "unmarshal"
    ELSE IF Len(publics) < Len(msgs) \/ msgs = <<>> THEN "panic"
    ELSE LET pairs == [i \in DOMAIN msgs |->
                          Pair(hashToPoint(msgs[i]), publics[i])]
             aggregatedLeft == FoldLeft(Add, pairs[1], Tail(pairs))
         IN  IF aggregatedLeft # Pair(sig, Base)
             THEN "invalid signature" ELSE Nil

\* Verify: e(H(m), X) = e(S, B2).
Verify(X, msg, sig) ==
    IF sig = Bad THEN "unmarshal"
    ELSE IF Pair(hashToPoint(msg), X) # Pair(sig, Base)
    THEN "invalid signature" ELSE Nil

-----------------------------------------------------------------------------
Init ==
    /\ keys = <<>>
    /\ signed = {}
    /\ wire = {}

\* The bytes go into circulation.
Publish(bytes) ==
    /\ Cardinality(wire \cup {bytes}) <= MaxWire
    /\ wire' = wire \cup {bytes}

\* A holder makes its key pair.
KeyGen(i) ==
    /\ i \notin DOMAIN keys
    /\ keys' = keys @@ (i :> NewKeyPair(i).X)
    /\ UNCHANGED <<signed, wire>>

\* A holder signs a message with its private key.
SignMessage(i, msg) ==
    /\ i \in DOMAIN keys
    /\ Publish(Sign(NewKeyPair(i).x, msg))
    /\ signed' = signed \cup {<<i, msg>>}
    /\ UNCHANGED keys

\* Whoever holds signatures aggregates them; the aggregate circulates when
\* there is one.
Aggregate(sigs) ==
    LET joint == AggregateSignatures(sigs)
    IN  /\ IF joint.err = Nil THEN Publish(joint.sig) ELSE UNCHANGED wire
        /\ UNCHANGED <<keys, signed>>

\* Whoever knows no private key publishes a point whose logarithm it knows.
Forge(c) ==
    /\ Publish(Mul(c, Base))
    /\ UNCHANGED <<keys, signed>>

\* A signature arrives damaged.
Damage ==
    /\ wire # {}
    /\ Publish(Bad)
    /\ UNCHANGED <<keys, signed>>

Next ==
    \/ \E i \in Holders : KeyGen(i) \/ \E msg \in Msgs : SignMessage(i, msg)
    \/ \E sigs \in BoundedSeq(wire, MaxBatch) : Aggregate(sigs)
    \/ \E c \in 1 .. Order - 1 : Forge(c)
    \/ Damage

Spec == Init /\ [][Next]_vars
-----------------------------------------------------------------------------
TypeOK ==
    /\ DOMAIN keys \subseteq Holders
    /\ \A i \in DOMAIN keys : keys[i] \in Points
    /\ signed \subseteq (DOMAIN keys) \X Msgs
    /\ wire \subseteq Points \cup {Bad}
    /\ Cardinality(wire) <= MaxWire

\* The public keys and the messages of a claim, a sequence of
\* <<holder, message>>, and the signatures its holders make.
Publics(claim) == [k \in DOMAIN claim |-> keys[claim[k][1]]]
Messages(claim) == [k \in DOMAIN claim |-> claim[k][2]]
Signatures(claim) == [k \in DOMAIN claim |-> Sign(claim[k][1], claim[k][2])]

\* The aggregate of signatures that were made verifies: with BatchVerify
\* against the keys and messages in their order when the messages differ,
\* and with Verify against AggregatePublicKeys of the keys when all signed
\* one message (AggregateSignatures' sum, the sums of BatchVerify and of
\* AggregatePublicKeys, and the two comparisons of pairings).
AggregatesVerify ==
    \A claim \in BoundedSeq(signed, MaxBatch) \ {<<>>} :
        LET joint == AggregateSignatures(Signatures(claim)).sig
            msgs  == Messages(claim)
        IN  /\ distinct(msgs) =>
                  BatchVerify(Publics(claim), msgs, joint) = Nil
            /\ Cardinality(Range(msgs)) = 1 =>
                  Verify(AggregatePublicKeys(Publics(claim)), msgs[1], joint)
                      = Nil

\* Nothing in circulation verifies, alone or in a batch, under the key of
\* a holder that has not signed anything: without a signature of the holder
\* no sum of signatures and chosen points has a part in its private key
\* (Verify and BatchVerify against what Sign, AggregateSignatures and an
\* outsider can make).
ForgeryNeedsASignature ==
    \A sig \in wire, claim \in BoundedSeq((DOMAIN keys) \X Msgs, MaxBatch) :
        /\ claim # <<>>
        /\ \/ BatchVerify(Publics(claim), Messages(claim), sig) = Nil
           \/ Len(claim) = 1 /\ Verify(keys[claim[1][1]], claim[1][2], sig) = Nil
        => \A k \in DOMAIN claim : \E msg \in Msgs : <<claim[k][1], msg>> \in signed

\* A signature that Verify accepts for a message under the key of a holder
\* was made by Sign with the private key of that holder for that message
\* (the package implements the BLS signature scheme; hashToPoint is marked
\* as to be replaced by a proper hash-to-point mapping).
VerifiedWereSigned ==
    \A i \in DOMAIN keys, msg \in Msgs, sig \in wire :
        Verify(keys[i], msg, sig) = Nil => <<i, msg>> \in signed
=============================================================================
