------------------------------- MODULE MCBLS -------------------------------
(***************************************************************************)
(* The BLS package instantiated for model checking: two holders, two       *)
(* messages, groups of order 5.                                            *)
(***************************************************************************)
EXTENDS BLS

TwoHolders == {"v", "w"}
TwoMsgs == {"m1", "m2"}

\* The scalars the two messages hash to.
Digests == ("m1" :> 1) @@ ("m2" :> 2)
=============================================================================
