------------------------------ MODULE MCPartner ------------------------------
(***************************************************************************)
(* The Partner committee instantiated for model checking.                  *)
(***************************************************************************)
EXTENDS Partner

\* A committee of four tolerates one Byzantine member.
FourReplicas == 0 .. 3
=============================================================================
