----------------------------- MODULE MCInitialGrant -----------------------------
(***************************************************************************)
(* A small instance of InitialGrant, and of Commissioning within it.       *)
(***************************************************************************)
EXTENDS InitialGrant, TLC

ThreeTimes == 0 .. 2

\* Ends after the longest time a request may stay open.
Long == {[validFor |-> 3, kinds |-> {1415}, profile |-> "bounded"]}

Alike == Permutations(Operators)

\* Bounds of the instance: signed files that are around, and prompts open.
Prompts == {o \in Operators : reviewing[o] # Null} \X {"attestation"}
             \cup {o \in Operators : considering[o] # Null} \X {"grant"}
FewFiles ==
  /\ Cardinality(attestations) <= 2 /\ Cardinality(grants) <= 1
  /\ Cardinality(Prompts) <= 2
=============================================================================
