--------------------------- MODULE MCWitnessStatus ---------------------------
(***************************************************************************)
(* Small instances of WitnessStatus.                                       *)
(***************************************************************************)
EXTENDS WitnessStatus

Long == [validFor |-> 2, kinds |-> {1415, 1416}, profile |-> "bounded"]
Short == [validFor |-> 1, kinds |-> {1415}, profile |-> "system"]
LongTerms == {Long}
BothTerms == {Long, Short}
ThreeTimes == 0 .. 2

MCLegacyRows ==
  {[type |-> "grant", created |-> 0,
    request |-> [type |-> "request", nonce |-> 0, sequence |-> 1, start |-> 0, terms |-> Long]]}
=============================================================================
