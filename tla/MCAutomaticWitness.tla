-------------------------- MODULE MCAutomaticWitness --------------------------
(***************************************************************************)
(* Small instances of AutomaticWitness: s1 and s2 are two signatures of    *)
(* one kind 1415 event, s3 is a kind 1416 event and s4 an ordinary note.   *)
(***************************************************************************)
EXTENDS AutomaticWitness, TLC

CONSTANTS s1, s2, s3, s4

AllSubjects == {s1, s2, s3, s4}
TwoKinds == {s1, s3}

IdOfAll == (s1 :> 1 @@ s2 :> 1 @@ s3 :> 2 @@ s4 :> 3)
KindOfAll == (s1 :> 1415 @@ s2 :> 1415 @@ s3 :> 1416 @@ s4 :> 1)
MCIdOf == [s \in Subjects |-> IdOfAll[s]]
MCKindOf == [s \in Subjects |-> KindOfAll[s]]
MCTimes == 0 .. MaxTime

Offer(start, created, end, kinds, profile) ==
  [type |-> "grant", created |-> created, start |-> start, end |-> end,
   kinds |-> kinds, profile |-> profile]

\* One grant for both kinds, on either clock.
OneOffer == {Offer(0, 0, 3, {1415, 1416}, "system")}
BoundedOffer == {Offer(0, 0, 3, {1415, 1416}, "bounded")}

Back == {-1}

\* One check of a bounded clock that finds it synchronized.
OneCheck == {[synchronized |-> TRUE, uncertainty |-> 0, syncAge |-> Null]}

=============================================================================
