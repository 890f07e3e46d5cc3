-------------------------------- MODULE MCRelay --------------------------------
(***************************************************************************)
(* Small instances of Relay: note is a kind 1 event, erase a kind 5 event  *)
(* of the same author naming it, proof a receipt of the witness worker.    *)
(***************************************************************************)
EXTENDS Relay, TLC

CONSTANTS note, erase, proof, author, service, c1, c2

MCEvents == {note, erase, proof}
NoteAndProof == {note, proof}
NoteAndErase == {note, erase}
MCAuthorOf == [e \in Events |-> IF e = proof THEN service ELSE author]
MCTargets == [e \in Events |-> IF e = erase THEN {note} \cap Events ELSE {}]
OneFilter == {Events}
TwoFilters == {Events, {note}}

SocketSymmetry == Permutations(Sockets)
=============================================================================
