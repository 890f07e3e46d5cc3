------------------------------ MODULE Commissioning ------------------------------
(***************************************************************************)
(* Commissioning of the relay's service identity: the commands request and *)
(* commission on the administrative database (service.py), the operator's  *)
(* offline signer on another machine (operator_signing.py), and the files  *)
(* people carry between the two, late, twice or in any order.              *)
(*                                                                         *)
(* Each command is one immediate transaction that rolls back when it       *)
(* raises.  Every command runs with the service key the data directory is  *)
(* bound to; the binding (identity.py) is not part of this module.         *)
(***************************************************************************)
EXTENDS Integers, FiniteSets

CONSTANTS
  Operators,     \* people with a signer and a key of their own
  Times,         \* readings of the relay's and the operators' clocks
  RequestTTL,    \* REQUEST_TTL_SECONDS
  MaxClockSkew,  \* MAX_CLOCK_SKEW_SECONDS
  ClockGoesBack, \* the relay's wall clock may be set back
  MaxRequests,   \* bound of the model: requests made
  Null

VARIABLES
  now,           \* wall clock of the relay
  evidence,      \* row of commissioning
  issued,        \* signed requests, as printed by the command
  reviewing,     \* request each operator's signer waits for approval of
  attestations   \* signed attestations, as printed by the signer

vars == <<now, evidence, issued, reviewing, attestations>>

\* The nonce makes the id of a request unique.
Requests == [nonce: Nat, operator: Operators, created: Times]
Attestations == [request: Requests, by: Operators, created: Times]
Evidence == [request: Requests, attestation: Attestations \cup {Null}]

ASSUME CommissioningAssumption ==
  /\ Times \subseteq Nat
  /\ RequestTTL \in Nat \ {0} /\ MaxClockSkew \in Nat /\ MaxRequests \in Nat
  /\ ClockGoesBack \in BOOLEAN
  /\ Null \notin Requests /\ Null \notin Attestations /\ Null \notin Evidence

-----------------------------------------------------------------------------
ExpiresAt(r) == r.created + RequestTTL

\* verify_commissioning_request, when an open request is required and when not.
RequestVerifies(r, t) == r.created <= t + MaxClockSkew
RequestOpen(r, t) == RequestVerifies(r, t) /\ t < ExpiresAt(r)

\* verify_operator_attestation: the attestation answers this very request.
AttestationVerifies(r, a, t) ==
  /\ RequestVerifies(r, t)
  /\ a.request = r /\ a.by = r.operator
  /\ r.created <= a.created /\ a.created <= ExpiresAt(r)
  /\ a.created <= t + MaxClockSkew

Commissioned == evidence # Null /\ evidence.attestation # Null

-----------------------------------------------------------------------------
(* The relay's commands.                                                   *)

M_Request(operator) ==
  LET r == [nonce |-> Cardinality(issued), operator |-> operator, created |-> now] IN
  /\ Cardinality(issued) < MaxRequests
  /\ evidence' = [request |-> r, attestation |-> Null]
  /\ issued' = issued \cup {r}
  /\ UNCHANGED <<now, reviewing, attestations>>

\* request: a pending one is superseded, a commissioned service refuses.
Request(operator) ==
  LET r == [nonce |-> Cardinality(issued), operator |-> operator, created |-> now] IN
  /\ Cardinality(issued) < MaxRequests
  /\ ~Commissioned
  /\ evidence' = [request |-> r, attestation |-> Null]
  /\ issued' = issued \cup {r}
  /\ UNCHANGED <<now, reviewing, attestations>>

M_Commission(a) ==
  /\ evidence # Null /\ ~Commissioned
  /\ RequestOpen(evidence.request, now)
  /\ a.request = evidence.request
  /\ evidence' = [evidence EXCEPT !.attestation = a]
  /\ UNCHANGED <<now, issued, reviewing, attestations>>

\* commission: the descriptor is made, all three events are verified again
\* and stored.  Importing the accepted attestation again changes nothing.
Commission(a) ==
  /\ evidence # Null /\ ~Commissioned
  /\ RequestOpen(evidence.request, now)
  /\ AttestationVerifies(evidence.request, a, now)
  /\ evidence' = [evidence EXCEPT !.attestation = a]
  /\ UNCHANGED <<now, issued, reviewing, attestations>>

-----------------------------------------------------------------------------
(* The operator's signer.  Its machine's clock is unrelated to the relay's *)
(* and may be set meanwhile, so that each step reads a time t of its own.  *)

\* prepare: the request is open and not dated ahead of the operator's clock.
SignerAccepts(r, t) == RequestOpen(r, t) /\ r.created <= t

\* The terms are shown, and the signer waits for a key and an answer.
Review(operator, r, t) ==
  /\ reviewing[operator] = Null
  /\ SignerAccepts(r, t)
  /\ reviewing' = [reviewing EXCEPT ![operator] = r]
  /\ UNCHANGED <<now, evidence, issued, attestations>>

M_Approve(operator, t) ==
  LET r == reviewing[operator] IN
  /\ r # Null
  /\ r.operator = operator
  /\ attestations' = attestations \cup {[request |-> r, by |-> operator, created |-> t]}
  /\ reviewing' = [reviewing EXCEPT ![operator] = Null]
  /\ UNCHANGED <<now, evidence, issued>>

\* The key is the requested operator's, and the request, prepared again after
\* the answer, is still open.
Approve(operator, t) ==
  LET r == reviewing[operator] IN
  /\ r # Null
  /\ r.operator = operator /\ SignerAccepts(r, t)
  /\ attestations' = attestations \cup {[request |-> r, by |-> operator, created |-> t]}
  /\ reviewing' = [reviewing EXCEPT ![operator] = Null]
  /\ UNCHANGED <<now, evidence, issued>>

\* Another key, another answer, or a request that expired meanwhile.
Refuse(operator) ==
  /\ reviewing[operator] # Null
  /\ reviewing' = [reviewing EXCEPT ![operator] = Null]
  /\ UNCHANGED <<now, evidence, issued, attestations>>

-----------------------------------------------------------------------------
SetClock(t) ==
  /\ t > now \/ ClockGoesBack
  /\ now' = t
  /\ UNCHANGED <<evidence, issued, reviewing, attestations>>

Init ==
  /\ now \in Times
  /\ evidence = Null
  /\ issued = {} /\ attestations = {}
  /\ reviewing = [o \in Operators |-> Null]

Next ==
  \/ \E o \in Operators :
       \/ Request(o) \/ Refuse(o)
       \/ \E t \in Times : Approve(o, t) \/ \E r \in issued : Review(o, r, t)
  \/ \E a \in attestations : Commission(a)
  \/ \E t \in Times : SetClock(t)

Spec == Init /\ [][Next]_vars

-----------------------------------------------------------------------------
(* Properties.                                                             *)

(***************************************************************************)
(* Both identities consented, and to the same thing: the operator of a     *)
(* commissioned service is the one its newest request names, and answered  *)
(* that request, not one it superseded, while it was open on the           *)
(* operator's own clock, however long the signer waited for the answer     *)
(* and however late the file was imported.                                 *)
(***************************************************************************)
MutualConsent ==
  Commissioned =>
    LET r == evidence.request
        a == evidence.attestation
    IN /\ a \in attestations /\ a.request = r /\ a.by = r.operator
       /\ \A other \in issued : other.nonce <= r.nonce
       /\ r.created <= a.created /\ a.created < ExpiresAt(r)

(***************************************************************************)
(* A service is commissioned once: no later request, no other operator and *)
(* no second import replaces the evidence.                                 *)
(***************************************************************************)
CommissionedForGood == [][Commissioned => evidence' = evidence]_vars

EvidenceReadable ==
  Commissioned => AttestationVerifies(evidence.request, evidence.attestation, now)

\* More than the skew ahead of the relay's clock.
SignedAhead == Commissioned /\ evidence.attestation.created > now + MaxClockSkew

(***************************************************************************)
(* Retained evidence is verified against the clock on every read, and the  *)
(* relay does not start on evidence it cannot verify.  The deadline of the *)
(* request takes nothing away: the evidence fails while the clock is       *)
(* behind the attestation by more than the skew and at no other time, so   *)
(* it verifies again when the clock has caught up; and only setting the    *)
(* clock back, never an import or the passing of time, makes it fail.      *)
(***************************************************************************)
StillVerifies ==
  [][~EvidenceReadable' => SignedAhead' /\ (EvidenceReadable => now' < now)]_vars

(***************************************************************************)
(* What makes these inductive: nonces count the requests, the row holds    *)
(* the newest one, and every attestation was made while its request was    *)
(* open.                                                                   *)
(***************************************************************************)
TypeOK ==
  /\ now \in Times
  /\ evidence \in Evidence \cup {Null}
  /\ issued \subseteq Requests /\ IsFiniteSet(issued)
  /\ reviewing \in [Operators -> Requests \cup {Null}]
  /\ attestations \subseteq Attestations

NewestPending ==
  /\ \A r \in issued : r.nonce < Cardinality(issued)
  /\ evidence # Null => evidence.request.nonce = Cardinality(issued) - 1

SignedWhileOpen ==
  \A a \in attestations :
    /\ a.by = a.request.operator
    /\ a.request.created <= a.created /\ a.created < ExpiresAt(a.request)

ConsentInv == TypeOK /\ NewestPending /\ SignedWhileOpen /\ MutualConsent

=============================================================================
