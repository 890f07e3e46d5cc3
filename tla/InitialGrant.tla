------------------------------ MODULE InitialGrant ------------------------------
(***************************************************************************)
(* The first witness grant of a service: Commissioning composed with the   *)
(* commands of WitnessLifecycle, which share its clock and verify its      *)
(* evidence, and with the operator's signer (sign-witness in               *)
(* operator_signing.py), to which the commissioning evidence, the request  *)
(* and the policy are carried as files.                                    *)
(*                                                                         *)
(* The signer refuses renewals, and the program signs no revocation, so    *)
(* that later events of the chain are left to WitnessLifecycle.            *)
(***************************************************************************)
EXTENDS Commissioning, Sequences

CONSTANTS
  Terms,     \* what a witness request may ask for: validity, kinds and policy
  MaxAsked   \* bound of the model: witness requests made

VARIABLES
  hasTable, table, current, controls, made,  \* the rows of WitnessLifecycle
  asked,        \* signed witness requests, as printed by the command
  considering,  \* witness request each operator's signer waits for approval of
  grants        \* signed authorizations, as printed by the signer

Lifecycle == INSTANCE WitnessLifecycle WITH
               MaxRequests <- MaxAsked, LegacyRows <- {}, MaxHistory <- 1, MaxControls <- 0

rowVars == <<hasTable, table, current, controls, made>>
grantVars == <<rowVars, asked, considering, grants>>

\* A printed request names the operator and the attestation it relies on.
WitnessRequests ==
  [request: Lifecycle!Requests(Terms), operator: Operators, attestation: Attestations]
Grants == [request: WitnessRequests, by: Operators, created: Times]

ASSUME InitialGrantAssumption ==
  /\ Terms \subseteq [validFor: Nat \ {0}, kinds: SUBSET Nat, profile: {"bounded", "operational", "system"}]
  /\ MaxAsked \in Nat
  /\ Null \notin WitnessRequests
  /\ Null \notin Lifecycle!Requests(Terms) /\ Null \notin Lifecycle!GrantRows

-----------------------------------------------------------------------------
\* ServiceCommissioning._verify, which every witness command begins with.
EvidenceVerifies(t) ==
  Commissioned /\ AttestationVerifies(evidence.request, evidence.attestation, t)

\* _verify_request compares the request with the commissioning evidence.
Matches(w) ==
  /\ w.operator = evidence.request.operator
  /\ w.attestation = evidence.attestation

\* request: the request commits to the operator and the attestation.
Ask(terms) ==
  /\ EvidenceVerifies(now)
  /\ Lifecycle!Request(terms)
  /\ asked' = asked \cup {[request |-> current', operator |-> evidence.request.operator,
                           attestation |-> evidence.attestation]}
  /\ UNCHANGED <<vars, considering, grants>>

\* prepare, on the operator's clock t, with the evidence and the policy the
\* request commits to.
SignerAcceptsGrant(w, t) ==
  /\ EvidenceVerifies(t)
  /\ Matches(w)
  /\ w.request.start <= t /\ t < Lifecycle!ExpiresAt(w.request)

Consider(operator, w, t) ==
  /\ considering[operator] = Null
  /\ SignerAcceptsGrant(w, t)
  /\ considering' = [considering EXCEPT ![operator] = w]
  /\ UNCHANGED <<vars, rowVars, asked, grants>>

\* The key is the requested operator's, and the request, prepared again after
\* the answer, is still open.  The template reads the clock once more, and the
\* signed event is verified before it is printed.
Grant(operator, t, created) ==
  LET w == considering[operator] IN
  /\ w # Null
  /\ w.operator = operator /\ SignerAcceptsGrant(w, t)
  /\ w.request.start <= created /\ created < Lifecycle!ExpiresAt(w.request)
  /\ grants' = grants \cup {[request |-> w, by |-> operator, created |-> created]}
  /\ considering' = [considering EXCEPT ![operator] = Null]
  /\ UNCHANGED <<vars, rowVars, asked>>

Decline(operator) ==
  /\ considering[operator] # Null
  /\ considering' = [considering EXCEPT ![operator] = Null]
  /\ UNCHANGED <<vars, rowVars, asked, grants>>

M_Authorize(g) ==
  /\ EvidenceVerifies(now)
  /\ Matches(g.request) /\ g.by = g.request.operator
  /\ Lifecycle!Authorize(g.created)
  /\ UNCHANGED <<vars, asked, considering, grants>>

\* authorize: the event answers the request in the row, and is signed by the
\* operator that request names.
Authorize(g) ==
  /\ EvidenceVerifies(now)
  /\ g.request.request = current /\ Matches(g.request) /\ g.by = g.request.operator
  /\ Lifecycle!Authorize(g.created)
  /\ UNCHANGED <<vars, asked, considering, grants>>

-----------------------------------------------------------------------------
GrantInit ==
  /\ Init
  /\ hasTable = FALSE /\ table = <<>> /\ current = Null /\ controls = <<>> /\ made = 0
  /\ asked = {} /\ grants = {}
  /\ considering = [o \in Operators |-> Null]

GrantStep ==
  \/ \E terms \in Terms : Ask(terms)
  \/ \E o \in Operators :
       \/ Decline(o)
       \/ \E t \in Times :
            \/ \E w \in asked : Consider(o, w, t)
            \/ \E created \in Times : Grant(o, t, created)
  \/ \E g \in grants : Authorize(g)

GrantNext == (Next /\ UNCHANGED grantVars) \/ GrantStep

GrantSpec == GrantInit /\ [][GrantNext]_<<vars, grantVars>>

-----------------------------------------------------------------------------
Granted == current # Null /\ current.type = "grant"

(***************************************************************************)
(* The operator who consented to run the service is the one who let it     *)
(* witness: a grant in the row was signed by the operator of the           *)
(* commissioning evidence, answers the newest witness request, one that    *)
(* names this very evidence, within that request's window, and is not      *)
(* dated before the attestation by more than the skew the relay allows,    *)
(* whatever requests were superseded and answers delayed meanwhile.        *)
(***************************************************************************)
GrantConsent ==
  Granted =>
    /\ Commissioned
    /\ \E g \in grants :
         /\ g.request \in asked /\ g.request.request = current.request
         /\ g.created = current.created
         /\ g.by = evidence.request.operator /\ g.request.attestation = evidence.attestation
    /\ \A w \in asked : w.request.nonce <= current.request.nonce
    /\ current.request.start <= current.created
    /\ current.created < Lifecycle!ExpiresAt(current.request)
    /\ evidence.attestation.created <= current.created + MaxClockSkew

=============================================================================
