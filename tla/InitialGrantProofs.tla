-------------------------- MODULE InitialGrantProofs --------------------------
(***************************************************************************)
(* Proofs about Commissioning and InitialGrant, for every set of           *)
(* operators, all terms and clock readings and any number of requests.     *)
(* What InitialGrant adds leaves the variables of Commissioning alone, so  *)
(* that its invariant is used and not proved again.                        *)
(***************************************************************************)
EXTENDS InitialGrant, FiniteSetTheorems, TLAPS

-----------------------------------------------------------------------------
(* Commissioning by itself.                                                *)

\* A row is never Null, and its fields are what they should be.
LEMMA EvidenceTyped ==
  ASSUME TypeOK, evidence # Null
  PROVE  /\ evidence.request \in Requests
         /\ evidence.attestation \in Attestations \cup {Null}
         /\ evidence = [request |-> evidence.request, attestation |-> evidence.attestation]
  BY DEF TypeOK, Evidence

LEMMA RequestTyped ==
  ASSUME NEW r \in Requests
  PROVE  r.nonce \in Nat /\ r.operator \in Operators /\ r.created \in Nat /\ ExpiresAt(r) \in Nat
<1>1. r.nonce \in Nat /\ r.operator \in Operators /\ r.created \in Times
  BY DEF Requests
<1>2. r.created \in Nat /\ RequestTTL \in Nat
  BY <1>1, CommissioningAssumption DEF CommissioningAssumption
<1> QED
  BY <1>1, <1>2 DEF ExpiresAt

LEMMA AttestationTyped ==
  ASSUME NEW a \in Attestations
  PROVE  a.request \in Requests /\ a.by \in Operators /\ a.created \in Nat
  BY CommissioningAssumption DEF CommissioningAssumption, Attestations

-----------------------------------------------------------------------------
\* request: the new request gets the next nonce and is the newest.
LEMMA RequestStep ==
  ASSUME ConsentInv, NEW o \in Operators, Request(o)
  PROVE  ConsentInv'
<1> DEFINE r == [nonce |-> Cardinality(issued), operator |-> o, created |-> now]
           e == [request |-> r, attestation |-> Null]
<1>1. Cardinality(issued) \in Nat
  BY FS_CardinalityType DEF ConsentInv, TypeOK
<1>2. r \in Requests /\ e \in Evidence
  BY <1>1 DEF ConsentInv, TypeOK, Requests, Evidence
<1>3. r \notin issued
  BY <1>1 DEF ConsentInv, NewestPending
<1>4. /\ issued' = issued \cup {r} /\ evidence' = e
      /\ UNCHANGED <<now, reviewing, attestations>>
  BY DEF Request
<1>5. IsFiniteSet(issued') /\ Cardinality(issued') = Cardinality(issued) + 1
  BY <1>3, <1>4, FS_AddElement DEF ConsentInv, TypeOK
<1>6. TypeOK'
  BY <1>2, <1>4, <1>5 DEF ConsentInv, TypeOK
<1>7. NewestPending'
  <2>1. ASSUME NEW q \in issued' PROVE q.nonce < Cardinality(issued')
    <3>1. CASE q = r
      BY <3>1, <1>1, <1>5
    <3>2. CASE q \in issued
      <4>1. q.nonce \in Nat /\ q.nonce < Cardinality(issued)
        BY <3>2, RequestTyped DEF ConsentInv, TypeOK, NewestPending
      <4> QED
        BY <4>1, <1>1, <1>5
    <3> QED
      BY <3>1, <3>2, <1>4
  <2>2. evidence'.request.nonce = Cardinality(issued') - 1
    BY <1>1, <1>4, <1>5
  <2> QED
    BY <2>1, <2>2 DEF NewestPending
<1>8. SignedWhileOpen'
  BY <1>4 DEF ConsentInv, SignedWhileOpen
<1>9. MutualConsent'
  BY <1>4 DEF MutualConsent, Commissioned
<1> QED
  BY <1>6, <1>7, <1>8, <1>9 DEF ConsentInv

\* commission: only an answer to the row's request is stored beside it.
LEMMA CommissionStep ==
  ASSUME ConsentInv, NEW a \in attestations, Commission(a)
  PROVE  ConsentInv'
<1> DEFINE r == evidence.request
<1>1. evidence # Null /\ evidence \in Evidence /\ r \in Requests
  BY EvidenceTyped DEF ConsentInv, TypeOK, Commission
<1>2. a \in Attestations /\ a # Null
  BY CommissioningAssumption DEF ConsentInv, TypeOK, CommissioningAssumption
<1>3. /\ evidence' = [request |-> r, attestation |-> a]
      /\ UNCHANGED <<now, issued, reviewing, attestations>>
  BY <1>1 DEF Commission, Evidence
<1>4. a.request = r /\ a.by = r.operator
  BY DEF Commission, AttestationVerifies
<1>5. TypeOK'
  BY <1>1, <1>2, <1>3 DEF ConsentInv, TypeOK, Evidence
<1>6. NewestPending'
  BY <1>1, <1>3 DEF ConsentInv, NewestPending
<1>7. SignedWhileOpen'
  BY <1>3 DEF ConsentInv, SignedWhileOpen
<1>8. MutualConsent'
  <2>1. r.created <= a.created /\ a.created < ExpiresAt(r)
    BY <1>4 DEF ConsentInv, SignedWhileOpen
  <2>2. ASSUME NEW other \in issued PROVE other.nonce <= r.nonce
    <3>1. Cardinality(issued) \in Nat /\ other.nonce \in Nat
      BY FS_CardinalityType, RequestTyped DEF ConsentInv, TypeOK
    <3>2. other.nonce < Cardinality(issued) /\ r.nonce = Cardinality(issued) - 1
      BY <1>1 DEF ConsentInv, NewestPending
    <3> QED
      BY <3>1, <3>2
  <2>3. evidence'.request = r /\ evidence'.attestation = a
    BY <1>3
  <2> QED
    BY <2>1, <2>2, <2>3, <1>3, <1>4 DEF MutualConsent, ExpiresAt
<1> QED
  BY <1>5, <1>6, <1>7, <1>8 DEF ConsentInv

\* The signer prepares the request again before it signs.
LEMMA ApproveStep ==
  ASSUME ConsentInv, NEW o \in Operators, NEW t \in Times, Approve(o, t)
  PROVE  ConsentInv'
<1> DEFINE r == reviewing[o]
           a == [request |-> r, by |-> o, created |-> t]
<1>1. r \in Requests /\ r.operator = o /\ SignerAccepts(r, t)
  BY DEF Approve, ConsentInv, TypeOK
<1>2. a \in Attestations
  BY <1>1 DEF ConsentInv, TypeOK, Attestations
<1>3. /\ attestations' = attestations \cup {a}
      /\ reviewing' = [reviewing EXCEPT ![o] = Null]
      /\ UNCHANGED <<now, evidence, issued>>
  BY DEF Approve
<1>4. TypeOK'
  BY <1>2, <1>3 DEF ConsentInv, TypeOK
<1>5. NewestPending'
  BY <1>3 DEF ConsentInv, NewestPending
<1>6. SignedWhileOpen'
  <2>1. /\ a.by = a.request.operator
        /\ a.request.created <= a.created /\ a.created < ExpiresAt(a.request)
    BY <1>1 DEF SignerAccepts, RequestOpen
  <2> QED
    BY <2>1, <1>3 DEF ConsentInv, SignedWhileOpen
<1>7. MutualConsent'
  BY <1>3 DEF ConsentInv, MutualConsent, Commissioned
<1> QED
  BY <1>4, <1>5, <1>6, <1>7 DEF ConsentInv

\* The other steps leave the row, the requests and the answers alone.
LEMMA OtherStep ==
  ASSUME ConsentInv, UNCHANGED <<evidence, issued, attestations>>,
         now' \in Times,
         reviewing' \in [Operators -> Requests \cup {Null}]
  PROVE  ConsentInv'
  BY DEF ConsentInv, TypeOK, NewestPending, SignedWhileOpen, MutualConsent, Commissioned

(***************************************************************************)
(* ConsentInv is an invariant.                                             *)
(***************************************************************************)
THEOREM ConsentInductive == Spec => []ConsentInv
<1>1. Init => ConsentInv
  <2> SUFFICES ASSUME Init PROVE ConsentInv
    OBVIOUS
  <2>1. IsFiniteSet(issued)
    BY FS_EmptySet DEF Init
  <2> QED
    BY <2>1 DEF Init, ConsentInv, TypeOK, NewestPending, SignedWhileOpen, MutualConsent, Commissioned
<1>2. ConsentInv /\ [Next]_vars => ConsentInv'
  <2> SUFFICES ASSUME ConsentInv, [Next]_vars PROVE ConsentInv'
    OBVIOUS
  <2>1. ASSUME NEW o \in Operators, Request(o) PROVE ConsentInv'
    BY <2>1, RequestStep
  <2>2. ASSUME NEW o \in Operators, NEW t \in Times, Approve(o, t) PROVE ConsentInv'
    BY <2>2, ApproveStep
  <2>3. ASSUME NEW o \in Operators, Refuse(o) PROVE ConsentInv'
    BY <2>3, OtherStep DEF Refuse, ConsentInv, TypeOK
  <2>4. ASSUME NEW o \in Operators, NEW t \in Times, NEW r \in issued, Review(o, r, t)
        PROVE  ConsentInv'
    BY <2>4, OtherStep DEF Review, ConsentInv, TypeOK
  <2>5. ASSUME NEW a \in attestations, Commission(a) PROVE ConsentInv'
    BY <2>5, CommissionStep
  <2>6. ASSUME NEW t \in Times, SetClock(t) PROVE ConsentInv'
    BY <2>6, OtherStep DEF SetClock, ConsentInv, TypeOK
  <2>7. CASE UNCHANGED vars
    BY <2>7, OtherStep DEF vars, ConsentInv, TypeOK
  <2> QED
    BY <2>1, <2>2, <2>3, <2>4, <2>5, <2>6, <2>7 DEF Next
<1> QED
  BY <1>1, <1>2, PTL DEF Spec

(***************************************************************************)
(* The operator of a commissioned service answered its newest request      *)
(* while that request was open (commission in service.py and sign in       *)
(* operator_signing.py).                                                   *)
(***************************************************************************)
THEOREM ConsentIsMutual == Spec => []MutualConsent
<1>1. ConsentInv => MutualConsent
  BY DEF ConsentInv
<1> QED
  BY <1>1, ConsentInductive, PTL

(***************************************************************************)
(* Nothing replaces the evidence of a commissioned service.                *)
(***************************************************************************)
THEOREM EvidenceIsFinal == Spec => CommissionedForGood
<1>1. [Next]_vars => [Commissioned => evidence' = evidence]_vars
  BY DEF Next, vars, Request, Commission, Review, Approve, Refuse, SetClock
<1> QED
  BY <1>1, PTL DEF Spec, CommissionedForGood

\* What was imported fails to verify only by the clock.
LEMMA OnlyBehind ==
  ASSUME ConsentInv, ~EvidenceReadable
  PROVE  SignedAhead
<1>1. /\ Commissioned
      /\ evidence.request \in Requests /\ evidence.attestation \in Attestations
      /\ ~AttestationVerifies(evidence.request, evidence.attestation, now)
  BY EvidenceTyped DEF ConsentInv, EvidenceReadable, Commissioned
<1>2. /\ evidence.request.created \in Nat /\ evidence.attestation.created \in Nat
      /\ ExpiresAt(evidence.request) \in Nat /\ now \in Nat /\ MaxClockSkew \in Nat
  BY <1>1, RequestTyped, AttestationTyped, CommissioningAssumption
  DEF CommissioningAssumption, ConsentInv, TypeOK
<1>3. /\ evidence.attestation.request = evidence.request
      /\ evidence.attestation.by = evidence.request.operator
      /\ evidence.request.created <= evidence.attestation.created
      /\ evidence.attestation.created < ExpiresAt(evidence.request)
  BY <1>1 DEF ConsentInv, MutualConsent
<1> QED
  BY <1>1, <1>2, <1>3 DEF SignedAhead, AttestationVerifies, RequestVerifies

\* An import is verified against the same clock.
LEMMA OnlySetBack ==
  ASSUME ConsentInv, [Next]_vars, EvidenceReadable, ~EvidenceReadable', SignedAhead'
  PROVE  now' < now
<1>1. CASE evidence' = evidence
  <2>1. /\ Commissioned /\ AttestationVerifies(evidence.request, evidence.attestation, now)
        /\ evidence.attestation \in Attestations /\ evidence.attestation.created \in Nat
    BY <1>1, EvidenceTyped, AttestationTyped
    DEF SignedAhead, EvidenceReadable, Commissioned, ConsentInv
  <2>2. /\ evidence.attestation.created <= now + MaxClockSkew
        /\ evidence.attestation.created > now' + MaxClockSkew
    BY <1>1, <2>1 DEF AttestationVerifies, SignedAhead
  <2>3. now \in Nat /\ now' \in Nat /\ MaxClockSkew \in Nat
    BY CommissioningAssumption DEF CommissioningAssumption, ConsentInv, TypeOK, Next, vars,
       Request, Commission, Review, Approve, Refuse, SetClock
  <2> QED
    BY <2>1, <2>2, <2>3
<1>2. ASSUME NEW a \in attestations, Commission(a) PROVE FALSE
  <2>1. evidence' = [request |-> evidence.request, attestation |-> a] /\ now' = now
    BY <1>2, EvidenceTyped DEF Commission, ConsentInv
  <2>2. AttestationVerifies(evidence.request, a, now)
    BY <1>2 DEF Commission
  <2> QED
    BY <2>1, <2>2 DEF EvidenceReadable, AttestationVerifies, RequestVerifies, ExpiresAt
<1>3. ASSUME NEW o \in Operators, Request(o) PROVE FALSE
  BY <1>3 DEF Request, EvidenceReadable, Commissioned
<1> QED
  BY <1>1, <1>2, <1>3 DEF Next, vars, Review, Approve, Refuse, SetClock

(***************************************************************************)
(* Retained evidence fails to verify only while the clock is behind it by  *)
(* more than the skew, and only setting the clock back makes it fail       *)
(* (StillVerifies).                                                        *)
(***************************************************************************)
THEOREM EvidenceStillVerifies == Spec => StillVerifies
<1>1. ConsentInv' => (~EvidenceReadable' => SignedAhead')
  <2>1. ConsentInv => (~EvidenceReadable => SignedAhead)
    BY OnlyBehind
  <2> QED
    BY <2>1, PTL
<1>2. ConsentInv /\ ConsentInv' /\ [Next]_vars =>
        [~EvidenceReadable' => SignedAhead' /\ (EvidenceReadable => now' < now)]_vars
  BY <1>1, OnlySetBack
<1> QED
  BY <1>2, ConsentInductive, PTL DEF Spec, StillVerifies

(***************************************************************************)
(* On a clock that is never set back, a commissioned service can read its  *)
(* evidence at every later start.                                          *)
(***************************************************************************)
THEOREM EvidenceAlwaysReadable ==
  ASSUME ~ClockGoesBack
  PROVE  Spec => []EvidenceReadable
<1>1. Init => EvidenceReadable
  BY DEF Init, EvidenceReadable, Commissioned
<1>2. ConsentInv /\ [Next]_vars => now <= now'
  BY CommissioningAssumption DEF CommissioningAssumption, ConsentInv, TypeOK, Next, vars,
     Request, Commission, Review, Approve, Refuse, SetClock
<1>3. /\ ConsentInv /\ ConsentInv' /\ EvidenceReadable
      /\ [~EvidenceReadable' => SignedAhead' /\ (EvidenceReadable => now' < now)]_vars
      /\ [Next]_vars
      => EvidenceReadable'
  <2> SUFFICES ASSUME ConsentInv, ConsentInv', EvidenceReadable, [Next]_vars, ~EvidenceReadable',
                      [~EvidenceReadable' => SignedAhead' /\ (EvidenceReadable => now' < now)]_vars
               PROVE  FALSE
    OBVIOUS
  <2>1. now \in Nat /\ now' \in Nat
    BY CommissioningAssumption DEF CommissioningAssumption, ConsentInv, TypeOK
  <2>2. CASE UNCHANGED vars
    BY <2>2 DEF vars, EvidenceReadable, Commissioned, AttestationVerifies, RequestVerifies, ExpiresAt
  <2>3. CASE now' < now
    BY <1>2, <2>1, <2>3
  <2> QED
    BY <2>2, <2>3
<1> QED
  BY <1>1, <1>3, ConsentInductive, EvidenceStillVerifies, PTL DEF Spec, StillVerifies

-----------------------------------------------------------------------------
(* Beside the commands of the witness.                                     *)

\* What makes GrantConsent inductive: nonces count the witness requests, the
\* one in the row is the newest, each was made on verified evidence, the
\* signers answer printed requests only, and the history is written with the
\* first grant.
RowInv ==
  /\ made \in Nat
  /\ hasTable => Granted /\ table = <<current>>
  /\ (current # Null /\ current.type = "request") =>
       current \in Lifecycle!Requests(Terms) /\ current.nonce = made - 1

FilesInv ==
  /\ asked \subseteq
       {w \in WitnessRequests : /\ w.request.nonce < made
                                /\ w.attestation.created <= w.request.start + MaxClockSkew}
  /\ considering \in [Operators -> asked \cup {Null}]
  /\ \A g \in grants : g.request \in asked /\ g.created \in Times

GrantInv == ConsentInv /\ RowInv /\ FilesInv /\ GrantConsent

-----------------------------------------------------------------------------
\* Every step is a step of Commissioning or none.
LEMMA GrantStepLeaves ==
  ASSUME GrantStep
  PROVE  UNCHANGED vars
  BY DEF GrantStep, Ask, Consider, Grant, Decline, Authorize, vars, Lifecycle!Request, Lifecycle!Authorize

(***************************************************************************)
(* The composition implements Commissioning, so that what is proved of     *)
(* Commissioning holds beside the witness commands (witness.py never       *)
(* writes the table of service.py).                                        *)
(***************************************************************************)
THEOREM GrantImplementsCommissioning == GrantSpec => Spec
<1>1. GrantInit => Init
  BY DEF GrantInit
<1>2. [GrantNext]_<<vars, grantVars>> => [Next]_vars
  BY GrantStepLeaves DEF GrantNext, vars
<1> QED
  BY <1>1, <1>2, PTL DEF GrantSpec, Spec

-----------------------------------------------------------------------------
\* Nothing of Commissioning replaces evidence a grant relies on.
LEMMA CommissioningKeeps ==
  ASSUME GrantInv, [Next]_vars, UNCHANGED grantVars
  PROVE  RowInv' /\ FilesInv' /\ GrantConsent'
<1>1. UNCHANGED <<hasTable, table, current, controls, made, asked, considering, grants>>
  BY DEF grantVars, rowVars
<1>2. RowInv' /\ FilesInv'
  BY <1>1 DEF GrantInv, RowInv, FilesInv, Granted
<1>3. CASE ~Granted
  BY <1>1, <1>2, <1>3 DEF GrantConsent, Granted
<1>4. CASE Granted
  <2>1. Commissioned
    BY <1>4 DEF GrantInv, GrantConsent
  <2>2. evidence' = evidence
    BY <2>1 DEF Next, vars, Request, Commission, Review, Approve, Refuse, SetClock
  <2> QED
    BY <1>1, <1>2, <2>2 DEF GrantInv, GrantConsent, Granted, Commissioned,
       Lifecycle!ExpiresAt, Lifecycle!WindowEnd
<1> QED
  BY <1>3, <1>4

\* request: only while nothing was granted, and with the next nonce.
LEMMA AskStep ==
  ASSUME GrantInv, NEW terms \in Terms, Ask(terms)
  PROVE  RowInv' /\ FilesInv' /\ GrantConsent'
<1> DEFINE r == Lifecycle!NewRequest(terms, 1)
           w == [request |-> r, operator |-> evidence.request.operator,
                 attestation |-> evidence.attestation]
<1>1. /\ current' = r /\ made' = made + 1 /\ asked' = asked \cup {w}
      /\ UNCHANGED <<vars, hasTable, table, considering, grants>>
  BY DEF Ask, Lifecycle!Request
<1>2. ~hasTable
  BY DEF Ask, Lifecycle!Request, Lifecycle!Rows, GrantInv, RowInv, Granted
<1>3. made \in Nat /\ now \in Nat
  BY CommissioningAssumption DEF CommissioningAssumption, GrantInv, RowInv, ConsentInv, TypeOK
<1>4. r \in Lifecycle!Requests(Terms) /\ r.type = "request" /\ r.nonce = made /\ r.start = now
  BY <1>3 DEF Lifecycle!NewRequest, Lifecycle!Requests
<1>5. /\ evidence.attestation \in Attestations /\ evidence.request \in Requests
      /\ evidence.attestation.created <= now + MaxClockSkew
  BY EvidenceTyped DEF Ask, EvidenceVerifies, Commissioned, AttestationVerifies, GrantInv, ConsentInv
<1>6. w \in WitnessRequests
  BY <1>4, <1>5, RequestTyped DEF WitnessRequests
<1>7. RowInv'
  BY <1>1, <1>2, <1>3, <1>4 DEF RowInv
<1>8. FilesInv'
  <2>1. ASSUME NEW v \in asked
        PROVE  v.request.nonce < made + 1 /\ v.attestation.created <= v.request.start + MaxClockSkew
    <3>1. v.request.nonce \in Nat /\ v.request.nonce < made
      BY DEF GrantInv, FilesInv, WitnessRequests, Lifecycle!Requests
    <3> QED
      BY <3>1, <1>3 DEF GrantInv, FilesInv
  <2>2. w.request.nonce < made + 1 /\ w.attestation.created <= w.request.start + MaxClockSkew
    BY <1>3, <1>4, <1>5
  <2> QED
    BY <2>1, <2>2, <1>1, <1>6 DEF GrantInv, FilesInv
<1>9. GrantConsent'
  BY <1>1, <1>4 DEF GrantConsent, Granted
<1> QED
  BY <1>7, <1>8, <1>9

\* The signer only adds to the printed authorizations.
LEMMA SignerStep ==
  ASSUME GrantInv, NEW o \in Operators, NEW t \in Times,
         \/ Decline(o)
         \/ \E w \in asked : Consider(o, w, t)
         \/ \E created \in Times : Grant(o, t, created)
  PROVE  RowInv' /\ FilesInv' /\ GrantConsent'
<1>1. /\ UNCHANGED <<vars, hasTable, table, current, made, asked>>
      /\ considering' \in [Operators -> asked \cup {Null}]
      /\ grants \subseteq grants'
      /\ \A g \in grants' : g.request \in asked /\ g.created \in Times
  <2>1. considering \in [Operators -> asked \cup {Null}]
        /\ \A g \in grants : g.request \in asked /\ g.created \in Times
    BY DEF GrantInv, FilesInv
  <2>2. CASE Decline(o)
    BY <2>1, <2>2 DEF Decline, rowVars
  <2>3. ASSUME NEW w \in asked, Consider(o, w, t)
        PROVE  <1>1!:
    BY <2>1, <2>3 DEF Consider, rowVars
  <2>4. ASSUME NEW created \in Times, Grant(o, t, created)
        PROVE  <1>1!:
    BY <2>1, <2>4 DEF Grant, rowVars
  <2> QED
    BY <2>2, <2>3, <2>4
<1>2. RowInv' /\ FilesInv'
  BY <1>1 DEF GrantInv, RowInv, FilesInv, Granted
<1>3. GrantConsent'
  BY <1>1 DEF GrantInv, GrantConsent, Granted, vars, Commissioned,
     Lifecycle!ExpiresAt, Lifecycle!WindowEnd
<1> QED
  BY <1>2, <1>3

\* authorize: the grant answers the request of the row.
LEMMA AuthorizeStep ==
  ASSUME GrantInv, NEW g \in grants, Authorize(g)
  PROVE  RowInv' /\ FilesInv' /\ GrantConsent'
<1> DEFINE e == [type |-> "grant", request |-> current, created |-> g.created]
<1>1. /\ current # Null /\ current.type = "request"
      /\ current' = e /\ hasTable' = TRUE /\ table' = Append(Lifecycle!Rows, e)
      /\ UNCHANGED <<vars, made, asked, considering, grants>>
  BY DEF Authorize, Lifecycle!Authorize, Lifecycle!IsPending
<1>2. /\ current \in Lifecycle!Requests(Terms) /\ current.nonce = made - 1
      /\ g.request \in asked /\ g.created \in Nat
  BY <1>1, CommissioningAssumption DEF CommissioningAssumption, GrantInv, RowInv, FilesInv
<1>3. current' # Null
  <2>1. e \in Lifecycle!GrantRows
    BY <1>2 DEF Lifecycle!GrantRows
  <2> QED
    BY <2>1, <1>1, InitialGrantAssumption DEF InitialGrantAssumption
<1>4. current'.type = "grant" /\ current'.request = current /\ current'.created = g.created
  BY <1>1
<1>5. RowInv'
  <2>1. Lifecycle!Rows = <<>>
    BY <1>1 DEF Lifecycle!Rows, GrantInv, RowInv, Granted
  <2>2. table' = <<current'>>
    BY <1>1, <2>1
  <2> QED
    BY <1>1, <1>3, <1>4, <2>2 DEF GrantInv, RowInv, Granted
<1>6. FilesInv'
  BY <1>1 DEF GrantInv, FilesInv
<1>7. GrantConsent'
  <2>1. /\ g.request.request = current /\ g.request.attestation = evidence.attestation
        /\ g.by = evidence.request.operator /\ Commissioned
    BY DEF Authorize, Matches, EvidenceVerifies
  <2>2. current.start <= g.created /\ g.created < Lifecycle!ExpiresAt(current)
    BY DEF Authorize, Lifecycle!Authorize, Lifecycle!GrantVerifies
  <2>3. ASSUME NEW w \in asked PROVE w.request.nonce <= current.nonce
    <3>1. made \in Nat /\ w.request.nonce \in Nat /\ w.request.nonce < made
      BY DEF GrantInv, RowInv, FilesInv, WitnessRequests, Lifecycle!Requests
    <3> QED
      BY <3>1, <1>2
  <2>4. evidence.attestation.created <= g.created + MaxClockSkew
    <3>1. /\ evidence.attestation.created <= current.start + MaxClockSkew
          /\ evidence.attestation \in Attestations
      BY <1>2, <2>1 DEF GrantInv, FilesInv, WitnessRequests
    <3>2. evidence.attestation.created \in Nat /\ current.start \in Nat /\ MaxClockSkew \in Nat
      BY <3>1, <1>2, AttestationTyped, CommissioningAssumption
      DEF CommissioningAssumption, Lifecycle!Requests
    <3> QED
      BY <3>1, <3>2, <1>2, <2>2
  <2>5. /\ Commissioned'
        /\ evidence' = evidence /\ grants' = grants /\ asked' = asked
        /\ Lifecycle!ExpiresAt(current'.request) = Lifecycle!ExpiresAt(current)
    BY <1>1, <1>4, <2>1 DEF vars, Commissioned
  <2> QED
    BY <1>2, <1>4, <2>1, <2>2, <2>3, <2>4, <2>5
    DEF GrantConsent, Lifecycle!ExpiresAt, Lifecycle!WindowEnd
<1> QED
  BY <1>5, <1>6, <1>7

(***************************************************************************)
(* GrantInv is an invariant of the composition.                            *)
(***************************************************************************)
THEOREM GrantInductive == GrantSpec => []GrantInv
<1>1. GrantInit => RowInv /\ FilesInv /\ GrantConsent
  BY DEF GrantInit, RowInv, FilesInv, GrantConsent, Granted
<1>2. GrantInv /\ [GrantNext]_<<vars, grantVars>> => RowInv' /\ FilesInv' /\ GrantConsent'
  <2> SUFFICES ASSUME GrantInv, [GrantNext]_<<vars, grantVars>>
               PROVE  RowInv' /\ FilesInv' /\ GrantConsent'
    OBVIOUS
  <2>1. CASE [Next]_vars /\ UNCHANGED grantVars
    BY <2>1, CommissioningKeeps
  <2>2. ASSUME NEW terms \in Terms, Ask(terms) PROVE RowInv' /\ FilesInv' /\ GrantConsent'
    BY <2>2, AskStep
  <2>3. ASSUME NEW o \in Operators, Decline(o) PROVE RowInv' /\ FilesInv' /\ GrantConsent'
    <3>1. now \in Times
      BY DEF GrantInv, ConsentInv, TypeOK
    <3> QED
      BY <2>3, <3>1, SignerStep
  <2>4. ASSUME NEW o \in Operators, NEW t \in Times,
               \/ \E w \in asked : Consider(o, w, t)
               \/ \E created \in Times : Grant(o, t, created)
        PROVE  RowInv' /\ FilesInv' /\ GrantConsent'
    BY <2>4, SignerStep
  <2>5. ASSUME NEW g \in grants, Authorize(g) PROVE RowInv' /\ FilesInv' /\ GrantConsent'
    BY <2>5, AuthorizeStep
  <2> QED
    BY <2>1, <2>2, <2>3, <2>4, <2>5 DEF GrantNext, GrantStep
<1>3. GrantSpec => []ConsentInv
  BY GrantImplementsCommissioning, ConsentInductive, PTL
<1> QED
  BY <1>1, <1>2, <1>3, PTL DEF GrantSpec, GrantInv

(***************************************************************************)
(* Whoever let a service witness is the operator of its commissioning      *)
(* evidence, in answer to its newest request (authorize in witness.py and  *)
(* sign in operator_signing.py).                                           *)
(***************************************************************************)
THEOREM GrantIsConsented == GrantSpec => []GrantConsent
<1>1. GrantInv => GrantConsent
  BY DEF GrantInv
<1> QED
  BY <1>1, GrantInductive, PTL

=============================================================================
