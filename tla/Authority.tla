------------------------------ MODULE Authority ------------------------------
(***************************************************************************)
(* What the administrative database promises its readers: one linear chain *)
(* of operator-signed grants and revocations, and a local suspension that  *)
(* only an administrator lifts.  WitnessLifecycle models how the commands  *)
(* of witness.py keep this promise; AutomaticWitness relies on it.         *)
(*                                                                         *)
(* An entry of the chain is the part of a signed event that decides        *)
(* permission.  An event id commits to the content of the event and to the *)
(* id of its predecessor, so the position of an entry stands for its id.   *)
(***************************************************************************)
EXTENDS Integers, Sequences

CONSTANTS
  GrantOffers,   \* the grants the operator may sign
  Times,         \* the wall-clock readings a command may see
  RequestTTL,    \* REQUEST_TTL_SECONDS
  MaxClockSkew,  \* MAX_CLOCK_SKEW_SECONDS
  MaxHistory     \* bound of the model: length of the chain

VARIABLES
  history,       \* the accepted lifecycle events, oldest first
  suspended      \* the last local control is a suspension

authorityVars == <<history, suspended>>

(***************************************************************************)
(* A grant is signed at created, answers a request made at start and binds *)
(* the window [start, end), the subject kinds and, through the policy it   *)
(* commits to, one clock profile.                                          *)
(***************************************************************************)
ClockModes == {"bounded", "operational", "system"}

Grants == [type: {"grant"}, created: Nat, start: Nat, end: Nat,
           kinds: SUBSET Nat, profile: ClockModes]
Revocations == [type: {"revocation"}, created: Nat]
Entries == Grants \cup Revocations

\* The request expires with its window, or RequestTTL after it was made.
Deadline(g) == IF g.start + RequestTTL < g.end THEN g.start + RequestTTL ELSE g.end

\* The operator signs a grant while its request is open.
SignedInRequestWindow(g) == g.start <= g.created /\ g.created < Deadline(g)

ASSUME AuthorityAssumption ==
  /\ Times \subseteq Nat
  /\ RequestTTL \in Nat /\ MaxClockSkew \in Nat /\ MaxHistory \in Nat \ {0}
  /\ GrantOffers \subseteq {g \in Grants : SignedInRequestWindow(g)}

-----------------------------------------------------------------------------
\* The newest entry of a chain that has one.
HeadEntry == history[Len(history)]

\* Retained evidence is verified again on every read: a clock that fell
\* behind an accepted grant by more than the skew makes the chain unreadable.
EvidenceVerifies(now) ==
  \A i \in 1 .. Len(history) :
    history[i].type = "grant" => history[i].created <= now + MaxClockSkew

InForce(g, now) == g.created <= now /\ now < g.end

AuthorizationState(now) ==
  CASE history = <<>>                 -> "not-authorized"
    [] history # <<>> /\ HeadEntry.type = "revocation" -> "revoked"
    [] history # <<>> /\ HeadEntry.type = "grant" ->
         IF now < HeadEntry.created THEN "not-yet-valid"
         ELSE IF now >= HeadEntry.end THEN "expired" ELSE "authorized"

WitnessingPermitted(now) == AuthorizationState(now) = "authorized" /\ ~suspended

-----------------------------------------------------------------------------
\* Importing a grant: its request was made at or after the head.
Grant(g, now) ==
  /\ Len(history) < MaxHistory
  /\ EvidenceVerifies(now)
  /\ g.created <= now + MaxClockSkew
  /\ now < Deadline(g)
  /\ history # <<>> => HeadEntry.created <= g.start
  /\ history' = Append(history, g)
  /\ UNCHANGED suspended

\* Importing a revocation of the head, which must be a grant.
Revoke(created, now) ==
  /\ Len(history) < MaxHistory
  /\ EvidenceVerifies(now)
  /\ history # <<>> /\ HeadEntry.type = "grant"
  /\ HeadEntry.created <= created /\ created <= now
  /\ history' = Append(history, [type |-> "revocation", created |-> created])
  /\ UNCHANGED suspended

Suspend(now) ==
  /\ EvidenceVerifies(now)
  /\ suspended' = TRUE
  /\ UNCHANGED history

Resume(now) ==
  /\ EvidenceVerifies(now)
  /\ AuthorizationState(now) = "authorized"
  /\ suspended' = FALSE
  /\ UNCHANGED history

\* One administrative command, run when the wall clock reads now.
AdminCommand(now) ==
  \/ \E g \in GrantOffers : Grant(g, now)
  \/ \E created \in Times : Revoke(created, now)
  \/ Suspend(now)
  \/ Resume(now)

AuthorityInit == history = <<>> /\ suspended = FALSE

\* A database of an earlier release holds one grant.
LegacyInit == (\E g \in GrantOffers : history = <<g>>) /\ suspended = FALSE

AuthorityNext == \E now \in Times : AdminCommand(now)

AuthoritySpec == (AuthorityInit \/ LegacyInit) /\ [][AuthorityNext]_authorityVars

-----------------------------------------------------------------------------
(***************************************************************************)
(* The chain is well formed: it starts with a grant, a revocation follows  *)
(* a grant, signed times never go back, and every renewal was requested    *)
(* after the event it succeeds (_validate_history, witness.py).            *)
(***************************************************************************)
ChainSound ==
  \A i \in 1 .. Len(history) :
    IF history[i].type = "grant"
    THEN i > 1 => history[i - 1].created <= history[i].start
    ELSE /\ i > 1
         /\ history[i - 1].type = "grant"
         /\ history[i - 1].created <= history[i].created

=============================================================================
