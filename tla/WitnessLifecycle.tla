--------------------------- MODULE WitnessLifecycle ---------------------------
(***************************************************************************)
(* The commands of witness.py on the administrative database: request,     *)
(* renew, authorize, revoke, suspend and resume.  Each runs in one         *)
(* immediate transaction and rolls back when it raises, so each is one     *)
(* step here and the commands that raise, and those that import an event   *)
(* already accepted, leave the state alone.                                *)
(*                                                                         *)
(* The database has three tables: the row of the current or pending        *)
(* authorization, the history, which a database of an earlier release does *)
(* not have yet, and the local controls.  The commissioning evidence is    *)
(* verified and fixed.                                                     *)
(***************************************************************************)
EXTENDS Integers, Sequences

CONSTANTS
  Terms,         \* what a request may ask for: validity, kinds and policy
  Times,         \* readings of the wall clock
  RequestTTL,    \* REQUEST_TTL_SECONDS
  MaxClockSkew,  \* MAX_CLOCK_SKEW_SECONDS
  LegacyRows,    \* grants an earlier release may have left
  ClockGoesBack, \* the wall clock may be set back
  MaxHistory,    \* bound of the model: accepted events
  MaxRequests,   \* bound of the model: requests made
  MaxControls,   \* bound of the model: local controls recorded
  Null

VARIABLES
  now,       \* time.time()
  hasTable,  \* witness_history exists
  table,     \* rows of witness_history, by sequence
  current,   \* row of witness_authorization: a request, or the latest grant
  controls,  \* rows of witness_controls
  made       \* requests made; the nonce of the next one

rowVars == <<hasTable, table, current>>
vars == <<now, rowVars, controls, made>>

(***************************************************************************)
(* A request starts its window when it is made.  The operator's grant      *)
(* commits to it, and through its previous event to one position of the    *)
(* chain; a revocation does so directly.                                   *)
(***************************************************************************)
Requests(T) == [type: {"request"}, nonce: Nat, sequence: Nat \ {0}, start: Nat, terms: T]
GrantRows == [type: {"grant"}, request: Requests(Terms), created: Nat]
RevocationRows == [type: {"revocation"}, sequence: Nat \ {0}, created: Nat]

ASSUME LifecycleAssumption ==
  /\ Terms \subseteq [validFor: Nat \ {0}, kinds: SUBSET Nat, profile: {"bounded", "operational", "system"}]
  /\ Times \subseteq Nat
  /\ RequestTTL \in Nat \ {0} /\ MaxClockSkew \in Nat
  /\ MaxHistory \in Nat \ {0} /\ MaxRequests \in Nat /\ MaxControls \in Nat
  /\ ClockGoesBack \in BOOLEAN
  /\ Null \notin Requests(Terms) /\ Null \notin GrantRows
  /\ LegacyRows \subseteq GrantRows
  /\ \A g \in LegacyRows :
       /\ g.request.sequence = 1 /\ g.request.start \in Times /\ g.created \in Times
       /\ g.request.start <= g.created
       /\ g.created < g.request.start + g.request.terms.validFor
       /\ g.created < g.request.start + RequestTTL

-----------------------------------------------------------------------------
WindowEnd(r) == r.start + r.terms.validFor
ExpiresAt(r) == IF r.start + RequestTTL < WindowEnd(r) THEN r.start + RequestTTL ELSE WindowEnd(r)

IsPending == current # Null /\ current.type = "request"

\* _history: the only row of an earlier release is its history.
Rows ==
  IF hasTable THEN table
  ELSE IF current # Null /\ current.type = "grant" THEN <<current>> ELSE <<>>

HeadRow == Rows[Len(Rows)]

LatestGrant(rows) ==
  rows[CHOOSE i \in 1 .. Len(rows) :
         rows[i].type = "grant" /\ \A j \in i + 1 .. Len(rows) : rows[j].type # "grant"]

SequenceOf(e) == IF e.type = "grant" THEN e.request.sequence ELSE e.sequence

\* _verify_request and _verify_authorization, at time t.
RequestVerifies(r, t) == r.start <= t + MaxClockSkew
M_GrantVerifies(g, t) ==
  /\ RequestVerifies(g.request, t) /\ t < ExpiresAt(g.request)
  /\ g.request.start <= g.created /\ g.created < ExpiresAt(g.request)
  /\ g.created <= t + MaxClockSkew

GrantVerifies(g, t) ==
  /\ RequestVerifies(g.request, t)
  /\ g.request.start <= g.created /\ g.created < ExpiresAt(g.request)
  /\ g.created <= t + MaxClockSkew

\* _validate_history, on rows read with the current row c, at time t.
HistoryVerifies(rows, c, t) ==
  /\ \A i \in 1 .. Len(rows) :
       /\ SequenceOf(rows[i]) = i
       /\ i > 1 => rows[i - 1].created <= rows[i].created
       /\ rows[i].type = "grant" => GrantVerifies(rows[i], t)
       /\ rows[i].type = "revocation" => i > 1 /\ rows[i - 1].type = "grant"
  /\ (c # Null /\ c.type = "grant" /\ rows # <<>>) => c = LatestGrant(rows)

\* _view also checks a pending request.
ViewVerifies(rows, c, t) ==
  /\ HistoryVerifies(rows, c, t)
  /\ (c # Null /\ c.type = "request") => RequestVerifies(c, t)

\* _check and _view: the state of the signed authority.
StateOf(rows, t) ==
  CASE rows = <<>> -> "not-authorized"
    [] rows # <<>> /\ rows[Len(rows)].type = "revocation" -> "revoked"
    [] rows # <<>> /\ rows[Len(rows)].type = "grant" ->
         LET g == rows[Len(rows)]
         IN IF t < g.created THEN "not-yet-valid"
            ELSE IF t >= WindowEnd(g.request) THEN "expired" ELSE "authorized"

IsSuspended(rows) == rows # <<>> /\ rows[Len(rows)] = "suspend"

-----------------------------------------------------------------------------
NewRequest(terms, sequence) ==
  [type |-> "request", nonce |-> made, sequence |-> sequence, start |-> now, terms |-> terms]

\* request: no authorization was ever accepted.  A request still pending is
\* replaced.
Request(terms) ==
  /\ made < MaxRequests
  /\ Rows = <<>>
  /\ HistoryVerifies(Rows, current, now)
  /\ current' = NewRequest(terms, 1)
  /\ made' = made + 1
  /\ UNCHANGED <<now, hasTable, table, controls>>

M_RenewEarly(terms) ==
  /\ made < MaxRequests
  /\ Rows # <<>>
  /\ HistoryVerifies(Rows, current, now)
  /\ current' = NewRequest(terms, Len(Rows) + 1)
  /\ hasTable' = TRUE /\ table' = Rows
  /\ made' = made + 1
  /\ UNCHANGED <<now, controls>>

M_RenewUnsaved(terms) ==
  /\ made < MaxRequests
  /\ Rows # <<>> /\ HeadRow.created <= now
  /\ HistoryVerifies(Rows, current, now)
  /\ current' = NewRequest(terms, Len(Rows) + 1)
  /\ made' = made + 1
  /\ UNCHANGED <<now, hasTable, table, controls>>

\* request(renew=True): the history of an earlier release is written to its
\* table before the request takes the row.
Renew(terms) ==
  /\ made < MaxRequests
  /\ Rows # <<>> /\ HeadRow.created <= now
  /\ HistoryVerifies(Rows, current, now)
  /\ current' = NewRequest(terms, Len(Rows) + 1)
  /\ hasTable' = TRUE /\ table' = Rows
  /\ made' = made + 1
  /\ UNCHANGED <<now, controls>>

M_AuthorizeBareEvent(created) ==
  LET g == [type |-> "grant", request |-> current, created |-> created] IN
  /\ Len(Rows) < MaxHistory
  /\ HistoryVerifies(Rows, current, now)
  /\ IsPending
  /\ GrantVerifies(g, now) /\ now < ExpiresAt(current)
  /\ current.sequence = Len(Rows) + 1
  /\ Rows # <<>> => HeadRow.created <= created
  /\ hasTable' = TRUE /\ table' = Append(Rows, g)
  /\ current' = [type |-> "grant", created |-> created]
  /\ UNCHANGED <<now, controls, made>>

\* authorize: the operator signed the pending request at created.
Authorize(created) ==
  LET g == [type |-> "grant", request |-> current, created |-> created] IN
  /\ Len(Rows) < MaxHistory
  /\ HistoryVerifies(Rows, current, now)
  /\ IsPending
  /\ GrantVerifies(g, now) /\ now < ExpiresAt(current)
  /\ current.sequence = Len(Rows) + 1
  /\ Rows # <<>> => HeadRow.created <= created
  /\ hasTable' = TRUE /\ table' = Append(Rows, g)
  /\ current' = g
  /\ UNCHANGED <<now, controls, made>>

M_RevokeKeepsRow(created) ==
  LET rows == Append(Rows, [type |-> "revocation", sequence |-> Len(Rows) + 1, created |-> created]) IN
  /\ Len(Rows) < MaxHistory
  /\ HistoryVerifies(Rows, current, now)
  /\ created <= now
  /\ HistoryVerifies(rows, current, now)
  /\ hasTable' = TRUE /\ table' = rows
  /\ UNCHANGED <<now, current, controls, made>>

\* revoke: the operator signed a revocation of the head at created.  A
\* pending renewal is given up.
Revoke(created) ==
  LET rows == Append(Rows, [type |-> "revocation", sequence |-> Len(Rows) + 1, created |-> created]) IN
  /\ Len(Rows) < MaxHistory
  /\ HistoryVerifies(Rows, current, now)
  /\ created <= now
  /\ HistoryVerifies(rows, current, now)
  /\ hasTable' = TRUE /\ table' = rows
  /\ current' = LatestGrant(Rows)
  /\ UNCHANGED <<now, controls, made>>

\* control: suspend, or resume while the signed authority is valid.
Control(action) ==
  /\ Len(controls) < MaxControls
  /\ ViewVerifies(Rows, current, now)
  /\ action = "resume" => StateOf(Rows, now) = "authorized"
  /\ controls' = Append(controls, action)
  /\ UNCHANGED <<now, rowVars, made>>

SetClock(t) ==
  /\ t > now \/ ClockGoesBack
  /\ now' = t
  /\ UNCHANGED <<rowVars, controls, made>>

-----------------------------------------------------------------------------
Init ==
  /\ now \in Times
  /\ hasTable = FALSE /\ table = <<>>
  /\ current \in {Null} \cup LegacyRows
  /\ controls = <<>>
  /\ made = 0

Command ==
  \/ \E terms \in Terms : Request(terms) \/ Renew(terms)
  \/ \E created \in Times : Authorize(created) \/ Revoke(created)
  \/ \E action \in {"suspend", "resume"} : Control(action)

Next == Command \/ \E t \in Times : SetClock(t)

Spec == Init /\ [][Next]_vars

-----------------------------------------------------------------------------
(* What the commands keep.                                                 *)

\* The part of an accepted event that decides permission.
Entry(e) ==
  IF e.type = "grant"
  THEN [type |-> "grant", created |-> e.created, start |-> e.request.start,
        end |-> WindowEnd(e.request), kinds |-> e.request.terms.kinds,
        profile |-> e.request.terms.profile]
  ELSE [type |-> "revocation", created |-> e.created]

Chain == [i \in 1 .. Len(Rows) |-> Entry(Rows[i])]

Offers ==
  {Entry([type |-> "grant", created |-> x[3],
          request |-> [type |-> "request", start |-> x[2], terms |-> x[1]]]) :
     x \in {y \in Terms \X Times \X Times :
              /\ y[2] <= y[3]
              /\ y[3] < ExpiresAt([start |-> y[2], terms |-> y[1]])}}

Abstract == INSTANCE Authority WITH
              history <- Chain, suspended <- IsSuspended(controls), GrantOffers <- Offers

(***************************************************************************)
(* Types of the three tables.                                              *)
(***************************************************************************)
TypeOK ==
  /\ now \in Times /\ hasTable \in BOOLEAN
  /\ table \in Seq(GrantRows \cup RevocationRows) /\ Len(table) <= MaxHistory
  /\ current \in {Null} \cup Requests(Terms) \cup GrantRows
  /\ controls \in Seq({"suspend", "resume"})
  /\ made \in 0 .. MaxRequests

(***************************************************************************)
(* The row of the authorization and the history agree between any two      *)
(* commands: a grant in the row is the latest of the history, so the       *)
(* check for a differing policy in _validate_history only ever rejects a   *)
(* tampered database, and a pending request succeeds the head, was made    *)
(* after it and is the newest request, so authorize can only import what   *)
(* extends the chain.                                                      *)
(***************************************************************************)
RowsAgree ==
  /\ IsPending =>
       /\ current.sequence = Len(Rows) + 1
       /\ Rows # <<>> => HeadRow.created <= current.start
       /\ current.nonce = made - 1
  /\ (current # Null /\ ~IsPending) => Rows # <<>> /\ current = LatestGrant(Rows)
  /\ current = Null => Rows = <<>>

RowsReadable == ViewVerifies(Rows, current, now)

\* More than the skew ahead of the clock.
SignedAhead ==
  \/ \E i \in 1 .. Len(Rows) : Rows[i].type = "grant" /\ Rows[i].created > now + MaxClockSkew
  \/ IsPending /\ current.start > now + MaxClockSkew

(***************************************************************************)
(* No command writes rows that it cannot read again, although each of them *)
(* and every start of the relay verifies all rows against the clock: the   *)
(* rows fail while the clock is behind a grant or the pending request by   *)
(* more than the skew and at no other time, however old their deadlines,   *)
(* and only setting the clock back, never a command, makes them fail.      *)
(***************************************************************************)
StillReadable ==
  [][~RowsReadable' => SignedAhead' /\ (RowsReadable => now' < now)]_vars

(***************************************************************************)
(* The accepted chain is well formed (see Authority).                      *)
(***************************************************************************)
ChainSound == Abstract!ChainSound

(***************************************************************************)
(* Each command does to the accepted chain and the suspension what         *)
(* Authority says, or nothing: no command loses, replaces or reorders an   *)
(* accepted event, a revocation extends a grant, a renewal never lifts a   *)
(* suspension, and a database of an earlier release keeps its grant.       *)
(***************************************************************************)
ImplementsAuthority == Abstract!AuthoritySpec

=============================================================================
