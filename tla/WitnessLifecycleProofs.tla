------------------------- MODULE WitnessLifecycleProofs -------------------------
(***************************************************************************)
(* Proofs about WitnessLifecycle, for all terms, clock readings, earlier   *)
(* grants and numbers of commands.                                         *)
(***************************************************************************)
EXTENDS WitnessLifecycle, SequenceTheorems, TLAPS

EventRows == GrantRows \cup RevocationRows

\* A pending request was made at a reading of the clock.
StartsInTime == IsPending => current.start \in Times

\* ChainSound, of the rows themselves.
RowsSound ==
  \A i \in 1 .. Len(Rows) :
    IF Rows[i].type = "grant"
    THEN i > 1 => Rows[i - 1].created <= Rows[i].request.start
    ELSE /\ i > 1
         /\ Rows[i - 1].type = "grant" /\ Rows[i - 1].created <= Rows[i].created

\* Each row carries its position.
InSequence == \A i \in 1 .. Len(Rows) : SequenceOf(Rows[i]) = i

\* A grant was signed between its request and the request's deadline.
InWindow(e) ==
  e.type = "grant" => e.request.start <= e.created /\ e.created < ExpiresAt(e.request)

SignedInTime == \A i \in 1 .. Len(Rows) : InWindow(Rows[i])

Inv == TypeOK /\ StartsInTime /\ RowsAgree /\ RowsSound

-----------------------------------------------------------------------------
LEMMA GrantTyped ==
  ASSUME NEW g \in GrantRows
  PROVE  /\ g.type = "grant" /\ g.created \in Nat /\ g.request \in Requests(Terms)
         /\ g # Null /\ g = [type |-> "grant", request |-> g.request, created |-> g.created]
  BY LifecycleAssumption DEF LifecycleAssumption, GrantRows

LEMMA RequestTyped ==
  ASSUME NEW r \in Requests(Terms)
  PROVE  /\ r.type = "request" /\ r.nonce \in Nat /\ r.sequence \in Nat /\ r.start \in Nat
         /\ r.terms \in Terms /\ r # Null
         /\ WindowEnd(r) \in Nat /\ ExpiresAt(r) \in Nat /\ ExpiresAt(r) <= WindowEnd(r)
<1>1. r.terms \in Terms /\ r.start \in Nat
  BY DEF Requests
<1>2. r.terms.validFor \in Nat /\ RequestTTL \in Nat
  BY <1>1, LifecycleAssumption DEF LifecycleAssumption
<1> QED
  BY <1>1, <1>2, LifecycleAssumption DEF LifecycleAssumption, Requests, WindowEnd, ExpiresAt

LEMMA EventTyped ==
  ASSUME NEW e \in EventRows
  PROVE  e.type \in {"grant", "revocation"} /\ e.created \in Nat
  BY GrantTyped DEF EventRows, RevocationRows

LEMMA RowsTyped ==
  ASSUME TypeOK
  PROVE  /\ Rows \in Seq(EventRows) /\ Len(Rows) <= MaxHistory
         /\ ~IsPending /\ current # Null => current \in GrantRows /\ current.type = "grant"
         /\ IsPending => current \in Requests(Terms) /\ current.type = "request"
<1>1. /\ current # Null => \/ current \in Requests(Terms) /\ current.type = "request"
                           \/ current \in GrantRows /\ current.type = "grant"
  BY GrantTyped, RequestTyped DEF TypeOK
<1>2. MaxHistory \in Nat /\ 1 <= MaxHistory /\ table \in Seq(EventRows) /\ Len(table) <= MaxHistory
  BY LifecycleAssumption DEF LifecycleAssumption, TypeOK, EventRows
<1>3. CASE hasTable
  BY <1>1, <1>2, <1>3 DEF Rows, IsPending
<1>4. CASE ~hasTable
  <2>1. CASE current # Null /\ current.type = "grant"
    <3>1. current \in EventRows
      BY <1>1, <2>1 DEF EventRows, GrantRows, Requests
    <3>2. Rows = <<current>>
      BY <1>4, <2>1 DEF Rows
    <3>3. Rows \in Seq(EventRows) /\ Len(Rows) = 1
      BY <3>1, <3>2
    <3> QED
      BY <3>3, <1>1, <1>2, <2>1 DEF IsPending
  <2>2. CASE ~(current # Null /\ current.type = "grant")
    <3>1. Rows = <<>>
      BY <1>4, <2>2 DEF Rows
    <3> QED
      BY <3>1, <1>1, <1>2, <2>2 DEF IsPending
  <2> QED
    BY <2>1, <2>2
<1> QED
  BY <1>3, <1>4

\* The latest grant, when it is the last row or the one before a revocation.
LEMMA LatestIsLast ==
  ASSUME NEW rows \in Seq(EventRows), rows # <<>>, rows[Len(rows)].type = "grant"
  PROVE  LatestGrant(rows) = rows[Len(rows)]
<1> DEFINE P(i) == rows[i].type = "grant" /\ \A j \in i + 1 .. Len(rows) : rows[j].type # "grant"
<1>1. Len(rows) \in 1 .. Len(rows) /\ P(Len(rows))
  OBVIOUS
<1>2. ASSUME NEW i \in 1 .. Len(rows), P(i) PROVE i = Len(rows)
  <2>1. CASE i < Len(rows)
    BY <2>1, <1>2, Len(rows) \in i + 1 .. Len(rows)
  <2> QED
    BY <2>1
<1>3. (CHOOSE i \in 1 .. Len(rows) : P(i)) = Len(rows)
  BY <1>1, <1>2
<1> QED
  BY <1>3 DEF LatestGrant

LEMMA LatestBeforeRevocation ==
  ASSUME NEW rows \in Seq(EventRows), rows # <<>>, rows[Len(rows)].type = "grant",
         NEW e, e.type # "grant"
  PROVE  LatestGrant(Append(rows, e)) = rows[Len(rows)]
<1> DEFINE all == Append(rows, e)
           P(i) == all[i].type = "grant" /\ \A j \in i + 1 .. Len(all) : all[j].type # "grant"
<1>1. /\ Len(all) = Len(rows) + 1 /\ all[Len(all)] = e
      /\ \A i \in 1 .. Len(rows) : all[i] = rows[i]
      /\ Len(rows) \in 1 .. Len(rows)
  OBVIOUS
<1>2. Len(rows) \in 1 .. Len(all) /\ P(Len(rows))
  BY <1>1
<1>3. ASSUME NEW i \in 1 .. Len(all), P(i) PROVE i = Len(rows)
  <2>1. CASE i < Len(rows)
    <3>1. Len(rows) \in i + 1 .. Len(all)
      BY <2>1, <1>1
    <3> QED
      BY <3>1, <1>1, <1>3
  <2>2. CASE i = Len(all)
    BY <2>2, <1>1, <1>3
  <2> QED
    BY <2>1, <2>2, <1>1
<1>4. (CHOOSE i \in 1 .. Len(all) : P(i)) = Len(rows)
  BY <1>2, <1>3
<1> QED
  BY <1>1, <1>4 DEF LatestGrant

-----------------------------------------------------------------------------
\* request and renew: the rows stay, and the newest request is pending.
LEMMA PendingStep ==
  ASSUME Inv, NEW terms \in Terms, Request(terms) \/ Renew(terms)
  PROVE  Inv' /\ Rows' = Rows
<1> DEFINE r == NewRequest(terms, Len(Rows) + 1)
<1>1. /\ Rows \in Seq(EventRows) /\ Len(Rows) \in Nat /\ Len(Rows) <= MaxHistory
      /\ made \in 0 .. MaxRequests /\ made < MaxRequests /\ MaxRequests \in Nat
      /\ now \in Times /\ now \in Nat
  BY RowsTyped, LifecycleAssumption DEF LifecycleAssumption, Inv, TypeOK, Request, Renew
<1>2. current' = r /\ made' = made + 1 /\ UNCHANGED <<now, controls>>
  BY DEF Request, Renew
<1>3. r \in Requests(Terms)
  BY <1>1 DEF NewRequest, Requests
<1>4. /\ r # Null /\ r.type = "request" /\ r.nonce = made /\ r.start = now
      /\ r.sequence = Len(Rows) + 1
  BY <1>3, RequestTyped DEF NewRequest
<1>5. Rows' = Rows /\ hasTable' \in BOOLEAN /\ table' \in Seq(EventRows) /\ Len(table') <= MaxHistory
  <2>1. CASE Request(terms)
    <3>1. Rows = <<>> /\ UNCHANGED <<hasTable, table>>
      BY <2>1 DEF Request
    <3>2. Rows' = <<>>
      BY <3>1, <1>2, <1>4 DEF Rows
    <3> QED
      BY <3>1, <3>2 DEF Inv, TypeOK, EventRows
  <2>2. CASE Renew(terms)
    <3>1. hasTable' = TRUE /\ table' = Rows
      BY <2>2 DEF Renew
    <3> QED
      BY <3>1, <1>1 DEF Rows
  <2> QED
    BY <2>1, <2>2
<1>6. TypeOK'
  BY <1>1, <1>2, <1>3, <1>5 DEF Inv, TypeOK, EventRows
<1>7. Rows # <<>> => HeadRow.created <= now
  BY DEF Request, Renew
<1>8. StartsInTime' /\ RowsAgree'
  BY <1>1, <1>2, <1>4, <1>5, <1>7 DEF StartsInTime, RowsAgree, IsPending, HeadRow
<1>9. RowsSound'
  BY <1>5 DEF Inv, RowsSound
<1> QED
  BY <1>5, <1>6, <1>8, <1>9 DEF Inv

\* authorize: the grant becomes the last row, and the current one.
LEMMA AuthorizeStep ==
  ASSUME Inv, NEW created \in Times, Authorize(created)
  PROVE  /\ Inv' /\ IsPending
         /\ Rows' = Append(Rows, [type |-> "grant", request |-> current, created |-> created])
<1> DEFINE g == [type |-> "grant", request |-> current, created |-> created]
<1>1. /\ IsPending /\ current \in Requests(Terms)
      /\ Rows \in Seq(EventRows) /\ Len(Rows) < MaxHistory /\ MaxHistory \in Nat
      /\ created \in Nat
  BY RowsTyped, LifecycleAssumption DEF LifecycleAssumption, Inv, TypeOK, Authorize
<1>2. g \in GrantRows
  BY <1>1 DEF GrantRows
<1>3. /\ hasTable' = TRUE /\ table' = Append(Rows, g) /\ current' = g
      /\ UNCHANGED <<now, controls, made>>
  BY DEF Authorize
<1>4. Rows' = Append(Rows, g)
  BY <1>3 DEF Rows
<1>5. /\ g \in EventRows /\ g # Null /\ g.type = "grant" /\ g.request = current
      /\ Rows' \in Seq(EventRows) /\ Rows' # <<>> /\ Len(Rows') = Len(Rows) + 1
      /\ Rows'[Len(Rows')] = g /\ \A i \in 1 .. Len(Rows) : Rows'[i] = Rows[i]
  BY <1>1, <1>2, <1>4, GrantTyped DEF EventRows
<1>6. TypeOK'
  BY <1>1, <1>2, <1>3, <1>4, <1>5 DEF Inv, TypeOK, EventRows
<1>7. LatestGrant(Rows') = g
  BY <1>5, LatestIsLast
<1>8. StartsInTime' /\ RowsAgree'
  BY <1>3, <1>5, <1>7 DEF StartsInTime, RowsAgree, IsPending, LatestGrant
<1>9. RowsSound'
  <2>1. Rows # <<>> => Rows[Len(Rows)].created <= current.start
    BY <1>1 DEF Inv, RowsAgree, HeadRow
  <2>2. ASSUME NEW i \in 1 .. Len(Rows')
        PROVE  IF Rows'[i].type = "grant"
               THEN i > 1 => Rows'[i - 1].created <= Rows'[i].request.start
               ELSE /\ i > 1
                    /\ Rows'[i - 1].type = "grant" /\ Rows'[i - 1].created <= Rows'[i].created
    <3>1. CASE i = Len(Rows')
      <4>1. i > 1 => Rows # <<>> /\ Rows'[i - 1] = Rows[Len(Rows)]
        BY <3>1, <1>1, <1>5
      <4> QED
        BY <3>1, <4>1, <2>1, <1>5
    <3>2. CASE i \in 1 .. Len(Rows)
      <4>1. Rows'[i] = Rows[i] /\ (i > 1 => Rows'[i - 1] = Rows[i - 1])
        BY <3>2, <1>1, <1>5
      <4> QED
        BY <3>2, <4>1 DEF Inv, RowsSound
    <3> QED
      BY <3>1, <3>2, <1>1, <1>5
  <2> QED
    BY <2>2 DEF RowsSound
<1> QED
  BY <1>1, <1>4, <1>6, <1>8, <1>9 DEF Inv

\* revoke: a revocation follows the grant at the head, which is current again.
LEMMA RevokeStep ==
  ASSUME Inv, NEW created \in Times, Revoke(created)
  PROVE  /\ Inv' /\ Rows # <<>> /\ HeadRow.type = "grant" /\ HeadRow.created <= created
         /\ \E sequence \in Nat :
              Rows' = Append(Rows, [type |-> "revocation", sequence |-> sequence, created |-> created])
<1> DEFINE v == [type |-> "revocation", sequence |-> Len(Rows) + 1, created |-> created]
           all == Append(Rows, v)
<1>1. /\ Rows \in Seq(EventRows) /\ Len(Rows) < MaxHistory /\ MaxHistory \in Nat
      /\ Len(Rows) \in Nat /\ created \in Nat
  BY RowsTyped, LifecycleAssumption DEF LifecycleAssumption, Inv, TypeOK, Revoke
<1>2. /\ hasTable' = TRUE /\ table' = all /\ current' = LatestGrant(Rows)
      /\ UNCHANGED <<now, controls, made>> /\ HistoryVerifies(all, current, now)
  BY DEF Revoke
<1>3. v \in RevocationRows /\ v.type = "revocation" /\ v.created = created
  BY <1>1 DEF RevocationRows
<1>4. /\ Len(all) = Len(Rows) + 1 /\ all[Len(all)] = v
      /\ \A i \in 1 .. Len(Rows) : all[i] = Rows[i]
      /\ all \in Seq(EventRows)
  BY <1>1, <1>3 DEF EventRows
<1>5. Rows # <<>> /\ HeadRow.type = "grant" /\ HeadRow.created <= created
  <2>1. /\ Len(all) > 1 => all[Len(all) - 1].created <= v.created
        /\ Len(all) > 1 /\ all[Len(all) - 1].type = "grant"
    BY <1>1, <1>2, <1>3, <1>4 DEF HistoryVerifies
  <2> QED
    BY <2>1, <1>1, <1>3, <1>4 DEF HeadRow
<1>6. Rows' = all
  BY <1>2 DEF Rows
<1>7. /\ current' = HeadRow /\ HeadRow \in GrantRows /\ current' # Null /\ current'.type = "grant"
  <2>1. LatestGrant(Rows) = HeadRow
    BY <1>1, <1>5, LatestIsLast DEF HeadRow
  <2>2. HeadRow \in EventRows
    BY <1>1, <1>5 DEF HeadRow
  <2>3. HeadRow \in GrantRows
    BY <2>2, <1>5 DEF EventRows, RevocationRows
  <2> QED
    BY <2>1, <2>3, <1>2, GrantTyped
<1>8. TypeOK'
  BY <1>1, <1>2, <1>4, <1>7 DEF Inv, TypeOK, EventRows
<1>9. StartsInTime' /\ RowsAgree'
  <2>1. LatestGrant(all) = HeadRow
    BY <1>1, <1>3, <1>5, LatestBeforeRevocation DEF HeadRow
  <2>2. all # <<>>
    BY <1>1, <1>4
  <2> QED
    BY <2>1, <2>2, <1>6, <1>7 DEF StartsInTime, RowsAgree, IsPending, LatestGrant
<1>10. RowsSound'
  <2>1. ASSUME NEW i \in 1 .. Len(all)
        PROVE  IF all[i].type = "grant"
               THEN i > 1 => all[i - 1].created <= all[i].request.start
               ELSE /\ i > 1
                    /\ all[i - 1].type = "grant" /\ all[i - 1].created <= all[i].created
    <3>1. CASE i = Len(all)
      <4>1. i > 1 /\ all[i - 1] = HeadRow
        BY <3>1, <1>1, <1>4, <1>5 DEF HeadRow
      <4> QED
        BY <3>1, <4>1, <1>3, <1>4, <1>5
    <3>2. CASE i \in 1 .. Len(Rows)
      <4>1. all[i] = Rows[i] /\ (i > 1 => all[i - 1] = Rows[i - 1])
        BY <3>2, <1>1, <1>4
      <4> QED
        BY <3>2, <4>1 DEF Inv, RowsSound
    <3> QED
      BY <3>1, <3>2, <1>1, <1>4
  <2> QED
    BY <2>1, <1>6 DEF RowsSound
<1>11. \E sequence \in Nat :
         Rows' = Append(Rows, [type |-> "revocation", sequence |-> sequence, created |-> created])
  BY <1>1, <1>6
<1> QED
  BY <1>5, <1>8, <1>9, <1>10, <1>11 DEF Inv

\* The other steps leave the rows alone.
LEMMA OtherStep ==
  ASSUME Inv, UNCHANGED <<rowVars, made>>, now' \in Times,
         controls' \in Seq({"suspend", "resume"})
  PROVE  Inv' /\ Rows' = Rows
<1>1. UNCHANGED <<hasTable, table, current, made>>
  BY DEF rowVars
<1>2. Rows' = Rows
  BY <1>1 DEF Rows
<1> QED
  BY <1>1, <1>2 DEF Inv, TypeOK, StartsInTime, RowsAgree, RowsSound, IsPending, HeadRow, LatestGrant

LEMMA LifecycleStep ==
  ASSUME Inv, [Next]_vars
  PROVE  Inv'
<1>1. ASSUME NEW terms \in Terms, Request(terms) \/ Renew(terms) PROVE Inv'
  BY <1>1, PendingStep
<1>2. ASSUME NEW created \in Times, Authorize(created) PROVE Inv'
  BY <1>2, AuthorizeStep
<1>3. ASSUME NEW created \in Times, Revoke(created) PROVE Inv'
  BY <1>3, RevokeStep
<1>4. ASSUME NEW action \in {"suspend", "resume"}, Control(action) PROVE Inv'
  BY <1>4, OtherStep DEF Control, Inv, TypeOK
<1>5. ASSUME NEW t \in Times, SetClock(t) PROVE Inv'
  BY <1>5, OtherStep DEF SetClock, Inv, TypeOK
<1>6. CASE UNCHANGED vars
  BY <1>6, OtherStep DEF vars, Inv, TypeOK
<1> QED
  BY <1>1, <1>2, <1>3, <1>4, <1>5, <1>6 DEF Next, Command

LEMMA InitInv == Init => Inv
<1> SUFFICES ASSUME Init PROVE Inv
  OBVIOUS
<1>1. /\ now \in Times /\ hasTable = FALSE /\ table = <<>> /\ controls = <<>> /\ made = 0
      /\ MaxHistory \in Nat /\ MaxRequests \in Nat
  BY LifecycleAssumption DEF LifecycleAssumption, Init
<1>2. CASE current = Null
  <2>1. Rows = <<>> /\ ~IsPending
    BY <1>1, <1>2 DEF Rows, IsPending
  <2>2. TypeOK
    <3>1. /\ <<>> \in Seq(GrantRows \cup RevocationRows) /\ Len(<<>>) <= MaxHistory
          /\ <<>> \in Seq({"suspend", "resume"}) /\ 0 \in 0 .. MaxRequests
      BY <1>1, LifecycleAssumption DEF LifecycleAssumption
    <3> QED
      BY <3>1, <1>1, <1>2 DEF TypeOK
  <2>3. StartsInTime /\ RowsAgree
    BY <1>2, <2>1 DEF StartsInTime, RowsAgree
  <2>4. Len(Rows) = 0
    BY <2>1
  <2>5. RowsSound
    BY <2>4 DEF RowsSound
  <2> QED
    BY <2>2, <2>3, <2>5 DEF Inv
<1>3. CASE current \in LegacyRows
  <2>1. current \in GrantRows /\ current.type = "grant" /\ current # Null
    BY <1>3, GrantTyped, LifecycleAssumption DEF LifecycleAssumption
  <2>2. Rows = <<current>> /\ ~IsPending
    BY <1>1, <2>1 DEF Rows, IsPending
  <2>3. /\ Rows \in Seq(EventRows) /\ Rows # <<>> /\ Len(Rows) = 1
        /\ Rows[1] = current /\ 1 .. Len(Rows) = {1}
    BY <2>1, <2>2 DEF EventRows
  <2>4. LatestGrant(Rows) = current
    BY <2>1, <2>3, LatestIsLast
  <2>5. TypeOK
    <3>1. /\ <<>> \in Seq(GrantRows \cup RevocationRows) /\ Len(<<>>) <= MaxHistory
          /\ <<>> \in Seq({"suspend", "resume"}) /\ 0 \in 0 .. MaxRequests
      BY <1>1, LifecycleAssumption DEF LifecycleAssumption
    <3> QED
      BY <3>1, <1>1, <2>1 DEF TypeOK
  <2>6. StartsInTime /\ RowsAgree
    BY <2>1, <2>2, <2>3, <2>4 DEF StartsInTime, RowsAgree
  <2>7. RowsSound
    BY <2>1, <2>3 DEF RowsSound
  <2> QED
    BY <2>5, <2>6, <2>7 DEF Inv
<1> QED
  BY <1>2, <1>3 DEF Init

(***************************************************************************)
(* Inv is an invariant, on a new database and on one of an earlier         *)
(* release.                                                                *)
(***************************************************************************)
THEOREM LifecycleInductive == Spec => []Inv
<1>1. Init => Inv
  BY InitInv
<1>2. Inv /\ [Next]_vars => Inv'
  BY LifecycleStep
<1> QED
  BY <1>1, <1>2, PTL DEF Spec

(***************************************************************************)
(* The tables keep their types (TypeOK).                                   *)
(***************************************************************************)
THEOREM TablesTyped == Spec => []TypeOK
<1>1. Inv => TypeOK
  BY DEF Inv
<1> QED
  BY <1>1, LifecycleInductive, PTL

(***************************************************************************)
(* Between any two commands the row of the authorization and the history   *)
(* agree (RowsAgree).                                                      *)
(***************************************************************************)
THEOREM RowsAlwaysAgree == Spec => []RowsAgree
<1>1. Inv => RowsAgree
  BY DEF Inv
<1> QED
  BY <1>1, LifecycleInductive, PTL

-----------------------------------------------------------------------------
\* A step leaves the rows alone or appends one with the next position, which
\* was signed in time if it is a grant.
LEMMA RowsGrow ==
  ASSUME Inv, [Next]_vars
  PROVE  \/ Rows' = Rows
         \/ \E e \in EventRows :
              SequenceOf(e) = Len(Rows) + 1 /\ InWindow(e) /\ Rows' = Append(Rows, e)
<1> DEFINE Grown == \E e \in EventRows :
                      SequenceOf(e) = Len(Rows) + 1 /\ InWindow(e) /\ Rows' = Append(Rows, e)
<1>1. Rows \in Seq(EventRows) /\ Len(Rows) \in Nat
  BY RowsTyped DEF Inv
<1>2. ASSUME NEW created \in Times, Authorize(created) PROVE Grown
  <2> DEFINE g == [type |-> "grant", request |-> current, created |-> created]
  <2>1. /\ Rows' = Append(Rows, g) /\ IsPending /\ current \in Requests(Terms)
        /\ created \in Nat /\ current.sequence = Len(Rows) + 1
    BY <1>2, AuthorizeStep, RowsTyped, LifecycleAssumption
       DEF LifecycleAssumption, Inv, RowsAgree
  <2>2. g \in EventRows /\ SequenceOf(g) = Len(Rows) + 1
    BY <2>1 DEF EventRows, GrantRows, SequenceOf
  <2>3. InWindow(g)
    BY <1>2 DEF Authorize, GrantVerifies, InWindow
  <2> QED
    BY <2>1, <2>2, <2>3
<1>3. ASSUME NEW created \in Times, Revoke(created) PROVE Grown
  <2> DEFINE v == [type |-> "revocation", sequence |-> Len(Rows) + 1, created |-> created]
  <2>1. Rows' = Append(Rows, v) /\ created \in Nat
    BY <1>3, LifecycleAssumption DEF LifecycleAssumption, Revoke, Rows
  <2>2. v \in EventRows /\ SequenceOf(v) = Len(Rows) + 1 /\ InWindow(v)
    BY <1>1, <2>1 DEF EventRows, RevocationRows, SequenceOf, InWindow
  <2> QED
    BY <2>1, <2>2
<1>4. ASSUME NEW terms \in Terms, Request(terms) \/ Renew(terms) PROVE Rows' = Rows
  BY <1>4, PendingStep
<1>5. ASSUME NEW action \in {"suspend", "resume"}, Control(action) PROVE Rows' = Rows
  BY <1>5 DEF Control, rowVars, Rows
<1>6. ASSUME NEW t \in Times, SetClock(t) PROVE Rows' = Rows
  BY <1>6 DEF SetClock, rowVars, Rows
<1>7. CASE UNCHANGED vars
  BY <1>7 DEF vars, rowVars, Rows
<1> QED
  BY <1>2, <1>3, <1>4, <1>5, <1>6, <1>7 DEF Next, Command

\* What a row must have by itself stays with the rows there are.
LEMMA SequenceStep ==
  ASSUME Inv, InSequence, [Next]_vars
  PROVE  InSequence'
<1>1. Rows \in Seq(EventRows) /\ Len(Rows) \in Nat
  BY RowsTyped DEF Inv
<1>2. CASE Rows' = Rows
  BY <1>2 DEF InSequence, SequenceOf
<1>3. ASSUME NEW e \in EventRows, SequenceOf(e) = Len(Rows) + 1, Rows' = Append(Rows, e)
      PROVE  InSequence'
  <2>1. /\ Len(Rows') = Len(Rows) + 1 /\ Rows'[Len(Rows) + 1] = e
        /\ \A i \in 1 .. Len(Rows) : Rows'[i] = Rows[i]
    BY <1>1, <1>3, AppendProperties
  <2>2. ASSUME NEW i \in 1 .. Len(Rows') PROVE SequenceOf(Rows'[i]) = i
    BY <1>1, <1>3, <2>1, <2>2 DEF InSequence
  <2> QED
    BY <2>2 DEF InSequence, SequenceOf
<1> QED
  BY <1>2, <1>3, RowsGrow

LEMMA SignedStep ==
  ASSUME Inv, SignedInTime, [Next]_vars
  PROVE  SignedInTime'
<1>1. Rows \in Seq(EventRows) /\ Len(Rows) \in Nat
  BY RowsTyped DEF Inv
<1>2. CASE Rows' = Rows
  BY <1>2 DEF SignedInTime, InWindow, ExpiresAt, WindowEnd
<1>3. ASSUME NEW e \in EventRows, InWindow(e), Rows' = Append(Rows, e)
      PROVE  SignedInTime'
  <2>1. /\ Len(Rows') = Len(Rows) + 1 /\ Rows'[Len(Rows) + 1] = e
        /\ \A i \in 1 .. Len(Rows) : Rows'[i] = Rows[i]
    BY <1>1, <1>3, AppendProperties
  <2>2. ASSUME NEW i \in 1 .. Len(Rows') PROVE InWindow(Rows'[i])
    BY <1>1, <1>3, <2>1, <2>2 DEF SignedInTime
  <2> QED
    BY <2>2 DEF SignedInTime, InWindow, ExpiresAt, WindowEnd
<1> QED
  BY <1>2, <1>3, RowsGrow

-----------------------------------------------------------------------------
(* What a command writes it can read again.                                *)

ReadInv == Inv /\ InSequence /\ SignedInTime

LEMMA ReadInductive == Spec => []ReadInv
<1>1. Init => InSequence /\ SignedInTime
  <2> SUFFICES ASSUME Init PROVE InSequence /\ SignedInTime
    OBVIOUS
  <2>1. CASE current = Null
    <3>1. Len(Rows) = 0
      BY <2>1 DEF Init, Rows
    <3> QED
      BY <3>1 DEF InSequence, SignedInTime
  <2>2. CASE current \in LegacyRows
    <3>1. /\ current \in GrantRows /\ current.type = "grant" /\ current # Null
          /\ current.request \in Requests(Terms) /\ current.created \in Nat
      BY <2>2, GrantTyped, LifecycleAssumption DEF LifecycleAssumption
    <3>2. Rows = <<current>>
      BY <3>1 DEF Init, Rows
    <3>3. Len(Rows) = 1 /\ Rows[1] = current
      BY <3>2
    <3>4. current.request.sequence = 1 /\ InWindow(current)
      BY <2>2, <3>1, LifecycleAssumption DEF LifecycleAssumption, InWindow, ExpiresAt, WindowEnd
    <3> QED
      BY <3>1, <3>3, <3>4 DEF InSequence, SignedInTime, SequenceOf
  <2> QED
    BY <2>1, <2>2 DEF Init
<1>2. ReadInv /\ [Next]_vars => ReadInv'
  BY LifecycleStep, SequenceStep, SignedStep DEF ReadInv
<1> QED
  BY <1>1, <1>2, InitInv, PTL DEF Spec, ReadInv

\* Nothing but the clock keeps rows from verifying.
LEMMA OnlyBehind ==
  ASSUME ReadInv, ~SignedAhead
  PROVE  RowsReadable
<1>1. /\ Rows \in Seq(EventRows) /\ Len(Rows) \in Nat
      /\ now \in Nat /\ MaxClockSkew \in Nat
  BY RowsTyped, LifecycleAssumption DEF LifecycleAssumption, ReadInv, Inv, TypeOK
<1>2. ASSUME NEW i \in 1 .. Len(Rows)
      PROVE  /\ SequenceOf(Rows[i]) = i
             /\ i > 1 => Rows[i - 1].created <= Rows[i].created
             /\ Rows[i].type = "grant" => GrantVerifies(Rows[i], now)
             /\ Rows[i].type = "revocation" => i > 1 /\ Rows[i - 1].type = "grant"
  <2>1. SequenceOf(Rows[i]) = i /\ InWindow(Rows[i])
    BY DEF ReadInv, InSequence, SignedInTime
  <2>2. /\ Rows[i] \in EventRows /\ Rows[i].created \in Nat
        /\ Rows[i].type \in {"grant", "revocation"}
        /\ i > 1 => Rows[i - 1].created \in Nat
    BY <1>1, EventTyped
  <2>3. IF Rows[i].type = "grant"
        THEN i > 1 => Rows[i - 1].created <= Rows[i].request.start
        ELSE i > 1 /\ Rows[i - 1].type = "grant" /\ Rows[i - 1].created <= Rows[i].created
    BY DEF ReadInv, Inv, RowsSound
  <2>4. CASE Rows[i].type = "grant"
    <3>1. Rows[i].request \in Requests(Terms)
      BY <2>2, <2>4, GrantTyped DEF EventRows, RevocationRows
    <3>2. Rows[i].request.start \in Nat /\ ExpiresAt(Rows[i].request) \in Nat
      BY <3>1, RequestTyped
    <3>3. /\ Rows[i].request.start <= Rows[i].created
          /\ Rows[i].created < ExpiresAt(Rows[i].request)
          /\ Rows[i].created <= now + MaxClockSkew
      BY <1>1, <2>1, <2>2, <2>4 DEF InWindow, SignedAhead
    <3> QED
      BY <1>1, <2>1, <2>2, <2>3, <2>4, <3>2, <3>3 DEF GrantVerifies, RequestVerifies
  <2>5. CASE Rows[i].type = "revocation"
    BY <2>1, <2>3, <2>5
  <2> QED
    BY <2>2, <2>4, <2>5
<1>3. current # Null /\ current.type = "grant" => current = LatestGrant(Rows)
  BY DEF ReadInv, Inv, RowsAgree, IsPending
<1>4. current # Null /\ current.type = "request" => RequestVerifies(current, now)
  <2>1. current # Null /\ current.type = "request" => current.start \in Nat
    BY RowsTyped, RequestTyped DEF ReadInv, Inv, IsPending
  <2> QED
    BY <1>1, <2>1 DEF RequestVerifies, SignedAhead, IsPending
<1> QED
  BY <1>2, <1>3, <1>4 DEF RowsReadable, ViewVerifies, HistoryVerifies

\* Every command checks what it writes against the same clock.
LEMMA OnlySetBack ==
  ASSUME ReadInv, [Next]_vars, RowsReadable, SignedAhead'
  PROVE  now' < now
<1>1. /\ Rows \in Seq(EventRows) /\ Len(Rows) \in Nat
      /\ now \in Nat /\ now' \in Nat /\ MaxClockSkew \in Nat
  <2>1. Inv /\ Inv'
    BY LifecycleStep DEF ReadInv
  <2>2. now \in Times /\ now' \in Times
    BY <2>1 DEF Inv, TypeOK
  <2> QED
    BY <2>1, <2>2, RowsTyped, LifecycleAssumption DEF LifecycleAssumption, Inv
<1>2. /\ \A i \in 1 .. Len(Rows) :
           Rows[i].type = "grant" => Rows[i].created \in Nat /\ Rows[i].created <= now + MaxClockSkew
      /\ IsPending => current.start \in Nat /\ current.start <= now + MaxClockSkew
  <2>1. \A i \in 1 .. Len(Rows) : Rows[i].created \in Nat
    BY <1>1, EventTyped
  <2>2. IsPending => current.start \in Nat
    BY RowsTyped, RequestTyped DEF ReadInv, Inv
  <2> QED
    BY <2>1, <2>2
    DEF RowsReadable, ViewVerifies, HistoryVerifies, GrantVerifies, RequestVerifies, IsPending
<1>3. CASE Rows' = Rows /\ current' = current
  <2>1. CASE \E i \in 1 .. Len(Rows) : Rows[i].type = "grant" /\ Rows[i].created > now' + MaxClockSkew
    BY <1>1, <1>2, <2>1
  <2>2. CASE IsPending /\ current.start > now' + MaxClockSkew
    BY <1>1, <1>2, <2>2
  <2> QED
    BY <1>3, <2>1, <2>2 DEF SignedAhead, IsPending
<1>4. ASSUME NEW terms \in Terms, Request(terms) \/ Renew(terms) PROVE FALSE
  <2>1. Rows' = Rows
    BY <1>4, PendingStep DEF ReadInv
  <2>2. now' = now /\ \E sequence : current' = NewRequest(terms, sequence)
    BY <1>4 DEF Request, Renew
  <2>3. current'.start = now
    BY <2>2 DEF NewRequest
  <2> QED
    BY <1>1, <1>2, <2>1, <2>2, <2>3 DEF SignedAhead
<1>5. ASSUME NEW created \in Times, Authorize(created) PROVE FALSE
  <2> DEFINE g == [type |-> "grant", request |-> current, created |-> created]
  <2>1. /\ Rows' = Append(Rows, g) /\ now' = now /\ current' = g
        /\ g.created <= now + MaxClockSkew /\ created \in Nat
    BY <1>5, AuthorizeStep, LifecycleAssumption
    DEF LifecycleAssumption, Authorize, GrantVerifies, ReadInv
  <2>2. /\ Len(Rows') = Len(Rows) + 1 /\ Rows'[Len(Rows) + 1] = g
        /\ \A i \in 1 .. Len(Rows) : Rows'[i] = Rows[i]
    BY <1>1, <2>1, AppendProperties
  <2>3. ASSUME NEW i \in 1 .. Len(Rows'), Rows'[i].type = "grant"
        PROVE  ~(Rows'[i].created > now' + MaxClockSkew)
    BY <1>1, <1>2, <2>1, <2>2, <2>3
  <2> QED
    BY <2>1, <2>3 DEF SignedAhead, IsPending
<1>6. ASSUME NEW created \in Times, Revoke(created) PROVE FALSE
  <2>1. PICK v : v.type = "revocation" /\ Rows' = Append(Rows, v)
    BY <1>6, RevokeStep DEF ReadInv
  <2>2. now' = now /\ current' = LatestGrant(Rows)
    BY <1>6 DEF Revoke
  <2>3. /\ Len(Rows') = Len(Rows) + 1 /\ Rows'[Len(Rows) + 1] = v
        /\ \A i \in 1 .. Len(Rows) : Rows'[i] = Rows[i]
    BY <1>1, <2>1
  <2>4. ASSUME NEW i \in 1 .. Len(Rows'), Rows'[i].type = "grant"
        PROVE  ~(Rows'[i].created > now' + MaxClockSkew)
    BY <1>1, <1>2, <2>1, <2>2, <2>3, <2>4
  <2>5. ~IsPending'
    <3>1. Rows # <<>> /\ HeadRow.type = "grant"
      BY <1>6, RevokeStep DEF ReadInv
    <3>2. LatestGrant(Rows) = HeadRow
      BY <1>1, <3>1, LatestIsLast DEF HeadRow
    <3> QED
      BY <2>2, <3>1, <3>2 DEF IsPending
  <2> QED
    BY <2>4, <2>5 DEF SignedAhead
<1>7. ASSUME \/ \E action \in {"suspend", "resume"} : Control(action)
             \/ \E t \in Times : SetClock(t)
             \/ UNCHANGED vars
      PROVE  Rows' = Rows /\ current' = current
  BY <1>7 DEF Control, SetClock, vars, rowVars, Rows
<1> QED
  BY <1>3, <1>4, <1>5, <1>6, <1>7 DEF Next, Command

(***************************************************************************)
(* The rows fail to verify only while the clock is behind what was signed  *)
(* by more than the skew, and only setting it back makes them fail         *)
(* (StillReadable): no command locks its successors out.                   *)
(***************************************************************************)
THEOREM RowsStayReadable == Spec => StillReadable
<1>1. ReadInv' => (~RowsReadable' => SignedAhead')
  <2>1. ReadInv => (~RowsReadable => SignedAhead)
    BY OnlyBehind
  <2> QED
    BY <2>1, PTL
<1>2. ReadInv /\ ReadInv' /\ [Next]_vars =>
        [~RowsReadable' => SignedAhead' /\ (RowsReadable => now' < now)]_vars
  BY <1>1, OnlySetBack
<1> QED
  BY <1>2, ReadInductive, PTL DEF Spec, StillReadable

-----------------------------------------------------------------------------
\* The chain has one entry for each row.
LEMMA ChainOfRows ==
  ASSUME Rows \in Seq(EventRows)
  PROVE  /\ Len(Chain) = Len(Rows) /\ DOMAIN Chain = 1 .. Len(Rows)
         /\ (Chain = <<>>) <=> (Rows = <<>>)
         /\ \A i \in 1 .. Len(Rows) : Chain[i] = Entry(Rows[i])
<1> DEFINE S == {Entry(e) : e \in EventRows}
<1>1. Len(Rows) \in Nat /\ \A i \in 1 .. Len(Rows) : Entry(Rows[i]) \in S
  OBVIOUS
<1>2. Chain \in [1 .. Len(Rows) -> S]
  BY <1>1 DEF Chain
<1>3. Chain \in Seq(S) /\ Len(Chain) = Len(Rows)
  BY <1>1, <1>2
<1> QED
  BY <1>1, <1>3 DEF Chain

LEMMA EntryTyped ==
  ASSUME NEW e \in EventRows
  PROVE  /\ Entry(e).type = e.type /\ Entry(e).created = e.created
         /\ e.type = "grant" => /\ Entry(e).start = e.request.start
                                /\ Entry(e).end = WindowEnd(e.request)
                                /\ e \in GrantRows
  BY EventTyped DEF Entry, EventRows, RevocationRows

(***************************************************************************)
(* The chain is always well formed (ChainSound): it starts with a grant, a *)
(* revocation follows a grant, signed times never go back, and a renewal   *)
(* was requested after the event it succeeds.                              *)
(***************************************************************************)
THEOREM ChainAlwaysSound == Spec => []ChainSound
<1>1. Inv => ChainSound
  <2> SUFFICES ASSUME Inv PROVE ChainSound
    OBVIOUS
  <2>1. Rows \in Seq(EventRows)
    BY RowsTyped DEF Inv
  <2>2. ASSUME NEW i \in 1 .. Len(Chain)
        PROVE  IF Chain[i].type = "grant"
               THEN i > 1 => Chain[i - 1].created <= Chain[i].start
               ELSE /\ i > 1
                    /\ Chain[i - 1].type = "grant" /\ Chain[i - 1].created <= Chain[i].created
    <3>1. i \in 1 .. Len(Rows) /\ Rows[i] \in EventRows /\ Chain[i] = Entry(Rows[i])
      BY <2>1, ChainOfRows
    <3>2. i > 1 => /\ i - 1 \in 1 .. Len(Rows) /\ Rows[i - 1] \in EventRows
                   /\ Chain[i - 1] = Entry(Rows[i - 1])
      BY <2>1, <3>1, ChainOfRows
    <3> QED
      BY <3>1, <3>2, EntryTyped DEF Inv, RowsSound
  <2> QED
    BY <2>2 DEF ChainSound, Abstract!ChainSound
<1> QED
  BY <1>1, LifecycleInductive, PTL

-----------------------------------------------------------------------------
\* A grant whose request was made and which was signed in time is on offer.
LEMMA GrantOffered ==
  ASSUME NEW g \in GrantRows, g.request.start \in Times, g.created \in Times,
         g.request.start <= g.created, g.created < ExpiresAt(g.request)
  PROVE  Entry(g) \in Offers
<1> DEFINE r == g.request
           y == <<r.terms, r.start, g.created>>
           h == [type |-> "grant", created |-> y[3],
                 request |-> [type |-> "request", start |-> y[2], terms |-> y[1]]]
<1>1. g.type = "grant" /\ r \in Requests(Terms) /\ r.terms \in Terms
  BY GrantTyped, RequestTyped
<1>2. y \in Terms \X Times \X Times /\ y[1] = r.terms /\ y[2] = r.start /\ y[3] = g.created
  BY <1>1
<1>3. ExpiresAt([start |-> y[2], terms |-> y[1]]) = ExpiresAt(r)
  BY <1>2 DEF ExpiresAt, WindowEnd
<1>4. Entry(h) = Entry(g)
  BY <1>1, <1>2 DEF Entry, WindowEnd
<1>5. Entry(h) \in Offers
  BY <1>2, <1>3 DEF Offers
<1> QED
  BY <1>4, <1>5

\* Evidence that verifies in the tables verifies in the chain.
LEMMA EvidenceOfRows ==
  ASSUME Inv, NEW c, HistoryVerifies(Rows, c, now)
  PROVE  Abstract!EvidenceVerifies(now)
<1>1. Rows \in Seq(EventRows)
  BY RowsTyped DEF Inv
<1>2. ASSUME NEW i \in 1 .. Len(Chain), Chain[i].type = "grant"
      PROVE  Chain[i].created <= now + MaxClockSkew
  <2>1. i \in 1 .. Len(Rows) /\ Rows[i] \in EventRows /\ Chain[i] = Entry(Rows[i])
    BY <1>1, ChainOfRows
  <2>2. Rows[i].type = "grant" /\ Chain[i].created = Rows[i].created
    BY <1>2, <2>1, EntryTyped
  <2> QED
    BY <2>1, <2>2 DEF HistoryVerifies, GrantVerifies
<1> QED
  BY <1>2 DEF Abstract!EvidenceVerifies

\* A row appended is an entry appended.
LEMMA ChainExtends ==
  ASSUME Rows \in Seq(EventRows), NEW e \in EventRows, Rows' = Append(Rows, e)
  PROVE  Chain' = Append(Chain, Entry(e))
<1> DEFINE S == {Entry(x) : x \in EventRows}
           all == Append(Rows, e)
           longer == Append(Chain, Entry(e))
<1>1. /\ Len(all) = Len(Rows) + 1 /\ all[Len(all)] = e /\ Len(Rows) \in Nat
      /\ \A i \in 1 .. Len(Rows) : all[i] = Rows[i]
  OBVIOUS
<1>2. Chain' = [i \in 1 .. Len(all) |-> Entry(all[i])]
  BY DEF Chain, Entry, WindowEnd
<1>3. /\ Chain \in [1 .. Len(Rows) -> S] /\ Len(Chain) = Len(Rows) /\ Chain \in Seq(S)
      /\ \A i \in 1 .. Len(Rows) : Chain[i] = Entry(Rows[i])
  <2>1. Chain \in [1 .. Len(Rows) -> S]
    BY DEF Chain
  <2> QED
    BY <2>1, <1>1, ChainOfRows
<1>4. /\ longer \in [1 .. Len(Rows) + 1 -> S] /\ longer[Len(Rows) + 1] = Entry(e)
      /\ \A i \in 1 .. Len(Rows) : longer[i] = Chain[i]
  <2>1. Entry(e) \in S
    OBVIOUS
  <2>2. /\ longer \in Seq(S) /\ Len(longer) = Len(Rows) + 1 /\ longer[Len(Rows) + 1] = Entry(e)
        /\ \A i \in 1 .. Len(Rows) : longer[i] = Chain[i]
    BY <1>3, <2>1, AppendProperties
  <2>3. longer \in [1 .. Len(longer) -> S]
    BY <2>2, LenProperties
  <2> QED
    BY <2>2, <2>3
<1>5. \A i \in 1 .. Len(Rows) + 1 : longer[i] = Entry(all[i])
  BY <1>1, <1>3, <1>4
<1>6. Chain' = [i \in 1 .. Len(Rows) + 1 |-> Entry(all[i])]
  BY <1>1, <1>2
<1>7. DOMAIN longer = 1 .. Len(Rows) + 1 /\ longer = [i \in DOMAIN longer |-> longer[i]]
  BY <1>4
<1>8. longer = [i \in 1 .. Len(Rows) + 1 |-> Entry(all[i])]
  BY <1>5, <1>7
<1> QED
  BY <1>6, <1>8

-----------------------------------------------------------------------------
LEMMA InitImplements == Init => Abstract!AuthorityInit \/ Abstract!LegacyInit
<1> SUFFICES ASSUME Init PROVE Abstract!AuthorityInit \/ Abstract!LegacyInit
  OBVIOUS
<1>1. ~IsSuspended(controls)
  BY DEF Init, IsSuspended
<1>2. CASE current = Null
  <2>1. Rows = <<>>
    BY <1>2 DEF Init, Rows
  <2>2. Rows \in Seq(EventRows)
    BY <2>1
  <2>3. Chain = <<>>
    BY <2>1, <2>2, ChainOfRows
  <2> QED
    BY <1>1, <2>3 DEF Abstract!AuthorityInit
<1>3. CASE current \in LegacyRows
  <2>1. /\ current \in GrantRows /\ current.request.start \in Times /\ current.created \in Times
        /\ current.request.start <= current.created
        /\ current.created < WindowEnd(current.request)
        /\ current.created < current.request.start + RequestTTL
    BY <1>3, LifecycleAssumption DEF LifecycleAssumption, WindowEnd
  <2>2. Entry(current) \in Offers
    BY <2>1, GrantOffered DEF ExpiresAt
  <2>3. Rows = <<current>>
    BY <2>1, GrantTyped DEF Init, Rows
  <2>4. Len(Rows) = 1 /\ Rows[1] = current /\ 1 .. Len(Rows) = {1}
    BY <2>3
  <2>5. Chain = <<Entry(current)>>
    BY <2>4 DEF Chain
  <2> QED
    BY <1>1, <2>2, <2>5 DEF Abstract!LegacyInit
<1> QED
  BY <1>2, <1>3 DEF Init

LEMMA AuthorizeImplements ==
  ASSUME Inv, NEW created \in Times, Authorize(created)
  PROVE  Abstract!AdminCommand(now)
<1> DEFINE g == [type |-> "grant", request |-> current, created |-> created]
<1>1. /\ Rows \in Seq(EventRows) /\ now \in Times /\ IsPending
      /\ current \in Requests(Terms) /\ created \in Nat
      /\ Len(Rows) < MaxHistory
  BY RowsTyped, LifecycleAssumption DEF LifecycleAssumption, Inv, TypeOK, Authorize
<1>2. /\ g \in GrantRows /\ g \in EventRows /\ g.request = current /\ g.created = created
      /\ g.type = "grant"
  BY <1>1 DEF GrantRows, EventRows
<1>3. /\ current.start <= created /\ created < ExpiresAt(current)
      /\ created <= now + MaxClockSkew /\ now < ExpiresAt(current)
  BY <1>2 DEF Authorize, GrantVerifies
<1>4. Entry(g) \in Offers
  BY <1>1, <1>2, <1>3, GrantOffered DEF Inv, StartsInTime
<1>5. /\ Entry(g).created = created /\ Entry(g).start = current.start
      /\ Entry(g).end = WindowEnd(current)
  BY <1>2, EntryTyped
<1>6. Chain' = Append(Chain, Entry(g))
  BY <1>1, <1>2, AuthorizeStep, ChainExtends
<1>7. Abstract!EvidenceVerifies(now)
  BY EvidenceOfRows DEF Authorize
<1>8. Abstract!Deadline(Entry(g)) = ExpiresAt(current)
  BY <1>5 DEF Abstract!Deadline, ExpiresAt
<1>9. Chain # <<>> => Abstract!HeadEntry.created <= Entry(g).start
  <2>1. SUFFICES ASSUME Chain # <<>> PROVE Chain[Len(Chain)].created <= current.start
    BY <1>5 DEF Abstract!HeadEntry
  <2>2. /\ Rows # <<>> /\ Len(Rows) \in 1 .. Len(Rows) /\ HeadRow \in EventRows
        /\ Chain[Len(Chain)] = Entry(HeadRow)
    BY <1>1, <2>1, ChainOfRows DEF HeadRow
  <2> QED
    BY <1>1, <2>2, EntryTyped DEF Inv, RowsAgree
<1>10. UNCHANGED IsSuspended(controls)
  BY DEF Authorize, IsSuspended
<1>11. Abstract!Grant(Entry(g), now)
  BY <1>1, <1>3, <1>5, <1>6, <1>7, <1>8, <1>9, <1>10, ChainOfRows DEF Abstract!Grant
<1> QED
  BY <1>1, <1>4, <1>11 DEF Abstract!AdminCommand

LEMMA RevokeImplements ==
  ASSUME Inv, NEW created \in Times, Revoke(created)
  PROVE  Abstract!AdminCommand(now)
<1>1. /\ Rows \in Seq(EventRows) /\ now \in Times /\ created \in Nat
      /\ Len(Rows) < MaxHistory /\ created <= now
  BY RowsTyped, LifecycleAssumption DEF LifecycleAssumption, Inv, TypeOK, Revoke
<1>2. PICK sequence \in Nat :
        Rows' = Append(Rows, [type |-> "revocation", sequence |-> sequence, created |-> created])
  BY RevokeStep
<1> DEFINE v == [type |-> "revocation", sequence |-> Len(Rows) + 1, created |-> created]
<1>3. v \in EventRows /\ Entry(v) = [type |-> "revocation", created |-> created]
  BY <1>1 DEF EventRows, RevocationRows, Entry
<1>4. Rows' = Append(Rows, v)
  BY DEF Revoke, Rows
<1>5. Chain' = Append(Chain, [type |-> "revocation", created |-> created])
  BY <1>1, <1>3, <1>4, ChainExtends
<1>6. Abstract!EvidenceVerifies(now)
  BY EvidenceOfRows DEF Revoke
<1>7. /\ Rows # <<>> /\ HeadRow.type = "grant" /\ HeadRow.created <= created
  BY RevokeStep
<1>8. /\ Chain # <<>> /\ Abstract!HeadEntry.type = "grant"
      /\ Abstract!HeadEntry.created <= created
  <2>1. /\ Len(Rows) \in 1 .. Len(Rows) /\ HeadRow \in EventRows
        /\ Chain # <<>> /\ Chain[Len(Chain)] = Entry(HeadRow)
    BY <1>1, <1>7, ChainOfRows DEF HeadRow
  <2> QED
    BY <1>7, <2>1, EntryTyped DEF Abstract!HeadEntry
<1>9. UNCHANGED IsSuspended(controls)
  BY DEF Revoke, IsSuspended
<1>10. Abstract!Revoke(created, now)
  BY <1>1, <1>5, <1>6, <1>8, <1>9, ChainOfRows DEF Abstract!Revoke
<1> QED
  BY <1>1, <1>10 DEF Abstract!AdminCommand

LEMMA ControlImplements ==
  ASSUME Inv, NEW action \in {"suspend", "resume"}, Control(action)
  PROVE  Abstract!AdminCommand(now)
<1>1. /\ Rows \in Seq(EventRows) /\ now \in Times /\ controls \in Seq({"suspend", "resume"})
  BY RowsTyped DEF Inv, TypeOK
<1>2. Rows' = Rows
  BY DEF Control, rowVars, Rows
<1>3. Chain' = Chain
  BY <1>2 DEF Chain, Entry, WindowEnd
<1>4. Abstract!EvidenceVerifies(now)
  BY EvidenceOfRows DEF Control, ViewVerifies
<1>5. IsSuspended(controls') = (action = "suspend")
  <2>1. controls' = Append(controls, action)
    BY DEF Control
  <2>2. controls' # <<>> /\ controls'[Len(controls')] = action
    BY <1>1, <2>1
  <2> QED
    BY <2>2 DEF IsSuspended
<1>6. CASE action = "suspend"
  <2>1. IsSuspended(controls)' = TRUE
    BY <1>5, <1>6 DEF IsSuspended
  <2>2. Abstract!Suspend(now)
    BY <1>3, <1>4, <2>1 DEF Abstract!Suspend
  <2> QED
    BY <1>1, <2>2 DEF Abstract!AdminCommand
<1>7. CASE action = "resume"
  <2>1. IsSuspended(controls)' = FALSE
    BY <1>5, <1>7 DEF IsSuspended
  <2>2. StateOf(Rows, now) = "authorized"
    BY <1>7 DEF Control
  <2>3. /\ Rows # <<>> /\ HeadRow.type = "grant"
        /\ ~(now < HeadRow.created) /\ ~(now >= WindowEnd(HeadRow.request))
    <3>1. Rows # <<>> => /\ Len(Rows) \in 1 .. Len(Rows) /\ HeadRow \in EventRows
                         /\ HeadRow.type \in {"grant", "revocation"}
      BY <1>1, EventTyped DEF HeadRow
    <3> QED
      BY <2>2, <3>1 DEF StateOf, HeadRow
  <2>4. /\ Chain # <<>> /\ Abstract!HeadEntry.type = "grant"
        /\ Abstract!HeadEntry.created = HeadRow.created
        /\ Abstract!HeadEntry.end = WindowEnd(HeadRow.request)
    <3>1. /\ Len(Rows) \in 1 .. Len(Rows) /\ HeadRow \in EventRows
          /\ Chain # <<>> /\ Chain[Len(Chain)] = Entry(HeadRow)
      BY <1>1, <2>3, ChainOfRows DEF HeadRow
    <3> QED
      BY <2>3, <3>1, EntryTyped DEF Abstract!HeadEntry
  <2>5. Abstract!AuthorizationState(now) = "authorized"
    BY <2>3, <2>4 DEF Abstract!AuthorizationState
  <2>6. Abstract!Resume(now)
    BY <1>3, <1>4, <2>1, <2>5 DEF Abstract!Resume
  <2> QED
    BY <1>1, <2>6 DEF Abstract!AdminCommand
<1> QED
  BY <1>6, <1>7

(***************************************************************************)
(* A command does to the chain and the suspension what Authority says an   *)
(* administrative command may do, or nothing.                              *)
(***************************************************************************)
LEMMA CommandImplements ==
  ASSUME Inv, Command
  PROVE  Abstract!AdminCommand(now) \/ UNCHANGED Abstract!authorityVars
<1>1. ASSUME NEW terms \in Terms, Request(terms) \/ Renew(terms)
      PROVE  UNCHANGED Abstract!authorityVars
  <2>1. Rows' = Rows /\ controls' = controls
    BY <1>1, PendingStep DEF Request, Renew
  <2> QED
    BY <2>1 DEF Abstract!authorityVars, Chain, IsSuspended, Entry, WindowEnd
<1>2. ASSUME NEW created \in Times, Authorize(created) PROVE Abstract!AdminCommand(now)
  BY <1>2, AuthorizeImplements
<1>3. ASSUME NEW created \in Times, Revoke(created) PROVE Abstract!AdminCommand(now)
  BY <1>3, RevokeImplements
<1>4. ASSUME NEW action \in {"suspend", "resume"}, Control(action) PROVE Abstract!AdminCommand(now)
  BY <1>4, ControlImplements
<1> QED
  BY <1>1, <1>2, <1>3, <1>4 DEF Command

(***************************************************************************)
(* The commands implement Authority (ImplementsAuthority): each does to    *)
(* the accepted chain and the suspension what Authority says, or nothing.  *)
(***************************************************************************)
THEOREM CommandsImplementAuthority == Spec => ImplementsAuthority
<1>1. Init => Abstract!AuthorityInit \/ Abstract!LegacyInit
  BY InitImplements
<1>2. Inv /\ [Next]_vars => [Abstract!AuthorityNext]_(Abstract!authorityVars)
  <2> SUFFICES ASSUME Inv, [Next]_vars
               PROVE  Abstract!AuthorityNext \/ UNCHANGED Abstract!authorityVars
    OBVIOUS
  <2>1. CASE Command
    <3>1. now \in Times
      BY DEF Inv, TypeOK
    <3> QED
      BY <2>1, <3>1, CommandImplements DEF Abstract!AuthorityNext
  <2>2. ASSUME NEW t \in Times, SetClock(t) \/ UNCHANGED vars
        PROVE  UNCHANGED Abstract!authorityVars
    <3>1. Rows' = Rows /\ controls' = controls
      BY <2>2 DEF SetClock, vars, rowVars, Rows
    <3> QED
      BY <3>1 DEF Abstract!authorityVars, Chain, IsSuspended, Entry, WindowEnd
  <2>3. CASE UNCHANGED vars
    BY <2>2, <2>3 DEF Inv, TypeOK
  <2> QED
    BY <2>1, <2>2, <2>3 DEF Next
<1> QED
  BY <1>1, <1>2, LifecycleInductive, PTL DEF Spec, ImplementsAuthority, Abstract!AuthoritySpec

=============================================================================
