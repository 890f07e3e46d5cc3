-------------------------- MODULE WitnessStatusProofs --------------------------
(***************************************************************************)
(* Proofs about WitnessStatus: the commands are not disturbed by readers,  *)
(* and a permission that show reports was real.  The second needs to know, *)
(* for each place in show, why the rows read before can still be trusted.  *)
(***************************************************************************)
EXTENDS WitnessStatus, WitnessLifecycleProofs

\* From t on, rows grant nothing.
Over(rows, t) == \A u \in Nat : t <= u => StateOf(rows, u) # "authorized"

\* Rows read before are those of the database, or are of no use any more, or
\* witnessing is suspended and only a resumption can make them matter.
Accounted(rows) == IsSuspended(controls) \/ rows = Rows \/ Over(rows, now)

Reading == {"current", "pending", "grant"}
ReaderTyped ==
  reader \in [pc: {"idle"}, outcome: Outcomes, claim: BOOLEAN]
             \cup [pc: {"empty", "history"}]
             \cup [pc: {"rows"}, hasTable: BOOLEAN]
             \cup [pc: Reading, rows: Seq(EventRows)]
             \cup [pc: {"controls"}, state: {"not-authorized", "revoked", "not-yet-valid",
                                             "expired", "authorized"}]

\* A later grant, read as that of an earlier release, does not validate.
Misplaced == reader.pc = "current" /\ reader.rows # <<>> /\ SequenceOf(reader.rows[1]) # 1

\* Why the answer can still be right while witnessing was not permitted yet.
Waiting ==
  /\ ~PermittedAt(now)
  /\ reader.pc = "rows" =>
       IF reader.hasTable THEN hasTable ELSE Rows = <<>> \/ Accounted(<<Rows[1]>>)
  /\ reader.pc \in Reading => Accounted(reader.rows) \/ Misplaced
  /\ reader.pc = "controls" => (reader.state = "authorized" => IsSuspended(controls))

StatusInv ==
  /\ Inv /\ InSequence /\ ReaderTyped /\ PermissionWasReal
  /\ permitted \in BOOLEAN
  /\ (reader.pc # "idle" /\ ~permitted) => Waiting

-----------------------------------------------------------------------------
LEMMA StateTyped ==
  ASSUME NEW rows \in Seq(EventRows), NEW t
  PROVE  /\ StateOf(rows, t) \in {"not-authorized", "revoked", "not-yet-valid", "expired", "authorized"}
         /\ (StateOf(rows, t) = "authorized") <=>
              /\ rows # <<>> /\ rows[Len(rows)].type = "grant"
              /\ ~(t < rows[Len(rows)].created) /\ ~(t >= WindowEnd(rows[Len(rows)].request))
<1>1. CASE rows = <<>>
  BY <1>1 DEF StateOf
<1>2. CASE rows # <<>>
  <2>1. rows[Len(rows)] \in EventRows
    BY <1>2
  <2>2. rows[Len(rows)].type \in {"grant", "revocation"}
    BY <2>1, EventTyped
  <2> QED
    BY <1>2, <2>2 DEF StateOf
<1> QED
  BY <1>1, <1>2

\* A grant that has begun and is not in force will not be again.
LEMMA OverFromNow ==
  ASSUME NEW rows \in Seq(EventRows), NEW t \in Nat, StateOf(rows, t) # "authorized",
         (rows # <<>> /\ rows[Len(rows)].type = "grant") => rows[Len(rows)].created <= t
  PROVE  Over(rows, t)
<1> SUFFICES ASSUME NEW u \in Nat, t <= u, StateOf(rows, u) = "authorized" PROVE FALSE
  BY DEF Over
<1> DEFINE head == rows[Len(rows)]
<1>1. rows # <<>> /\ head.type = "grant" /\ ~(u >= WindowEnd(head.request))
  BY StateTyped
<1>2. head \in GrantRows
  <2>1. head \in EventRows
    BY <1>1
  <2> QED
    BY <1>1, <2>1 DEF EventRows, RevocationRows
<1>3. head.created \in Nat /\ WindowEnd(head.request) \in Nat
  BY <1>2, GrantTyped, RequestTyped
<1>4. ~(t < head.created) /\ ~(t >= WindowEnd(head.request))
  BY <1>1, <1>3
<1> QED
  BY <1>1, <1>4, StateTyped

LEMMA NothingIsOver == \A t : Over(<<>>, t)
  BY DEF Over, StateOf

\* A command keeps rows accounted for, unless it makes witnessing permitted.
LEMMA StepAccounts ==
  ASSUME Inv, [Next]_vars, NEW rows, Accounted(rows),
         ~PermittedAt(now), ~PermittedAt(now)', ~(now' < now), ~RenewedAhead
  PROVE  Accounted(rows)'
<1>1. /\ Rows \in Seq(EventRows) /\ now \in Nat /\ now \in Times /\ Times \subseteq Nat
      /\ controls \in Seq({"suspend", "resume"})
  BY RowsTyped, LifecycleAssumption DEF LifecycleAssumption, Inv, TypeOK
<1>2. CASE now' = now /\ controls' = controls
  <2>1. CASE Rows' = Rows
    BY <1>2, <2>1 DEF Accounted, IsSuspended, Over, StateOf, WindowEnd
  <2>2. CASE rows # Rows \/ IsSuspended(controls)
    BY <1>2, <2>2 DEF Accounted, IsSuspended, Over, StateOf, WindowEnd
  <2>3. CASE Rows' # Rows /\ rows = Rows /\ ~IsSuspended(controls)
    <3>1. StateOf(Rows, now) # "authorized"
      BY <2>3 DEF PermittedAt
    <3>2. (Rows # <<>> /\ Rows[Len(Rows)].type = "grant") => Rows[Len(Rows)].created <= now
      <4> SUFFICES ASSUME Rows # <<>>, HeadRow.type = "grant" PROVE HeadRow.created <= now
        BY DEF HeadRow
      <4>1. HeadRow \in EventRows /\ HeadRow.created \in Nat
        BY <1>1, EventTyped DEF HeadRow
      <4>2. ASSUME NEW created \in Times, Authorize(created) PROVE HeadRow.created <= now
        <5>1. /\ IsPending /\ current \in Requests(Terms) /\ created \in Nat
              /\ Rows' = Append(Rows, [type |-> "grant", request |-> current, created |-> created])
          BY <4>2, <1>1, AuthorizeStep, RowsTyped DEF Inv
        <5>2. Rows'[Len(Rows')] = [type |-> "grant", request |-> current, created |-> created]
          BY <5>1, <1>1
        <5>3. HeadRow'.type = "grant" /\ HeadRow'.created = created
          BY <5>2 DEF HeadRow
        <5>4. created <= now
          BY <2>3, <5>1, <5>3, <1>1 DEF RenewedAhead
        <5>5. HeadRow.created <= created
          BY <4>2 DEF Authorize
        <5> QED
          BY <5>1, <5>4, <5>5, <4>1, <1>1
      <4>3. ASSUME NEW created \in Times, Revoke(created) PROVE HeadRow.created <= now
        <5>1. HeadRow.created <= created /\ created <= now /\ created \in Nat
          BY <4>3, <1>1, RevokeStep DEF Revoke
        <5> QED
          BY <5>1, <4>1, <1>1
      <4>4. ASSUME NEW terms \in Terms, Request(terms) \/ Renew(terms) PROVE FALSE
        BY <4>4, <2>3, PendingStep
      <4>5. ASSUME NEW action \in {"suspend", "resume"}, Control(action) PROVE FALSE
        BY <4>5, <2>3 DEF Control, rowVars, Rows
      <4>6. ASSUME NEW t \in Times, SetClock(t) PROVE FALSE
        BY <4>6, <2>3 DEF SetClock, rowVars, Rows
      <4>7. CASE UNCHANGED vars
        BY <4>7, <2>3 DEF vars, rowVars, Rows
      <4> QED
        BY <4>2, <4>3, <4>4, <4>5, <4>6, <4>7 DEF Next, Command
    <3>3. Over(rows, now)
      BY <1>1, <2>3, <3>1, <3>2, OverFromNow
    <3> QED
      BY <1>2, <3>3 DEF Accounted, Over, StateOf, WindowEnd
  <2> QED
    BY <2>1, <2>2, <2>3
<1>3. ASSUME NEW action \in {"suspend", "resume"}, Control(action) PROVE Accounted(rows)'
  <2>1. /\ Rows' = Rows /\ now' = now /\ controls' = Append(controls, action)
        /\ action = "resume" => StateOf(Rows, now) = "authorized"
    BY <1>3 DEF Control, rowVars, Rows
  <2>2. IsSuspended(controls') = (action = "suspend")
    <3>1. controls' # <<>> /\ controls'[Len(controls')] = action
      BY <1>1, <2>1
    <3> QED
      BY <3>1 DEF IsSuspended
  <2>3. action = "suspend"
    <3> SUFFICES ASSUME action = "resume" PROVE FALSE
      OBVIOUS
    <3>1. StateOf(Rows', now') = "authorized" /\ ~IsSuspended(controls')
      BY <2>1, <2>2
    <3> QED
      BY <3>1 DEF PermittedAt, StateOf, IsSuspended, WindowEnd
  <2> QED
    BY <2>2, <2>3 DEF Accounted, IsSuspended
<1>4. ASSUME NEW t \in Times, SetClock(t) PROVE Accounted(rows)'
  <2>1. Rows' = Rows /\ controls' = controls /\ now' = t /\ t \in Nat /\ now <= t
    BY <1>4, <1>1 DEF SetClock, rowVars, Rows
  <2>2. Over(rows, now) => Over(rows, t)
    BY <2>1, <1>1 DEF Over
  <2> QED
    BY <2>1, <2>2 DEF Accounted, IsSuspended, Over, StateOf, WindowEnd
<1>5. ASSUME NEW terms \in Terms, Request(terms) \/ Renew(terms) PROVE Accounted(rows)'
  BY <1>5, <1>2 DEF Request, Renew
<1>6. ASSUME NEW created \in Times, Authorize(created) \/ Revoke(created) PROVE Accounted(rows)'
  BY <1>6, <1>2 DEF Authorize, Revoke
<1>7. CASE UNCHANGED vars
  BY <1>7, <1>2 DEF vars
<1> QED
  BY <1>3, <1>4, <1>5, <1>6, <1>7 DEF Next, Command

\* Where the grant of the row stands in the history.
LEMMA CurrentGrantInRows ==
  ASSUME Inv, current # Null, ~IsPending
  PROVE  \E i \in 1 .. Len(Rows) : Rows[i] = current
<1>1. /\ Rows \in Seq(EventRows) /\ Rows # <<>> /\ current = LatestGrant(Rows)
      /\ Len(Rows) \in Nat \ {0}
  BY RowsTyped DEF Inv, RowsAgree
<1> DEFINE P(i) == Rows[i].type = "grant" /\ \A j \in i + 1 .. Len(Rows) : Rows[j].type # "grant"
<1>2. \E i \in 1 .. Len(Rows) : P(i)
  <2>1. CASE Rows[Len(Rows)].type = "grant"
    BY <1>1, <2>1, P(Len(Rows))
  <2>2. CASE Rows[Len(Rows)].type # "grant"
    <3>1. Len(Rows) > 1 /\ Rows[Len(Rows) - 1].type = "grant"
      BY <1>1, <2>2 DEF Inv, RowsSound
    <3>2. \A j \in (Len(Rows) - 1) + 1 .. Len(Rows) : j = Len(Rows)
      BY <1>1
    <3>3. P(Len(Rows) - 1) /\ Len(Rows) - 1 \in 1 .. Len(Rows)
      BY <1>1, <2>2, <3>1, <3>2
    <3> QED
      BY <3>3
  <2> QED
    BY <2>1, <2>2
<1>3. (CHOOSE i \in 1 .. Len(Rows) : P(i)) \in 1 .. Len(Rows)
  BY <1>2
<1> QED
  BY <1>1, <1>3 DEF LatestGrant

\* A step of a command or of the clock, beside show.
LEMMA CommandStep ==
  ASSUME StatusInv, [Next]_vars, UNCHANGED reader, Remember
  PROVE  StatusInv'
<1>1. Inv' /\ InSequence'
  BY LifecycleStep, SequenceStep DEF StatusInv
<1>2. ReaderTyped'
  BY DEF StatusInv, ReaderTyped
<1>3. permitted' \in BOOLEAN /\ (permitted => permitted') /\ PermissionWasReal'
  BY DEF StatusInv, Remember, PermissionWasReal
<1>4. ASSUME reader.pc # "idle", ~permitted' PROVE Waiting'
  <2>1. /\ ~permitted /\ ~(now' < now) /\ ~RenewedAhead
        /\ ~(\E t \in now .. now' : PermittedAt(t)')
    BY <1>4 DEF Remember
  <2>2. now \in Nat /\ now' \in Nat
    BY <1>1, LifecycleAssumption DEF LifecycleAssumption, StatusInv, Inv, TypeOK
  <2>3. now' \in now .. now'
    BY <2>1, <2>2
  <2>4. ~PermittedAt(now)'
    BY <2>1, <2>3 DEF PermittedAt
  <2>5. Waiting /\ ~PermittedAt(now)
    BY <1>4, <2>1 DEF StatusInv, Waiting
  <2>6. ASSUME NEW rows, Accounted(rows) PROVE Accounted(rows)'
    BY <2>1, <2>4, <2>5, <2>6, StepAccounts DEF StatusInv
  <2>7. hasTable => hasTable'
    BY DEF Next, Command, Request, Renew, Authorize, Revoke, Control, SetClock, rowVars, vars
  <2>8. ASSUME reader.pc = "rows", ~reader.hasTable
        PROVE  Rows' = <<>> \/ Accounted(<<Rows[1]>>)'
    <3>1. Rows \in Seq(EventRows)
      BY RowsTyped DEF StatusInv, Inv
    <3>2. Rows = <<>> \/ Accounted(<<Rows[1]>>)
      BY <2>5, <2>8 DEF Waiting
    <3>3. CASE Rows = <<>> /\ Rows' # Rows
      <4>1. PICK e \in EventRows : Rows' = Append(<<>>, e)
        BY <3>3, RowsGrow DEF StatusInv
      <4>2. Rows' = <<e>> /\ Rows'[1] = e
        BY <4>1
      <4> QED
        BY <4>2 DEF Accounted
    <3>4. CASE Rows # <<>> \/ Rows' = Rows
      <4>1. Rows = <<>> => Rows' = <<>>
        BY <3>4
      <4>2. ASSUME Rows # <<>> PROVE Accounted(<<Rows[1]>>)'
        <5>1. PICK first : first = Rows[1]
          OBVIOUS
        <5>2. Accounted(<<first>>)'
          BY <3>2, <4>2, <5>1, <2>6
        <5>3. Rows'[1] = first
          <6>1. CASE Rows' = Rows
            BY <5>1, <6>1
          <6>2. ASSUME NEW e \in EventRows, Rows' = Append(Rows, e) PROVE Rows'[1] = first
            BY <3>1, <4>2, <5>1, <6>2
          <6> QED
            BY <6>1, <6>2, RowsGrow DEF StatusInv
        <5> QED
          BY <5>2, <5>3 DEF Accounted
      <4> QED
        BY <4>1, <4>2
    <3> QED
      BY <3>3, <3>4
  <2>9. ASSUME reader.pc \in Reading, Accounted(reader.rows) PROVE Accounted(reader.rows)'
    <3>1. PICK rows : rows = reader.rows
      OBVIOUS
    <3>2. Accounted(rows)'
      BY <2>9, <3>1, <2>6
    <3> QED
      BY <3>1, <3>2 DEF Accounted
  <2>10. ASSUME reader.pc = "controls", reader.state = "authorized" PROVE IsSuspended(controls)'
    <3>1. IsSuspended(controls)
      BY <2>5, <2>10 DEF Waiting
    <3>2. controls' = controls \/ \E action \in {"suspend", "resume"} : Control(action)
      BY DEF Next, Command, Request, Renew, Authorize, Revoke, SetClock, vars
    <3>3. ASSUME Control("resume") PROVE FALSE
      <4>1. /\ controls' = Append(controls, "resume") /\ Rows' = Rows /\ now' = now
            /\ StateOf(Rows, now) = "authorized" /\ controls \in Seq({"suspend", "resume"})
        BY <3>3 DEF Control, rowVars, Rows, StatusInv, Inv, TypeOK
      <4>2. controls'[Len(controls')] = "resume"
        BY <4>1
      <4> QED
        BY <2>4, <4>1, <4>2 DEF PermittedAt, IsSuspended, StateOf, WindowEnd
    <3>4. ASSUME Control("suspend") PROVE IsSuspended(controls)'
      <4>1. controls' = Append(controls, "suspend") /\ controls \in Seq({"suspend", "resume"})
        BY <3>4 DEF Control, StatusInv, Inv, TypeOK
      <4>2. controls' # <<>> /\ controls'[Len(controls')] = "suspend"
        BY <4>1
      <4> QED
        BY <4>2 DEF IsSuspended
    <3> QED
      BY <3>1, <3>2, <3>3, <3>4 DEF IsSuspended
  <2>11. /\ reader.pc = "rows" =>
              IF reader.hasTable THEN hasTable' ELSE Rows' = <<>> \/ Accounted(<<Rows[1]>>)'
         /\ reader.pc \in Reading => Accounted(reader.rows)' \/ Misplaced
         /\ reader.pc = "controls" => (reader.state = "authorized" => IsSuspended(controls)')
    BY <2>5, <2>7, <2>8, <2>9, <2>10 DEF Waiting
  <2> QED
    BY <2>4, <2>11 DEF Waiting, Misplaced, SequenceOf
<1> QED
  BY <1>1, <1>2, <1>3, <1>4 DEF StatusInv

\* What a query of show leaves as it was.
LEMMA LookKeeps ==
  ASSUME StatusInv, NEW next, Look(next)
  PROVE  /\ reader' = next /\ UNCHANGED vars /\ Rows' = Rows
         /\ Inv' /\ InSequence' /\ permitted' \in BOOLEAN /\ (permitted => permitted')
         /\ (reader.pc # "idle" /\ ~permitted') =>
              /\ ~permitted /\ Waiting /\ ~PermittedAt(now)'
              /\ \A rows : Accounted(rows)' = Accounted(rows)
<1>1. reader' = next /\ UNCHANGED vars /\ Remember
  BY DEF Look
<1>2. UNCHANGED <<now, hasTable, table, current, controls, made>> /\ Rows' = Rows
  BY <1>1 DEF vars, rowVars, Rows
<1>3. Inv' /\ InSequence'
  BY <1>1, LifecycleStep, SequenceStep DEF StatusInv
<1>4. permitted' \in BOOLEAN /\ (permitted => permitted')
  BY <1>1 DEF Remember, StatusInv
<1>5. PermittedAt(now)' = PermittedAt(now)
  BY <1>2 DEF PermittedAt, StateOf, WindowEnd, IsSuspended
<1>6. ASSUME NEW rows PROVE Accounted(rows)' = Accounted(rows)
  BY <1>2 DEF Accounted, Over, StateOf, WindowEnd, IsSuspended
<1>7. (reader.pc # "idle" /\ ~permitted') => ~permitted /\ Waiting /\ ~PermittedAt(now)'
  BY <1>4, <1>5 DEF StatusInv, Waiting
<1> QED
  BY <1>1, <1>2, <1>3, <1>4, <1>6, <1>7

\* A call that ends without a claim.
LEMMA EndsWithout ==
  ASSUME StatusInv, NEW outcome \in Outcomes, Look(Idle(outcome, FALSE))
  PROVE  StatusInv'
<1>1. reader' = [pc |-> "idle", outcome |-> outcome, claim |-> FALSE]
  BY LookKeeps DEF Idle
<1>2. ReaderTyped' /\ reader'.pc = "idle" /\ ~reader'.claim
  BY <1>1 DEF ReaderTyped
<1> QED
  BY <1>2, LookKeeps DEF StatusInv, PermissionWasReal

LEMMA BeginStep ==
  ASSUME StatusInv, ShowBegins
  PROVE  StatusInv'
<1>1. UNCHANGED vars /\ permitted' = PermittedAt(now) /\ reader'.pc \in {"empty", "history"}
      /\ ReaderTyped'
  BY DEF ShowBegins, ReaderTyped
<1>2. UNCHANGED <<now, hasTable, table, current, controls, made>> /\ Rows' = Rows
  BY <1>1 DEF vars, rowVars, Rows
<1>3. Inv' /\ InSequence'
  BY <1>1, LifecycleStep, SequenceStep DEF StatusInv
<1>4. PermittedAt(now)' = PermittedAt(now) /\ PermittedAt(now) \in BOOLEAN
  BY <1>2 DEF PermittedAt, StateOf, WindowEnd, IsSuspended
<1>5. ~permitted' => Waiting'
  BY <1>1, <1>4 DEF Waiting, Reading
<1> QED
  BY <1>1, <1>3, <1>4, <1>5 DEF StatusInv, PermissionWasReal

LEMMA ControlsLookStep ==
  ASSUME StatusInv, ShowLooksForControls
  PROVE  StatusInv'
<1>1. CASE Look(Idle("not-authorized", FALSE))
  BY <1>1, EndsWithout DEF Outcomes
<1>2. CASE Look([pc |-> "history"])
  <2>1. reader' = [pc |-> "history"] /\ reader.pc = "empty"
    BY <1>2, LookKeeps DEF ShowLooksForControls
  <2>2. ReaderTyped' /\ PermissionWasReal' /\ reader'.pc = "history"
    BY <2>1 DEF ReaderTyped, PermissionWasReal
  <2>3. ~permitted' => Waiting'
    BY <1>2, <2>1, LookKeeps DEF Waiting, Reading
  <2> QED
    BY <1>2, <2>2, <2>3, LookKeeps DEF StatusInv
<1> QED
  BY <1>1, <1>2 DEF ShowLooksForControls

LEMMA FindsTableStep ==
  ASSUME StatusInv, ShowFindsTable
  PROVE  StatusInv'
<1>1. Look([pc |-> "rows", hasTable |-> hasTable]) /\ reader.pc = "history"
  BY DEF ShowFindsTable
<1>2. reader' = [pc |-> "rows", hasTable |-> hasTable] /\ hasTable \in BOOLEAN /\ hasTable' = hasTable
  BY <1>1, LookKeeps DEF StatusInv, Inv, TypeOK, vars, rowVars
<1>3. ReaderTyped' /\ PermissionWasReal' /\ reader'.pc = "rows" /\ reader'.hasTable = hasTable
  BY <1>2 DEF ReaderTyped, PermissionWasReal
<1>4. ASSUME ~hasTable, Rows # <<>> PROVE Accounted(<<Rows[1]>>)
  <2>1. Rows = <<current>>
    BY <1>4 DEF Rows
  <2>2. <<Rows[1]>> = Rows
    BY <2>1
  <2> QED
    BY <2>2 DEF Accounted
<1>5. ASSUME ~hasTable, Rows # <<>>, ~permitted' PROVE Accounted(<<Rows[1]>>)'
  <2>1. Rows' = Rows /\ UNCHANGED vars
    BY <1>1, LookKeeps
  <2> QED
    BY <1>4, <1>5, <2>1 DEF Accounted, IsSuspended, Over, StateOf, WindowEnd, vars
<1>6. ~permitted' => Waiting'
  <2>1. Rows' = Rows
    BY <1>1, LookKeeps
  <2>2. ~permitted' => ~PermittedAt(now)'
    BY <1>1, LookKeeps
  <2> QED
    BY <1>2, <1>3, <1>5, <2>1, <2>2 DEF Waiting, Reading
<1> QED
  BY <1>1, <1>3, <1>6, LookKeeps DEF StatusInv

LEMMA ReadsRowsStep ==
  ASSUME StatusInv, ShowReadsRows
  PROVE  StatusInv'
<1> DEFINE rows == IF reader.hasTable THEN table
                   ELSE IF current # Null /\ current.type = "grant" THEN <<current>> ELSE <<>>
           next == [pc |-> "current", rows |-> rows]
<1>1. Look(next) /\ reader.pc = "rows"
  BY DEF ShowReadsRows
<1>2. /\ Rows \in Seq(EventRows) /\ table \in Seq(EventRows)
      /\ (current # Null /\ current.type = "grant") => ~IsPending /\ current \in EventRows
  BY RowsTyped, GrantTyped DEF StatusInv, Inv, TypeOK, EventRows, IsPending
<1>3. rows \in Seq(EventRows)
  BY <1>2
<1>4. reader' = next /\ reader'.pc = "current" /\ reader'.rows = rows
  BY <1>1, LookKeeps
<1>5. ReaderTyped' /\ PermissionWasReal'
  BY <1>3, <1>4 DEF ReaderTyped, PermissionWasReal, Reading
<1>6. ASSUME ~permitted' PROVE Accounted(rows) \/ (rows # <<>> /\ SequenceOf(rows[1]) # 1)
  <2>1. Waiting
    BY <1>1, <1>6, LookKeeps
  <2>2. CASE reader.hasTable
    <3>1. hasTable
      BY <1>1, <2>1, <2>2 DEF Waiting
    <3>2. rows = Rows
      BY <2>2, <3>1 DEF Rows
    <3> QED
      BY <3>2 DEF Accounted
  <2>3. CASE ~reader.hasTable /\ current # Null /\ current.type = "grant"
    <3>1. rows = <<current>> /\ ~IsPending
      BY <1>2, <2>3
    <3>2. PICK i \in 1 .. Len(Rows) : Rows[i] = current
      BY <2>3, <3>1, CurrentGrantInRows DEF StatusInv
    <3>3. CASE i = 1
      <4>1. Rows # <<>> /\ <<Rows[1]>> = rows
        BY <3>1, <3>2, <3>3
      <4> QED
        BY <1>1, <2>1, <2>3, <4>1 DEF Waiting
    <3>4. CASE i # 1
      <4>1. SequenceOf(current) = i
        BY <3>2 DEF StatusInv, InSequence
      <4> QED
        BY <3>1, <3>4, <4>1
    <3> QED
      BY <3>3, <3>4
  <2>4. CASE ~reader.hasTable /\ ~(current # Null /\ current.type = "grant")
    BY <2>4, NothingIsOver DEF Accounted
  <2> QED
    BY <2>2, <2>3, <2>4
<1>7. ASSUME ~permitted' PROVE Waiting'
  <2>1. PICK read : read = rows
    OBVIOUS
  <2>2. Accounted(read)' = Accounted(read) /\ ~PermittedAt(now)'
    BY <1>1, <1>7, LookKeeps
  <2>3. Accounted(read)' \/ (read # <<>> /\ SequenceOf(read[1]) # 1)
    BY <1>6, <1>7, <2>1, <2>2
  <2>4. reader'.rows = read
    BY <1>4, <2>1
  <2>5. Accounted(reader.rows)' \/ Misplaced'
    BY <1>4, <2>3, <2>4 DEF Accounted, Misplaced, SequenceOf
  <2> QED
    BY <1>4, <2>2, <2>5 DEF Waiting
<1> QED
  BY <1>1, <1>5, <1>7, LookKeeps DEF StatusInv

LEMMA ValidatesStep ==
  ASSUME StatusInv, ShowValidates
  PROVE  StatusInv'
<1>1. CASE \E outcome \in {"rejected", "unverified"} : Look(Idle(outcome, FALSE))
  BY <1>1, EndsWithout DEF Outcomes
<1>2. CASE /\ HistoryVerifies(reader.rows, current, now)
           /\ Look([reader EXCEPT !.pc = "pending"])
  <2>1. reader.pc = "current"
    BY DEF ShowValidates
  <2>2. /\ reader' = [reader EXCEPT !.pc = "pending"]
        /\ reader \in [pc: Reading, rows: Seq(EventRows)]
    BY <1>2, <2>1, LookKeeps DEF StatusInv, ReaderTyped
  <2>3. reader'.pc = "pending" /\ reader'.rows = reader.rows /\ reader.rows \in Seq(EventRows)
    BY <2>2
  <2>4. ReaderTyped' /\ PermissionWasReal'
    BY <2>2, <2>3 DEF ReaderTyped, PermissionWasReal, Reading
  <2>5. ~Misplaced
    <3> SUFFICES ASSUME reader.rows # <<>> PROVE SequenceOf(reader.rows[1]) = 1
      BY DEF Misplaced
    <3>1. 1 \in 1 .. Len(reader.rows)
      BY <2>3
    <3> QED
      BY <1>2, <3>1 DEF HistoryVerifies
  <2>6. ASSUME ~permitted' PROVE Waiting'
    <3>1. PICK read : read = reader.rows
      OBVIOUS
    <3>2. Accounted(read)' = Accounted(read) /\ ~PermittedAt(now)' /\ Waiting
      BY <1>2, <2>1, <2>6, LookKeeps
    <3>3. Accounted(reader.rows)
      BY <2>1, <2>5, <3>2 DEF Waiting, Reading
    <3>4. Accounted(reader.rows)'
      BY <2>3, <3>1, <3>2, <3>3 DEF Accounted
    <3> QED
      BY <2>3, <3>2, <3>4 DEF Waiting
  <2> QED
    BY <1>2, <2>4, <2>6, LookKeeps DEF StatusInv
<1> QED
  BY <1>1, <1>2 DEF ShowValidates

LEMMA ReadsPendingStep ==
  ASSUME StatusInv, ShowReadsPending
  PROVE  StatusInv'
<1>1. CASE Look(Idle("unverified", FALSE))
  BY <1>1, EndsWithout DEF Outcomes
<1>2. CASE Look([reader EXCEPT !.pc = "grant"])
  <2>1. reader.pc = "pending"
    BY DEF ShowReadsPending
  <2>2. /\ reader' = [reader EXCEPT !.pc = "grant"]
        /\ reader \in [pc: Reading, rows: Seq(EventRows)]
    BY <1>2, <2>1, LookKeeps DEF StatusInv, ReaderTyped
  <2>3. reader'.pc = "grant" /\ reader'.rows = reader.rows
    BY <2>2
  <2>4. ReaderTyped' /\ PermissionWasReal'
    BY <2>2, <2>3 DEF ReaderTyped, PermissionWasReal, Reading
  <2>5. ASSUME ~permitted' PROVE Waiting'
    <3>1. PICK read : read = reader.rows
      OBVIOUS
    <3>2. Accounted(read)' = Accounted(read) /\ ~PermittedAt(now)' /\ Waiting
      BY <1>2, <2>1, <2>5, LookKeeps
    <3>3. Accounted(reader.rows)
      BY <2>1, <3>2 DEF Waiting, Reading, Misplaced
    <3>4. Accounted(reader.rows)'
      BY <2>3, <3>1, <3>2, <3>3 DEF Accounted
    <3> QED
      BY <2>3, <3>2, <3>4 DEF Waiting
  <2> QED
    BY <1>2, <2>4, <2>5, LookKeeps DEF StatusInv
<1> QED
  BY <1>1, <1>2 DEF ShowReadsPending

LEMMA ChecksGrantStep ==
  ASSUME StatusInv, ShowChecksGrant
  PROVE  StatusInv'
<1> DEFINE state == StateOf(reader.rows, now)
<1>1. CASE Look(Idle("unverified", FALSE))
  BY <1>1, EndsWithout DEF Outcomes
<1>2. CASE Look([pc |-> "controls", state |-> state])
  <2>1. reader.pc = "grant"
    BY DEF ShowChecksGrant
  <2>2. reader' = [pc |-> "controls", state |-> state] /\ reader.rows \in Seq(EventRows)
    BY <1>2, <2>1, LookKeeps DEF StatusInv, ReaderTyped
  <2>3. reader'.pc = "controls" /\ reader'.state = state
    BY <2>2
  <2>4. ReaderTyped' /\ PermissionWasReal'
    BY <2>2, <2>3, StateTyped DEF ReaderTyped, PermissionWasReal
  <2>5. ASSUME ~permitted', state = "authorized" PROVE IsSuspended(controls)
    <3>1. Accounted(reader.rows) /\ ~PermittedAt(now)
      BY <1>2, <2>1, <2>5, LookKeeps DEF Waiting, Reading, Misplaced
    <3>2. now \in Nat
      BY LifecycleAssumption DEF LifecycleAssumption, StatusInv, Inv, TypeOK
    <3>3. ~Over(reader.rows, now)
      BY <2>5, <3>2 DEF Over
    <3>4. CASE reader.rows = Rows
      BY <2>5, <3>1, <3>4 DEF PermittedAt
    <3> QED
      BY <3>1, <3>3, <3>4 DEF Accounted
  <2>6. ASSUME ~permitted' PROVE Waiting'
    <3>1. ~PermittedAt(now)' /\ controls' = controls
      BY <1>2, <2>1, <2>6, LookKeeps DEF vars
    <3>2. (state = "authorized" => IsSuspended(controls)')
      BY <2>5, <2>6, <3>1 DEF IsSuspended
    <3> QED
      BY <2>3, <3>1, <3>2 DEF Waiting, Reading
  <2> QED
    BY <1>2, <2>4, <2>6, LookKeeps DEF StatusInv
<1> QED
  BY <1>1, <1>2 DEF ShowChecksGrant

LEMMA EndStep ==
  ASSUME StatusInv, ShowEnds
  PROVE  StatusInv'
<1> DEFINE claim == Claim(reader.state, controls)
<1>1. Look(Idle("shown", claim)) /\ reader.pc = "controls"
  BY DEF ShowEnds
<1>2. reader' = [pc |-> "idle", outcome |-> "shown", claim |-> claim]
  BY <1>1, LookKeeps DEF Idle
<1>3. ReaderTyped' /\ reader'.pc = "idle" /\ reader'.claim = claim
  BY <1>2 DEF ReaderTyped, Outcomes, Claim
<1>4. claim => permitted'
  <2> SUFFICES ASSUME claim, ~permitted' PROVE FALSE
    OBVIOUS
  <2>1. Waiting
    BY <1>1, LookKeeps
  <2> QED
    BY <1>1, <2>1 DEF Waiting, Claim
<1> QED
  BY <1>1, <1>3, <1>4, LookKeeps DEF StatusInv, PermissionWasReal

(***************************************************************************)
(* The steps of show change nothing of the administrative database: beside *)
(* readers the commands behave as WitnessLifecycle says.                   *)
(***************************************************************************)
THEOREM ReadersChangeNothing == StatusSpec => Spec
<1>1. StatusInit => Init
  BY DEF StatusInit
<1>2. [StatusNext]_statusVars => [Next]_vars
  BY DEF StatusNext, Show, ShowBegins, ShowLooksForControls, ShowFindsTable, ShowReadsRows,
         ShowValidates, ShowReadsPending, ShowChecksGrant, ShowEnds, Look, statusVars
<1> QED
  BY <1>1, <1>2, PTL DEF StatusSpec, Spec

(***************************************************************************)
(* A permission that show reports was real at some moment of the call      *)
(* (PermissionWasReal), whatever commands run between its queries: rows    *)
(* read before are those of the database, or worth nothing any more, or    *)
(* witnessing is suspended.                                                *)
(***************************************************************************)
THEOREM PermissionAlwaysReal == StatusSpec => []PermissionWasReal
<1>1. StatusInit => StatusInv
  <2> SUFFICES ASSUME StatusInit PROVE StatusInv
    OBVIOUS
  <2>1. Init /\ reader = [pc |-> "idle", outcome |-> "none", claim |-> FALSE] /\ permitted = FALSE
    BY DEF StatusInit, Idle
  <2>2. Inv
    BY <2>1, InitInv
  <2>3. InSequence
    <3>1. CASE current = Null
      <4>1. Rows = <<>> /\ Len(<<>>) = 0
        BY <2>1, <3>1 DEF Init, Rows
      <4> QED
        BY <4>1 DEF InSequence
    <3>2. CASE current \in LegacyRows
      <4>1. current \in GrantRows /\ current.request.sequence = 1 /\ Rows = <<current>>
        BY <2>1, <3>2, GrantTyped, LifecycleAssumption DEF LifecycleAssumption, Init, Rows
      <4>2. Len(Rows) = 1 /\ Rows[1] = current /\ current.type = "grant"
        BY <4>1, GrantTyped
      <4> QED
        BY <4>1, <4>2 DEF InSequence, SequenceOf
    <3> QED
      BY <2>1, <3>1, <3>2 DEF Init
  <2>4. ReaderTyped /\ PermissionWasReal /\ reader.pc = "idle"
    BY <2>1 DEF ReaderTyped, Outcomes, PermissionWasReal
  <2> QED
    BY <2>1, <2>2, <2>3, <2>4 DEF StatusInv
<1>2. StatusInv /\ [StatusNext]_statusVars => StatusInv'
  <2> SUFFICES ASSUME StatusInv, [StatusNext]_statusVars PROVE StatusInv'
    OBVIOUS
  <2>1. CASE Show
    BY <2>1, BeginStep, ControlsLookStep, FindsTableStep, ReadsRowsStep, ValidatesStep,
       ReadsPendingStep, ChecksGrantStep, EndStep DEF Show
  <2>2. CASE Next /\ UNCHANGED reader /\ Remember
    BY <2>2, CommandStep
  <2>3. CASE UNCHANGED statusVars
    <3>1. UNCHANGED <<now, hasTable, table, current, controls, made, reader, permitted>>
      BY <2>3 DEF statusVars, vars, rowVars
    <3>2. Inv' /\ InSequence'
      BY <2>3, LifecycleStep, SequenceStep DEF StatusInv, statusVars
    <3>3. ReaderTyped' /\ PermissionWasReal'
      BY <3>1 DEF StatusInv, ReaderTyped, PermissionWasReal
    <3>4. Rows' = Rows
      BY <3>1 DEF Rows
    <3>5. Waiting => Waiting'
      <4> DEFINE At == ~PermittedAt(now)
                 R1 == reader.pc = "rows" =>
                         IF reader.hasTable THEN hasTable ELSE Rows = <<>> \/ Accounted(<<Rows[1]>>)
                 R2 == reader.pc \in Reading => Accounted(reader.rows) \/ Misplaced
                 R3 == reader.pc = "controls" => (reader.state = "authorized" => IsSuspended(controls))
      <4>1. At => At'
        BY <3>1, <3>4 DEF PermittedAt, StateOf, WindowEnd, IsSuspended
      <4>2. R1 => R1'
        BY <3>1, <3>4 DEF Accounted, Over, StateOf, WindowEnd, IsSuspended
      <4>3. R2 => R2'
        BY <3>1, <3>4 DEF Accounted, Misplaced, SequenceOf, Over, StateOf, WindowEnd, IsSuspended
      <4>4. R3 => R3'
        BY <3>1 DEF IsSuspended
      <4> QED
        BY <4>1, <4>2, <4>3, <4>4 DEF Waiting
    <3> QED
      BY <3>1, <3>2, <3>3, <3>5 DEF StatusInv
  <2> QED
    BY <2>1, <2>2, <2>3 DEF StatusNext
<1>3. StatusInv => PermissionWasReal
  BY DEF StatusInv
<1> QED
  BY <1>1, <1>2, <1>3, PTL DEF StatusSpec

=============================================================================
