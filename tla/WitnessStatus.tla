----------------------------- MODULE WitnessStatus -----------------------------
(***************************************************************************)
(* WitnessAuthorization.show, which the HTTP status routes and the startup *)
(* of the relay call, beside the commands of other processes.  show opens  *)
(* the database read-only and begins no transaction, so each of its        *)
(* queries sees the database at its own moment.                            *)
(***************************************************************************)
EXTENDS WitnessLifecycle

VARIABLES
  reader,    \* where show is, and what it has read
  permitted  \* witnessing was permitted at some moment since show began

statusVars == <<vars, reader, permitted>>

Outcomes == {"none", "not-authorized", "rejected", "unverified", "shown"}
Idle(outcome, claim) == [pc |-> "idle", outcome |-> outcome, claim |-> claim]

PermittedAt(t) == StateOf(Rows, t) = "authorized" /\ ~IsSuspended(controls)

\* A renewal imported ahead of the clock, which may have been set back to
\* before the grant it replaces: from then on neither is in force.
RenewedAhead ==
  /\ Rows # <<>> /\ HeadRow.type = "grant"
  /\ Rows' # <<>> /\ Rows' # Rows
  /\ HeadRow'.type = "grant" /\ now < HeadRow'.created

\* The moments of a call are remembered from its first query on, with those
\* the clock went through.  Such a renewal, or a clock set back during the
\* call, excuses any answer.
Remember ==
  permitted' = (permitted \/ now' < now \/ RenewedAhead \/ \E t \in now .. now' : PermittedAt(t)')
Look(next) == reader' = next /\ UNCHANGED vars /\ Remember

-----------------------------------------------------------------------------
\* The first query: without a row only controls are worth a view.
ShowBegins ==
  /\ reader.pc = "idle"
  /\ reader' = [pc |-> IF current = Null THEN "empty" ELSE "history"]
  /\ permitted' = PermittedAt(now)
  /\ UNCHANGED vars

ShowLooksForControls ==
  /\ reader.pc = "empty"
  /\ Look(IF controls = <<>> THEN Idle("not-authorized", FALSE) ELSE [pc |-> "history"])

\* _history: whether the table exists, then its rows or the legacy row.
ShowFindsTable ==
  /\ reader.pc = "history"
  /\ Look([pc |-> "rows", hasTable |-> hasTable])

ShowReadsRows ==
  /\ reader.pc = "rows"
  /\ Look([pc |-> "current",
           rows |-> IF reader.hasTable THEN table
                    ELSE IF current # Null /\ current.type = "grant" THEN <<current>> ELSE <<>>])

\* The current row is read and compared with the history read before.
ShowValidates ==
  /\ reader.pc = "current"
  /\ Look(IF HistoryVerifies(reader.rows, current, now) THEN [reader EXCEPT !.pc = "pending"]
          ELSE Idle(IF \A i \in 1 .. Len(reader.rows) :
                         reader.rows[i].type = "grant" => GrantVerifies(reader.rows[i], now)
                    THEN "rejected" ELSE "unverified", FALSE))

\* _view reads the row again for a pending request.
ShowReadsPending ==
  /\ reader.pc = "pending"
  /\ Look(IF IsPending /\ ~RequestVerifies(current, now) THEN Idle("unverified", FALSE)
          ELSE [reader EXCEPT !.pc = "grant"])

\* _check of the latest grant reads the clock once more.
ShowChecksGrant ==
  /\ reader.pc = "grant"
  /\ Look(IF \E i \in 1 .. Len(reader.rows) :
               i = Len(reader.rows) /\ reader.rows[i].type = "grant" /\ ~GrantVerifies(reader.rows[i], now)
          THEN Idle("unverified", FALSE)
          ELSE [pc |-> "controls", state |-> StateOf(reader.rows, now)])

M_Claim(state, rows) == state = "authorized"

\* witnessing_permitted
Claim(state, rows) == state = "authorized" /\ ~IsSuspended(rows)

ShowEnds ==
  /\ reader.pc = "controls"
  /\ Look(Idle("shown", Claim(reader.state, controls)))

Show ==
  \/ ShowBegins \/ ShowLooksForControls \/ ShowFindsTable \/ ShowReadsRows \/ ShowValidates
  \/ ShowReadsPending \/ ShowChecksGrant \/ ShowEnds

StatusInit == Init /\ reader = Idle("none", FALSE) /\ permitted = FALSE

StatusNext == Show \/ (Next /\ UNCHANGED reader /\ Remember)

StatusSpec == StatusInit /\ [][StatusNext]_statusVars

-----------------------------------------------------------------------------
(***************************************************************************)
(* When show reports that witnessing is permitted, it was permitted at     *)
(* some moment of the call, although the history and the controls it       *)
(* combines are read at different moments, unless during the call the      *)
(* clock was set back or a renewal signed ahead of it was imported.        *)
(***************************************************************************)
PermissionWasReal == reader.pc = "idle" /\ reader.claim => permitted

(***************************************************************************)
(* show rejects only evidence that was tampered with: every state the      *)
(* commands leave is consistent, since importing a renewal advances the    *)
(* head atomically (docs/witness-lifecycle.md).  The code does not keep    *)
(* it: the history and the row it is compared with are two reads.          *)
(***************************************************************************)
NeverRejected == reader.pc = "idle" => reader.outcome # "rejected"

=============================================================================
