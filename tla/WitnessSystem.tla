---------------------------- MODULE WitnessSystem ----------------------------
(***************************************************************************)
(* The automatic witness on the real administrative database: the relay of *)
(* AutomaticWitness reads the tables that the commands of WitnessLifecycle *)
(* write.  The clock is one, wall; the chain and the suspension that the   *)
(* relay reads are what the tables hold, so each command recomputes them.  *)
(*                                                                         *)
(* The instance is of the module of proofs, so that its theorems can be    *)
(* cited; it adds no definition used here.                                 *)
(***************************************************************************)
EXTENDS AutomaticWitness

CONSTANTS
  Terms,         \* what a request may ask for: validity, kinds and policy
  LegacyRows,    \* grants an earlier release may have left
  MaxRequests,   \* bound of the model: requests made
  MaxControls    \* bound of the model: local controls recorded

VARIABLES
  hasTable, table,  \* witness_history: exists, and its rows
  current,          \* row of witness_authorization
  controls,         \* rows of witness_controls
  made              \* requests made

tableVars == <<hasTable, table, current, controls, made>>
systemVars == <<vars, tableVars>>

Lifecycle == INSTANCE WitnessLifecycleProofs WITH now <- wall, ClockGoesBack <- TRUE

ASSUME SystemAssumption ==
  /\ Lifecycle!LifecycleAssumption
  /\ Lifecycle!Offers \subseteq GrantOffers

-----------------------------------------------------------------------------
\* _view, of the rows as they are, which accept, issue and the start of the
\* relay read in one transaction or before the worker runs.
Readable == Lifecycle!RowsReadable

\* A step of anything but a command.  What a thread decides to write, and
\* that the relay starts, it owes to a view of rows that verify.
Attend ==
  /\ Unattended
  /\ (section' # section /\ section'.draft # Null) => Readable
  /\ (~up /\ up') => Readable
  /\ UNCHANGED tableVars

M_CommandUnserialized ==
  /\ Lifecycle!Command
  /\ history' = Lifecycle!Chain'
  /\ suspended' = Lifecycle!IsSuspended(controls')
  /\ UNCHANGED <<clockVars, processVars, section, worker, storeVars, sent, budget>>

\* A command of another process waits for the section and is one transaction.
Command ==
  /\ section = Vacant
  /\ Lifecycle!Command
  /\ history' = Lifecycle!Chain'
  /\ suspended' = Lifecycle!IsSuspended(controls')
  /\ UNCHANGED <<clockVars, processVars, section, worker, storeVars, sent, budget>>

SystemInit == Init /\ Lifecycle!Init /\ history = Lifecycle!Chain /\ Readable

SystemNext == Attend \/ Command

SystemSpec == SystemInit /\ [][SystemNext]_systemVars

-----------------------------------------------------------------------------
(***************************************************************************)
(* The relay and the commands together behave as AutomaticWitness says,    *)
(* whose authority is abstract.                                            *)
(***************************************************************************)
ImplementsWitness == Spec

(***************************************************************************)
(* Neither the relay nor a command makes the tables unreadable: their rows *)
(* fail to verify only while the clock is behind what was signed, and only *)
(* a step of the clock makes them fail (see StillReadable).                *)
(***************************************************************************)
TablesStayReadable == Lifecycle!StillReadable

(***************************************************************************)
(* Whatever was requested, imported, revoked or migrated since, the        *)
(* history has the row of the grant a receipt names, at the position the   *)
(* receipt names, and its request asked for the kind, the clock profile    *)
(* and the window of the observation and of the issuance.                  *)
(***************************************************************************)
ReceiptsOnRecord ==
  \A d \in {s \in Subjects : state[s] = "issued"} :
    LET r == receipt[d]
        row == Lifecycle!Rows[r.auth]
        margin == IF r.uncertainty = Null THEN 0 ELSE r.uncertainty
    IN /\ r.auth \in 1 .. Len(Lifecycle!Rows) /\ row.type = "grant"
       /\ KindOf[d] \in row.request.terms.kinds /\ r.mode = row.request.terms.profile
       /\ row.created <= r.observed - margin /\ row.created <= r.issued
       /\ r.observed + margin < Lifecycle!WindowEnd(row.request)
       /\ r.issued < Lifecycle!WindowEnd(row.request)

=============================================================================
