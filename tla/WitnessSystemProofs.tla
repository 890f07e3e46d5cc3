-------------------------- MODULE WitnessSystemProofs --------------------------
(***************************************************************************)
(* Proofs about WitnessSystem: what AutomaticWitness assumes of the        *)
(* authority, the commands of WitnessLifecycle provide, and neither        *)
(* disturbs what is proved of the other.                                   *)
(***************************************************************************)
EXTENDS WitnessSystem, AutomaticWitnessProofs

\* The relay reads what the tables hold.
ChainRead ==
  /\ history = Lifecycle!Chain
  /\ suspended = Lifecycle!IsSuspended(controls)

SystemInv == IndInv /\ Lifecycle!Inv /\ ChainRead

-----------------------------------------------------------------------------
(***************************************************************************)
(* What Authority says of the entries of the tables, it says of the chain  *)
(* the relay reads.                                                        *)
(***************************************************************************)
LEMMA AdminCommandRead ==
  ASSUME ChainRead, ChainRead', Lifecycle!Abstract!AdminCommand(wall)
  PROVE  AdminCommand(wall)
<1> USE DEF ChainRead
<1>h. history = Lifecycle!Chain /\ history' = Lifecycle!Chain'
  OBVIOUS
<1>s. suspended = Lifecycle!IsSuspended(controls) /\ suspended' = Lifecycle!IsSuspended(controls)'
  OBVIOUS
<1>e. EvidenceVerifies(wall) <=> Lifecycle!Abstract!EvidenceVerifies(wall)
  BY <1>h DEF EvidenceVerifies, Lifecycle!Abstract!EvidenceVerifies
<1>1. ASSUME NEW g \in Lifecycle!Offers, Lifecycle!Abstract!Grant(g, wall)
      PROVE  AdminCommand(wall)
  <2>1. Grant(g, wall)
    BY <1>1, <1>h, <1>s, <1>e
      DEF Grant, Lifecycle!Abstract!Grant, HeadEntry, Lifecycle!Abstract!HeadEntry,
          Deadline, Lifecycle!Abstract!Deadline
  <2> QED
    BY <2>1, SystemAssumption DEF AdminCommand
<1>2. ASSUME NEW created \in Times, Lifecycle!Abstract!Revoke(created, wall)
      PROVE  AdminCommand(wall)
  <2>1. Revoke(created, wall)
    BY <1>2, <1>h, <1>s, <1>e
      DEF Revoke, Lifecycle!Abstract!Revoke, HeadEntry, Lifecycle!Abstract!HeadEntry
  <2> QED
    BY <2>1 DEF AdminCommand
<1>3. CASE Lifecycle!Abstract!Suspend(wall)
  <2>1. Suspend(wall)
    BY <1>3, <1>h, <1>s, <1>e DEF Suspend, Lifecycle!Abstract!Suspend
  <2> QED
    BY <2>1 DEF AdminCommand
<1>4. CASE Lifecycle!Abstract!Resume(wall)
  <2>1. AuthorizationState(wall) = Lifecycle!Abstract!AuthorizationState(wall)
    BY <1>h DEF AuthorizationState, Lifecycle!Abstract!AuthorizationState,
                HeadEntry, Lifecycle!Abstract!HeadEntry
  <2>2. Resume(wall)
    BY <1>4, <2>1, <1>h, <1>s, <1>e DEF Resume, Lifecycle!Abstract!Resume
  <2> QED
    BY <2>2 DEF AdminCommand
<1> QED
  BY <1>1, <1>2, <1>3, <1>4 DEF Lifecycle!Abstract!AdminCommand

(***************************************************************************)
(* A command is, for the relay, an administrative command of Authority, or *)
(* nothing (the requests, which leave the chain alone).                    *)
(***************************************************************************)
LEMMA CommandAdministers ==
  ASSUME SystemInv, Command
  PROVE  ChainRead' /\ (Administer \/ UNCHANGED vars)
<1>1. ChainRead'
  BY DEF Command, ChainRead
<1>2. \/ Lifecycle!Abstract!AdminCommand(wall)
      \/ UNCHANGED Lifecycle!Abstract!authorityVars
  BY SystemAssumption, Lifecycle!CommandImplements DEF SystemInv, Command
<1>3. CASE Lifecycle!Abstract!AdminCommand(wall)
  BY <1>1, <1>3, AdminCommandRead DEF SystemInv, Command, Administer
<1>4. CASE UNCHANGED Lifecycle!Abstract!authorityVars
  <2>1. history' = history /\ suspended' = suspended
    BY <1>1, <1>4 DEF SystemInv, ChainRead, Lifecycle!Abstract!authorityVars
  <2> QED
    BY <1>1, <2>1 DEF Command, vars, authorityVars
<1> QED
  BY <1>1, <1>2, <1>3, <1>4

(***************************************************************************)
(* Every step is one of AutomaticWitness, or nothing to it.                *)
(***************************************************************************)
LEMMA SystemStepWitness == SystemInv /\ [SystemNext]_systemVars => [Next]_vars
<1> SUFFICES ASSUME SystemInv, [SystemNext]_systemVars
             PROVE  [Next]_vars
  OBVIOUS
<1>1. CASE Attend
  BY <1>1 DEF Attend, Next
<1>2. CASE Command
  BY <1>2, CommandAdministers DEF Next
<1>3. CASE UNCHANGED systemVars
  BY <1>3 DEF systemVars
<1> QED
  BY <1>1, <1>2, <1>3 DEF SystemNext

(***************************************************************************)
(* A step of the relay leaves the tables alone, a command keeps what       *)
(* WitnessLifecycle keeps.                                                 *)
(***************************************************************************)
LEMMA SystemStepTables ==
  ASSUME SystemInv, [SystemNext]_systemVars
  PROVE  /\ Lifecycle!Inv' /\ ChainRead'
         /\ [Lifecycle!Next]_(Lifecycle!vars)
<1>1. wall' \in Times
  <2>1. TypeOK'
    BY SystemStepWitness, TypeStep DEF SystemInv
  <2> QED
    BY <2>1, WitnessAssumption DEF TypeOK
<1>2. CASE Command
  <2>1. Lifecycle!Next
    BY <1>2 DEF Command, Lifecycle!Next
  <2>2. Lifecycle!Inv'
    BY <2>1, SystemAssumption, Lifecycle!LifecycleStep DEF SystemInv
  <2> QED
    BY <1>2, <2>1, <2>2, CommandAdministers
<1>3. CASE Attend \/ UNCHANGED systemVars
  <2>1. UNCHANGED <<hasTable, table, current, controls, made>>
    BY <1>3 DEF Attend, systemVars, tableVars
  <2>2. Lifecycle!SetClock(wall')
    BY <2>1 DEF Lifecycle!SetClock, Lifecycle!rowVars
  <2>3. Lifecycle!Inv' /\ Lifecycle!Rows' = Lifecycle!Rows
    <3>1. controls' \in Seq({"suspend", "resume"})
      BY <2>1 DEF SystemInv, Lifecycle!Inv, Lifecycle!TypeOK
    <3> QED
      BY <1>1, <2>1, <3>1, SystemAssumption, Lifecycle!OtherStep DEF SystemInv, Lifecycle!rowVars
  <2>4. UNCHANGED <<history, suspended>>
    BY <1>3 DEF Attend, Unattended, WorkerStep, PlainAccept, AcceptBegin, AcceptCommit, AcceptFail,
         CheckClock, FetchRows, IssueBegin, IssueCommit, Broadcast, FlagBroadcast, IssueFail,
         BroadcastTimeout, PassFail, Crash, Stop, Exit, Restart, TimePasses, WallStepped,
         HealthReported, systemVars, vars, authorityVars
  <2>5. ChainRead'
    BY <2>1, <2>3, <2>4 DEF SystemInv, ChainRead, Lifecycle!Chain, Lifecycle!Entry,
         Lifecycle!WindowEnd, Lifecycle!IsSuspended
  <2> QED
    BY <1>1, <2>2, <2>3, <2>5 DEF Lifecycle!Next
<1> QED
  BY <1>2, <1>3 DEF SystemNext

-----------------------------------------------------------------------------
(***************************************************************************)
(* The relay and its tables keep their invariants together.                *)
(***************************************************************************)
THEOREM SystemInductive == SystemSpec => []SystemInv
<1>1. SystemInit => SystemInv
  <2> SUFFICES ASSUME SystemInit PROVE SystemInv
    OBVIOUS
  <2>1. Lifecycle!Inv
    BY SystemAssumption, Lifecycle!InitInv DEF SystemInit
  <2>2. Lifecycle!IsSuspended(controls) = FALSE
    BY DEF SystemInit, Lifecycle!Init, Lifecycle!IsSuspended
  <2>3. suspended = FALSE
    BY DEF SystemInit, Init, AuthorityInit, LegacyInit
  <2> QED
    BY <2>1, <2>2, <2>3, InitSound DEF SystemInit, SystemInv, ChainRead
<1>2. SystemInv /\ [SystemNext]_systemVars => SystemInv'
  <2> SUFFICES ASSUME SystemInv, [SystemNext]_systemVars PROVE SystemInv'
    OBVIOUS
  <2>1. [Next]_vars /\ IndInv
    BY SystemStepWitness DEF SystemInv
  <2>2. IndInv'
    BY <2>1, TypeStep, AcceptStep, IssueStep, JobsStep, WorkerKept, FlagsKept, EventsKept DEF IndInv
  <2> QED
    BY <2>2, SystemStepTables DEF SystemInv
<1> QED
  BY <1>1, <1>2, PTL DEF SystemSpec

(***************************************************************************)
(* The relay on the real tables behaves as AutomaticWitness says, whose    *)
(* authority is abstract (ImplementsWitness): everything proved of that    *)
(* module holds here.                                                      *)
(***************************************************************************)
THEOREM SystemImplementsWitness == SystemSpec => ImplementsWitness
<1>1. SystemInit => Init
  BY DEF SystemInit
<1>2. SystemInv /\ [SystemNext]_systemVars => [Next]_vars
  BY SystemStepWitness
<1> QED
  BY <1>1, <1>2, SystemInductive, PTL DEF SystemSpec, ImplementsWitness, Spec

(***************************************************************************)
(* The tables behave as WitnessLifecycle says, whatever the relay does and *)
(* however its clock is stepped.                                           *)
(***************************************************************************)
THEOREM SystemKeepsLifecycle == SystemSpec => Lifecycle!Spec
<1>1. SystemInit => Lifecycle!Init
  BY DEF SystemInit
<1>2. SystemInv /\ [SystemNext]_systemVars => [Lifecycle!Next]_(Lifecycle!vars)
  BY SystemStepTables
<1> QED
  BY <1>1, <1>2, SystemInductive, PTL DEF SystemSpec, Lifecycle!Spec

(***************************************************************************)
(* No receipt becomes durable after the commands ended its authority       *)
(* (IssuedUnderAuthority).                                                 *)
(***************************************************************************)
THEOREM SystemIssuesUnderAuthority == SystemSpec => IssuedUnderAuthority
BY SystemImplementsWitness, IssuanceAuthorized DEF ImplementsWitness

(***************************************************************************)
(* Beside the relay, too, only a step of the clock makes the tables        *)
(* unreadable (TablesStayReadable).                                        *)
(***************************************************************************)
THEOREM TablesAreReadable == SystemSpec => TablesStayReadable
BY SystemKeepsLifecycle, SystemAssumption, Lifecycle!RowsStayReadable, PTL DEF TablesStayReadable

(***************************************************************************)
(* Every receipt has the row of its grant on record (ReceiptsOnRecord):    *)
(* the position a receipt names is that of a grant whose request asked for *)
(* the kind, the clock profile and the window the receipt relies on.       *)
(***************************************************************************)
THEOREM ReceiptsAreOnRecord == SystemSpec => []ReceiptsOnRecord
<1>1. SystemInv /\ ReceiptsCovered => ReceiptsOnRecord
  <2> SUFFICES ASSUME SystemInv, ReceiptsCovered, NEW d \in Subjects, state[d] = "issued"
               PROVE  LET r == receipt[d]
                          row == Lifecycle!Rows[r.auth]
                          margin == IF r.uncertainty = Null THEN 0 ELSE r.uncertainty
                      IN /\ r.auth \in 1 .. Len(Lifecycle!Rows) /\ row.type = "grant"
                         /\ KindOf[d] \in row.request.terms.kinds
                         /\ r.mode = row.request.terms.profile
                         /\ row.created <= r.observed - margin /\ row.created <= r.issued
                         /\ r.observed + margin < Lifecycle!WindowEnd(row.request)
                         /\ r.issued < Lifecycle!WindowEnd(row.request)
    BY DEF ReceiptsOnRecord
  <2> DEFINE r == receipt[d]
             row == Lifecycle!Rows[r.auth]
  <2>1. /\ r.auth \in 1 .. Len(history) /\ history[r.auth].type = "grant"
        /\ KindOf[d] \in history[r.auth].kinds /\ r.mode = history[r.auth].profile
        /\ Within(history[r.auth], r.observed, r.uncertainty)
        /\ InForce(history[r.auth], r.issued)
    BY DEF ReceiptsCovered, Covered
  <2>2. Lifecycle!Rows \in Seq(Lifecycle!EventRows)
    BY SystemAssumption, Lifecycle!RowsTyped DEF SystemInv, Lifecycle!Inv
  <2>3. /\ r.auth \in 1 .. Len(Lifecycle!Rows)
        /\ history[r.auth] = Lifecycle!Entry(row) /\ row \in Lifecycle!EventRows
    BY <2>1, <2>2, SystemAssumption, Lifecycle!ChainOfRows DEF SystemInv, ChainRead
  <2>4. /\ row.type = "grant" /\ history[r.auth].created = row.created
        /\ history[r.auth].end = Lifecycle!WindowEnd(row.request)
    BY <2>1, <2>3, SystemAssumption, Lifecycle!EntryTyped
  <2>5. /\ history[r.auth].kinds = row.request.terms.kinds
        /\ history[r.auth].profile = row.request.terms.profile
    BY <2>3, <2>4 DEF Lifecycle!Entry
  <2>6. r.observed \in Int /\ r.issued \in Int /\ row.created \in Int
    <3>1. r \in Receipts
      BY DEF SystemInv, IndInv, TypeOK
    <3>2. r.observed \in Readings /\ r.issued \in Readings
      BY <3>1 DEF Receipts
    <3>3. row.created \in Nat
      BY <2>3, SystemAssumption, Lifecycle!EventTyped
    <3> QED
      BY <3>2, <3>3 DEF Readings
  <2>7. /\ row.created <= r.issued /\ r.issued < Lifecycle!WindowEnd(row.request)
    BY <2>1, <2>4 DEF InForce
  <2>8. LET margin == IF r.uncertainty = Null THEN 0 ELSE r.uncertainty
        IN row.created <= r.observed - margin /\ r.observed + margin < Lifecycle!WindowEnd(row.request)
    BY <2>1, <2>4, <2>6 DEF Within
  <2> QED
    BY <2>1, <2>3, <2>4, <2>5, <2>7, <2>8
<1>2. SystemSpec => []ReceiptsCovered
  BY SystemImplementsWitness, ReceiptsStayCovered DEF ImplementsWitness
<1> QED
  BY <1>1, <1>2, SystemInductive, PTL

=============================================================================
