----------------------------- MODULE WitnessClock -----------------------------
(***************************************************************************)
(* The clock gate of automatic witnessing: the WitnessClock object of one  *)
(* relay process, the wall clock it reads, and the status file an outside  *)
(* monitor replaces.  The monotonic clock only matters through its         *)
(* difference with the wall clock, so the model keeps that difference:     *)
(* how far the wall clock was stepped since the previous sample.           *)
(***************************************************************************)
EXTENDS Integers

CONSTANTS
  MaxTime,        \* bound of the model: last reading of the wall clock
  Steps,          \* how far the wall clock may be stepped at once
  StepTolerance,  \* the 250 ms a sample lets pass
  FreshFor,       \* the 30 s after which a health report is stale
  SyncFreshFor,   \* MAX_SYNC_AGE_MS
  MaxUncertainty, \* the largest uncertainty of a bounded clock
  Outcomes,       \* what the monitor may find: see Findings
  Null            \* JSON null

VARIABLES
  wall,     \* time.time()
  step,     \* wall-clock steps since the previous sample
  latched,  \* WitnessClock.failed
  health    \* content of the monitor's status file

clockVars == <<wall, step, latched, health>>

Readings == 0 .. MaxTime

\* What a monitor finds: a bounded adapter an uncertainty, the bundled
\* operational one how long ago the clock was synchronized (negative when that
\* happened after the check began).
Findings == [synchronized: BOOLEAN, uncertainty: Int \cup {Null}, syncAge: Int \cup {Null}]

HealthReports ==
  [synchronized: BOOLEAN, checked: Int,
   uncertainty: Int \cup {Null}, lastSync: Int \cup {Null}]

ASSUME ClockAssumption ==
  /\ MaxTime \in Nat /\ MaxUncertainty \in Nat
  /\ StepTolerance \in Nat /\ FreshFor \in Nat /\ SyncFreshFor \in Nat
  /\ Steps \subseteq Int
  /\ Outcomes \subseteq Findings
  /\ Null \notin Int

-----------------------------------------------------------------------------
\* The divergence test of sample(), on the wall and monotonic clocks.
Diverged == step > StepTolerance \/ step < - StepTolerance

FreshReport ==
  health.synchronized /\ health.checked <= wall /\ wall - health.checked <= FreshFor

BoundedReport == health.uncertainty \in 0 .. MaxUncertainty

OperationalReport ==
  /\ health.uncertainty = Null
  /\ health.lastSync # Null
  /\ health.lastSync <= health.checked /\ health.checked - health.lastSync <= SyncFreshFor
  /\ health.lastSync <= wall /\ wall - health.lastSync <= SyncFreshFor

\* sample() returns a time in this mode instead of raising ClockUnavailable.
TimeKnown(mode) ==
  /\ ~latched /\ ~Diverged
  /\ CASE mode = "system"      -> TRUE
       [] mode = "bounded"     -> FreshReport /\ BoundedReport
       [] mode = "operational" -> FreshReport /\ OperationalReport

\* The uncertainty sample() returns; only bounded clocks claim one.
Uncertainty(mode) == IF mode = "bounded" THEN health.uncertainty ELSE Null

\* What every call of sample() does to the object, raising or not.
Sample ==
  /\ latched' = (latched \/ Diverged)
  /\ step' = 0
  /\ UNCHANGED <<wall, health>>

\* A new process starts its comparison afresh.
NewClock ==
  /\ latched' = FALSE
  /\ step' = 0
  /\ UNCHANGED <<wall, health>>

-----------------------------------------------------------------------------
Tick ==
  /\ wall < MaxTime
  /\ wall' = wall + 1
  /\ UNCHANGED <<step, latched, health>>

\* Someone sets the wall clock; the monotonic clock does not follow.
StepWall(d) ==
  /\ wall + d \in Readings
  /\ step + d \in - MaxTime .. MaxTime
  /\ wall' = wall + d
  /\ step' = step + d
  /\ UNCHANGED <<latched, health>>

\* The monitor replaces the status file as a whole.
Monitor(o) ==
  /\ health' = [synchronized |-> o.synchronized, checked |-> wall,
                uncertainty |-> o.uncertainty,
                lastSync |-> IF o.syncAge = Null THEN Null ELSE wall - o.syncAge]
  /\ UNCHANGED <<wall, step, latched>>

ClockInit ==
  /\ wall = 0 /\ step = 0 /\ latched = FALSE
  /\ health = [synchronized |-> FALSE, checked |-> 0, uncertainty |-> Null, lastSync |-> Null]

=============================================================================
