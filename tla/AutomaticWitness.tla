--------------------------- MODULE AutomaticWitness ---------------------------
(***************************************************************************)
(* Automatic receipt issuance in one relay process: the threads that       *)
(* accept submitted events, the worker that signs and broadcasts receipts, *)
(* the SQLite store they share, the process crashing and restarting, and   *)
(* the administrative commands of other processes.                         *)
(*                                                                         *)
(* accept and issue run inside the object's lock and, inside that, inside  *)
(* an immediate transaction on the administrative database, so at most one *)
(* of them, or one administrative command, runs at a time: section is the  *)
(* thread inside, with what it decided before it writes to the store.      *)
(***************************************************************************)
EXTENDS Authority, WitnessClock, FiniteSets

CONSTANTS
  Subjects,         \* signed events clients submit, each with its own digest
  IdOf,             \* their event ids: one id may carry several signatures
  KindOf,           \* their kinds
  Unverified,       \* those whose id or signature does not verify
  ModesUsed,        \* clock modes the relay is started with
  QueueLimit,       \* witness_queue_limit
  MaxDelay,         \* witness_max_delay_seconds
  MonitoredMaxDelay,\* the 60 s limit on the delay in modes without a bound
  BatchSize,        \* the LIMIT of the worker's query
  Disturbances      \* bound of the model: submissions, steps, crashes, failures

VARIABLES
  up, mode,         \* the relay process runs, and its settings' clock mode
  stopping,         \* the process was asked to shut down
  section,          \* the thread inside the lock and the admin transaction
  worker,           \* control state of AutomaticWitness.run
  stored,           \* events: the signed record kept for each event id
  state, inputs, receipt, flagged,  \* columns of witness_jobs, by digest
  rowids,           \* digests of witness_jobs in the order of their rowids
  sent,             \* receipts handed to broadcast (seen by subscribers)
  budget            \* disturbances left

jobVars == <<state, inputs, receipt, flagged, rowids>>
storeVars == <<stored, jobVars>>
processVars == <<up, mode, stopping>>
vars == <<authorityVars, clockVars, processVars, section, worker, storeVars, sent, budget>>

EventIds == {IdOf[s] : s \in Subjects}
WitnessKinds == {1415, 1416}

Observations == [auth: 1 .. MaxHistory, observed: Readings,
                 uncertainty: (0 .. MaxUncertainty) \cup {Null}, mode: ClockModes]
Receipts == [auth: 1 .. MaxHistory, observed: Readings, issued: Readings,
             uncertainty: (0 .. MaxUncertainty) \cup {Null}, mode: ClockModes]

ASSUME WitnessAssumption ==
  /\ IsFiniteSet(Subjects)
  /\ DOMAIN IdOf = Subjects
  /\ KindOf \in [Subjects -> Nat] /\ Unverified \subseteq Subjects
  /\ ModesUsed \subseteq ClockModes
  /\ QueueLimit \in Nat \ {0} /\ MaxDelay \in Nat \ {0}
  /\ MonitoredMaxDelay \in Nat /\ BatchSize \in Nat \ {0} /\ Disturbances \in Nat
  /\ Times = Readings
  /\ Null \notin Subjects /\ Null \notin Observations /\ Null \notin Receipts

Ledger == INSTANCE ReceiptLedger WITH
            outcome <- state, observation <- inputs, announced <- sent

\* A thread inside holds what it will write; Null stands for no job, no receipt.
Sections ==
  {[op |-> "none", subject |-> Null, draft |-> Null]}
  \cup [op: {"accept"}, subject: Subjects, draft: Observations \cup {Null}]
  \cup [op: {"issue"}, subject: Subjects, draft: Receipts \cup {Null}]

\* The worker goes through the rows of one query, of which it keeps a copy.
Rows == [digest: Subjects, state: {"pending", "issued"}]
Workers == [pc: {"asleep", "fetch", "rows", "flag"}, rows: Seq(Rows)]

Vacant == [op |-> "none", subject |-> Null, draft |-> Null]
Asleep == [pc |-> "asleep", rows |-> <<>>]

-----------------------------------------------------------------------------
(* Decisions taken inside the section, on the view of the authority chain  *)
(* and a sample of the clock.                                              *)

\* _within: the whole uncertainty interval lies in the signed window.
Within(g, now, uncertainty) ==
  IF uncertainty = Null
  THEN g.created <= now /\ now < g.end
  ELSE g.created <= now - uncertainty /\ now + uncertainty < g.end

M_AnyProfile(g) == mode = "bounded" \/ MaxDelay <= MonitoredMaxDelay

\* _policy_allows_mode: the policy the operator signed names this clock mode.
PolicyAllowsMode(g) ==
  g.profile = mode /\ (mode = "bounded" \/ MaxDelay <= MonitoredMaxDelay)

\* What accept and issue both require of the authority and of the clock.
MayWitness ==
  /\ TimeKnown(mode)
  /\ WitnessingPermitted(wall)
  /\ PolicyAllowsMode(HeadEntry)
  /\ Within(HeadEntry, wall, Uncertainty(mode))

\* Reading the authority raises unless the evidence verifies, and also for
\* faults of the evidence that the chain does not show (a pending request
\* dated ahead of the clock, a damaged row); the clock is sampled after it.
ReadAuthority(readable) ==
  IF readable THEN EvidenceVerifies(wall) /\ Sample ELSE UNCHANGED clockVars

Observation == [auth |-> Len(history), observed |-> wall,
                uncertainty |-> Uncertainty(mode), mode |-> mode]

\* The receipt pins the observation: same grant, same profile, in time.
M_AnyGrant(d) == TRUE
M_NotTooLate(d) == wall - inputs[d].observed <= MaxDelay
SameGrant(d) == inputs[d].auth = Len(history)
InTime(d) == inputs[d].observed <= wall /\ wall - inputs[d].observed <= MaxDelay

MayIssue(d) ==
  /\ MayWitness
  /\ inputs[d].mode = mode
  /\ SameGrant(d)
  /\ InTime(d)

Pending == {d \in Subjects : state[d] = "pending"}

\* verify_receipt, which issue runs on its own receipt before it stores it.
ReceiptVerifies(d, r) ==
  /\ KindOf[d] \in WitnessKinds
  /\ r.uncertainty # Null <=> r.mode = "bounded"
  /\ r.observed <= r.issued

-----------------------------------------------------------------------------
(* The store's transactions.                                               *)

\* INSERT OR IGNORE INTO events: the first signature of an id is kept.
SaveEvent(s) ==
  stored' = IF stored[IdOf[s]] = Null THEN [stored EXCEPT ![IdOf[s]] = s] ELSE stored

M_InsertRefreshes(s, observation) ==
  /\ state' = [state EXCEPT ![s] =
                  IF Cardinality(Pending) < QueueLimit THEN "pending" ELSE "unavailable"]
  /\ inputs' = [inputs EXCEPT ![s] = observation]
  /\ receipt' = [receipt EXCEPT ![s] = Null]
  /\ flagged' = [flagged EXCEPT ![s] = FALSE]
  /\ rowids' = Append(rowids, s)

M_InsertPastLimit(s, observation) ==
  IF state[s] # "not-observed" THEN UNCHANGED jobVars
  ELSE /\ state' = [state EXCEPT ![s] =
                      IF Cardinality(Pending) <= QueueLimit THEN "pending" ELSE "unavailable"]
       /\ inputs' = [inputs EXCEPT ![s] = observation]
       /\ rowids' = Append(rowids, s)
       /\ UNCHANGED <<receipt, flagged>>

\* INSERT OR IGNORE INTO witness_jobs, as pending while the queue has room.
InsertJob(s, observation) ==
  IF state[s] # "not-observed" THEN UNCHANGED jobVars
  ELSE /\ state' = [state EXCEPT ![s] =
                      IF Cardinality(Pending) < QueueLimit THEN "pending" ELSE "unavailable"]
       /\ inputs' = [inputs EXCEPT ![s] = observation]
       /\ rowids' = Append(rowids, s)
       /\ UNCHANGED <<receipt, flagged>>

M_CompleteUnlisted(d, r) ==
  /\ state' = [state EXCEPT ![d] = "issued"]
  /\ receipt' = [receipt EXCEPT ![d] = r]
  /\ flagged' = [flagged EXCEPT ![d] = TRUE]
  /\ UNCHANGED <<inputs, rowids>>

\* The receipt, the job's completion and the outbox flag in one transaction.
CompleteJob(d, r) ==
  /\ state' = [state EXCEPT ![d] = "issued"]
  /\ receipt' = [receipt EXCEPT ![d] = r]
  /\ flagged' = [flagged EXCEPT ![d] = FALSE]
  /\ UNCHANGED <<inputs, rowids>>

M_KeepJob(d) == UNCHANGED jobVars

AbandonJob(d) ==
  /\ state' = [state EXCEPT ![d] = IF @ = "pending" THEN "unavailable" ELSE @]
  /\ UNCHANGED <<inputs, receipt, flagged, rowids>>

-----------------------------------------------------------------------------
(* Submitted events.                                                       *)

Witnessable(s) == KindOf[s] \in WitnessKinds /\ s \notin Unverified

Disturb == budget > 0 /\ budget' = budget - 1

\* Other kinds, and signatures that do not verify, are stored without a job.
PlainAccept(s) ==
  /\ up /\ Disturb
  /\ ~Witnessable(s)
  /\ SaveEvent(s)
  /\ UNCHANGED <<authorityVars, clockVars, processVars, section, worker, jobVars, sent>>

AcceptBegin(s) ==
  /\ up /\ Disturb
  /\ Witnessable(s)
  /\ section = Vacant
  /\ \E readable \in BOOLEAN :
       /\ ReadAuthority(readable)
       /\ section' = [op |-> "accept", subject |-> s,
                      draft |-> IF readable /\ MayWitness /\ KindOf[s] \in HeadEntry.kinds
                                THEN Observation ELSE Null]
  /\ UNCHANGED <<authorityVars, processVars, worker, storeVars, sent>>

M_AcceptUnchecked ==
  /\ section.op = "accept"
  /\ SaveEvent(section.subject)
  /\ InsertJob(section.subject, section.draft)
  /\ section' = Vacant
  /\ UNCHANGED <<authorityVars, clockVars, processVars, worker, sent, budget>>

AcceptCommit ==
  /\ section.op = "accept"
  /\ SaveEvent(section.subject)
  /\ IF section.draft = Null THEN UNCHANGED jobVars
     ELSE InsertJob(section.subject, section.draft)
  /\ section' = Vacant
  /\ UNCHANGED <<authorityVars, clockVars, processVars, worker, sent, budget>>

M_AcceptTorn ==
  /\ section.op = "accept"
  /\ Disturb
  /\ IF section.draft = Null THEN UNCHANGED jobVars
     ELSE InsertJob(section.subject, section.draft)
  /\ section' = Vacant
  /\ UNCHANGED <<authorityVars, clockVars, processVars, worker, stored, sent>>

\* The transaction fails and rolls back: neither event nor job is kept.
AcceptFail ==
  /\ section.op = "accept"
  /\ Disturb
  /\ section' = Vacant
  /\ UNCHANGED <<authorityVars, clockVars, processVars, worker, storeVars, sent>>

-----------------------------------------------------------------------------
(* The worker.                                                             *)

\* No row is begun once the process was asked to stop.
NextRow ==
  LET rest == Tail(worker.rows)
  IN IF rest = <<>> \/ stopping THEN Asleep ELSE [pc |-> "rows", rows |-> rest]

M_CheckForever ==
  /\ up /\ worker = Asleep
  /\ section = Vacant
  /\ Sample
  /\ worker' = [pc |-> "fetch", rows |-> <<>>]
  /\ UNCHANGED <<authorityVars, processVars, section, storeVars, sent, budget>>

\* A pass begins with check_clock, under the object's lock, so never inside
\* accept or issue.
CheckClock ==
  /\ up /\ ~stopping /\ worker = Asleep
  /\ section = Vacant
  /\ Sample
  /\ worker' = [pc |-> "fetch", rows |-> <<>>]
  /\ UNCHANGED <<authorityVars, processVars, section, storeVars, sent, budget>>

M_NeedsIssuing(d) == state[d] = "pending"
NeedsWork(d) == state[d] = "pending" \/ (state[d] = "issued" /\ ~flagged[d])

Work == {i \in 1 .. Len(rowids) : NeedsWork(rowids[i])}

\* witness_rows(): the jobs that need work, oldest first, BatchSize at most.
OldestFirst(n, pick) ==
  /\ \A i, j \in 1 .. n : i < j => pick[i] < pick[j]
  /\ \A w \in Work : (n < BatchSize \/ w < pick[n]) => \E i \in 1 .. n : pick[i] = w

FetchRows ==
  /\ worker.pc = "fetch"
  /\ IF Work = {} \/ stopping THEN worker' = Asleep
     ELSE \E n \in 1 .. BatchSize : \E pick \in [1 .. n -> Work] :
            /\ OldestFirst(n, pick)
            /\ worker' = [pc |-> "rows",
                          rows |-> [i \in 1 .. n |->
                                      [digest |-> rowids[pick[i]], state |-> state[rowids[pick[i]]]]]]
  /\ UNCHANGED <<authorityVars, clockVars, processVars, section, storeVars, sent, budget>>

IssueBegin ==
  /\ worker.pc = "rows" /\ Head(worker.rows).state = "pending"
  /\ section = Vacant
  /\ LET d == Head(worker.rows).digest IN
     IF state[d] # "pending"
     THEN /\ worker' = NextRow
          /\ UNCHANGED <<section, clockVars>>
     ELSE /\ \E readable \in BOOLEAN :
               /\ ReadAuthority(readable)
               /\ section' = [op |-> "issue", subject |-> d,
                              draft |-> IF readable /\ MayIssue(d)
                                        THEN Ledger!ReceiptFor(inputs[d], wall) ELSE Null]
          /\ UNCHANGED worker
  /\ UNCHANGED <<authorityVars, processVars, storeVars, sent, budget>>

IssueCommit ==
  /\ section.op = "issue"
  /\ IF section.draft = Null THEN AbandonJob(section.subject)
     ELSE /\ ReceiptVerifies(section.subject, section.draft)
          /\ CompleteJob(section.subject, section.draft)
  /\ section' = Vacant
  /\ worker' = NextRow
  /\ UNCHANGED <<authorityVars, clockVars, processVars, stored, sent, budget>>

\* Signing or saving raises: the job is kept and the pass given up.
IssueFail ==
  /\ section.op = "issue"
  /\ Disturb
  /\ section' = Vacant
  /\ worker' = Asleep
  /\ UNCHANGED <<authorityVars, clockVars, processVars, storeVars, sent>>

\* Every matching subscriber has been sent the receipt.
Broadcast ==
  /\ worker.pc = "rows" /\ Head(worker.rows).state = "issued"
  /\ sent' = sent \cup {Head(worker.rows).digest}
  /\ worker' = [worker EXCEPT !.pc = "flag"]
  /\ UNCHANGED <<authorityVars, clockVars, processVars, section, storeVars, budget>>

\* A subscriber does not take the message within five seconds: the others
\* may have it, and the pass is given up.
BroadcastTimeout ==
  /\ worker.pc = "rows" /\ Head(worker.rows).state = "issued"
  /\ Disturb
  /\ sent' \in {sent, sent \cup {Head(worker.rows).digest}}
  /\ worker' = Asleep
  /\ UNCHANGED <<authorityVars, clockVars, processVars, section, storeVars>>

FlagBroadcast ==
  /\ worker.pc = "flag"
  /\ flagged' = [flagged EXCEPT ![Head(worker.rows).digest] =
                   @ \/ state[Head(worker.rows).digest] = "issued"]
  /\ worker' = NextRow
  /\ UNCHANGED <<authorityVars, clockVars, processVars, section, stored,
                 state, inputs, receipt, rowids, sent, budget>>

\* A query or an update of the store raises.
PassFail ==
  /\ worker.pc \in {"fetch", "flag"}
  /\ Disturb
  /\ worker' = Asleep
  /\ UNCHANGED <<authorityVars, clockVars, processVars, section, storeVars, sent>>

-----------------------------------------------------------------------------
(* The environment.                                                        *)

\* Whatever the process had not committed is gone; its locks are released.
Crash ==
  /\ up /\ Disturb
  /\ up' = FALSE /\ stopping' = FALSE
  /\ section' = Vacant
  /\ worker' = Asleep
  /\ UNCHANGED <<authorityVars, clockVars, mode, storeVars, sent>>

\* The server ends the lifespan: stopping is set and the worker awaited.
Stop ==
  /\ up /\ ~stopping /\ Disturb
  /\ stopping' = TRUE
  /\ UNCHANGED <<authorityVars, clockVars, up, mode, section, worker, storeVars, sent>>

\* The worker has returned and the store is closed; what a thread had not
\* committed by then fails on the closed connection.
Exit ==
  /\ up /\ stopping /\ worker = Asleep
  /\ up' = FALSE /\ stopping' = FALSE
  /\ section' = Vacant
  /\ UNCHANGED <<authorityVars, clockVars, mode, worker, storeVars, sent, budget>>

\* The lifespan verifies the retained evidence before it starts the worker.
Restart ==
  /\ ~up
  /\ EvidenceVerifies(wall)
  /\ up' = TRUE
  /\ mode' \in ModesUsed
  /\ NewClock
  /\ UNCHANGED <<authorityVars, stopping, section, worker, storeVars, sent, budget>>

\* An administrative command of another process, a whole transaction.
Administer ==
  /\ section = Vacant
  /\ AdminCommand(wall)
  /\ UNCHANGED <<clockVars, processVars, section, worker, storeVars, sent, budget>>

TimePasses ==
  /\ Tick
  /\ UNCHANGED <<authorityVars, processVars, section, worker, storeVars, sent, budget>>

WallStepped ==
  /\ Disturb
  /\ \E d \in Steps : StepWall(d)
  /\ UNCHANGED <<authorityVars, processVars, section, worker, storeVars, sent>>

HealthReported ==
  /\ \E o \in Outcomes : Monitor(o)
  /\ UNCHANGED <<authorityVars, processVars, section, worker, storeVars, sent, budget>>

-----------------------------------------------------------------------------
Init ==
  /\ AuthorityInit \/ LegacyInit
  /\ ClockInit
  /\ EvidenceVerifies(wall)
  /\ up = TRUE /\ stopping = FALSE /\ mode \in ModesUsed
  /\ section = Vacant /\ worker = Asleep
  /\ stored = [i \in EventIds |-> Null]
  /\ state = [d \in Subjects |-> "not-observed"]
  /\ inputs = [d \in Subjects |-> Null]
  /\ receipt = [d \in Subjects |-> Null]
  /\ flagged = [d \in Subjects |-> FALSE]
  /\ rowids = <<>>
  /\ sent = {}
  /\ budget = Disturbances

WorkerStep == CheckClock \/ FetchRows \/ IssueBegin \/ IssueCommit \/ Broadcast \/ FlagBroadcast

\* All but the commands of other processes.
Unattended ==
  \/ \E s \in Subjects : PlainAccept(s) \/ AcceptBegin(s)
  \/ AcceptCommit \/ AcceptFail
  \/ WorkerStep
  \/ IssueFail \/ BroadcastTimeout \/ PassFail
  \/ Crash \/ Stop \/ Exit \/ Restart
  \/ TimePasses \/ WallStepped \/ HealthReported

Next == Unattended \/ Administer

Spec == Init /\ [][Next]_vars

(***************************************************************************)
(* The worker task and the threads that hold the lock keep running, the    *)
(* container is restarted after it stopped, a shutdown goes on, and time   *)
(* passes.  Submissions, failures, crashes and shutdowns stop eventually   *)
(* because their number is bounded.                                        *)
(***************************************************************************)
Fairness ==
  /\ WF_vars(WorkerStep)
  /\ WF_vars(AcceptCommit)
  /\ WF_vars(Exit)
  /\ WF_vars(Restart)
  /\ WF_vars(TimePasses)

FairSpec == Spec /\ Fairness

-----------------------------------------------------------------------------
(* Properties.                                                             *)

(***************************************************************************)
(* The types of the state, and that the columns of a job agree: a job has  *)
(* recorded inputs, and a receipt exactly when it is issued.               *)
(***************************************************************************)
TypeOK ==
  /\ history \in Seq(Entries) /\ Len(history) <= MaxHistory /\ suspended \in BOOLEAN
  /\ wall \in Readings /\ step \in Int /\ latched \in BOOLEAN /\ health \in HealthReports
  /\ up \in BOOLEAN /\ stopping \in BOOLEAN /\ mode \in ClockModes
  /\ section \in Sections
  /\ worker \in Workers
  /\ stored \in [EventIds -> Subjects \cup {Null}]
  /\ state \in [Subjects -> {"not-observed", "pending", "issued", "unavailable"}]
  /\ inputs \in [Subjects -> Observations \cup {Null}]
  /\ receipt \in [Subjects -> Receipts \cup {Null}]
  /\ flagged \in [Subjects -> BOOLEAN]
  /\ rowids \in Seq(Subjects)
  /\ sent \subseteq Subjects
  /\ budget \in Nat
  /\ \A d \in Subjects :
       /\ inputs[d] = Null <=> state[d] = "not-observed"
       /\ receipt[d] = Null <=> state[d] # "issued"

(***************************************************************************)
(* Pending signing work is bounded by witness_queue_limit, whatever the    *)
(* order in which submissions, retries and restarts insert jobs.           *)
(***************************************************************************)
QueueBounded == Cardinality(Pending) <= QueueLimit

(***************************************************************************)
(* A receipt never says more than its grant allows: the grant it names is  *)
(* in the chain, admits the subject's kind and the clock mode the receipt  *)
(* claims, and its signed window contains the observation with all of its  *)
(* uncertainty as well as the issuance.  Kinds are checked at acceptance   *)
(* only, windows and modes again at issuance, possibly after a renewal, a  *)
(* clock step or a restart in another mode.                                *)
(***************************************************************************)
Covered(d, o) ==
  LET g == history[o.auth]
  IN /\ o.auth \in 1 .. Len(history) /\ g.type = "grant"
     /\ KindOf[d] \in g.kinds
     /\ o.mode = g.profile
     /\ (o.mode = "bounded") <=> (o.uncertainty # Null)
     /\ Within(g, o.observed, o.uncertainty)

ReceiptsCovered ==
  \A d \in Subjects :
    state[d] = "issued" =>
      Covered(d, receipt[d]) /\ InForce(history[receipt[d].auth], receipt[d].issued)

(***************************************************************************)
(* At the moment a receipt becomes durable its grant is the head of the    *)
(* chain, no suspension is set and the clock has not been found to jump:   *)
(* revoking, renewing or suspending serializes with issuance, even though  *)
(* the decision was taken in an earlier step than the write.               *)
(***************************************************************************)
AuthorizedStep ==
  \A d \in Subjects :
    (state[d] # "issued" /\ state'[d] = "issued") =>
      /\ ~suspended /\ ~latched
      /\ history # <<>> /\ HeadEntry.type = "grant"
      /\ receipt'[d].auth = Len(history)

IssuedUnderAuthority == [][AuthorizedStep]_vars

(***************************************************************************)
(* Broadcast is at least once: a job leaves the outbox only after its      *)
(* receipt has been handed to the subscribers, across crashes between the  *)
(* two (the comment in AutomaticWitness.run).                              *)
(***************************************************************************)
FlaggedWasSent == \A d \in Subjects : flagged[d] => d \in sent

(***************************************************************************)
(* A job and its subject commit together: whenever a job is on record the  *)
(* relay holds an event with that id, its own signature or an earlier one. *)
(***************************************************************************)
JobHasEvent == \A d \in Subjects : state[d] # "not-observed" => stored[IdOf[d]] # Null

(***************************************************************************)
(* issue never refuses its own receipt.  verify_receipt raises for one     *)
(* that does not keep the wire format, run takes that for a transient      *)
(* failure, and the job, the oldest pending, would be tried again for ever *)
(* and hold back every later one.  Observation and issuance may lie in     *)
(* different processes, after a step of the clock and in another mode.     *)
(***************************************************************************)
OwnReceiptsVerify ==
  (section.op = "issue" /\ section.draft # Null) =>
    ReceiptVerifies(section.subject, section.draft)

(***************************************************************************)
(* What makes the properties above inductive.  An observation is covered   *)
(* by the grant it names from the moment it is drafted, because the chain  *)
(* only grows.  What the thread in the section decided still holds when it *)
(* writes, because nobody else reaches the chain, the controls, the latch  *)
(* or the job meanwhile.  The worker's copies of the rows are stale, but   *)
(* an outcome is final and its own step is the only one that flags a job.  *)
(***************************************************************************)
AcceptSound ==
  section.op = "accept" =>
    /\ Witnessable(section.subject)
    /\ section.draft # Null => Covered(section.subject, section.draft)

IssueSound ==
  section.op = "issue" =>
    /\ state[section.subject] = "pending"
    /\ worker.pc = "rows" /\ Head(worker.rows).state = "pending"
    /\ section.draft # Null =>
         /\ section.draft = Ledger!ReceiptFor(inputs[section.subject], section.draft.issued)
         /\ Ledger!InTime(inputs[section.subject], section.draft.issued)
         /\ section.draft.auth = Len(history)
         /\ HeadEntry.type = "grant" /\ InForce(HeadEntry, section.draft.issued)
         /\ ~suspended /\ ~latched

JobsCovered ==
  \A d \in Subjects :
    /\ state[d] # "not-observed" => Witnessable(d) /\ Covered(d, inputs[d])
    /\ state[d] = "issued" =>
         /\ receipt[d] = Ledger!ReceiptFor(inputs[d], receipt[d].issued)
         /\ InForce(history[receipt[d].auth], receipt[d].issued)

WorkerSound ==
  /\ ~up => section = Vacant /\ worker = Asleep
  /\ worker.pc \in {"rows", "flag"} => worker.rows # <<>>
  /\ \A i \in 1 .. Len(worker.rows) :
       worker.rows[i].state = "issued" => state[worker.rows[i].digest] = "issued"
  /\ worker.pc = "flag" =>
       /\ Head(worker.rows).state = "issued"
       /\ Head(worker.rows).digest \in sent

IndInv ==
  /\ TypeOK /\ AcceptSound /\ IssueSound /\ JobsCovered /\ WorkerSound
  /\ FlaggedWasSent /\ JobHasEvent

(***************************************************************************)
(* The promises of ReceiptLedger: one observation, one receipt repeating   *)
(* it, final outcomes, nothing announced before it is durable.             *)
(***************************************************************************)
ImplementsLedger == Ledger!LedgerSpec

(***************************************************************************)
(* Every pending job reaches an outcome and every receipt its broadcast,   *)
(* once failures stop.                                                     *)
(***************************************************************************)
JobsSettle == \A d \in Subjects : state[d] = "pending" ~> state[d] # "pending"
ReceiptsBroadcast == \A d \in Subjects : state[d] = "issued" ~> flagged[d]

(***************************************************************************)
(* A shutdown comes to its end: the worker returns from whatever pass it   *)
(* is in, whatever is still pending, and the store is closed (lifespan).   *)
(***************************************************************************)
StopCompletes == stopping ~> ~up

=============================================================================
