# A TLA+ verification of Spurline

Spurline is a Nostr relay that can act as an automatic witness: under a signed,
time-limited authorization of an operator it observes evidence events (kinds
1415 and 1416) and issues signed receipts for them. This directory models the
relay, its witness and the commands around them in TLA+, checks small instances
with TLC, and proves the main safety results for all instances with TLAPS.
Source paths below are relative to `src/src/spurline/` unless they start with
`docs/`.

## 1. Inventory

| Component | State it keeps | Operations | Model |
|---|---|---|---|
| Relay service (`main.py`, `storage.py`) | subscriptions of each websocket; the task of each websocket | connect, EVENT, REQ, CLOSE, disconnect, broadcast | `Relay` |
| Event store (`store.py`, `filters.py`) | tables `events`, `event_tags`, `deletions`, `witness_jobs` | save, query, the migration; normalization and bounds of filters; the job operations of the witness | `EventQuery`; jobs in `AutomaticWitness` |
| Automatic witness (`automatic_witness.py`, `receipts.py`) | one lock, the worker task, the job columns | accept, issue, run, check_clock, status, shutdown | `AutomaticWitness`, `ReceiptLedger` |
| Clock gate and monitor (`automatic_witness.py`, `clock_monitor.py`) | last wall and monotonic sample, the latch; a status file | sample; the monitor's report | `WitnessClock` |
| Authorization lifecycle (`witness.py`, `cli.py`) | tables `witness_authorization`, `witness_history`, `witness_controls` | request, renew, authorize, revoke, suspend, resume | `WitnessLifecycle`, `Authority` |
| Authorization status (`witness.py` show, `main.py` routes) | none of its own; it reads the tables | show | `WitnessStatus` |
| Service commissioning, operator signer (`service.py`, `commissioning.py`, `operator_signing.py`) | one row `commissioning`; what the signer holds at its prompt | request, commission; sign-commissioning, sign-witness | `Commissioning`, `InitialGrant` |
| Identity sentinel and startup (`identity.py`, `main.py` lifespan, `service.py` connection) | the sentinel and its temporary file; the administrative database file | bind; start, stop; the first request | `Startup` |
| Event validation (`events.py`), configuration (`config.py`) | none | pure functions | assumed |
| HTTP views (`homepage.py`), publishing (`cli.py`), deployment files | none | reads, dispatch, container restarts | not modelled |

### How the parts interact

One process runs the relay on one asyncio loop. Every websocket has a task; it
suspends at each storage call, at each `send_json` and in the `gather` of a
broadcast. Storage runs in threads and serializes on the store's own lock. With
witnessing on, an EVENT is accepted by `AutomaticWitness.accept`, which holds the
object's lock and, inside it, an immediate transaction on the administrative
database; the worker's `issue` does the same. The commands of `witness.py` run
in other processes and take the same immediate transaction, so acceptance,
issuance and administration exclude each other. The status routes read the
administrative database with neither a lock nor a transaction. The clock monitor
is another process that replaces a status file, which every sample reads. People
carry requests, attestations and grants between the relay's host and the
operator's. Every process that has a service key first binds the data directory
to its identity, by a sentinel file, and the relay's container starts it again
whenever it ends.

### What is hard, and what makes each part correct

* **Relay.** Commits, queries, replays, sends and disconnections interleave at
  every await. Correct means: a subscription that had its EOSE misses nothing
  (`NoGap`), one event is broadcast by one handler (`PublishedOnce`), and no
  handler waits for ever (`HandlersReturn`).
* **Automatic witness.** Jobs outlive the authority, the clock mode and the
  process under which they were recorded; the decision and the write are
  separate; the worker acts on copies of rows; broadcast and flag are separate
  steps a crash may fall between. Correct means: receipts stay inside their
  grant (`ReceiptsCovered`), are issued under authority in force when they
  become durable (`IssuedUnderAuthority`), record one observation for ever
  (`ImplementsLedger`), are announced at least once (`FlaggedWasSent`,
  `ReceiptsBroadcast`), never fail the relay's own check (`OwnReceiptsVerify`),
  the queue is bounded and drained (`QueueBounded`, `JobsSettle`), and a
  shutdown ends (`StopCompletes`).
* **Lifecycle.** Three tables, one of them absent from earlier databases, must
  describe one chain, with a clock that may go back. Correct means: `RowsAgree`,
  `ChainSound`, every command refines the abstract chain
  (`ImplementsAuthority`), and none writes rows its successors and the relay cannot
  verify (`StillReadable`, checked beside the relay as `TablesStayReadable`). Relay and commands work on one database: the relay
  must find in it the authority its own promises rest on (`ImplementsWitness`),
  and whatever becomes of the tables, the grant a receipt names must stay on
  record in them (`ReceiptsOnRecord`).
* **Status.** Several reads, each at its own moment: `PermissionWasReal`.
* **Query.** Replay is SQL over three tables, live delivery a Python matcher;
  on what is left of a client's filters they must agree, filter by filter
  (`ReplayIsLive`) and in the answer that is cut and merged (`AnswersNewest`).
* **Commissioning.** Two machines, two clocks, files that arrive late, twice or
  superseded: `MutualConsent`, `CommissionedForGood`, `StillVerifies`, and for
  the grant that follows `GrantConsent`.
* **Startup.** Processes die between any two file operations, and the next one
  finds what they left: `BoundIsRecorded`, `RecordedForGood`, `RowIsRecorded`,
  `ServesAgain`.

`PROJECT.json` lists every hazard at its line with the properties that cover it.

## 2. Modules

```
  Authority      WitnessClock                 WitnessLifecycle ---> Authority   (refines)
       \          /                            |            |
     AutomaticWitness ---> ReceiptLedger   WitnessStatus   InitialGrant ---> Commissioning
       |    (EXTENDS)      (refines)       (EXTENDS)       (EXTENDS Commissioning,
       |                                                    INSTANCE WitnessLifecycle)
     WitnessSystem ---> AutomaticWitness, WitnessLifecycle   (refines both)
       (EXTENDS AutomaticWitness, INSTANCE WitnessLifecycle)

     Relay          EventQuery          Startup
```

Beside `AutomaticWitness`, `WitnessLifecycle`, `WitnessSystem`, `WitnessStatus`,
`InitialGrant` (with `Commissioning`), `Relay`, `EventQuery` and `Startup` stand the
modules `...Proofs`; `MC...` modules hold the instances.

`Authority` is used twice: the lifecycle commands are shown to implement it, and
`AutomaticWitness` extends it, so what the relay assumes about the administrative
database is what the commands were shown to provide; `WitnessSystem` puts the two
together. Every definition that
models code is mapped to its lines in `PROJECT.json`. Operators named `M_...`
are plausible mistakes, kept beside the definition they distort: substituting
one must break the property it is listed with.

* **Authority** (abstract). The chain of grants and revocations and the
  suspension. An entry keeps what decides permission: signed time, window,
  kinds and, through the policy it commits to, one clock profile. An event id
  commits to its predecessor, so a position in the chain stands for an id.
* **WitnessClock.** `wall` is `time.time()`; the monotonic clock matters only
  through its difference with it, so `step` is that difference since the last
  sample. A step within the tolerance is no step. `health` is the status file.
* **AutomaticWitness.** `section` is the thread inside the lock and the
  administrative transaction, with what it decided before it writes
  (`AcceptBegin`/`AcceptCommit`/`AcceptFail`, `IssueBegin`/`IssueCommit`/`IssueFail`).
  `worker` is the control state of `run`: asleep, about to query, going through
  its copies of rows, about to flag. The store's job columns are functions of
  the digest; `rowids` is their order, which the worker's query uses. `Crash`
  drops what was not committed; `Stop` and `Exit` are the shutdown, which waits
  for the worker to see the flag at its next row; `Restart` verifies the evidence
  first, as the lifespan does, and may change the clock mode. `ReceiptVerifies`
  is the part of `verify_receipt` a receipt of the relay could fail. The check of `issue` that the
  service key is the one named in the grant is left out: it cannot
  fail while the key of the data directory does not change (`Startup`).
* **ReceiptLedger** (abstract). What a client may rely on about one digest.
  `AutomaticWitness` maps the column `state` to `outcome`, the recorded inputs
  to `observation` and `sent` to `announced`.
* **WitnessLifecycle.** Each command is one immediate transaction that rolls
  back when it raises, hence one step; commands that raise change nothing. The
  signatures and the policy bytes are abstracted to what an event commits to.
* **WitnessSystem.** The relay of `AutomaticWitness` on the tables of
  `WitnessLifecycle`, with one clock. A step is either one of the relay, its
  clock or its process (`Attend`), which leaves the tables alone and owes what it
  decides to a view whose rows all verify (`Readable`), or a command (`Command`),
  which waits for the immediate transaction and after which the relay reads the
  chain and the suspension that the tables then hold. It instantiates the module of
  the lifecycle's proofs so that its theorems can be cited for the composition.
* **WitnessStatus.** `show`, one step per query, beside the commands. `permitted`
  remembers whether witnessing was permitted at some moment of the call; it
  guides no step.
* **Relay.** The steps end at the awaits. `sends` holds the gathered `send_json`
  calls; `worker` broadcasts receipts with the five-second limit. `fate` records
  what became of the broadcast of a stored event; it guides no step. A filter
  list is the set of events it matches, and a replay is every visible match: the
  limit that `EventStore.query` cuts it to (`store.py:79`, `113-121`; 500 unless a
  filter asks for another) is in `EventQuery`.
* **EventQuery.** The three tables, `Selected` for the WHERE clauses, `Matches`
  for `matches_filter`, `Normalized` and `Accepted` for what a REQ goes through
  before either sees its filters. A raw field is a value with the types it
  passes for, so that fields of a wrong type are dropped as the code drops them.
  Text is a sequence of digits so that prefixes and
  ranges mean what they mean in SQL. Ids and public keys are texts of one length
  over the digits below `Highest`, which stands above all others in the upper end
  of a range, as U+10FFFF does. The integers a field may hold are told apart from its
  texts (`TypesAreTold`).
* **Commissioning.** The row, the requests and attestations in circulation, the
  request each signer waits at its prompt with, and two unrelated clocks.
* **InitialGrant.** `Commissioning` with the commands of `WitnessLifecycle` on the
  same clock, and the signer's other action: witness requests and grants are
  files too, the signer verifies the commissioning evidence it is handed, and
  its prompt may outlast the request. The signer refuses renewals, so only the
  first grant is made here.
* **Startup.** `bind_service_identity` one file operation at a time. A file is
  told apart from its name, because a process goes on writing to the file it
  opened after another has renamed it. The relay then shows the commissioning
  state; a command makes the database, its table and the row, one step each.
  Processes die (`Crash`), the machine does not: what was written stays. Nothing
  enforces `OneAtATime`, that no process looks for the sentinel while another
  writes it; it is an assumption of `binding`, dropped in `contested`.

## 3. What TLC checks

Counts are distinct states; the longest runs take two to three minutes.

| Run | Shows | Bounds |
|---|---|---|
| `authority` (276 k) | `TypeOK`, `ReceiptsCovered`, `ReceiptsOnRecord`, `IssuedUnderAuthority`, `ImplementsWitness` and `TablesStayReadable` while the commands request, authorize, renew, revoke, suspend and resume between acquisition and issuance, restarts change the mode of a pending job, and the relay crashes | two scenarios told apart by the first clock mode: a stepped system clock with subjects of both kinds, chains of 3 and a renewal that drops a kind; a monitored clock with one subject, uncertainties 0 and 1, reports that go stale, and an earlier release's bounded grant renewed as operational. Time 0..3, 2 requests, 2 controls, 2 disturbances, one subject at a time, no broadcasts |
| `recovery` (1.0 M) | `QueueBounded`, `FlaggedWasSent`, `JobHasEvent`, `OwnReceiptsVerify`, `ImplementsLedger` across crashes, shutdowns, rollbacks and timeouts | four subjects, two of them signatures of one event, queue and batch of one, a clock stepped back, 4 disturbances |
| `liveness` (177 k) | `JobsSettle`, `ReceiptsBroadcast`, `StopCompletes` | two subjects, a bounded clock that is checked or not, a grant and its revocation, 4 disturbances |
| `delivery` (1.8 M) | `TypeOK`, `NoGap`, `PublishedOnce`, also for a storage that may fail after committing | two websockets, one subscription id, an event, its deletion and a receipt, 5 messages, 2 faults |
| `relay_liveness` (39 k) | `HandlersReturn` | 3 messages, 1 fault |
| `commands` (366 k) | `TypeOK`, `RowsAgree`, `ChainSound`, `ImplementsAuthority` of the commands, and `PermissionWasReal` of `show` beside them | chains of 3, 2 requests of long or short validity, 2 controls, times 0..2, a skew of 2, a clock that goes back, empty and earlier databases |
| `replay` (192) | `ReplayIsLive`, `AnswersNewest`, for every accepted one of over 200 filter lists in each state | every subset of six events stored before the migration, every order of saves after it |
| `consent` (539 k) | `MutualConsent`, `CommissionedForGood`, `StillVerifies`, `GrantConsent` | two operators, 2 commissioning and 2 witness requests, at most 2 attestations and 1 grant in circulation and 2 signers at a prompt, two clocks over 0..2, the relay's set back at will, a skew of 1 |
| `binding` (183 k) | `BoundIsRecorded`, `RowIsRecorded`, `RecordedForGood`, `ServesAgain` | the relay and two command processes, two keys and none, 3 commands, 3 crashes |
| `lost`, `rejected`, `contested` | three statements of the documentation the code does not keep, see section 5 | as `delivery`, `commands` and `binding`, smaller |

Why these bounds are enough for the cases of interest: a chain of three holds a
grant, a revocation and a new grant, or two renewals; two subjects with a queue
of one meet the limit; batches of one leave rows for a later pass; four time
units let a window open, close and be missed; two websockets are a publisher and
a subscriber, and each can be both; five messages are a subscription, its
replacement, a publication, a deletion and a retry; ids of two digits have
complete, partial, empty and too long prefixes, and the limits lie below, at and
above their bounds. The skew of `commands` is as long as the clock's range,
because what a renewal signed ahead of the clock does to a reader only shows
when the skew is longer than the time the clock was set back; where the question
is what a clock set back makes unreadable (`StillVerifies`, `TablesStayReadable`), the
skew is shorter than the range. Three crashes fall
on three different steps of one start, and a command may crash between two
starts of the relay. Disturbances count everything that a client, a crash, a
failing disk or a stepped clock does, so each run explores every placement of
that many in an execution. The two of `authority` are a submission and a crash
or a step of the clock: what becomes of one job. Requests that lead to no
grant of its scenarios are left out there and made in `commands`, and what the run
shows is proved for every number of subjects, commands and disturbances.

Deadlock is checked in every run but those of `Relay`
(in the others time, the clock, restarts or readers can always go on): there messages and faults
are bounded and websockets connect once, so the system may really stop.

### Fairness

* `AutomaticWitness`: weak fairness of the worker's steps and of the commit of a
  thread that holds the lock (neither waits for anything but the lock, and
  the transaction of another process is short), of restart (`compose.yaml` has
  `restart: unless-stopped`), and of time. `Restart` is possible only while
  the evidence verifies; the liveness run never sets the clock back.
  Submissions, crashes and failures are bounded, so they stop eventually;
  nothing is claimed while they go on. Commands, clock steps and reports have
  no fairness. A subscriber that never takes its message makes every pass end
  in a timeout; then rows behind it wait, as the code has it.
  A shutdown is the exit of the worker after it saw the flag; `StopCompletes`
  needs the fairness of the worker's own steps and of that exit, nothing of
  clients, because the broadcast of the worker has its limit of five seconds.
* `Startup`: processes run their own steps, and the relay is started again
  whenever it ended (`restart: unless-stopped` in `compose.yaml`, and
  `refresh-containers.sh`). Commands, crashes and the stop of the relay have no
  fairness.
* `Relay`: the loop runs every task that can go on, and a send ends because
  the client reads or its connection breaks. The code gives the broadcast of a
  handler no time limit of its own (`main.py:132`), so this assumption is about
  clients and the server's keepalive, and `HandlersReturn` depends on it.

## 4. What TLAPS proves

The proofs hold for all values of the constants under the named `ASSUME`s of
the modules, which only give types, finiteness of the subjects and of the events,
the form of keys and that an event has its id to itself, that an offered grant was
signed within its request's window, and that every grant the commands can import is
on offer to the relay. TLC evaluates them in
every run.

**`AutomaticWitnessProofs`.** The invariant of the runs is not inductive: a
receipt is covered because the observation it repeats was, so the argument has
to follow an observation from the moment it is drafted. `IndInv` adds

* `AcceptSound`, `IssueSound`: what the thread in the section decided still
  holds when it writes, because nobody else reaches the chain, the controls,
  the latch or the job meanwhile;
* `JobsCovered`: recorded observations are covered by the grant they name. It
  is kept because the chain only grows (`ChainGrows`, `CoveredKept`);
* `WorkerSound`: a stale copy of a row that says "issued" is still right, as
  outcomes are final, and a row about to be flagged was sent.

`Inductive` proves it; from it follow `TypeCorrect`, `ReceiptsStayCovered`,
`IssuanceAuthorized`, `AtLeastOnce`, `JobsHaveEvents`, `OwnReceiptsAccepted` and
`LedgerImplemented`, the refinement of `ReceiptLedger`. `QueueStaysBounded` uses
only types and that inserting is the one step that adds a pending job.

**`WitnessLifecycleProofs`.** `RowsAgree` and the types are inductive together with
two facts: a pending request starts at a reading of the clock (`StartsInTime`), and
each event of the rows was dated no earlier than its predecessor (`RowsSound`).
`LifecycleInductive` proves that; `ChainAlwaysSound` reads `ChainSound` off the rows,
and `CommandsImplementAuthority` maps each command to its action of `Authority`:
the step that appends to the history appends the same entry to the chain, and
the migration of an earlier database is a stutter. For `RowsStayReadable` the
invariant has to know of each row what verifying it would ask, apart from the
clock: that it carries its position and that a grant was signed between its request
and the deadline (`ReadInv`). What is left of the verification is then only whether
the clock is behind (`OnlyBehind`), and each command compares what it writes
with the clock itself (`OnlySetBack`).

**`WitnessStatusProofs`.** `ReadersChangeNothing` carries all of the above over to
`StatusSpec`. For `PermissionAlwaysReal` the invariant says what a reader in the
middle of `show` may still rely on as long as witnessing has not been permitted
since the call began (`Waiting`): the rows it read are those of the database, or
can grant nothing any more, or witnessing is suspended, and only a resumption,
which is itself a moment of permission, could make them matter (`Accounted`).

**`WitnessSystemProofs`.** `AutomaticWitness` assumes an authority and
`WitnessLifecycle` provides one; that they fit is proved here and not only said.
`SystemInv` is `IndInv` of the relay, `Inv` of the tables, and `ChainRead`: the chain and
the suspension the relay reads are what the tables hold. A command is, through
`CommandImplements` and `ChainRead`, an administrative command of `Authority` or
nothing to the relay (`CommandAdministers`), and a step of the relay or of the clock
is one of `SetClock` or nothing to the tables (`SystemStepTables`). So
`SystemImplementsWitness` and `SystemKeepsLifecycle` carry every theorem of both
modules over; `SystemIssuesUnderAuthority` and `TablesAreReadable` are two of them. `ReceiptsAreOnRecord` needs
both sides: the receipt is covered by an entry of the chain, and the entry is that
of a row whose request asked for what the entry says.

**`InitialGrantProofs`.** First `Commissioning` by itself. `ConsentInv` adds that
nonces count the requests, that the row holds the newest one, and that every
attestation in circulation was made while its request was open. `ConsentIsMutual`
and `EvidenceIsFinal` follow for any number of operators, requests and clock
readings, and so does `EvidenceStillVerifies`: what was imported once can fail only
by the clock. `EvidenceAlwaysReadable` is its corollary for a clock that is never
set back. Then `GrantImplementsCommissioning` shows that the witness commands
leave the commissioning evidence alone, so these theorems hold in the composition;
`GrantInv` adds what the witness requests and grants in circulation commit to, and
`GrantIsConsented` follows.

**`EventQueryProofs`.** `TablesInv` says what the tables hold in terms of the stored
events alone: `event_tags` their indexed tags, once the database was opened, and
`deletions` what their deletion events ask for (`TablesFollow`; the migration and
`save` reach the same tables in every order). From there on the theorems are about
one state. `ReplayAgreesWithLive` shows that each clause of the SQL is the clause of
the matcher: a range from a prefix to the prefix with `Highest` behind it
holds exactly the keys that start with the prefix, a complete key is compared for
equality, and a tag clause finds its row in the index. For `AnswersAreNewest` the
question is whether cutting each filter's rows before the merge loses an event
of the answer. An event that is cut from its filter has that filter's whole share
before it; no induction over the list of filters is needed, only that a nonempty
finite set of events has a newest one, which follows from the well-foundedness of
strict inclusion on finite sets.

**`StartupProofs`.** Where bindings do not overlap (`OneAtATime`; the run `contested`
is what happens otherwise), one process at most is between its look and its
rename, and then there is no sentinel (`WriterInv`); a sentinel is complete and
no process has it open for writing (`SentinelInv`). `AcceptedIsBound`,
`SentinelIsFinal` and `RowIsOwn` follow for any number of processes, identities
and crashes.

**`RelayProofs`.** The gap between a replay and live delivery is closed by an
agreement of three parties, and the invariant names each of their parts:

* `OnceInv`: the handler whose save inserted an event is the only one that will
  announce it, and its fate is settled only after it is stored;
* `SubsInv`: a subscription stays registered from its REQ through its replay;
* `WorkerInv`: the worker broadcasts one stored receipt that is not flagged;
* `GapInv`: as soon as its replay has passed an event by (`Replayed`), and not
  only after EOSE, a subscription has what it is due or has it `Coming`. For
  receipts this is stronger than `NoGap`: one that is being broadcast does not
  count as in the outbox (`Pending`), since the older subscriptions have
  their sends and the newer ones found it stored. Flagging the receipt would
  break `NoGap` otherwise.

`RelayInductive` proves it for any number of websockets, subscriptions, events
and messages; `RelayTyped`, `EventPublishedOnce` and `SubscriptionsHaveNoGap`
follow.

**Only model-checked.** The liveness properties (`JobsSettle`, `ReceiptsBroadcast`,
`StopCompletes`, `HandlersReturn`, `ServesAgain`), because the prover reasons
neither about fairness nor about `ENABLED`. Every other property of a passing run is
the subject of a theorem.

## 5. What the models show about the code and its documents

* **A stored event that is never broadcast** (`lost`). `_handle_event` sends the
  publisher its OK (`main.py:91`) before it broadcasts (`main.py:92`). If the
  publisher is gone, the send raises and the handler is left; a retry is a
  duplicate and does not broadcast either. `docs/relay-api.md:26` says events are
  broadcast to matching subscriptions. `NoGap` states what does hold: as long as
  the replay is not cut, this and a storage that fails after committing are the only
  ways to miss an event. A REQ with more stored matches than its limit misses the
  older ones as well; `Relay` leaves that cut out, and `AnswersNewest` of
  `EventQuery` states which events it leaves.
* **Untampered evidence rejected** (`rejected`). `show` reads the history and
  the current row at two moments (`witness.py:257` and `283`); a renewal that is
  authorized in between makes them differ and `show` raises.
  `docs/witness-lifecycle.md:39` says the import advances the head atomically. A
  status request gets an error, and a relay that is starting does not start.
* **Two identities on one directory** (`contested`). `bind_service_identity` looks
  for the sentinel (`identity.py:36`) and renames its own into place
  (`identity.py:62`) without a lock. Two processes with different keys that first
  start together are both accepted, and the later rename replaces the identity
  under which the other already signs. `identity.py:33` says the directory is
  bound to one service identity.

Facts a reader of the properties should know, none of them a contradiction of
the documents:

* Authority is judged by what was imported: between the time an operator signs
  a revocation and its import, receipts are still issued.
* A receipt carries the uncertainty of its observation, while issuance checks
  the window with a fresh one.
* A clock that drifts by less than 250 ms between samples is never latched.
* A subscriber that does not read ends a pass of the worker at the first issued
  row; later rows wait for the next pass.
* Live broadcast does not consult deletions, replay does.
* `AnswersNewest` is about the set of events in an answer. Their order is that of
  the last `sorted` in `EventStore.query` and is not stated.
* Evidence and rows are verified against the clock on every read. Setting the clock
  back to where it is behind a signed time by more than the skew makes them fail, and
  the relay does not start until the clock has caught up; nothing else does
  (`StillVerifies`, `TablesStayReadable`).
* `PermissionWasReal` excuses two cases: the clock is set back during the call, and
  a renewal signed ahead of a clock that had been set back is imported during
  it. In the second, `show` reads the old grant before it is valid, its
  replacement after it came into force by the clock is not valid yet, and the
  call reports a permission no moment had.
* A command that dies between opening the administrative database and creating
  its table leaves a file every start of the relay fails on, until another
  command runs (`Stranded`); `ServesAgain` names it as the only such state beside
  a relay configured with another key than the recorded one. No property says
  that the relay comes back from it, because it does not.
* A filter with so many tag fields that its statement nests deeper than SQLite
  allows is answered CLOSED; the model takes every accepted filter as answerable.
* A message can arrive after CLOSE, or belong to an earlier REQ with the same id.

## 6. What is not modelled

* `events.py`: field checks, hash and signature are a pure function of one
  event; the modules take valid events as given (`Unverified` stands for
  events accepted without a check of the signature).
* The encodings of receipts, requests, policies and descriptors: only what an
  event commits to matters to the properties.
* The signer's refusal of renewals leaves the signing of renewals and revocations
  to programs outside this repository; `WitnessLifecycle` takes such events as
  given. The descriptor, which the service signs itself, is part of the evidence.
* A power loss. `Crash` is the death of a process, after which the files and the
  commits are what they were. `identity.py:58-62` renames the temporary file without
  an fsync, so that a power loss may leave an empty sentinel, on which every later
  start raises; `BoundIsRecorded`, `RecordedForGood` and `ServesAgain` say nothing of it.
* A process that dies inside `EventStore`'s migration: tables, index and backfill
  are one transaction (`store.py:163-182`), so `Open` is one step.
* Two bindings that overlap and share the one temporary file, beyond what `contested`
  shows: an empty sentinel may be read then, and no property excludes it.
* HTML, JSON views, argument parsing and the publishing command keep no state.
  How the server ends its websockets at shutdown is uvicorn's; a call to a
  closed store raises and stores nothing, which `HandlerFails` covers.

## 7. Plan

Done, in the order in which the system's promises depend on it: the witness
over an abstract authority and its proofs; the lifecycle that provides that
authority, the status reader beside it, and the proofs of both; the relay and its
proofs; the query with the normalization before it and their proofs; commissioning,
the first grant on top of it, and their proofs; the start of processes on a data
directory and its proofs; the witness on the tables of the lifecycle, and the proof
that the composition is both.

What is left: the rest of `EventQuery`'s normalization, that is the shape of a
filter's JSON, which needs a model of text; the validation of events (`events.py`),
a function of one event that the other models take as decided; and the signing
of renewals and revocations, which the bundled signer refuses and the lifecycle
takes as offers from a wallet elsewhere.
