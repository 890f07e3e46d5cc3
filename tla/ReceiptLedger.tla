----------------------------- MODULE ReceiptLedger -----------------------------
(***************************************************************************)
(* What automatic witnessing promises about one signed subject: at most    *)
(* one observation, recorded once and never refreshed; at most one         *)
(* receipt, which repeats that observation; outcomes that are final; and   *)
(* nothing shown to a subscriber before it is durable.                     *)
(* AutomaticWitness implements this specification.                         *)
(***************************************************************************)
EXTENDS Integers

CONSTANTS
  Subjects,      \* digests of signed subject events
  Observations,  \* what a job may record when a subject is accepted
  Times,         \* readings of the wall clock
  MaxDelay,      \* witness_max_delay_seconds
  Null

VARIABLES
  outcome,       \* what the status endpoint reports for a digest
  observation,   \* the recorded observation
  receipt,       \* the signed receipt
  announced      \* receipts offered to live subscribers

ledgerVars == <<outcome, observation, receipt, announced>>

\* A receipt is its observation with the time of issuance.
ReceiptFor(o, issued) ==
  [auth |-> o.auth, observed |-> o.observed, uncertainty |-> o.uncertainty,
   mode |-> o.mode, issued |-> issued]

\* The issuance is neither before the observation nor late.
InTime(o, issued) == o.observed <= issued /\ issued - o.observed <= MaxDelay

Record(d) ==
  /\ outcome[d] = "not-observed"
  /\ \E o \in Observations : observation' = [observation EXCEPT ![d] = o]
  /\ \E s \in {"pending", "unavailable"} : outcome' = [outcome EXCEPT ![d] = s]
  /\ UNCHANGED <<receipt, announced>>

Issue(d) ==
  /\ outcome[d] = "pending"
  /\ outcome' = [outcome EXCEPT ![d] = "issued"]
  /\ \E issued \in Times :
       /\ InTime(observation[d], issued)
       /\ receipt' = [receipt EXCEPT ![d] = ReceiptFor(observation[d], issued)]
  /\ UNCHANGED <<observation, announced>>

GiveUp(d) ==
  /\ outcome[d] = "pending"
  /\ outcome' = [outcome EXCEPT ![d] = "unavailable"]
  /\ UNCHANGED <<observation, receipt, announced>>

Announce(d) ==
  /\ outcome[d] = "issued"
  /\ announced' = announced \cup {d}
  /\ UNCHANGED <<outcome, observation, receipt>>

LedgerInit ==
  /\ outcome = [d \in Subjects |-> "not-observed"]
  /\ observation = [d \in Subjects |-> Null]
  /\ receipt = [d \in Subjects |-> Null]
  /\ announced = {}

LedgerNext == \E d \in Subjects : Record(d) \/ Issue(d) \/ GiveUp(d) \/ Announce(d)

LedgerSpec == LedgerInit /\ [][LedgerNext]_ledgerVars

=============================================================================
