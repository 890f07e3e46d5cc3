------------------------ MODULE AutomaticWitnessProofs ------------------------
(***************************************************************************)
(* Proofs about AutomaticWitness for every value of its constants.         *)
(***************************************************************************)
EXTENDS AutomaticWitness, FiniteSetTheorems, TLAPS

-----------------------------------------------------------------------------
(* Sequences.                                                              *)

(***************************************************************************)
(* The head and the tail of a nonempty sequence (the rows of a pass).      *)
(***************************************************************************)
LEMMA HeadTail ==
  ASSUME NEW S, NEW q \in Seq(S), q # <<>>
  PROVE  /\ Head(q) \in S /\ Head(q) = q[1] /\ 1 \in 1 .. Len(q)
         /\ Tail(q) \in Seq(S) /\ Len(Tail(q)) = Len(q) - 1
         /\ \A i \in 1 .. Len(Tail(q)) : i + 1 \in 1 .. Len(q) /\ Tail(q)[i] = q[i + 1]
OBVIOUS

(***************************************************************************)
(* A function on 1 .. n with values in S is a sequence over S.             *)
(***************************************************************************)
LEMMA FunctionSeq ==
  ASSUME NEW S, NEW n \in Nat, NEW q, q = [i \in 1 .. n |-> q[i]],
         \A i \in 1 .. n : q[i] \in S
  PROVE  q \in Seq(S) /\ Len(q) = n
<1>1. q \in [1 .. n -> S]
  OBVIOUS
<1> QED
  BY <1>1

(***************************************************************************)
(* Appending an element of S.                                              *)
(***************************************************************************)
LEMMA AppendSeq ==
  ASSUME NEW S, NEW q \in Seq(S), NEW e \in S
  PROVE  /\ Append(q, e) \in Seq(S) /\ Len(Append(q, e)) = Len(q) + 1
         /\ Append(q, e)[Len(q) + 1] = e /\ Append(q, e) # <<>>
         /\ \A i \in 1 .. Len(q) : Append(q, e)[i] = q[i]
OBVIOUS

(***************************************************************************)
(* The empty sequence is a sequence over every set.                        *)
(***************************************************************************)
LEMMA EmptySeqTyped == \A S : <<>> \in Seq(S) /\ Len(<<>>) = 0
OBVIOUS

-----------------------------------------------------------------------------
(* What the decisions of accept and issue imply.                           *)

(***************************************************************************)
(* A permitted view has a grant at its head whose window has begun and has *)
(* not ended, and no suspension (_check and _view, witness.py).            *)
(***************************************************************************)
LEMMA PermittedMeans ==
  ASSUME NEW now \in Readings, history \in Seq(Entries), WitnessingPermitted(now)
  PROVE  /\ history # <<>> /\ Len(history) \in 1 .. Len(history)
         /\ HeadEntry \in Grants
         /\ InForce(HeadEntry, now) /\ ~suspended
<1>1. history # <<>>
  BY DEF WitnessingPermitted, AuthorizationState
<1>2. Len(history) \in 1 .. Len(history) /\ HeadEntry \in Entries
  BY <1>1 DEF HeadEntry
<1>3. HeadEntry.type \in {"grant", "revocation"}
  BY <1>2 DEF Entries, Grants, Revocations
<1>4. HeadEntry.type = "grant"
  BY <1>1, <1>3 DEF WitnessingPermitted, AuthorizationState
<1>5. HeadEntry \in Grants
  BY <1>2, <1>4 DEF Entries, Revocations
<1>6. ~(now < HeadEntry.created) /\ ~(now >= HeadEntry.end)
  BY <1>1, <1>4 DEF WitnessingPermitted, AuthorizationState
<1>7. now \in Int /\ HeadEntry.created \in Int /\ HeadEntry.end \in Int
  BY <1>5, ClockAssumption DEF Grants, Readings
<1> QED
  BY <1>1, <1>2, <1>5, <1>6, <1>7 DEF InForce, WitnessingPermitted

(***************************************************************************)
(* A sample that returns claims an uncertainty exactly in bounded mode.    *)
(***************************************************************************)
LEMMA UncertaintyTyped ==
  ASSUME mode \in ClockModes, TimeKnown(mode)
  PROVE  /\ Uncertainty(mode) \in (0 .. MaxUncertainty) \cup {Null}
         /\ mode = "bounded" <=> Uncertainty(mode) # Null
<1>1. CASE mode = "bounded"
  BY <1>1, ClockAssumption DEF TimeKnown, Uncertainty, BoundedReport
<1>2. CASE mode # "bounded"
  BY <1>2 DEF Uncertainty
<1> QED
  BY <1>1, <1>2

(***************************************************************************)
(* An observation accept drafts has the type of a job's inputs and is      *)
(* covered by the grant at the head of the chain.                          *)
(***************************************************************************)
LEMMA ObservationSound ==
  ASSUME TypeOK, MayWitness
  PROVE  /\ Observation \in Observations
         /\ Observation.auth = Len(history)
         /\ \A d \in Subjects : KindOf[d] \in HeadEntry.kinds => Covered(d, Observation)
<1>1. /\ history # <<>> /\ Len(history) \in 1 .. Len(history)
      /\ HeadEntry \in Grants /\ InForce(HeadEntry, wall) /\ ~suspended
  BY PermittedMeans DEF TypeOK, MayWitness
<1>2. /\ Uncertainty(mode) \in (0 .. MaxUncertainty) \cup {Null}
      /\ mode = "bounded" <=> Uncertainty(mode) # Null
  BY UncertaintyTyped DEF TypeOK, MayWitness
<1>3. Len(history) \in 1 .. MaxHistory
  BY <1>1, AuthorityAssumption DEF TypeOK
<1>4. Observation \in Observations
  BY <1>2, <1>3 DEF Observation, Observations, TypeOK
<1>5. HeadEntry.profile = mode /\ Within(HeadEntry, wall, Uncertainty(mode))
  BY DEF MayWitness, PolicyAllowsMode
<1>6. HeadEntry.type = "grant"
  BY <1>1 DEF Grants
<1> QED
  BY <1>1, <1>2, <1>4, <1>5, <1>6 DEF Observation, Covered, HeadEntry

-----------------------------------------------------------------------------
(* Types.                                                                  *)

(***************************************************************************)
(* An administrative command keeps the chain a bounded sequence of entries.*)
(***************************************************************************)
LEMMA AdminTyped ==
  ASSUME NEW now \in Readings, AdminCommand(now),
         history \in Seq(Entries), Len(history) <= MaxHistory, suspended \in BOOLEAN
  PROVE  history' \in Seq(Entries) /\ Len(history') <= MaxHistory /\ suspended' \in BOOLEAN
<1>1. ASSUME NEW g \in GrantOffers, Grant(g, now)
      PROVE  history' \in Seq(Entries) /\ Len(history') <= MaxHistory /\ suspended' \in BOOLEAN
  <2>1. g \in Entries
    BY AuthorityAssumption DEF Entries
  <2> QED
    BY <1>1, <2>1, AuthorityAssumption DEF Grant
<1>2. ASSUME NEW created \in Times, Revoke(created, now)
      PROVE  history' \in Seq(Entries) /\ Len(history') <= MaxHistory /\ suspended' \in BOOLEAN
  <2>1. [type |-> "revocation", created |-> created] \in Entries
    BY AuthorityAssumption DEF Entries, Revocations
  <2> QED
    BY <1>2, <2>1, AuthorityAssumption DEF Revoke
<1>3. CASE Suspend(now)
  BY <1>3 DEF Suspend
<1>4. CASE Resume(now)
  BY <1>4 DEF Resume
<1> QED
  BY <1>1, <1>2, <1>3, <1>4 DEF AdminCommand

(***************************************************************************)
(* Moving to the next row keeps the worker's state well typed.             *)
(***************************************************************************)
LEMMA NextRowTyped ==
  ASSUME worker \in Workers, worker.rows # <<>>
  PROVE  NextRow \in Workers /\ Head(worker.rows).digest \in Subjects
<1>1. /\ worker.rows \in Seq(Rows) /\ worker.pc \in {"asleep", "fetch", "rows", "flag"}
  BY DEF Workers
<1>2. Head(worker.rows) \in Rows /\ Tail(worker.rows) \in Seq(Rows)
  BY <1>1, HeadTail
<1>3. Asleep \in Workers
  BY EmptySeqTyped DEF Workers, Asleep
<1> QED
  BY <1>2, <1>3 DEF NextRow, Workers, Rows

(***************************************************************************)
(* Every step of the relay, of its environment and of the administrative   *)
(* commands keeps the types.                                               *)
(***************************************************************************)
LEMMA TypeStep == IndInv /\ [Next]_vars => TypeOK'
<1> SUFFICES ASSUME IndInv, [Next]_vars
             PROVE  TypeOK'
  OBVIOUS
<1> USE DEF Vacant
<1>t. TypeOK
  BY DEF IndInv
<1>w. worker \in Workers /\ section \in Sections /\ mode \in ClockModes /\ wall \in Readings
  BY <1>t DEF TypeOK
<1>n. Null \notin Subjects /\ Null \notin Observations /\ Null \notin Receipts
  BY WitnessAssumption
<1>a. Asleep \in Workers /\ [pc |-> "fetch", rows |-> <<>>] \in Workers
  BY EmptySeqTyped DEF Workers, Asleep
<1>clk. Sample => wall' \in Readings /\ step' \in Int /\ latched' \in BOOLEAN /\ health' \in HealthReports
  BY <1>t DEF Sample, TypeOK
<1>1. ASSUME NEW s \in Subjects, PlainAccept(s)
      PROVE  TypeOK'
  <2>1. stored' \in [EventIds -> Subjects \cup {Null}]
    BY <1>1, <1>t DEF PlainAccept, SaveEvent, TypeOK, EventIds
  <2> QED
    BY <1>1, <1>t, <2>1 DEF PlainAccept, Disturb, TypeOK, authorityVars, clockVars, processVars, jobVars
<1>2. ASSUME NEW s \in Subjects, AcceptBegin(s)
      PROVE  TypeOK'
  <2>1. PICK readable \in BOOLEAN :
          /\ ReadAuthority(readable)
          /\ section' = [op |-> "accept", subject |-> s,
                         draft |-> IF readable /\ MayWitness /\ KindOf[s] \in HeadEntry.kinds
                                   THEN Observation ELSE Null]
    BY <1>2 DEF AcceptBegin
  <2>2. wall' \in Readings /\ step' \in Int /\ latched' \in BOOLEAN /\ health' \in HealthReports
    BY <2>1, <1>clk, <1>t DEF ReadAuthority, clockVars, TypeOK
  <2>3. section' \in Sections
    BY <2>1, <1>t, ObservationSound DEF Sections
  <2> QED
    BY <1>2, <1>t, <2>2, <2>3 DEF AcceptBegin, Disturb, TypeOK, authorityVars, processVars, storeVars, jobVars
<1>3. CASE AcceptCommit
  <2>1. section.subject \in Subjects /\ section.draft \in Observations \cup {Null}
    BY <1>3, <1>w DEF AcceptCommit, Sections
  <2>2. stored' \in [EventIds -> Subjects \cup {Null}]
    BY <1>3, <1>t, <2>1 DEF AcceptCommit, SaveEvent, TypeOK, EventIds
  <2>3. section' \in Sections
    BY <1>3 DEF AcceptCommit, Sections
  <2>4. CASE section.draft = Null
    BY <1>3, <1>t, <2>2, <2>3, <2>4 DEF AcceptCommit, TypeOK, authorityVars, clockVars, processVars, jobVars
  <2>5. CASE section.draft # Null /\ state[section.subject] # "not-observed"
    BY <1>3, <1>t, <2>2, <2>3, <2>5 DEF AcceptCommit, InsertJob, TypeOK, authorityVars, clockVars, processVars, jobVars
  <2>6. CASE section.draft # Null /\ state[section.subject] = "not-observed"
    <3>1. /\ state' \in [Subjects -> {"not-observed", "pending", "issued", "unavailable"}]
          /\ inputs' \in [Subjects -> Observations \cup {Null}]
          /\ rowids' \in Seq(Subjects)
          /\ UNCHANGED <<receipt, flagged>>
      <4>1. rowids' \in Seq(Subjects)
        BY <1>3, <1>t, <2>1, <2>6, AppendSeq DEF AcceptCommit, InsertJob, TypeOK
      <4> QED
        BY <1>3, <1>t, <2>1, <2>6, <4>1 DEF AcceptCommit, InsertJob, TypeOK
    <3>2. ASSUME NEW d \in Subjects
          PROVE  /\ inputs'[d] = Null <=> state'[d] = "not-observed"
                 /\ receipt'[d] = Null <=> state'[d] # "issued"
      BY <1>3, <1>t, <1>n, <2>1, <2>6 DEF AcceptCommit, InsertJob, TypeOK
    <3> QED
      BY <1>3, <1>t, <2>2, <2>3, <3>1, <3>2 DEF AcceptCommit, TypeOK, authorityVars, clockVars, processVars
  <2> QED
    BY <2>4, <2>5, <2>6
<1>4. CASE AcceptFail
  BY <1>4, <1>t DEF AcceptFail, Disturb, Sections, TypeOK, authorityVars, clockVars, processVars, storeVars, jobVars
<1>5. CASE CheckClock
  <2>1. worker' \in Workers
    BY <1>5, <1>a DEF CheckClock
  <2> QED
    BY <1>5, <1>t, <1>clk, <2>1 DEF CheckClock, TypeOK, authorityVars, processVars, storeVars, jobVars
<1>6. CASE FetchRows
  <2>1. worker' \in Workers
    <3>1. CASE Work = {} \/ stopping
      BY <1>6, <3>1, <1>a DEF FetchRows
    <3>2. CASE Work # {} /\ ~stopping
      <4>0. PICK n \in 1 .. BatchSize : \E pick \in [1 .. n -> Work] :
              worker' = [pc |-> "rows",
                         rows |-> [i \in 1 .. n |->
                                     [digest |-> rowids[pick[i]], state |-> state[rowids[pick[i]]]]]]
        BY <1>6, <3>2 DEF FetchRows
      <4>1. PICK pick \in [1 .. n -> Work] :
              worker' = [pc |-> "rows",
                         rows |-> [i \in 1 .. n |->
                                     [digest |-> rowids[pick[i]], state |-> state[rowids[pick[i]]]]]]
        BY <4>0
      <4>2. ASSUME NEW i \in 1 .. n
            PROVE  /\ rowids[pick[i]] \in Subjects
                   /\ state[rowids[pick[i]]] \in {"pending", "issued"}
        BY <1>t DEF Work, NeedsWork, TypeOK
      <4>3. n \in Nat
        BY WitnessAssumption
      <4> QED
        <5>1. \A i \in 1 .. n : [digest |-> rowids[pick[i]], state |-> state[rowids[pick[i]]]] \in Rows
          BY <4>2 DEF Rows
        <5>2. worker'.rows \in Seq(Rows)
          BY <4>1, <4>3, <5>1, FunctionSeq
        <5> QED
          BY <4>1, <5>2 DEF Workers
    <3> QED
      BY <3>1, <3>2
  <2> QED
    BY <1>6, <1>t, <2>1 DEF FetchRows, TypeOK, authorityVars, clockVars, processVars, storeVars, jobVars
<1>7. CASE IssueBegin
  <2> DEFINE d == Head(worker.rows).digest
  <2>1. worker.rows # <<>>
    BY <1>7 DEF IssueBegin, IndInv, WorkerSound
  <2>2. NextRow \in Workers /\ d \in Subjects
    BY <1>w, <2>1, NextRowTyped
  <2>3. CASE state[d] # "pending"
    <3>1. worker' = NextRow /\ UNCHANGED <<section, clockVars>>
      BY <1>7, <2>3 DEF IssueBegin
    <3> QED
      BY <1>7, <1>t, <2>2, <3>1
        DEF IssueBegin, TypeOK, authorityVars, clockVars, processVars, storeVars, jobVars
  <2>4. CASE state[d] = "pending"
    <3>1. PICK readable \in BOOLEAN :
            /\ ReadAuthority(readable)
            /\ section' = [op |-> "issue", subject |-> d,
                           draft |-> IF readable /\ MayIssue(d)
                                     THEN Ledger!ReceiptFor(inputs[d], wall) ELSE Null]
      BY <1>7, <2>4 DEF IssueBegin
    <3>2. wall' \in Readings /\ step' \in Int /\ latched' \in BOOLEAN /\ health' \in HealthReports
      BY <3>1, <1>clk, <1>t DEF ReadAuthority, clockVars, TypeOK
    <3>3. inputs[d] \in Observations
      BY <1>t, <2>2, <2>4 DEF TypeOK
    <3>4. Ledger!ReceiptFor(inputs[d], wall) \in Receipts
      BY <3>3, <1>w DEF Ledger!ReceiptFor, Observations, Receipts
    <3>5. section' \in Sections
      BY <3>1, <3>4, <2>2 DEF Sections
    <3> QED
      BY <1>7, <1>t, <2>4, <3>2, <3>5 DEF IssueBegin, TypeOK, authorityVars, processVars, storeVars, jobVars
  <2> QED
    BY <2>3, <2>4
<1>8. CASE IssueCommit
  <2>1. section.subject \in Subjects /\ section.draft \in Receipts \cup {Null}
    BY <1>8, <1>w DEF IssueCommit, Sections
  <2>2. state[section.subject] = "pending" /\ worker.rows # <<>>
    BY <1>8 DEF IssueCommit, IndInv, IssueSound, WorkerSound
  <2>3. worker' \in Workers /\ section' \in Sections
    BY <1>8, <1>w, <2>2, NextRowTyped DEF IssueCommit, Sections
  <2>4. CASE section.draft = Null
    <3>1. AbandonJob(section.subject)
      BY <1>8, <2>4 DEF IssueCommit
    <3>2. /\ state' \in [Subjects -> {"not-observed", "pending", "issued", "unavailable"}]
          /\ UNCHANGED <<inputs, receipt, flagged, rowids>>
          /\ \A d \in Subjects : state'[d] = IF d = section.subject THEN "unavailable" ELSE state[d]
      BY <1>t, <2>1, <2>2, <3>1 DEF AbandonJob, TypeOK
    <3> QED
      BY <1>8, <1>t, <2>2, <2>3, <3>2 DEF IssueCommit, TypeOK, authorityVars, clockVars, processVars
  <2>5. CASE section.draft # Null
    <3>1. CompleteJob(section.subject, section.draft)
      BY <1>8, <2>5 DEF IssueCommit
    <3>2. /\ state' \in [Subjects -> {"not-observed", "pending", "issued", "unavailable"}]
          /\ receipt' \in [Subjects -> Receipts \cup {Null}]
          /\ flagged' \in [Subjects -> BOOLEAN]
          /\ UNCHANGED <<inputs, rowids>>
      BY <1>t, <2>1, <3>1 DEF CompleteJob, TypeOK
    <3>3. ASSUME NEW d \in Subjects
          PROVE  /\ inputs'[d] = Null <=> state'[d] = "not-observed"
                 /\ receipt'[d] = Null <=> state'[d] # "issued"
      BY <1>t, <2>1, <2>2, <2>5, <3>1, <3>2 DEF CompleteJob, TypeOK
    <3> QED
      BY <1>8, <1>t, <2>3, <3>2, <3>3 DEF IssueCommit, TypeOK, authorityVars, clockVars, processVars
  <2> QED
    BY <2>4, <2>5
<1>9. CASE IssueFail
  BY <1>9, <1>t, <1>a DEF IssueFail, Disturb, Sections, TypeOK, authorityVars, clockVars, processVars, storeVars, jobVars
<1>10. CASE Broadcast
  <2>1. worker.rows # <<>>
    BY <1>10 DEF Broadcast, IndInv, WorkerSound
  <2>2. Head(worker.rows).digest \in Subjects
    BY <1>w, <2>1, NextRowTyped
  <2>3. worker' \in Workers
    BY <1>10, <1>w DEF Broadcast, Workers
  <2> QED
    BY <1>10, <1>t, <2>2, <2>3 DEF Broadcast, TypeOK, authorityVars, clockVars, processVars, storeVars, jobVars
<1>11. CASE BroadcastTimeout
  <2>1. worker.rows # <<>>
    BY <1>11 DEF BroadcastTimeout, IndInv, WorkerSound
  <2>2. Head(worker.rows).digest \in Subjects
    BY <1>w, <2>1, NextRowTyped
  <2>3. sent' \subseteq Subjects
    BY <1>11, <1>t, <2>2 DEF BroadcastTimeout, TypeOK
  <2> QED
    BY <1>11, <1>t, <1>a, <2>3
      DEF BroadcastTimeout, Disturb, TypeOK, authorityVars, clockVars, processVars, storeVars, jobVars
<1>12. CASE FlagBroadcast
  <2>1. worker.rows # <<>>
    BY <1>12 DEF FlagBroadcast, IndInv, WorkerSound
  <2>2. NextRow \in Workers /\ Head(worker.rows).digest \in Subjects
    BY <1>w, <2>1, NextRowTyped
  <2>3. flagged' \in [Subjects -> BOOLEAN]
    BY <1>12, <1>t, <2>2 DEF FlagBroadcast, TypeOK
  <2> QED
    BY <1>12, <1>t, <2>2, <2>3 DEF FlagBroadcast, TypeOK, authorityVars, clockVars, processVars
<1>13. CASE PassFail
  BY <1>13, <1>t, <1>a DEF PassFail, Disturb, TypeOK, authorityVars, clockVars, processVars, storeVars, jobVars
<1>14. CASE Crash \/ Exit
  <2>1. up' \in BOOLEAN /\ stopping' \in BOOLEAN
    BY <1>14, Zenon DEF Crash, Exit
  <2>2. section' \in Sections
    BY <1>14 DEF Crash, Exit, Sections
  <2> QED
    BY <1>14, <1>t, <1>a, <2>1, <2>2 DEF Crash, Exit, Disturb, TypeOK, authorityVars, clockVars, storeVars, jobVars
<1>15. CASE Restart
  <2>1. up' \in BOOLEAN /\ latched' \in BOOLEAN
    BY <1>15, Zenon DEF Restart, NewClock
  <2>2. step' = 0 /\ UNCHANGED <<wall, health>> /\ mode' \in ClockModes
    BY <1>15, WitnessAssumption DEF Restart, NewClock
  <2> QED
    BY <1>15, <1>t, <2>1, <2>2 DEF Restart, TypeOK, authorityVars, storeVars, jobVars
<1>16. CASE Administer
  <2>1. history' \in Seq(Entries) /\ Len(history') <= MaxHistory /\ suspended' \in BOOLEAN
    BY <1>16, <1>t, <1>w, AdminTyped DEF Administer, TypeOK
  <2> QED
    BY <1>16, <1>t, <2>1 DEF Administer, TypeOK, clockVars, processVars, storeVars, jobVars
<1>17. CASE TimePasses
  BY <1>17, <1>t, ClockAssumption
    DEF TimePasses, Tick, Readings, TypeOK, authorityVars, processVars, storeVars, jobVars
<1>18. CASE WallStepped
  <2>1. wall' \in Readings /\ step' \in Int /\ UNCHANGED <<latched, health>>
    BY <1>18, <1>t, ClockAssumption DEF WallStepped, StepWall, Readings, TypeOK
  <2> QED
    BY <1>18, <1>t, <2>1 DEF WallStepped, Disturb, TypeOK, authorityVars, processVars, storeVars, jobVars
<1>19. CASE HealthReported
  <2>1. health' \in HealthReports /\ UNCHANGED <<wall, step, latched>>
    BY <1>19, <1>t, ClockAssumption DEF HealthReported, Monitor, HealthReports, Findings, Readings, TypeOK
  <2> QED
    BY <1>19, <1>t, <2>1 DEF HealthReported, TypeOK, authorityVars, processVars, storeVars, jobVars
<1>21. CASE Stop
  <2>1. stopping' \in BOOLEAN
    BY <1>21, Zenon DEF Stop
  <2> QED
    BY <1>21, <1>t, <2>1 DEF Stop, Disturb, TypeOK, authorityVars, clockVars, storeVars, jobVars
<1>20. CASE UNCHANGED vars
  BY <1>20, <1>t DEF TypeOK, vars, authorityVars, clockVars, processVars, storeVars, jobVars
<1> QED
  BY <1>1, <1>2, <1>3, <1>4, <1>5, <1>6, <1>7, <1>8, <1>9, <1>10, <1>11, <1>12, <1>13, <1>14,
     <1>15, <1>16, <1>17, <1>18, <1>19, <1>20, <1>21 DEF Next, Unattended, WorkerStep

-----------------------------------------------------------------------------
(* The strengthening.                                                      *)

(***************************************************************************)
(* The initial state satisfies the inductive invariant.                    *)
(***************************************************************************)
LEMMA InitSound == Init => IndInv
<1> SUFFICES ASSUME Init PROVE IndInv
  OBVIOUS
<1> USE DEF Init, ClockInit
<1>1. history \in Seq(Entries) /\ Len(history) <= MaxHistory /\ suspended = FALSE
  <2>1. CASE AuthorityInit
    BY <2>1, EmptySeqTyped, AuthorityAssumption DEF AuthorityInit
  <2>2. CASE LegacyInit
    <3>1. PICK g \in GrantOffers : history = <<g>>
      BY <2>2 DEF LegacyInit
    <3>2. g \in Entries
      BY AuthorityAssumption DEF Entries
    <3> QED
      BY <2>2, <3>1, <3>2, AuthorityAssumption DEF LegacyInit
  <2> QED
    BY <2>1, <2>2
<1>2. wall \in Readings /\ step \in Int /\ health \in HealthReports
  BY ClockAssumption DEF Readings, HealthReports
<1>3. worker \in Workers /\ rowids \in Seq(Subjects)
  BY EmptySeqTyped DEF Workers, Asleep
<1>4. mode \in ClockModes /\ section \in Sections
  BY WitnessAssumption DEF Sections, Vacant
<1>b. suspended \in BOOLEAN /\ latched \in BOOLEAN /\ up \in BOOLEAN /\ stopping \in BOOLEAN
  <2>1. suspended = FALSE /\ latched = FALSE /\ up = TRUE /\ stopping = FALSE
    BY <1>1
  <2> QED
    BY <2>1, Zenon
<1>5. TypeOK
  BY <1>1, <1>2, <1>3, <1>4, <1>b, WitnessAssumption DEF TypeOK
<1>6. AcceptSound /\ IssueSound /\ JobsCovered /\ FlaggedWasSent /\ JobHasEvent
  BY DEF AcceptSound, IssueSound, JobsCovered, FlaggedWasSent, JobHasEvent, Vacant
<1>7. WorkerSound
  BY DEF WorkerSound, Asleep
<1> QED
  BY <1>5, <1>6, <1>7 DEF IndInv

(***************************************************************************)
(* The chain only grows: an entry keeps its place, so what a recorded job  *)
(* says about its grant stays true through renewals and revocations.       *)
(***************************************************************************)
LEMMA ChainGrows ==
  ASSUME TypeOK, [Next]_vars
  PROVE  /\ Len(history) \in Nat /\ Len(history') \in Nat /\ Len(history) <= Len(history')
         /\ \A i \in 1 .. Len(history) : history'[i] = history[i]
<1>t. history \in Seq(Entries)
  BY DEF TypeOK
<1>1. CASE UNCHANGED authorityVars
  BY <1>1, <1>t DEF authorityVars
<1>2. CASE Administer
  <2>1. ASSUME NEW g \in GrantOffers, Grant(g, wall)
        PROVE  history' = Append(history, g) /\ g \in Entries
    BY <2>1, AuthorityAssumption DEF Grant, Entries
  <2>2. ASSUME NEW created \in Times, Revoke(created, wall)
        PROVE  /\ history' = Append(history, [type |-> "revocation", created |-> created])
               /\ [type |-> "revocation", created |-> created] \in Entries
    BY <2>2, AuthorityAssumption DEF Revoke, Entries, Revocations
  <2>3. ASSUME Suspend(wall) \/ Resume(wall)
        PROVE  history' = history
    BY <2>3 DEF Suspend, Resume
  <2>4. history' = history \/ \E e \in Entries : history' = Append(history, e)
    BY <1>2, <2>1, <2>2, <2>3 DEF Administer, AdminCommand
  <2> QED
    BY <2>4, <1>t, AppendSeq
<1>3. Administer \/ UNCHANGED authorityVars
  BY DEF Next, Unattended, WorkerStep, PlainAccept, AcceptBegin, AcceptCommit, AcceptFail, CheckClock, FetchRows,
         IssueBegin, IssueCommit, Broadcast, FlagBroadcast, IssueFail, BroadcastTimeout, PassFail,
         Crash, Stop, Exit, Restart, TimePasses, WallStepped, HealthReported, vars
<1> QED
  BY <1>1, <1>2, <1>3

(***************************************************************************)
(* An observation covered by its grant stays covered.                      *)
(***************************************************************************)
LEMMA CoveredKept ==
  ASSUME TypeOK, [Next]_vars, NEW d, NEW o, Covered(d, o)
  PROVE  /\ o.auth \in 1 .. Len(history') /\ history'[o.auth] = history[o.auth]
         /\ Covered(d, o)'
<1>1. o.auth \in 1 .. Len(history') /\ history'[o.auth] = history[o.auth]
  BY ChainGrows DEF Covered
<1> QED
  BY <1>1 DEF Covered

(***************************************************************************)
(* Who enters the section, and who leaves it.                              *)
(***************************************************************************)
LEMMA SectionFrame ==
  ASSUME [Next]_vars
  PROVE  \/ section' = section
         \/ section' = Vacant
         \/ \E s \in Subjects : AcceptBegin(s)
         \/ IssueBegin
BY DEF Next, Unattended, WorkerStep, PlainAccept, AcceptCommit, AcceptFail, CheckClock, FetchRows,
       IssueCommit, Broadcast, FlagBroadcast, IssueFail, BroadcastTimeout, PassFail,
       Crash, Stop, Exit, Restart, Administer, TimePasses, WallStepped, HealthReported, vars

(***************************************************************************)
(* What accept drafted stays covered until it is written.                  *)
(***************************************************************************)
LEMMA AcceptStep == IndInv /\ [Next]_vars => AcceptSound'
<1> SUFFICES ASSUME IndInv, [Next]_vars
             PROVE  AcceptSound'
  OBVIOUS
<1>t. TypeOK /\ AcceptSound
  BY DEF IndInv
<1>1. CASE section' = section
  <2>0. section'.op = "accept" => Witnessable(section'.subject)
    BY <1>1, <1>t DEF AcceptSound
  <2> SUFFICES ASSUME section'.op = "accept", section'.draft # Null
               PROVE  Covered(section.subject, section.draft)'
    BY <2>0 DEF AcceptSound, Witnessable
  <2> DEFINE d == section.subject
             o == section.draft
  <2>1. Covered(d, o)
    BY <1>1, <1>t DEF AcceptSound
  <2>2. o.auth \in 1 .. Len(history') /\ history'[o.auth] = history[o.auth]
    BY <1>t, <2>1, CoveredKept
  <2> QED
    BY <1>1, <2>1, <2>2 DEF Covered
<1>2. CASE section' = Vacant
  BY <1>2 DEF AcceptSound, Vacant
<1>3. ASSUME NEW s \in Subjects, AcceptBegin(s)
      PROVE  AcceptSound'
  <2>1. PICK readable \in BOOLEAN :
          section' = [op |-> "accept", subject |-> s,
                      draft |-> IF readable /\ MayWitness /\ KindOf[s] \in HeadEntry.kinds
                                THEN Observation ELSE Null]
    BY <1>3 DEF AcceptBegin
  <2>2. history' = history /\ Witnessable(s)
    BY <1>3 DEF AcceptBegin, authorityVars
  <2>3. section'.draft # Null => Covered(s, section'.draft)
    BY <2>1, <1>t, ObservationSound
  <2> QED
    BY <2>1, <2>2, <2>3 DEF AcceptSound, Covered, Witnessable
<1>4. CASE IssueBegin
  BY <1>4, <1>1 DEF IssueBegin, AcceptSound
<1> QED
  BY <1>1, <1>2, <1>3, <1>4, SectionFrame

(***************************************************************************)
(* While the worker is inside issue only it, a failure or a crash moves    *)
(* the chain, the controls, the latch, the jobs or the worker itself.      *)
(***************************************************************************)
LEMMA IssueFrame ==
  ASSUME IssueSound, WorkerSound, [Next]_vars, section.op = "issue", section' = section
  PROVE  UNCHANGED <<history, suspended, latched, state, inputs, receipt, worker>>
<1>1. section # Vacant /\ section.op # "accept"
  BY DEF Vacant
<1>2. worker.pc = "rows" /\ Head(worker.rows).state = "pending"
  BY DEF IssueSound
<1>3. worker # Asleep
  BY <1>2 DEF Asleep
<1>4. ASSUME NEW s \in Subjects, PlainAccept(s) \/ AcceptBegin(s)
      PROVE  UNCHANGED <<history, suspended, latched, state, inputs, receipt, worker>>
  BY <1>1, <1>4 DEF PlainAccept, AcceptBegin, authorityVars, clockVars, jobVars
<1>5. ASSUME AcceptCommit \/ AcceptFail \/ IssueCommit \/ IssueFail \/ Crash \/ Exit
      PROVE  section' = Vacant
  BY <1>5 DEF AcceptCommit, AcceptFail, IssueCommit, IssueFail, Crash, Exit
<1>6. /\ ~CheckClock /\ ~FetchRows /\ ~IssueBegin /\ ~Broadcast /\ ~BroadcastTimeout
      /\ ~FlagBroadcast /\ ~PassFail /\ ~Administer
  BY <1>1, <1>2, <1>3 DEF CheckClock, FetchRows, IssueBegin, Broadcast, BroadcastTimeout,
       FlagBroadcast, PassFail, Administer
<1>7. ~Restart
  BY <1>1 DEF Restart, WorkerSound
<1>8. ASSUME Stop \/ TimePasses \/ WallStepped \/ HealthReported \/ UNCHANGED vars
      PROVE  UNCHANGED <<history, suspended, latched, state, inputs, receipt, worker>>
  BY <1>8 DEF Stop, TimePasses, WallStepped, HealthReported, Tick, StepWall, Monitor, vars,
       authorityVars, clockVars, storeVars, jobVars
<1> QED
  BY <1>1, <1>4, <1>5, <1>6, <1>7, <1>8 DEF Next, Unattended, WorkerStep

(***************************************************************************)
(* What the worker decided to issue is still authorized when it writes.    *)
(***************************************************************************)
LEMMA IssueStep == IndInv /\ [Next]_vars => IssueSound'
<1> SUFFICES ASSUME IndInv, [Next]_vars
             PROVE  IssueSound'
  OBVIOUS
<1>t. TypeOK /\ IssueSound /\ WorkerSound
  BY DEF IndInv
<1>1. CASE section' = section
  <2> SUFFICES ASSUME section.op = "issue"
               PROVE  IssueSound'
    BY <1>1 DEF IssueSound
  <2>1. UNCHANGED <<history, suspended, latched, state, inputs, receipt, worker>>
    BY <1>1, <1>t, IssueFrame
  <2> QED
    BY <1>1, <1>t, <2>1
      DEF IssueSound, HeadEntry, InForce, Ledger!ReceiptFor, Ledger!InTime
<1>2. CASE section' = Vacant
  BY <1>2 DEF IssueSound, Vacant
<1>3. ASSUME NEW s \in Subjects, AcceptBegin(s)
      PROVE  IssueSound'
  BY <1>3 DEF AcceptBegin, IssueSound
<1>4. CASE IssueBegin
  <2> DEFINE d == Head(worker.rows).digest
  <2>1. CASE state[d] # "pending"
    BY <1>1, <1>4, <2>1 DEF IssueBegin
  <2>2. CASE state[d] = "pending"
    <3>1. PICK readable \in BOOLEAN :
            /\ ReadAuthority(readable)
            /\ section' = [op |-> "issue", subject |-> d,
                           draft |-> IF readable /\ MayIssue(d)
                                     THEN Ledger!ReceiptFor(inputs[d], wall) ELSE Null]
      BY <1>4, <2>2 DEF IssueBegin
    <3>2. /\ UNCHANGED <<history, suspended, state, inputs, worker>>
          /\ worker.pc = "rows" /\ Head(worker.rows).state = "pending"
      BY <1>4, <2>2 DEF IssueBegin, authorityVars, storeVars, jobVars
    <3>3. ASSUME readable, MayIssue(d)
          PROVE  /\ HeadEntry.type = "grant" /\ InForce(HeadEntry, wall)
                 /\ ~suspended /\ ~latched'
                 /\ inputs[d].auth = Len(history)
                 /\ Ledger!InTime(inputs[d], wall)
      <4>1. WitnessingPermitted(wall) /\ wall \in Readings /\ history \in Seq(Entries)
        BY <1>t, <3>3 DEF MayIssue, MayWitness, TypeOK
      <4>2. HeadEntry \in Grants /\ InForce(HeadEntry, wall) /\ ~suspended
        BY <4>1, PermittedMeans
      <4>3. ~latched'
        <5>1. latched' = (latched \/ Diverged) /\ ~latched /\ ~Diverged
          BY <3>1, <3>3 DEF ReadAuthority, Sample, MayIssue, MayWitness, TimeKnown
        <5> QED
          BY <5>1, Zenon
      <4>4. inputs[d].auth = Len(history) /\ Ledger!InTime(inputs[d], wall)
        BY <3>3 DEF MayIssue, SameGrant, InTime, Ledger!InTime
      <4> QED
        BY <4>2, <4>3, <4>4 DEF Grants
    <3>4. section'.draft # Null =>
            /\ section'.draft = Ledger!ReceiptFor(inputs[d], wall)
            /\ readable /\ MayIssue(d)
      BY <3>1
    <3>5. Ledger!ReceiptFor(inputs[d], wall).issued = wall
          /\ Ledger!ReceiptFor(inputs[d], wall).auth = inputs[d].auth
      BY DEF Ledger!ReceiptFor
    <3>6. section'.subject = d
      BY <3>1
    <3>7. ASSUME section'.draft # Null
          PROVE  /\ section'.draft = Ledger!ReceiptFor(inputs[d], section'.draft.issued)
                 /\ Ledger!InTime(inputs[d], section'.draft.issued)
                 /\ section'.draft.auth = Len(history)
                 /\ HeadEntry.type = "grant" /\ InForce(HeadEntry, section'.draft.issued)
                 /\ ~suspended /\ ~latched'
      BY <3>3, <3>4, <3>5, <3>7
    <3> QED
      BY <3>2, <3>6, <3>7, <2>2 DEF IssueSound, HeadEntry, InForce, Ledger!ReceiptFor, Ledger!InTime
  <2> QED
    BY <2>1, <2>2
<1> QED
  BY <1>1, <1>2, <1>3, <1>4, SectionFrame

-----------------------------------------------------------------------------
(* What a step does to the jobs, in the terms of ReceiptLedger.            *)

(***************************************************************************)
(* Only the two commits write a job: accept records a covered observation  *)
(* once, issue completes or abandons a pending job.                        *)
(***************************************************************************)
LEMMA JobStep ==
  ASSUME IndInv, [Next]_vars
  PROVE  \/ UNCHANGED <<state, inputs, receipt>>
         \/ \E d \in Subjects : Ledger!Record(d) /\ Witnessable(d) /\ Covered(d, inputs'[d])
         \/ \E d \in Subjects : Ledger!GiveUp(d)
         \/ \E d \in Subjects :
              /\ Ledger!Issue(d)
              /\ ~suspended /\ ~latched
              /\ receipt'[d].auth = Len(history)
              /\ HeadEntry.type = "grant" /\ InForce(HeadEntry, receipt'[d].issued)
<1>t. TypeOK /\ AcceptSound /\ IssueSound
  BY DEF IndInv
<1>1. CASE AcceptCommit
  <2> DEFINE d == section.subject
  <2>1. d \in Subjects /\ section.draft \in Observations \cup {Null}
    BY <1>1, <1>t DEF AcceptCommit, TypeOK, Sections, Vacant
  <2>2. CASE section.draft = Null \/ state[d] # "not-observed"
    BY <1>1, <2>2 DEF AcceptCommit, InsertJob, jobVars
  <2>3. CASE section.draft # Null /\ state[d] = "not-observed"
    <3>1. InsertJob(d, section.draft) /\ sent' = sent
      BY <1>1, <2>3 DEF AcceptCommit
    <3>2. /\ state' = [state EXCEPT ![d] =
                         IF Cardinality(Pending) < QueueLimit THEN "pending" ELSE "unavailable"]
          /\ inputs' = [inputs EXCEPT ![d] = section.draft]
          /\ UNCHANGED receipt
      BY <2>3, <3>1 DEF InsertJob
    <3>3. Covered(d, section.draft) /\ Witnessable(d)
      BY <1>1, <1>t, <2>3 DEF AcceptCommit, AcceptSound
    <3>4. inputs'[d] = section.draft
      BY <1>t, <2>1, <3>2 DEF TypeOK
    <3>5. Ledger!Record(d)
      BY <2>1, <2>3, <3>1, <3>2 DEF Ledger!Record
    <3> QED
      BY <2>1, <3>3, <3>4, <3>5
  <2> QED
    BY <2>2, <2>3
<1>2. CASE IssueCommit
  <2> DEFINE d == section.subject
             r == section.draft
  <2>1. /\ d \in Subjects /\ r \in Receipts \cup {Null}
        /\ state[d] = "pending" /\ sent' = sent
    BY <1>2, <1>t DEF IssueCommit, TypeOK, Sections, Vacant, IssueSound
  <2>2. CASE r = Null
    <3>1. AbandonJob(d)
      BY <1>2, <2>2 DEF IssueCommit
    <3>2. state' = [state EXCEPT ![d] = "unavailable"] /\ UNCHANGED <<inputs, receipt>>
      BY <1>t, <2>1, <3>1 DEF AbandonJob, TypeOK
    <3>3. Ledger!GiveUp(d)
      BY <2>1, <3>2 DEF Ledger!GiveUp
    <3> QED
      BY <2>1, <3>3
  <2>3. CASE r # Null
    <3>1. CompleteJob(d, r)
      BY <1>2, <2>3 DEF IssueCommit
    <3>2. /\ r = Ledger!ReceiptFor(inputs[d], r.issued) /\ Ledger!InTime(inputs[d], r.issued)
          /\ r.auth = Len(history) /\ HeadEntry.type = "grant" /\ InForce(HeadEntry, r.issued)
          /\ ~suspended /\ ~latched
      BY <1>2, <1>t, <2>3 DEF IssueCommit, IssueSound
    <3>3. r.issued \in Times
      BY <2>1, <2>3, WitnessAssumption DEF Receipts
    <3>4. receipt'[d] = r
      BY <1>t, <2>1, <3>1 DEF CompleteJob, TypeOK
    <3>5. Ledger!Issue(d)
      BY <2>1, <3>1, <3>2, <3>3 DEF CompleteJob, Ledger!Issue
    <3> QED
      BY <2>1, <3>2, <3>4, <3>5
  <2> QED
    BY <2>2, <2>3
<1>3. CASE ~AcceptCommit /\ ~IssueCommit
  BY <1>3 DEF Next, Unattended, WorkerStep, PlainAccept, AcceptBegin, AcceptFail, CheckClock, FetchRows, IssueBegin,
       Broadcast, FlagBroadcast, IssueFail, BroadcastTimeout, PassFail, Crash, Stop, Exit, Restart, Administer,
       TimePasses, WallStepped, HealthReported, vars, storeVars, jobVars
<1> QED
  BY <1>1, <1>2, <1>3

(***************************************************************************)
(* An issued job stays issued, with the same receipt.                      *)
(***************************************************************************)
LEMMA IssuedFinal ==
  ASSUME IndInv, [Next]_vars, NEW d \in Subjects, state[d] = "issued"
  PROVE  state'[d] = "issued" /\ receipt'[d] = receipt[d]
<1>1. /\ DOMAIN state = Subjects /\ DOMAIN receipt = Subjects
  BY DEF IndInv, TypeOK
<1> QED
  BY <1>1, JobStep DEF Ledger!Record, Ledger!Issue, Ledger!GiveUp

(***************************************************************************)
(* Recorded observations and receipts stay covered.                        *)
(***************************************************************************)
LEMMA JobsStep == IndInv /\ [Next]_vars => JobsCovered'
<1> SUFFICES ASSUME IndInv, [Next]_vars, NEW d \in Subjects
             PROVE  /\ state'[d] # "not-observed" => Witnessable(d) /\ Covered(d, inputs[d])'
                    /\ state'[d] = "issued" =>
                         /\ receipt'[d] = Ledger!ReceiptFor(inputs'[d], receipt'[d].issued)
                         /\ InForce(history'[receipt'[d].auth], receipt'[d].issued)
  BY DEF JobsCovered, InForce, Ledger!ReceiptFor, Witnessable
<1>t. TypeOK /\ JobsCovered
  BY DEF IndInv
<1>f. DOMAIN state = Subjects /\ DOMAIN inputs = Subjects /\ DOMAIN receipt = Subjects
  BY <1>t DEF TypeOK
<1>k. ASSUME NEW o, Covered(d, o)
      PROVE  o.auth \in 1 .. Len(history') /\ history'[o.auth] = history[o.auth]
  BY <1>k, <1>t, CoveredKept
<1>r. \A o, n : Ledger!ReceiptFor(o, n).auth = o.auth
  BY DEF Ledger!ReceiptFor
<1>1. ASSUME UNCHANGED <<state[d], inputs[d], receipt[d]>>
      PROVE  /\ state'[d] # "not-observed" => Covered(d, inputs[d])'
             /\ state'[d] = "issued" =>
                  /\ receipt'[d] = Ledger!ReceiptFor(inputs'[d], receipt'[d].issued)
                  /\ InForce(history'[receipt'[d].auth], receipt'[d].issued)
  <2> SUFFICES ASSUME state[d] # "not-observed"
               PROVE  /\ Covered(d, inputs[d])'
                      /\ state[d] = "issued" =>
                           /\ receipt[d] = Ledger!ReceiptFor(inputs[d], receipt[d].issued)
                           /\ InForce(history'[receipt[d].auth], receipt[d].issued)
    BY <1>1
  <2>1. Covered(d, inputs[d])
    BY <1>t DEF JobsCovered
  <2>2. inputs[d].auth \in 1 .. Len(history') /\ history'[inputs[d].auth] = history[inputs[d].auth]
    BY <2>1, <1>k
  <2>3. Covered(d, inputs[d])'
    BY <1>1, <2>1, <2>2 DEF Covered
  <2>4. ASSUME state[d] = "issued"
        PROVE  /\ receipt[d] = Ledger!ReceiptFor(inputs[d], receipt[d].issued)
               /\ InForce(history[receipt[d].auth], receipt[d].issued)
    BY <1>t, <2>4 DEF JobsCovered
  <2>5. state[d] = "issued" => receipt[d].auth = inputs[d].auth
    BY <2>4, <1>r
  <2> QED
    BY <2>2, <2>3, <2>4, <2>5
<1>2. ASSUME NEW s \in Subjects, Ledger!Record(s), Covered(s, inputs'[s]), s = d
      PROVE  /\ state'[d] # "not-observed" => Covered(d, inputs[d])'
             /\ state'[d] # "issued"
  <2>1. inputs'[d].auth \in 1 .. Len(history') /\ history'[inputs'[d].auth] = history[inputs'[d].auth]
    BY <1>2, <1>k
  <2>2. Covered(d, inputs[d])'
    BY <1>2, <2>1 DEF Covered
  <2>3. state'[d] # "issued"
    BY <1>2, <1>f DEF Ledger!Record
  <2> QED
    BY <2>2, <2>3
<1>3. ASSUME NEW s \in Subjects, Ledger!GiveUp(s), s = d
      PROVE  Covered(d, inputs[d])' /\ state'[d] # "issued"
  <2>1. Covered(d, inputs[d]) /\ inputs'[d] = inputs[d]
    BY <1>3, <1>t DEF JobsCovered, Ledger!GiveUp
  <2>2. Covered(d, inputs[d])'
    BY <2>1, <1>k DEF Covered
  <2>3. state'[d] # "issued"
    BY <1>3, <1>f DEF Ledger!GiveUp
  <2> QED
    BY <2>2, <2>3
<1>4. ASSUME NEW s \in Subjects, Ledger!Issue(s), receipt'[s].auth = Len(history),
             InForce(HeadEntry, receipt'[s].issued), s = d
      PROVE  /\ Covered(d, inputs[d])'
             /\ receipt'[d] = Ledger!ReceiptFor(inputs'[d], receipt'[d].issued)
             /\ InForce(history'[receipt'[d].auth], receipt'[d].issued)
  <2>1. Covered(d, inputs[d]) /\ inputs'[d] = inputs[d]
    BY <1>4, <1>t DEF JobsCovered, Ledger!Issue
  <2>2. inputs[d].auth \in 1 .. Len(history') /\ history'[inputs[d].auth] = history[inputs[d].auth]
    BY <2>1, <1>k
  <2>3. Covered(d, inputs[d])'
    BY <2>1, <2>2 DEF Covered
  <2>4. receipt'[d] = Ledger!ReceiptFor(inputs[d], receipt'[d].issued)
    <3>1. PICK n \in Times : receipt' = [receipt EXCEPT ![d] = Ledger!ReceiptFor(inputs[d], n)]
      BY <1>4 DEF Ledger!Issue
    <3>2. receipt'[d] = Ledger!ReceiptFor(inputs[d], n)
      BY <3>1, <1>f
    <3> QED
      BY <3>2 DEF Ledger!ReceiptFor
  <2>5. receipt'[d].auth = inputs[d].auth
    BY <2>4, <1>r
  <2> QED
    BY <1>4, <2>1, <2>2, <2>3, <2>4, <2>5 DEF HeadEntry
<1>5. ASSUME NEW s \in Subjects, Ledger!Record(s) \/ Ledger!GiveUp(s) \/ Ledger!Issue(s), s # d
      PROVE  UNCHANGED <<state[d], inputs[d], receipt[d]>>
  BY <1>5, <1>f DEF Ledger!Record, Ledger!GiveUp, Ledger!Issue
<1>6. state'[d] # "not-observed" => Witnessable(d)
  <2>1. state[d] # "not-observed" => Witnessable(d)
    BY <1>t DEF JobsCovered
  <2>2. ASSUME NEW s \in Subjects, Ledger!GiveUp(s) \/ Ledger!Issue(s)
        PROVE  state[d] = "not-observed" => state'[d] = "not-observed"
    BY <2>2, <1>f DEF Ledger!GiveUp, Ledger!Issue
  <2> QED
    BY <1>5, <2>1, <2>2, JobStep
<1> QED
  BY <1>1, <1>2, <1>3, <1>4, <1>5, <1>6, JobStep

-----------------------------------------------------------------------------
(* The worker and its copies of the rows.                                  *)

(***************************************************************************)
(* Moving to the next row keeps what the worker knows of its rows.         *)
(***************************************************************************)
LEMMA NextRowSound ==
  ASSUME worker \in Workers, worker.rows # <<>>,
         \A i \in 1 .. Len(worker.rows) :
           worker.rows[i].state = "issued" => state'[worker.rows[i].digest] = "issued"
  PROVE  /\ NextRow.pc \in {"asleep", "rows"}
         /\ NextRow.pc = "rows" => NextRow.rows # <<>>
         /\ \A i \in 1 .. Len(NextRow.rows) :
              NextRow.rows[i].state = "issued" => state'[NextRow.rows[i].digest] = "issued"
<1>1. worker.rows \in Seq(Rows)
  BY DEF Workers
<1>2. \A i \in 1 .. Len(Tail(worker.rows)) :
        i + 1 \in 1 .. Len(worker.rows) /\ Tail(worker.rows)[i] = worker.rows[i + 1]
  BY <1>1, HeadTail
<1>3. CASE Tail(worker.rows) = <<>> \/ stopping
  <2>1. NextRow = Asleep
    BY <1>3 DEF NextRow
  <2>2. NextRow.pc = "asleep" /\ NextRow.rows = <<>> /\ Len(NextRow.rows) = 0
    BY <2>1, EmptySeqTyped DEF Asleep
  <2> QED
    BY <2>2
<1>4. CASE Tail(worker.rows) # <<>> /\ ~stopping
  <2>1. NextRow = [pc |-> "rows", rows |-> Tail(worker.rows)]
    BY <1>4 DEF NextRow
  <2> QED
    BY <1>2, <1>4, <2>1
<1> QED
  BY <1>3, <1>4

(***************************************************************************)
(* Rows the worker took for issued are issued, since an outcome is final,  *)
(* and the row it is about to flag has been broadcast.                     *)
(***************************************************************************)
LEMMA WorkerKept == IndInv /\ [Next]_vars => WorkerSound'
<1> SUFFICES ASSUME IndInv, [Next]_vars
             PROVE  WorkerSound'
  OBVIOUS
<1>t. TypeOK /\ WorkerSound /\ worker \in Workers /\ worker.rows \in Seq(Rows)
  BY DEF IndInv, TypeOK, Workers
<1>r. \A i \in 1 .. Len(worker.rows) : worker.rows[i] \in Rows
  BY <1>t
<1>i. \A i \in 1 .. Len(worker.rows) :
        worker.rows[i].state = "issued" => state'[worker.rows[i].digest] = "issued"
  BY <1>t, <1>r, IssuedFinal DEF WorkerSound, Rows
<1>a. Asleep.pc = "asleep" /\ Asleep.rows = <<>> /\ Len(Asleep.rows) = 0
  BY EmptySeqTyped DEF Asleep
<1>u. worker # Asleep \/ section # Vacant => up
  BY <1>t DEF WorkerSound
<1>1. ASSUME worker' = worker, sent' = sent, up' = up, up \/ section' = section
      PROVE  WorkerSound'
  BY <1>1, <1>t, <1>i DEF WorkerSound
<1>2. ASSUME worker' = Asleep, ~up' => section' = Vacant
      PROVE  WorkerSound'
  BY <1>2, <1>a DEF WorkerSound
<1>3. ASSUME worker' = NextRow, worker.rows # <<>>, up' = up, up
      PROVE  WorkerSound'
  BY <1>3, <1>t, <1>i, NextRowSound DEF WorkerSound
<1>4. ASSUME NEW s \in Subjects, PlainAccept(s) \/ AcceptBegin(s)
      PROVE  WorkerSound'
  BY <1>1, <1>4 DEF PlainAccept, AcceptBegin, processVars
<1>5. CASE AcceptCommit \/ AcceptFail
  BY <1>1, <1>5, <1>u DEF AcceptCommit, AcceptFail, Vacant, processVars
<1>6. CASE CheckClock
  <2>1. worker' = [pc |-> "fetch", rows |-> <<>>] /\ up' = up /\ up
    BY <1>6 DEF CheckClock, processVars
  <2>2. worker'.pc = "fetch" /\ Len(worker'.rows) = 0
    BY <2>1, EmptySeqTyped
  <2> QED
    BY <2>1, <2>2 DEF WorkerSound
<1>7. CASE FetchRows
  <2>1. up /\ up' = up /\ UNCHANGED <<state, section>>
    BY <1>7, <1>u, <1>a DEF FetchRows, processVars, storeVars, jobVars
  <2>2. CASE Work = {} \/ stopping
    BY <1>2, <1>7, <2>1, <2>2 DEF FetchRows
  <2>3. CASE Work # {} /\ ~stopping
    <3>1. PICK n \in 1 .. BatchSize : \E pick \in [1 .. n -> Work] :
            worker' = [pc |-> "rows",
                       rows |-> [i \in 1 .. n |->
                                   [digest |-> rowids[pick[i]], state |-> state[rowids[pick[i]]]]]]
      BY <1>7, <2>3 DEF FetchRows
    <3>2. PICK pick \in [1 .. n -> Work] :
            worker' = [pc |-> "rows",
                       rows |-> [i \in 1 .. n |->
                                   [digest |-> rowids[pick[i]], state |-> state[rowids[pick[i]]]]]]
      BY <3>1
    <3>3. n \in Nat /\ n >= 1
      BY WitnessAssumption
    <3> DEFINE q == worker'.rows
    <3>4. q = [i \in 1 .. n |-> [digest |-> rowids[pick[i]], state |-> state[rowids[pick[i]]]]]
          /\ worker'.pc = "rows"
      BY <3>2
    <3>5. \A i \in 1 .. n : q[i] \in {q[j] : j \in 1 .. n}
      OBVIOUS
    <3>6. q = [i \in 1 .. n |-> q[i]]
      BY <3>4
    <3>7. Len(q) = n /\ q # <<>>
      BY <3>3, <3>5, <3>6, FunctionSeq, EmptySeqTyped
    <3>8. \A i \in 1 .. Len(q) : q[i].state = "issued" => state[q[i].digest] = "issued"
      BY <3>4, <3>7
    <3> QED
      BY <2>1, <3>4, <3>7, <3>8 DEF WorkerSound
  <2> QED
    BY <2>2, <2>3
<1>8. CASE IssueBegin
  <2>1. worker.rows # <<>> /\ up /\ up' = up /\ sent' = sent
    BY <1>8, <1>t, <1>u, <1>a DEF IssueBegin, WorkerSound, processVars
  <2>2. worker' = worker \/ worker' = NextRow
    BY <1>8 DEF IssueBegin
  <2> QED
    BY <1>1, <1>3, <2>1, <2>2
<1>9. CASE IssueCommit
  <2>1. worker.pc = "rows"
    BY <1>9 DEF IssueCommit, IndInv, IssueSound
  <2>2. worker.rows # <<>> /\ up /\ up' = up
    BY <1>9, <2>1, <1>t, <1>u, <1>a DEF IssueCommit, WorkerSound, processVars
  <2> QED
    BY <1>3, <1>9, <2>2 DEF IssueCommit
<1>10. CASE IssueFail
  BY <1>2, <1>10 DEF IssueFail
<1>11. CASE Broadcast
  <2>1. worker.rows # <<>> /\ up /\ up' = up
    BY <1>11, <1>t, <1>u, <1>a DEF Broadcast, WorkerSound, processVars
  <2>2. /\ worker'.pc = "flag" /\ worker'.rows = worker.rows
        /\ Head(worker.rows).state = "issued" /\ Head(worker.rows).digest \in sent'
    BY <1>11, <1>t DEF Broadcast, Workers
  <2> QED
    BY <2>1, <2>2, <1>i DEF WorkerSound
<1>12. CASE BroadcastTimeout
  <2>1. worker' = Asleep /\ up /\ up' = up
    BY <1>12, <1>u, <1>a DEF BroadcastTimeout, processVars
  <2> QED
    BY <1>2, <2>1
<1>13. CASE FlagBroadcast
  <2>1. worker.rows # <<>> /\ up /\ up' = up /\ worker' = NextRow
    BY <1>13, <1>t, <1>u, <1>a DEF FlagBroadcast, WorkerSound, processVars
  <2> QED
    BY <1>3, <2>1
<1>14. CASE PassFail
  <2>1. worker' = Asleep /\ up /\ up' = up
    BY <1>14, <1>u, <1>a DEF PassFail, processVars
  <2> QED
    BY <1>2, <2>1
<1>15. CASE Crash \/ Exit
  BY <1>2, <1>15 DEF Crash, Exit
<1>16. CASE Restart
  <2>1. worker' = Asleep /\ section' = Vacant
    BY <1>16, <1>t DEF Restart, WorkerSound
  <2> QED
    BY <1>2, <2>1
<1>17. CASE Stop \/ Administer \/ TimePasses \/ WallStepped \/ HealthReported \/ UNCHANGED vars
  BY <1>1, <1>17 DEF Stop, Administer, TimePasses, WallStepped, HealthReported, vars, processVars
<1> QED
  BY <1>4, <1>5, <1>6, <1>7, <1>8, <1>9, <1>10, <1>11, <1>12, <1>13, <1>14, <1>15, <1>16, <1>17
    DEF Next, Unattended, WorkerStep

(***************************************************************************)
(* Only a broadcast row is flagged, and a new receipt is not.              *)
(***************************************************************************)
LEMMA FlagsKept == IndInv /\ [Next]_vars => FlaggedWasSent'
<1> SUFFICES ASSUME IndInv, [Next]_vars
             PROVE  FlaggedWasSent'
  OBVIOUS
<1>t. TypeOK /\ WorkerSound /\ FlaggedWasSent /\ DOMAIN flagged = Subjects
  BY DEF IndInv, TypeOK
<1>1. ASSUME flagged' = flagged, sent \subseteq sent'
      PROVE  FlaggedWasSent'
  BY <1>1, <1>t DEF FlaggedWasSent
<1>2. CASE FlagBroadcast
  <2>1. Head(worker.rows).digest \in sent /\ sent' = sent
    BY <1>2, <1>t DEF FlagBroadcast, WorkerSound
  <2>2. \A d \in Subjects : d # Head(worker.rows).digest => flagged'[d] = flagged[d]
    BY <1>2, <1>t DEF FlagBroadcast
  <2> QED
    BY <1>t, <2>1, <2>2 DEF FlaggedWasSent
<1>3. CASE IssueCommit
  <2>1. sent' = sent
    BY <1>3 DEF IssueCommit
  <2>2. CASE section.draft = Null
    BY <1>1, <1>3, <2>1, <2>2 DEF IssueCommit, AbandonJob
  <2>3. CASE section.draft # Null
    <3>1. flagged' = [flagged EXCEPT ![section.subject] = FALSE]
      BY <1>3, <2>3 DEF IssueCommit, CompleteJob
    <3>2. ASSUME NEW d \in Subjects, flagged'[d]
          PROVE  flagged[d]
      <4>1. CASE d = section.subject
        <5>1. flagged'[d] = FALSE
          BY <3>1, <4>1, <1>t
        <5> QED
          BY <5>1, <3>2, Zenon
      <4>2. CASE d # section.subject
        <5>1. flagged'[d] = flagged[d]
          BY <3>1, <4>2, <1>t
        <5> QED
          BY <5>1, <3>2, Zenon
      <4> QED
        BY <4>1, <4>2
    <3> QED
      BY <1>t, <2>1, <3>2 DEF FlaggedWasSent
  <2> QED
    BY <2>2, <2>3
<1>4. CASE AcceptCommit
  BY <1>1, <1>4 DEF AcceptCommit, InsertJob, jobVars
<1>5. CASE ~FlagBroadcast /\ ~IssueCommit /\ ~AcceptCommit
  <2>1. flagged' = flagged
    BY <1>5 DEF Next, Unattended, WorkerStep, PlainAccept, AcceptBegin, AcceptFail, CheckClock, FetchRows, IssueBegin,
         Broadcast, IssueFail, BroadcastTimeout, PassFail, Crash, Stop, Exit, Restart, Administer, TimePasses,
         WallStepped, HealthReported, vars, storeVars, jobVars
  <2>2. sent \subseteq sent'
    BY <1>5 DEF Next, Unattended, WorkerStep, PlainAccept, AcceptBegin, AcceptFail, CheckClock, FetchRows, IssueBegin,
         Broadcast, IssueFail, BroadcastTimeout, PassFail, Crash, Stop, Exit, Restart, Administer, TimePasses,
         WallStepped, HealthReported, vars
  <2> QED
    BY <1>1, <2>1, <2>2
<1> QED
  BY <1>2, <1>3, <1>4, <1>5

(***************************************************************************)
(* An event that is stored stays stored, and accept stores it with its job.*)
(***************************************************************************)
LEMMA EventsKept == IndInv /\ [Next]_vars => JobHasEvent'
<1> SUFFICES ASSUME IndInv, [Next]_vars
             PROVE  JobHasEvent'
  OBVIOUS
<1>t. TypeOK /\ JobHasEvent /\ DOMAIN stored = EventIds /\ DOMAIN state = Subjects
  BY DEF IndInv, TypeOK
<1>e. \A d \in Subjects : IdOf[d] \in EventIds
  BY DEF EventIds
<1>s. ASSUME NEW s \in Subjects, SaveEvent(s)
      PROVE  /\ stored'[IdOf[s]] # Null
             /\ \A i \in EventIds : stored[i] # Null => stored'[i] # Null
  BY <1>s, <1>t, <1>e, WitnessAssumption DEF SaveEvent
<1>1. ASSUME NEW s \in Subjects, PlainAccept(s)
      PROVE  JobHasEvent'
  BY <1>1, <1>t, <1>e, <1>s DEF PlainAccept, jobVars, JobHasEvent
<1>2. CASE AcceptCommit
  <2>1. section.subject \in Subjects
    BY <1>2, <1>t DEF AcceptCommit, TypeOK, Sections, Vacant
  <2>2. \A d \in Subjects : d # section.subject => state'[d] = state[d]
    BY <1>2, <1>t DEF AcceptCommit, InsertJob, jobVars
  <2>3. SaveEvent(section.subject)
    BY <1>2 DEF AcceptCommit
  <2> QED
    BY <1>t, <1>e, <1>s, <2>1, <2>2, <2>3 DEF JobHasEvent
<1>3. CASE IssueCommit
  <2>1. \A d \in Subjects : state[d] = "not-observed" => state'[d] = "not-observed"
    BY <1>3, <1>t DEF IssueCommit, IndInv, IssueSound, AbandonJob, CompleteJob
  <2> QED
    BY <1>3, <1>t, <2>1 DEF IssueCommit, JobHasEvent
<1>4. CASE UNCHANGED <<stored, state>>
  BY <1>4, <1>t DEF JobHasEvent
<1> QED
  BY <1>1, <1>2, <1>3, <1>4
    DEF Next, Unattended, WorkerStep, AcceptBegin, AcceptFail, CheckClock, FetchRows, IssueBegin,
        Broadcast, FlagBroadcast, IssueFail, BroadcastTimeout, PassFail, Crash, Stop, Exit, Restart, Administer,
        TimePasses, WallStepped, HealthReported, vars, storeVars, jobVars

-----------------------------------------------------------------------------
(* The theorems.                                                           *)

(***************************************************************************)
(* The inductive invariant holds in every reachable state.                 *)
(***************************************************************************)
THEOREM Inductive == Spec => []IndInv
<1>1. IndInv /\ [Next]_vars => IndInv'
  BY TypeStep, AcceptStep, IssueStep, JobsStep, WorkerKept, FlagsKept, EventsKept DEF IndInv
<1> QED
  BY <1>1, InitSound, PTL DEF Spec

(***************************************************************************)
(* Types, and the agreement of a job's columns, for every configuration.   *)
(***************************************************************************)
THEOREM TypeCorrect == Spec => []TypeOK
<1>1. IndInv => TypeOK
  BY DEF IndInv
<1> QED
  BY <1>1, Inductive, PTL

(***************************************************************************)
(* Every receipt accept and issue produce stays inside the grant it names. *)
(***************************************************************************)
THEOREM ReceiptsStayCovered == Spec => []ReceiptsCovered
<1>1. IndInv => ReceiptsCovered
  <2> SUFFICES ASSUME IndInv, NEW d \in Subjects, state[d] = "issued"
               PROVE  Covered(d, receipt[d]) /\ InForce(history[receipt[d].auth], receipt[d].issued)
    BY DEF ReceiptsCovered
  <2>1. /\ Covered(d, inputs[d])
        /\ receipt[d] = Ledger!ReceiptFor(inputs[d], receipt[d].issued)
        /\ InForce(history[receipt[d].auth], receipt[d].issued)
    BY DEF IndInv, JobsCovered
  <2>2. /\ receipt[d].auth = inputs[d].auth /\ receipt[d].observed = inputs[d].observed
        /\ receipt[d].mode = inputs[d].mode /\ receipt[d].uncertainty = inputs[d].uncertainty
    BY <2>1 DEF Ledger!ReceiptFor
  <2> QED
    BY <2>1, <2>2 DEF Covered
<1> QED
  BY <1>1, Inductive, PTL

(***************************************************************************)
(* verify_receipt accepts every receipt issue drafts, so no job is retried *)
(* for ever at the head of the queue.                                      *)
(***************************************************************************)
THEOREM OwnReceiptsAccepted == Spec => []OwnReceiptsVerify
<1>1. IndInv => OwnReceiptsVerify
  <2> SUFFICES ASSUME IndInv, section.op = "issue", section.draft # Null
               PROVE  ReceiptVerifies(section.subject, section.draft)
    BY DEF OwnReceiptsVerify
  <2> DEFINE d == section.subject
             r == section.draft
  <2>1. d \in Subjects
    BY DEF IndInv, TypeOK, Sections
  <2>2. /\ state[d] = "pending"
        /\ r = Ledger!ReceiptFor(inputs[d], r.issued) /\ Ledger!InTime(inputs[d], r.issued)
    BY DEF IndInv, IssueSound
  <2>3. Witnessable(d) /\ Covered(d, inputs[d])
    BY <2>1, <2>2 DEF IndInv, JobsCovered
  <2>4. /\ r.mode = inputs[d].mode /\ r.uncertainty = inputs[d].uncertainty
        /\ r.observed = inputs[d].observed
    BY <2>2 DEF Ledger!ReceiptFor
  <2> QED
    BY <2>2, <2>3, <2>4 DEF ReceiptVerifies, Witnessable, Covered, Ledger!InTime
<1> QED
  BY <1>1, Inductive, PTL

(***************************************************************************)
(* No receipt becomes durable after its authority ended: revocation,       *)
(* renewal and suspension serialize with issue (automatic_witness.py).     *)
(***************************************************************************)
THEOREM IssuanceAuthorized == Spec => IssuedUnderAuthority
<1>1. IndInv /\ [Next]_vars => AuthorizedStep
  <2> SUFFICES ASSUME IndInv, [Next]_vars, NEW d \in Subjects,
                      state[d] # "issued", state'[d] = "issued"
               PROVE  /\ ~suspended /\ ~latched
                      /\ history # <<>> /\ HeadEntry.type = "grant"
                      /\ receipt'[d].auth = Len(history)
    BY DEF AuthorizedStep
  <2>1. DOMAIN state = Subjects /\ history \in Seq(Entries)
    BY DEF IndInv, TypeOK
  <2>2. ASSUME NEW s \in Subjects, Ledger!Record(s) \/ Ledger!GiveUp(s)
        PROVE  FALSE
    BY <2>1, <2>2 DEF Ledger!Record, Ledger!GiveUp
  <2>3. PICK s \in Subjects :
          /\ Ledger!Issue(s)
          /\ ~suspended /\ ~latched
          /\ receipt'[s].auth = Len(history) /\ HeadEntry.type = "grant"
    BY <2>2, JobStep
  <2>4. s = d
    BY <2>1, <2>3 DEF Ledger!Issue
  <2>5. history # <<>>
    <3>1. Covered(d, inputs[d])
      BY <2>3, <2>4 DEF IndInv, JobsCovered, Ledger!Issue
    <3> QED
      BY <3>1, EmptySeqTyped DEF Covered
  <2> QED
    BY <2>3, <2>4, <2>5
<1> QED
  BY <1>1, Inductive, PTL DEF Spec, IssuedUnderAuthority

(***************************************************************************)
(* At-least-once broadcast: no job leaves the outbox unsent.               *)
(***************************************************************************)
THEOREM AtLeastOnce == Spec => []FlaggedWasSent
<1>1. IndInv => FlaggedWasSent
  BY DEF IndInv
<1> QED
  BY <1>1, Inductive, PTL

(***************************************************************************)
(* No job without its event.                                               *)
(***************************************************************************)
THEOREM JobsHaveEvents == Spec => []JobHasEvent
<1>1. IndInv => JobHasEvent
  BY DEF IndInv
<1> QED
  BY <1>1, Inductive, PTL

(***************************************************************************)
(* The queue limit holds whatever the number of subjects.                  *)
(***************************************************************************)
THEOREM QueueStaysBounded == Spec => []QueueBounded
<1>f. IsFiniteSet(Pending) /\ Cardinality(Pending) \in Nat
  BY WitnessAssumption, FS_Subset, FS_CardinalityType DEF Pending
<1>1. Init => QueueBounded
  <2> SUFFICES ASSUME Init PROVE QueueBounded
    OBVIOUS
  <2>1. Pending = {}
    BY DEF Init, Pending
  <2> QED
    BY <2>1, FS_EmptySet, WitnessAssumption DEF QueueBounded
<1>2. IndInv /\ QueueBounded /\ [Next]_vars => QueueBounded'
  <2> SUFFICES ASSUME IndInv, QueueBounded, [Next]_vars
               PROVE  Cardinality(Pending') <= QueueLimit
    BY DEF QueueBounded
  <2>t. DOMAIN state = Subjects /\ TypeOK
    BY DEF IndInv, TypeOK
  <2>0. ASSUME Pending' \subseteq Pending
        PROVE  Cardinality(Pending') <= QueueLimit
    <3>1. Cardinality(Pending') \in Nat /\ Cardinality(Pending') <= Cardinality(Pending)
      BY <1>f, <2>0, FS_Subset, FS_CardinalityType
    <3> QED
      BY <1>f, <3>1, WitnessAssumption DEF QueueBounded
  <2>1. CASE AcceptCommit /\ section.draft # Null /\ state[section.subject] = "not-observed"
    <3> DEFINE d == section.subject
    <3>1. state' = [state EXCEPT ![d] =
                      IF Cardinality(Pending) < QueueLimit THEN "pending" ELSE "unavailable"]
      BY <2>1 DEF AcceptCommit, InsertJob
    <3>2. CASE Cardinality(Pending) < QueueLimit
      <4>1. Pending' \subseteq Pending \cup {d}
        BY <2>t, <3>1 DEF Pending
      <4>2. IsFiniteSet(Pending \cup {d})
            /\ Cardinality(Pending \cup {d}) \in Nat
            /\ Cardinality(Pending \cup {d}) <= Cardinality(Pending) + 1
        <5>1. /\ IsFiniteSet(Pending \cup {d})
              /\ Cardinality(Pending \cup {d}) =
                   IF d \in Pending THEN Cardinality(Pending) ELSE Cardinality(Pending) + 1
          BY <1>f, FS_AddElement
        <5> HIDE DEF d
        <5> QED
          BY <1>f, <5>1
      <4>3. Cardinality(Pending') \in Nat /\ Cardinality(Pending') <= Cardinality(Pending \cup {d})
        BY <4>1, <4>2, FS_Subset, FS_CardinalityType
      <4> QED
        BY <1>f, <3>2, <4>2, <4>3, WitnessAssumption
    <3>3. CASE ~(Cardinality(Pending) < QueueLimit)
      <4>1. Pending' \subseteq Pending
        BY <2>t, <3>1, <3>3 DEF Pending
      <4> QED
        BY <2>0, <4>1
    <3> QED
      BY <3>2, <3>3
  <2>2. CASE AcceptCommit /\ (section.draft = Null \/ state[section.subject] # "not-observed")
    <3>1. state' = state
      BY <2>2 DEF AcceptCommit, InsertJob, jobVars
    <3> QED
      BY <2>0, <3>1 DEF Pending
  <2>3. CASE IssueCommit
    <3>1. \A d \in Subjects : state'[d] = "pending" => state[d] = "pending"
      BY <2>3, <2>t DEF IssueCommit, AbandonJob, CompleteJob
    <3> QED
      BY <2>0, <3>1 DEF Pending
  <2>4. CASE state' = state
    BY <2>0, <2>4 DEF Pending
  <2> QED
    BY <2>1, <2>2, <2>3, <2>4
      DEF Next, Unattended, WorkerStep, PlainAccept, AcceptBegin, AcceptFail, CheckClock, FetchRows, IssueBegin,
          Broadcast, FlagBroadcast, IssueFail, BroadcastTimeout, PassFail, Crash, Stop, Exit, Restart, Administer,
          TimePasses, WallStepped, HealthReported, vars, storeVars, jobVars
<1> QED
  BY <1>1, <1>2, Inductive, PTL DEF Spec

(***************************************************************************)
(* AutomaticWitness implements ReceiptLedger: one observation and one      *)
(* receipt per signed subject, final outcomes, nothing sent before it is   *)
(* durable.                                                                *)
(***************************************************************************)
THEOREM LedgerImplemented == Spec => ImplementsLedger
<1>1. Init => Ledger!LedgerInit
  BY DEF Init, Ledger!LedgerInit
<1>2. IndInv /\ [Next]_vars => [Ledger!LedgerNext]_(Ledger!ledgerVars)
  <2> SUFFICES ASSUME IndInv, [Next]_vars
               PROVE  Ledger!LedgerNext \/ UNCHANGED <<state, inputs, receipt, sent>>
    BY DEF Ledger!ledgerVars
  <2>1. CASE \E d \in Subjects : Ledger!Record(d) \/ Ledger!GiveUp(d) \/ Ledger!Issue(d)
    BY <2>1 DEF Ledger!LedgerNext
  <2>2. CASE UNCHANGED <<state, inputs, receipt>>
    <3>1. CASE Broadcast \/ BroadcastTimeout
      <4> DEFINE d == Head(worker.rows).digest
      <4>1. worker.pc = "rows" /\ Head(worker.rows).state = "issued"
            /\ sent' \in {sent, sent \cup {d}}
        BY <3>1 DEF Broadcast, BroadcastTimeout
      <4>2. worker \in Workers /\ worker.rows # <<>>
        BY <4>1 DEF IndInv, TypeOK, WorkerSound
      <4>3. d \in Subjects
        BY <4>2, NextRowTyped
      <4>4. worker.rows \in Seq(Rows)
        BY <4>2 DEF Workers
      <4>5. Head(worker.rows) = worker.rows[1] /\ 1 \in 1 .. Len(worker.rows)
        BY <4>2, <4>4, HeadTail
      <4>6. state[d] = "issued"
        BY <4>1, <4>5 DEF IndInv, WorkerSound
      <4>7. sent' = sent \cup {d} => Ledger!Announce(d)
        BY <2>2, <4>6 DEF Ledger!Announce
      <4> QED
        BY <2>2, <4>1, <4>3, <4>7 DEF Ledger!LedgerNext
    <3>2. CASE ~Broadcast /\ ~BroadcastTimeout
      <4>1. sent' = sent
        BY <3>2 DEF Next, Unattended, WorkerStep, PlainAccept, AcceptBegin, AcceptCommit, AcceptFail, CheckClock,
             FetchRows, IssueBegin, IssueCommit, FlagBroadcast, IssueFail, PassFail, Crash, Stop, Exit, Restart,
             Administer, TimePasses, WallStepped, HealthReported, vars
      <4> QED
        BY <2>2, <4>1
    <3> QED
      BY <3>1, <3>2
  <2> QED
    BY <2>1, <2>2, JobStep
<1> QED
  BY <1>1, <1>2, Inductive, PTL DEF Spec, ImplementsLedger, Ledger!LedgerSpec

=============================================================================
