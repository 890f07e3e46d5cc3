------------------------------ MODULE StartupProofs ------------------------------
(***************************************************************************)
(* Proofs about Startup, for any number of processes, identities, commands *)
(* and crashes, when processes look for the sentinel one at a time.        *)
(***************************************************************************)
EXTENDS Startup, TLAPS

Places ==
  {"off", "look", "read", "temporary", "write", "replace", "bound", "row", "serving", "table", "request"}

TypeInv ==
  /\ configured \in Identities \cup {Null}
  /\ pc \in [Processes -> Places]
  /\ npub \in [Processes -> Identities \cup {Null}]
  /\ handle \in [Processes -> Nat]
  /\ files \in Seq(Identities \cup {Null})
  /\ temporary \in 0 .. Len(files) /\ sentinel \in 0 .. Len(files)
  /\ \A c \in Commands : pc[c] # "off" => npub[c] # Null

\* One process writes, while there is no sentinel, and what it wrote is in the
\* temporary file when it renames it.
WriterInv ==
  /\ \A p, q \in Processes : Binding(p) /\ Binding(q) => p = q
  /\ \A p \in Processes :
       /\ Binding(p) => sentinel = 0 /\ npub[p] # Null
       /\ pc[p] = "write" => temporary # 0 /\ handle[p] = temporary
       /\ pc[p] = "replace" => temporary # 0 /\ files[temporary] = npub[p]

\* A sentinel is whole, and nothing that could still be written is it.
SentinelInv ==
  /\ sentinel # 0 => files[sentinel] # Null /\ temporary = 0
  /\ \A p \in Processes : Accepted(p) /\ npub[p] # Null => sentinel # 0 /\ files[sentinel] = npub[p]

Inv == TypeInv /\ WriterInv /\ SentinelInv /\ RowIsRecorded

-----------------------------------------------------------------------------
\* A step that only takes p to a place outside the binding, where it is bound
\* to what is recorded if it is accepted.
LEMMA QuietStep ==
  ASSUME Inv, NEW p \in Processes, NEW place \in Places,
         Goto(p, place), UNCHANGED <<configured, handle, nameVars>>,
         place \notin {"temporary", "write", "replace"},
         npub' \in [Processes -> Identities \cup {Null}],
         \A q \in Processes : q # p => npub'[q] = npub[q],
         p \in Commands /\ place # "off" => npub'[p] # Null,
         (place \in {"bound", "row", "serving", "table", "request"} /\ npub'[p] # Null) =>
           sentinel # 0 /\ files[sentinel] = npub'[p]
  PROVE  TypeInv' /\ WriterInv' /\ SentinelInv'
<1>1. /\ pc' \in [Processes -> Places] /\ pc'[p] = place
      /\ \A q \in Processes : q # p => pc'[q] = pc[q]
      /\ UNCHANGED <<configured, handle, files, temporary, sentinel>>
  BY DEF Goto, Inv, TypeInv, nameVars
<1>2. Commands \subseteq Processes
  BY DEF Processes
<1>3. TypeInv'
  BY <1>1, <1>2 DEF Inv, TypeInv
<1>4. WriterInv'
  BY <1>1 DEF Inv, WriterInv, Binding
<1>5. SentinelInv'
  BY <1>1 DEF Inv, SentinelInv, Accepted
<1> QED
  BY <1>3, <1>4, <1>5

\* Looking for the sentinel: only an absent one, with nobody writing it.
LEMMA LookStep ==
  ASSUME Inv, OneAtATime, NEW p \in Processes, Look(p)
  PROVE  TypeInv' /\ WriterInv' /\ SentinelInv'
<1>1. CASE sentinel = 0 /\ npub[p] # Null
  <2>1. /\ pc' \in [Processes -> Places] /\ pc'[p] = "temporary"
        /\ \A q \in Processes : q # p => pc'[q] = pc[q] /\ ~Binding(q)
        /\ UNCHANGED <<configured, npub, handle, files, temporary, sentinel>>
    BY <1>1 DEF Look, Goto, Inv, TypeInv, Places, nameVars
  <2>2. pc[p] = "look"
    BY DEF Look
  <2>3. TypeInv'
    BY <2>1, <2>2, <1>1 DEF Inv, TypeInv, Processes
  <2>4. WriterInv'
    BY <2>1, <1>1 DEF Inv, WriterInv, Binding
  <2>5. SentinelInv'
    BY <2>1 DEF Inv, SentinelInv, Accepted
  <2> QED
    BY <2>3, <2>4, <2>5
<1>2. CASE sentinel # 0 \/ npub[p] = Null
  <2>1. PICK place \in {"read", "bound"} :
          /\ Goto(p, place) /\ (place = "bound" => npub[p] = Null)
    BY <1>2 DEF Look
  <2>2. /\ pc[p] = "look" /\ UNCHANGED <<configured, npub, handle, nameVars>>
        /\ npub \in [Processes -> Identities \cup {Null}]
    BY DEF Look, Inv, TypeInv
  <2>3. p \in Commands => npub[p] # Null
    BY <2>2 DEF Inv, TypeInv
  <2> QED
    BY <2>1, <2>2, <2>3, QuietStep DEF Places
<1> QED
  BY <1>1, <1>2

LEMMA OpenStep ==
  ASSUME Inv, NEW p \in Processes, OpenTemporary(p)
  PROVE  TypeInv' /\ WriterInv' /\ SentinelInv'
<1> DEFINE file == IF temporary # 0 THEN temporary ELSE Len(files) + 1
<1>1. /\ pc' \in [Processes -> Places] /\ pc[p] = "temporary" /\ pc'[p] = "write"
      /\ \A q \in Processes : q # p => pc'[q] = pc[q]
      /\ temporary' = file /\ UNCHANGED <<configured, npub, sentinel>>
      /\ handle' = [handle EXCEPT ![p] = file]
  BY DEF OpenTemporary, Goto, Inv, TypeInv, Places
<1>2. /\ file \in 1 .. Len(files') /\ Len(files) <= Len(files')
      /\ files' \in Seq(Identities \cup {Null})
  BY DEF OpenTemporary, Inv, TypeInv
<1>3. sentinel = 0 /\ \A q \in Processes : q # p => ~Binding(q)
  BY <1>1 DEF Inv, WriterInv, Binding
<1>4. TypeInv'
  BY <1>1, <1>2, <1>3 DEF Inv, TypeInv, Processes
<1>5. WriterInv'
  <2>1. /\ handle'[p] = temporary' /\ temporary' # 0 /\ sentinel' = 0
        /\ npub'[p] # Null /\ pc'[p] = "write"
    BY <1>1, <1>2, <1>3 DEF Inv, WriterInv, TypeInv, Binding
  <2>2. \A q \in Processes : q # p => ~Binding(q)'
    BY <1>1, <1>3 DEF Binding
  <2> QED
    BY <2>1, <2>2 DEF WriterInv, Binding
<1>6. SentinelInv'
  BY <1>1, <1>3 DEF Inv, SentinelInv, Accepted
<1> QED
  BY <1>4, <1>5, <1>6

LEMMA WriteStep ==
  ASSUME Inv, NEW p \in Processes, WriteTemporary(p)
  PROVE  TypeInv' /\ WriterInv' /\ SentinelInv'
<1>1. /\ pc' \in [Processes -> Places] /\ pc[p] = "write" /\ pc'[p] = "replace"
      /\ \A q \in Processes : q # p => pc'[q] = pc[q]
      /\ files' = [files EXCEPT ![handle[p]] = npub[p]]
      /\ UNCHANGED <<configured, npub, handle, temporary, sentinel>>
  BY DEF WriteTemporary, Goto, Inv, TypeInv, Places
<1>2. /\ sentinel = 0 /\ handle[p] = temporary /\ temporary \in 1 .. Len(files)
      /\ npub[p] \in Identities \cup {Null} /\ npub[p] # Null
      /\ \A q \in Processes : q # p => ~Binding(q)
  BY <1>1 DEF Inv, WriterInv, TypeInv, Binding
<1>3. /\ files' \in Seq(Identities \cup {Null}) /\ Len(files') = Len(files)
      /\ files'[temporary] = npub[p]
  BY <1>1, <1>2 DEF Inv, TypeInv
<1>4. TypeInv'
  BY <1>1, <1>3 DEF Inv, TypeInv, Processes
<1>5. WriterInv'
  BY <1>1, <1>2, <1>3 DEF Inv, WriterInv, Binding
<1>6. SentinelInv'
  BY <1>1, <1>2 DEF Inv, SentinelInv, Accepted
<1> QED
  BY <1>4, <1>5, <1>6

LEMMA ReplaceStep ==
  ASSUME Inv, NEW p \in Processes, ReplaceSentinel(p)
  PROVE  TypeInv' /\ WriterInv' /\ SentinelInv'
<1>1. /\ pc[p] = "replace" /\ sentinel = 0 /\ temporary # 0
      /\ files[temporary] = npub[p] /\ npub[p] # Null
      /\ \A q \in Processes : q # p => ~Binding(q)
  BY DEF ReplaceSentinel, Inv, WriterInv, Binding
<1>2. /\ pc' \in [Processes -> Places] /\ pc'[p] = "bound"
      /\ \A q \in Processes : q # p => pc'[q] = pc[q]
      /\ sentinel' = temporary /\ temporary' = 0 /\ UNCHANGED <<configured, npub, handle, files>>
  BY <1>1 DEF ReplaceSentinel, Goto, Inv, TypeInv, Places
<1>3. TypeInv'
  BY <1>1, <1>2 DEF Inv, TypeInv, Processes
<1>4. WriterInv'
  BY <1>1, <1>2 DEF Inv, WriterInv, Binding
<1>5. SentinelInv'
  BY <1>1, <1>2 DEF Inv, SentinelInv, Accepted
<1> QED
  BY <1>3, <1>4, <1>5

-----------------------------------------------------------------------------
\* The sentinel, once there, is left alone by the step that writes and the
\* step that renames, because nobody is binding then.
LEMMA SentinelStays ==
  ASSUME Inv, [Next]_vars, sentinel # 0
  PROVE  sentinel' = sentinel /\ files' = files
<1>1. \A p \in Processes : ~Binding(p)
  BY DEF Inv, WriterInv
<1>2. ASSUME NEW p \in Processes, OpenTemporary(p) \/ WriteTemporary(p) \/ ReplaceSentinel(p)
      PROVE  FALSE
  BY <1>1, <1>2 DEF Binding, OpenTemporary, WriteTemporary, ReplaceSentinel
<1> QED
  BY <1>2 DEF Next, vars, nameVars, RelayRuns, CommandRuns, Bind, StartRelay, ShowLooks, ShowReads,
     StopRelay, OpenDatabase, CreateTable, WriteRequest, StartCommand, Look, Read, Crash

\* Only a command's transaction writes the row, with its own identity.
LEMMA RowStep ==
  ASSUME Inv, [Next]_vars
  PROVE  RowIsRecorded'
<1>1. CASE row' = row
  BY <1>1, SentinelStays DEF Inv, RowIsRecorded, Recorded
<1>2. ASSUME NEW c \in Commands, WriteRequest(c)
      PROVE  RowIsRecorded'
  <2>1. /\ row' = npub[c] /\ UNCHANGED <<files, sentinel>> /\ pc[c] = "request" /\ c \in Processes
    BY <1>2 DEF WriteRequest, nameVars, Processes
  <2>2. sentinel # 0 /\ files[sentinel] = npub[c]
    BY <2>1 DEF Inv, TypeInv, SentinelInv, Accepted
  <2> QED
    BY <2>1, <2>2 DEF RowIsRecorded, Recorded
<1> QED
  BY <1>1, <1>2 DEF Next, vars, databaseVars, RelayRuns, CommandRuns, Bind, StartRelay, ShowLooks,
     ShowReads, StopRelay, OpenDatabase, CreateTable, StartCommand, Look, Read, OpenTemporary,
     WriteTemporary, ReplaceSentinel, Crash

(***************************************************************************)
(* Inv is an invariant, whoever starts, crashes and starts again.          *)
(***************************************************************************)
THEOREM StartupInductive ==
  ASSUME OneAtATime
  PROVE  Spec => []Inv
<1>1. Init => Inv
  BY DEF Init, Inv, TypeInv, WriterInv, SentinelInv, RowIsRecorded, Binding, Accepted, Places, Processes
<1>2. Inv /\ [Next]_vars => Inv'
  <2> SUFFICES ASSUME Inv, [Next]_vars PROVE TypeInv' /\ WriterInv' /\ SentinelInv'
    BY RowStep DEF Inv
  <2>1. /\ Relay \in Processes /\ Relay \notin Commands /\ Commands \subseteq Processes
        /\ npub \in [Processes -> Identities \cup {Null}] /\ Null \notin Identities
        /\ configured \in Identities \cup {Null}
    BY StartupAssumption DEF StartupAssumption, Processes, Inv, TypeInv
  <2>2. CASE StartRelay
    <3>1. /\ Goto(Relay, "look") /\ UNCHANGED <<configured, handle, nameVars>>
          /\ npub' = [npub EXCEPT ![Relay] = configured]
      BY <2>2 DEF StartRelay
    <3> QED
      BY <2>1, <3>1, QuietStep DEF Places
  <2>3. ASSUME NEW c \in Commands, NEW identity \in Identities, StartCommand(c, identity)
        PROVE  TypeInv' /\ WriterInv' /\ SentinelInv'
    <3>1. /\ Goto(c, "look") /\ UNCHANGED <<configured, handle, nameVars>>
          /\ npub' = [npub EXCEPT ![c] = identity]
      BY <2>3 DEF StartCommand
    <3>2. identity # Null /\ c \in Processes
      BY <2>1
    <3> QED
      BY <2>1, <3>1, <3>2, QuietStep DEF Places
  <2>4. ASSUME NEW p \in Processes, NEW place \in Places,
               Goto(p, place), UNCHANGED <<configured, npub, handle, nameVars>>,
               \/ place = "off"
               \/ /\ pc[p] \notin {"off", "look", "read"} /\ Accepted(p)
                  /\ place \in {"row", "serving", "table", "request"}
               \/ place = "bound" /\ pc[p] = "read" /\ Recorded # Null /\ Recorded = npub[p]
        PROVE  TypeInv' /\ WriterInv' /\ SentinelInv'
    <3>1. p \in Commands /\ place # "off" => npub[p] # Null
      BY <2>4 DEF Inv, TypeInv
    <3>2. (place # "off" /\ npub[p] # Null) => sentinel # 0 /\ files[sentinel] = npub[p]
      BY <2>4 DEF Inv, SentinelInv, Recorded
    <3>3. place \notin {"temporary", "write", "replace"}
      BY <2>4
    <3> QED
      BY <2>1, <2>4, <3>1, <3>2, <3>3, QuietStep
  <2>5. ASSUME NEW p \in Processes, Bind(p) PROVE TypeInv' /\ WriterInv' /\ SentinelInv'
    <3>1. CASE Read(p)
      <4>1. PICK place \in {"off", "bound"} :
              Goto(p, place) /\ (place = "bound" => Recorded # Null /\ Recorded = npub[p])
        BY <3>1 DEF Read
      <4>2. pc[p] = "read" /\ UNCHANGED <<configured, npub, handle, nameVars>> /\ place \in Places
        BY <3>1 DEF Read, Places
      <4> QED
        BY <4>1, <4>2, <2>4
    <3> QED
      BY <2>5, <3>1, LookStep, OpenStep, WriteStep, ReplaceStep DEF Bind
  <2>6. CASE ShowLooks \/ ShowReads \/ StopRelay
    <3>1. PICK place \in {"off", "row", "serving"} : Goto(Relay, place)
      BY <2>6 DEF ShowLooks, ShowReads, StopRelay
    <3>2. /\ pc[Relay] \in {"bound", "row", "serving"} /\ Accepted(Relay) /\ place \in Places
          /\ UNCHANGED <<configured, npub, handle, nameVars>>
      BY <2>6 DEF ShowLooks, ShowReads, StopRelay, Accepted, Places
    <3> QED
      BY <2>1, <2>4, <3>1, <3>2
  <2>7. ASSUME NEW c \in Commands, CommandRuns(c) PROVE TypeInv' /\ WriterInv' /\ SentinelInv'
    <3>1. PICK place \in {"off", "table", "request"} : Goto(c, place)
      BY <2>7 DEF CommandRuns, OpenDatabase, CreateTable, WriteRequest
    <3>2. /\ pc[c] \in {"bound", "table", "request"} /\ Accepted(c) /\ place \in Places
          /\ UNCHANGED <<configured, npub, handle, nameVars>>
      BY <2>7 DEF CommandRuns, OpenDatabase, CreateTable, WriteRequest, Accepted, Places
    <3> QED
      BY <2>1, <2>4, <3>1, <3>2
  <2>8. ASSUME NEW p \in Processes, Crash(p) PROVE TypeInv' /\ WriterInv' /\ SentinelInv'
    <3>1. Goto(p, "off") /\ UNCHANGED <<configured, npub, handle, nameVars>> /\ "off" \in Places
      BY <2>8 DEF Crash, Places
    <3> QED
      BY <2>4, <3>1
  <2>9. CASE UNCHANGED vars
    <3>1. UNCHANGED <<configured, pc, npub, handle, files, temporary, sentinel>>
      BY <2>9 DEF vars, nameVars
    <3> QED
      BY <3>1 DEF Inv, TypeInv, WriterInv, SentinelInv, Binding, Accepted
  <2> QED
    BY <2>2, <2>3, <2>5, <2>6, <2>7, <2>8, <2>9 DEF Next, RelayRuns
<1> QED
  BY <1>1, <1>2, PTL DEF Spec

(***************************************************************************)
(* Whoever passed bind_service_identity with a key has the identity of the *)
(* sentinel.                                                               *)
(***************************************************************************)
THEOREM AcceptedIsBound ==
  ASSUME OneAtATime
  PROVE  Spec => []BoundIsRecorded
<1>1. Inv => BoundIsRecorded
  BY DEF Inv, SentinelInv, BoundIsRecorded, Recorded
<1> QED
  BY <1>1, StartupInductive, PTL

(***************************************************************************)
(* The sentinel is final (os.replace in identity.py happens once).         *)
(***************************************************************************)
THEOREM SentinelIsFinal ==
  ASSUME OneAtATime
  PROVE  Spec => RecordedForGood
<1>1. Inv /\ [Next]_vars => [sentinel # 0 => sentinel' # 0 /\ Recorded' = Recorded]_vars
  BY SentinelStays DEF Recorded
<1> QED
  BY <1>1, StartupInductive, PTL DEF Spec, RecordedForGood

(***************************************************************************)
(* The request in the administrative database is the recorded identity's   *)
(* (_identity before the transaction in service.py).                       *)
(***************************************************************************)
THEOREM RowIsOwn ==
  ASSUME OneAtATime
  PROVE  Spec => []RowIsRecorded
<1>1. Inv => RowIsRecorded
  BY DEF Inv
<1> QED
  BY <1>1, StartupInductive, PTL

=============================================================================
