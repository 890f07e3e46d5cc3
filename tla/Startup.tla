--------------------------------- MODULE Startup ---------------------------------
(***************************************************************************)
(* The start of processes on one data directory: the relay, which its      *)
(* container starts again whenever it ends, and administrative commands    *)
(* run beside it.  Each first binds the directory to its service identity  *)
(* (identity.py): a sentinel file that is written to a temporary file and  *)
(* renamed.  Then the relay shows the commissioning state (the lifespan in *)
(* main.py and show in service.py), and the command request opens the      *)
(* administrative database, makes its table and replaces its row.          *)
(*                                                                         *)
(* Files are told apart from their names, because a process goes on        *)
(* writing to the file it opened whatever became of its name.  Processes   *)
(* die, but the machine does not: what was written stays.                  *)
(***************************************************************************)
EXTENDS Integers, Sequences

CONSTANTS
  Relay, Commands,  \* processes
  Identities,       \* npubs of service keys
  OneAtATime,       \* no process looks for the sentinel while another writes it
  MaxCommands,      \* bound of the model: commands started
  MaxCrashes,       \* bound of the model
  Null

ASSUME StartupAssumption ==
  /\ Relay \notin Commands /\ Null \notin Identities
  /\ OneAtATime \in BOOLEAN
  /\ MaxCommands \in Nat /\ MaxCrashes \in Nat

Processes == {Relay} \cup Commands

VARIABLES
  configured,  \* identity the relay is configured with, or Null
  pc, npub,    \* where each process is, and its identity
  handle,      \* file each process has open for writing
  files,       \* content of every file made, Null while nothing is written
  temporary,   \* file named service-identity.tmp, or 0
  sentinel,    \* file named service-identity.json, or 0
  database,    \* administrative database: "none", "empty" or "table"
  row,         \* identity that signed the commissioning request, or Null
  commands, crashes

nameVars == <<files, temporary, sentinel>>
databaseVars == <<database, row>>
vars == <<configured, pc, npub, handle, nameVars, databaseVars, commands, crashes>>

Recorded == IF sentinel = 0 THEN Null ELSE files[sentinel]

\* The process is between finding no sentinel and renaming its own.
Binding(p) == pc[p] \in {"temporary", "write", "replace"}

\* bind_service_identity returned.
Accepted(p) == pc[p] \in {"bound", "row", "serving", "table", "request"}

Goto(p, place) == pc' = [pc EXCEPT ![p] = place]

-----------------------------------------------------------------------------
StartRelay ==
  /\ pc[Relay] = "off"
  /\ Goto(Relay, "look")
  /\ npub' = [npub EXCEPT ![Relay] = configured]
  /\ UNCHANGED <<configured, handle, nameVars, databaseVars, commands, crashes>>

M_StartCommand(c, identity) ==
  /\ pc[c] = "off" /\ commands < MaxCommands
  /\ Goto(c, "bound")
  /\ npub' = [npub EXCEPT ![c] = identity]
  /\ commands' = commands + 1
  /\ UNCHANGED <<configured, handle, nameVars, databaseVars, crashes>>

\* request, which begins with _identity and needs a key.
StartCommand(c, identity) ==
  /\ pc[c] = "off" /\ commands < MaxCommands
  /\ Goto(c, "look")
  /\ npub' = [npub EXCEPT ![c] = identity]
  /\ commands' = commands + 1
  /\ UNCHANGED <<configured, handle, nameVars, databaseVars, crashes>>

-----------------------------------------------------------------------------
(* bind_service_identity.                                                  *)

M_Look(p) ==
  /\ pc[p] = "look"
  /\ OneAtATime => \A q \in Processes : ~Binding(q)
  /\ Goto(p, IF npub[p] # Null THEN "temporary" ELSE IF sentinel # 0 THEN "read" ELSE "bound")
  /\ UNCHANGED <<configured, npub, handle, nameVars, databaseVars, commands, crashes>>

\* Without a key nothing is bound.
Look(p) ==
  /\ pc[p] = "look"
  /\ OneAtATime => \A q \in Processes : ~Binding(q)
  /\ Goto(p, IF sentinel # 0 THEN "read" ELSE IF npub[p] # Null THEN "temporary" ELSE "bound")
  /\ UNCHANGED <<configured, npub, handle, nameVars, databaseVars, commands, crashes>>

M_Read(p) ==
  /\ pc[p] = "read"
  /\ Goto(p, IF Recorded # Null /\ npub[p] # Null THEN "bound" ELSE "off")
  /\ UNCHANGED <<configured, npub, handle, nameVars, databaseVars, commands, crashes>>

\* The sentinel is opened by name once more.  Any other identity, no key, or a
\* sentinel with nothing in it ends the process.
Read(p) ==
  /\ pc[p] = "read"
  /\ Goto(p, IF Recorded # Null /\ Recorded = npub[p] THEN "bound" ELSE "off")
  /\ UNCHANGED <<configured, npub, handle, nameVars, databaseVars, commands, crashes>>

\* write_text truncates the temporary file another process left, or made.
OpenTemporary(p) ==
  LET file == IF temporary # 0 THEN temporary ELSE Len(files) + 1 IN
  /\ pc[p] = "temporary"
  /\ files' = IF temporary # 0 THEN [files EXCEPT ![file] = Null] ELSE Append(files, Null)
  /\ temporary' = file
  /\ handle' = [handle EXCEPT ![p] = file]
  /\ Goto(p, "write")
  /\ UNCHANGED <<configured, npub, sentinel, databaseVars, commands, crashes>>

WriteTemporary(p) ==
  /\ pc[p] = "write"
  /\ files' = [files EXCEPT ![handle[p]] = npub[p]]
  /\ Goto(p, "replace")
  /\ UNCHANGED <<configured, npub, handle, temporary, sentinel, databaseVars, commands, crashes>>

\* Renaming raises when another process renamed the temporary file before.
ReplaceSentinel(p) ==
  /\ pc[p] = "replace"
  /\ IF temporary # 0
     THEN sentinel' = temporary /\ temporary' = 0 /\ Goto(p, "bound")
     ELSE UNCHANGED <<sentinel, temporary>> /\ Goto(p, "off")
  /\ UNCHANGED <<configured, npub, handle, files, databaseVars, commands, crashes>>

-----------------------------------------------------------------------------
(* What the relay does next, and the command.                              *)

M_ShowLooks ==
  /\ pc[Relay] = "bound"
  /\ Goto(Relay, "row")
  /\ UNCHANGED <<configured, npub, handle, nameVars, databaseVars, commands, crashes>>

\* show: without a database the service is uncommissioned.
ShowLooks ==
  /\ pc[Relay] = "bound"
  /\ Goto(Relay, IF database = "none" THEN "serving" ELSE "row")
  /\ UNCHANGED <<configured, npub, handle, nameVars, databaseVars, commands, crashes>>

\* The query fails on a database without the table, and a request of another
\* identity fails its verification; either ends the start.
ShowReads ==
  /\ pc[Relay] = "row"
  /\ Goto(Relay, IF database = "table" /\ row \in {Null, npub[Relay]} THEN "serving" ELSE "off")
  /\ UNCHANGED <<configured, npub, handle, nameVars, databaseVars, commands, crashes>>

\* connection: opening makes an empty database, and the table is made next.
OpenDatabase(c) ==
  /\ pc[c] = "bound"
  /\ database' = IF database = "none" THEN "empty" ELSE database
  /\ Goto(c, "table")
  /\ UNCHANGED <<configured, npub, handle, nameVars, row, commands, crashes>>

CreateTable(c) ==
  /\ pc[c] = "table"
  /\ database' = "table"
  /\ Goto(c, "request")
  /\ UNCHANGED <<configured, npub, handle, nameVars, row, commands, crashes>>

\* The transaction of request, after which the command ends.
WriteRequest(c) ==
  /\ pc[c] = "request"
  /\ row' = npub[c]
  /\ Goto(c, "off")
  /\ UNCHANGED <<configured, npub, handle, nameVars, database, commands, crashes>>

-----------------------------------------------------------------------------
\* The container is stopped to be refreshed.
StopRelay ==
  /\ pc[Relay] = "serving"
  /\ Goto(Relay, "off")
  /\ UNCHANGED <<configured, npub, handle, nameVars, databaseVars, commands, crashes>>

Crash(p) ==
  /\ pc[p] # "off" /\ crashes < MaxCrashes
  /\ Goto(p, "off")
  /\ crashes' = crashes + 1
  /\ UNCHANGED <<configured, npub, handle, nameVars, databaseVars, commands>>

Init ==
  /\ configured \in Identities \cup {Null}
  /\ pc = [p \in Processes |-> "off"]
  /\ npub = [p \in Processes |-> Null] /\ handle = [p \in Processes |-> 0]
  /\ files = <<>> /\ temporary = 0 /\ sentinel = 0
  /\ database = "none" /\ row = Null
  /\ commands = 0 /\ crashes = 0

Bind(p) == Look(p) \/ Read(p) \/ OpenTemporary(p) \/ WriteTemporary(p) \/ ReplaceSentinel(p)
RelayRuns == StartRelay \/ ShowLooks \/ ShowReads
CommandRuns(c) == OpenDatabase(c) \/ CreateTable(c) \/ WriteRequest(c)

Next ==
  \/ RelayRuns \/ StopRelay
  \/ \E c \in Commands : CommandRuns(c) \/ \E identity \in Identities : StartCommand(c, identity)
  \/ \E p \in Processes : Bind(p) \/ Crash(p)

Spec == Init /\ [][Next]_vars

\* Processes run, and the relay starts again whenever it ended (restart:
\* unless-stopped in compose.yaml, and refresh-containers.sh).
FairSpec ==
  /\ Spec /\ WF_vars(RelayRuns)
  /\ \A p \in Processes : WF_vars(Bind(p))
  /\ \A c \in Commands : WF_vars(CommandRuns(c))

-----------------------------------------------------------------------------
(***************************************************************************)
(* A process that passed the binding has the identity the directory        *)
(* records, wherever earlier processes crashed, unless it has no key and   *)
(* found no sentinel.                                                      *)
(***************************************************************************)
BoundIsRecorded ==
  \A p \in Processes : Accepted(p) /\ npub[p] # Null => Recorded = npub[p]

(***************************************************************************)
(* Once recorded, the identity is never replaced or lost, so the same key  *)
(* is accepted on every later start, and no other (README.md:54).          *)
(***************************************************************************)
RecordedForGood == [][sentinel # 0 => sentinel' # 0 /\ Recorded' = Recorded]_vars

(***************************************************************************)
(* The commissioning request in the administrative database was signed by  *)
(* the identity that the sentinel beside it records.                       *)
(***************************************************************************)
RowIsRecorded == row # Null => sentinel # 0 /\ row = Recorded

(***************************************************************************)
(* A command ended between making the administrative database and its      *)
(* table: every start of the relay fails until another command runs.       *)
(***************************************************************************)
Stranded == database = "empty" /\ \A c \in Commands : pc[c] # "table"

(***************************************************************************)
(* However often it ended, the relay serves again, unless the directory    *)
(* was bound to another identity than the relay's or is stranded.          *)
(***************************************************************************)
ServesAgain ==
  []<>(pc[Relay] = "serving" \/ Recorded \notin {Null, configured} \/ Stranded)

(***************************************************************************)
(* A directory is bound to one service identity (identity.py:33).  Two     *)
(* processes that first start together break it.                           *)
(***************************************************************************)
OneIdentity ==
  \A p, q \in Processes :
    (/\ Accepted(p) /\ npub[p] # Null
     /\ Accepted(q) /\ npub[q] # Null) => npub[p] = npub[q]

=============================================================================
