--------------------------------- MODULE Relay ---------------------------------
(***************************************************************************)
(* The WebSocket relay: RelayService in main.py on one asyncio loop, the   *)
(* storage it awaits, and the broadcasts of the witness worker.            *)
(*                                                                         *)
(* Each websocket has a task that handles its messages one at a time.  A   *)
(* task runs alone between two awaits and is interleaved with all others   *)
(* at each await: the storage call in its thread, every send_json, and the *)
(* gather of a broadcast.  The steps below end at those awaits.            *)
(*                                                                         *)
(* A filter list is the set of events it matches; the order and the limit  *)
(* of a replay are left to the model of the query.                         *)
(***************************************************************************)
EXTENDS FiniteSets, Integers

CONSTANTS
  Sockets,      \* websockets, each connected at most once
  SubIds,       \* subscription ids
  Events,       \* valid signed events, by id
  Receipts,     \* those the witness worker signs, stores and broadcasts
  FilterLists,  \* normalized filter lists: sets of events
  AuthorOf,     \* pubkey of an event
  Targets,      \* events the e tags of a kind 5 event name, itself left out
  RollsBack,    \* a failed save left nothing behind, as with SQLiteStorage
  MaxRequests,  \* bound of the model: messages clients send
  MaxFaults,    \* bound of the model: peers lost, storage errors, timeouts
  Null

VARIABLES
  phase,        \* a websocket is new, open (in connections) or closed
  peer,         \* the client's side of the websocket is up
  subs,         \* RelayService.connections: filters by subscription id
  task,         \* the handler of each websocket
  stored,       \* ids in the events table
  sends,        \* send_json calls a broadcast has gathered and awaits
  worker,       \* receipt the witness worker broadcasts
  flagged,      \* receipts whose broadcast is recorded
  heard,        \* EVENT messages that reached a client on a subscription
  eose,         \* subscriptions whose replay was completed
  fate,         \* what became of the live broadcast of a stored event
  requests, faults

relayVars == <<phase, peer, subs, task>>
clientVars == <<heard, eose>>
boundVars == <<requests, faults>>
vars == <<relayVars, stored, sends, worker, flagged, clientVars, fate, boundVars>>

ASSUME RelayAssumption ==
  /\ Receipts \subseteq Events
  /\ FilterLists \subseteq SUBSET Events
  /\ DOMAIN AuthorOf = Events
  /\ Targets \in [Events -> SUBSET Events]
  /\ RollsBack \in BOOLEAN
  /\ MaxRequests \in Nat /\ MaxFaults \in Nat
  /\ Null \notin Sockets /\ Null \notin Events /\ Null \notin FilterLists

\* The worker broadcasts beside the tasks of the websockets.
Worker == Null
Senders == Sockets \cup {Worker}

Tasks ==
  [pc: {"receive", "send"}]
  \cup [pc: {"save", "ok", "reply"}, event: Events]
  \cup [pc: {"query"}, sub: SubIds]
  \cup [pc: {"replay"}, sub: SubIds, todo: SUBSET Events]

Sends == [by: Senders, to: Sockets, sub: SubIds, event: Events]

Receiving == [pc |-> "receive"]
NoSubs == [i \in SubIds |-> Null]

Ask == requests < MaxRequests /\ requests' = requests + 1 /\ UNCHANGED faults
Fault == faults < MaxFaults /\ faults' = faults + 1 /\ UNCHANGED requests
Go(c, t) == task' = [task EXCEPT ![c] = t]

-----------------------------------------------------------------------------
\* Same-author tombstones hide their targets, in whichever order they came.
Hidden(e) == \E d \in stored : e \in Targets[d] /\ AuthorOf[d] = AuthorOf[e]

M_Audience(by, e) ==
  {s \in Sends : /\ s.by = by /\ s.event = e
                 /\ phase[s.to] = "open" /\ s.sub \in eose[s.to] /\ e \in subs[s.to][s.sub]}

\* broadcast: the sends to the subscriptions that match at this moment.
Audience(by, e) ==
  {s \in Sends : /\ s.by = by /\ s.event = e
                 /\ phase[s.to] = "open"
                 /\ subs[s.to][s.sub] # Null /\ e \in subs[s.to][s.sub]}

M_Drop(c) ==
  /\ phase' = [phase EXCEPT ![c] = "closed"]
  /\ Go(c, Receiving)
  /\ eose' = [eose EXCEPT ![c] = {}]
  /\ heard' = [heard EXCEPT ![c] = {}]
  /\ UNCHANGED subs

\* disconnect, from the finally of the websocket route.
Drop(c) ==
  /\ phase' = [phase EXCEPT ![c] = "closed"]
  /\ subs' = [subs EXCEPT ![c] = NoSubs]
  /\ Go(c, Receiving)
  /\ eose' = [eose EXCEPT ![c] = {}]
  /\ heard' = [heard EXCEPT ![c] = {}]

\* A REQ or a CLOSE ends what the client knew of the subscription.
Reset(c, i) ==
  /\ eose' = [eose EXCEPT ![c] = @ \ {i}]
  /\ heard' = [heard EXCEPT ![c] = {m \in @ : m[1] # i}]

Hear(c, i, e) == heard' = [heard EXCEPT ![c] = @ \cup {<<i, e>>}]

-----------------------------------------------------------------------------
(* Connections.                                                            *)

Connect(c) ==
  /\ phase[c] = "new"
  /\ phase' = [phase EXCEPT ![c] = "open"]
  /\ peer' = [peer EXCEPT ![c] = TRUE]
  /\ UNCHANGED <<subs, task, stored, sends, worker, flagged, clientVars, fate, boundVars>>

PeerLost(c) ==
  /\ phase[c] = "open" /\ peer[c]
  /\ Fault
  /\ peer' = [peer EXCEPT ![c] = FALSE]
  /\ UNCHANGED <<phase, subs, task, stored, sends, worker, flagged, clientVars, fate>>

\* receive_text raises WebSocketDisconnect.
Disconnect(c) ==
  /\ phase[c] = "open" /\ ~peer[c]
  /\ task[c].pc = "receive"
  /\ Drop(c)
  /\ UNCHANGED <<peer, stored, sends, worker, flagged, fate, boundVars>>

\* A handler's own send_json raises because the peer is gone: the handler is
\* left there, and the route disconnects.
SendRaises(c) ==
  /\ phase[c] = "open" /\ ~peer[c]
  /\ task[c].pc \in {"ok", "reply", "replay"}
  /\ Drop(c)
  /\ fate' = IF task[c].pc = "ok" THEN [fate EXCEPT ![task[c].event] = "dropped"] ELSE fate
  /\ UNCHANGED <<peer, stored, sends, worker, flagged, boundVars>>

\* Another exception of the storage call leaves the handler the same way.
HandlerFails(c) ==
  /\ task[c].pc \in {"save", "query"}
  /\ Fault
  /\ Drop(c)
  /\ UNCHANGED <<peer, stored, sends, worker, flagged, fate>>

-----------------------------------------------------------------------------
(* EVENT.                                                                  *)

\* Only the worker can sign a receipt, so a client can but repeat one.
ReceiveEvent(c, e) ==
  /\ phase[c] = "open" /\ peer[c] /\ task[c].pc = "receive"
  /\ e \in Receipts => e \in stored
  /\ Ask
  /\ Go(c, [pc |-> "save", event |-> e])
  /\ UNCHANGED <<phase, peer, subs, stored, sends, worker, flagged, clientVars, fate>>

M_Save(c) ==
  /\ task[c].pc = "save"
  /\ stored' = stored \cup {task[c].event}
  /\ Go(c, [task[c] EXCEPT !.pc = "ok"])
  /\ UNCHANGED <<phase, peer, subs, sends, worker, flagged, clientVars, fate, boundVars>>

\* The storage thread commits; only the first save of an id inserts it.
Save(c) ==
  /\ task[c].pc = "save"
  /\ stored' = stored \cup {task[c].event}
  /\ Go(c, [task[c] EXCEPT !.pc = IF task[c].event \in stored THEN "reply" ELSE "ok"])
  /\ UNCHANGED <<phase, peer, subs, sends, worker, flagged, clientVars, fate, boundVars>>

\* The storage raises.  The EventStorage protocol leaves open whether the
\* event was committed; the failed writes of SQLiteStorage are rolled back.
SaveFails(c) ==
  /\ task[c].pc = "save"
  /\ Fault
  /\ Go(c, [task[c] EXCEPT !.pc = "reply"])
  /\ \/ UNCHANGED <<stored, fate>>
     \/ /\ ~RollsBack /\ task[c].event \notin stored
        /\ stored' = stored \cup {task[c].event}
        /\ fate' = [fate EXCEPT ![task[c].event] = "dropped"]
  /\ UNCHANGED <<phase, peer, subs, sends, worker, flagged, clientVars>>

\* OK for a duplicate or a failure has been sent.
Reply(c) ==
  /\ task[c].pc = "reply"
  /\ Go(c, Receiving)
  /\ UNCHANGED <<phase, peer, subs, stored, sends, worker, flagged, clientVars, fate, boundVars>>

\* The positive OK has been sent; broadcast follows without an await.
Announce(c) ==
  /\ task[c].pc = "ok"
  /\ sends' = sends \cup Audience(c, task[c].event)
  /\ fate' = [fate EXCEPT ![task[c].event] = "announced"]
  /\ Go(c, [pc |-> "send"])
  /\ UNCHANGED <<phase, peer, subs, stored, worker, flagged, clientVars, boundVars>>

M_Deliver(s) ==
  /\ s \in sends
  /\ peer[s.to]
  /\ sends' = sends \ {s}
  /\ Hear(s.to, s.sub, s.event)
  /\ UNCHANGED <<relayVars, stored, worker, flagged, eose, fate, boundVars>>

\* One gathered send ends; the exception of a dead peer is swallowed.
Deliver(s) ==
  /\ s \in sends
  /\ sends' = sends \ {s}
  /\ IF phase[s.to] = "open" /\ peer[s.to] THEN Hear(s.to, s.sub, s.event) ELSE UNCHANGED heard
  /\ UNCHANGED <<relayVars, stored, worker, flagged, eose, fate, boundVars>>

\* The gather returns, and the handler with it.
Broadcasted(c) ==
  /\ task[c].pc = "send"
  /\ \A s \in sends : s.by # c
  /\ Go(c, Receiving)
  /\ UNCHANGED <<phase, peer, subs, stored, sends, worker, flagged, clientVars, fate, boundVars>>

-----------------------------------------------------------------------------
(* REQ and CLOSE.                                                          *)

\* The subscription is registered before the query is awaited.
ReceiveReq(c, i, f) ==
  /\ phase[c] = "open" /\ peer[c] /\ task[c].pc = "receive"
  /\ Ask
  /\ subs' = [subs EXCEPT ![c][i] = f]
  /\ Reset(c, i)
  /\ Go(c, [pc |-> "query", sub |-> i])
  /\ UNCHANGED <<phase, peer, stored, sends, worker, flagged, fate>>

Query(c) ==
  /\ task[c].pc = "query"
  /\ Go(c, [pc |-> "replay", sub |-> task[c].sub,
            todo |-> {e \in stored \cap subs[c][task[c].sub] : ~Hidden(e)}])
  /\ UNCHANGED <<phase, peer, subs, stored, sends, worker, flagged, clientVars, fate, boundVars>>

\* The subscription is withdrawn and CLOSED is sent, which is the last await.
QueryFails(c) ==
  /\ task[c].pc = "query"
  /\ Fault
  /\ subs' = [subs EXCEPT ![c][task[c].sub] = Null]
  /\ Reset(c, task[c].sub)
  /\ Go(c, Receiving)
  /\ UNCHANGED <<phase, peer, stored, sends, worker, flagged, fate>>

Replay(c) ==
  /\ task[c].pc = "replay"
  /\ \E e \in task[c].todo :
       /\ Go(c, [task[c] EXCEPT !.todo = @ \ {e}])
       /\ IF peer[c] THEN Hear(c, task[c].sub, e) ELSE UNCHANGED heard
  /\ UNCHANGED <<phase, peer, subs, stored, sends, worker, flagged, eose, fate, boundVars>>

EndReplay(c) ==
  /\ task[c].pc = "replay" /\ task[c].todo = {}
  /\ eose' = [eose EXCEPT ![c] = @ \cup {task[c].sub}]
  /\ Go(c, Receiving)
  /\ UNCHANGED <<phase, peer, subs, stored, sends, worker, flagged, heard, fate, boundVars>>

\* CLOSE, and a REQ whose filters are refused: both remove the subscription.
CloseSub(c, i) ==
  /\ phase[c] = "open" /\ peer[c] /\ task[c].pc = "receive"
  /\ Ask
  /\ subs' = [subs EXCEPT ![c][i] = Null]
  /\ Reset(c, i)
  /\ UNCHANGED <<phase, peer, task, stored, sends, worker, flagged, fate>>

-----------------------------------------------------------------------------
(* The witness worker: the receipt and its outbox row commit together; the *)
(* row is flagged after the broadcast returned, and broadcast again when   *)
(* it took longer than five seconds.                                       *)

StoreReceipt(e) ==
  /\ e \in Receipts \ stored
  /\ worker = Null
  /\ stored' = stored \cup {e}
  /\ UNCHANGED <<relayVars, sends, worker, flagged, clientVars, fate, boundVars>>

WorkerBroadcast(e) ==
  /\ worker = Null
  /\ e \in (Receipts \cap stored) \ flagged
  /\ worker' = e
  /\ sends' = sends \cup Audience(Worker, e)
  /\ UNCHANGED <<relayVars, stored, flagged, clientVars, fate, boundVars>>

\* wait_for cancels the gather and with it the sends that have not ended.
WorkerTimeout ==
  /\ worker # Null /\ \E s \in sends : s.by = Worker
  /\ Fault
  /\ sends' = {s \in sends : s.by # Worker}
  /\ worker' = Null
  /\ UNCHANGED <<relayVars, stored, flagged, clientVars, fate>>

WorkerFlag ==
  /\ worker # Null /\ \A s \in sends : s.by # Worker
  /\ flagged' = flagged \cup {worker}
  /\ worker' = Null
  /\ UNCHANGED <<relayVars, stored, sends, clientVars, fate, boundVars>>

-----------------------------------------------------------------------------
Init ==
  /\ phase = [c \in Sockets |-> "new"]
  /\ peer = [c \in Sockets |-> FALSE]
  /\ subs = [c \in Sockets |-> NoSubs]
  /\ task = [c \in Sockets |-> Receiving]
  /\ stored = {} /\ sends = {}
  /\ worker = Null /\ flagged = {}
  /\ heard = [c \in Sockets |-> {}]
  /\ eose = [c \in Sockets |-> {}]
  /\ fate = [e \in Events |-> "none"]
  /\ requests = 0 /\ faults = 0

Handle(c) ==
  Save(c) \/ Reply(c) \/ Announce(c) \/ Broadcasted(c) \/ Query(c) \/ Replay(c) \/ EndReplay(c)

WorkerRuns ==
  \/ \E e \in Receipts : StoreReceipt(e) \/ WorkerBroadcast(e)
  \/ WorkerFlag

Next ==
  \/ \E c \in Sockets :
       \/ Connect(c) \/ PeerLost(c) \/ Disconnect(c) \/ SendRaises(c) \/ HandlerFails(c)
       \/ \E e \in Events : ReceiveEvent(c, e)
       \/ \E i \in SubIds, f \in FilterLists : ReceiveReq(c, i, f)
       \/ \E i \in SubIds : CloseSub(c, i)
       \/ Handle(c) \/ SaveFails(c) \/ QueryFails(c)
  \/ \E s \in sends : Deliver(s)
  \/ WorkerRuns \/ WorkerTimeout

Spec == Init /\ [][Next]_vars

(***************************************************************************)
(* The loop runs every task that can go on; a send ends, because the       *)
(* client reads or its connection breaks.                                  *)
(***************************************************************************)
Fairness ==
  /\ \A c \in Sockets : WF_vars(Handle(c)) /\ WF_vars(Disconnect(c))
  /\ WF_vars(\E s \in sends : Deliver(s))
  /\ WF_vars(WorkerRuns)

FairSpec == Spec /\ Fairness

-----------------------------------------------------------------------------
(* Properties.                                                             *)

(***************************************************************************)
(* Types; a closed websocket has neither subscriptions nor a handler.      *)
(***************************************************************************)
TypeOK ==
  /\ phase \in [Sockets -> {"new", "open", "closed"}]
  /\ peer \in [Sockets -> BOOLEAN]
  /\ subs \in [Sockets -> [SubIds -> FilterLists \cup {Null}]]
  /\ task \in [Sockets -> Tasks]
  /\ stored \subseteq Events /\ sends \subseteq Sends
  /\ worker \in Receipts \cup {Null} /\ flagged \subseteq Receipts
  /\ heard \in [Sockets -> SUBSET (SubIds \X Events)]
  /\ eose \in [Sockets -> SUBSET SubIds]
  /\ fate \in [Events -> {"none", "announced", "dropped"}]
  /\ requests \in 0 .. MaxRequests /\ faults \in 0 .. MaxFaults
  /\ \A c \in Sockets : phase[c] # "open" => subs[c] = NoSubs /\ task[c] = Receiving

(***************************************************************************)
(* A stored event that matches a live subscription is on its way to it:    *)
(* the handler that stored it has not broadcast it yet, or a send to the   *)
(* subscription is pending, or it is a receipt still in the outbox.        *)
(***************************************************************************)
OnItsWay(c, i, e) ==
  \/ \E p \in Sockets : task[p].pc = "ok" /\ task[p].event = e
  \/ \E s \in sends : s.to = c /\ s.sub = i /\ s.event = e
  \/ e \in Receipts \ flagged

Live(c, i) == phase[c] = "open" /\ peer[c] /\ i \in eose[c]

Missed(c, i, e) ==
  /\ Live(c, i) /\ e \in stored \cap subs[c][i] /\ ~Hidden(e)
  /\ <<i, e>> \notin heard[c] /\ ~OnItsWay(c, i, e)

(***************************************************************************)
(* Replay and live delivery leave no gap: once a subscription has had its  *)
(* EOSE, it has been sent, or is about to be sent, every visible matching  *)
(* event, whatever was stored while its query ran or its replay was being  *)
(* sent, except events whose publisher was lost, or whose storage call     *)
(* failed after committing, before the broadcast.                          *)
(***************************************************************************)
NoGap ==
  \A c \in Sockets, i \in SubIds, e \in Events : Missed(c, i, e) => fate[e] = "dropped"

(***************************************************************************)
(* The same without the exception: stored events are replayed to matching  *)
(* subscriptions and broadcast to live matching subscriptions              *)
(* (docs/relay-api.md).  The code does not keep it: see _handle_event.     *)
(***************************************************************************)
StoredIsBroadcast == \A c \in Sockets, i \in SubIds, e \in Events : ~Missed(c, i, e)

(***************************************************************************)
(* An event is broadcast by at most one handler, however many clients      *)
(* publish it at once: the one whose save inserted it.                     *)
(***************************************************************************)
PublishedOnce ==
  \A p \in Sockets :
    task[p].pc = "ok" =>
      /\ fate[task[p].event] = "none"
      /\ \A q \in Sockets \ {p} : task[q].pc = "ok" => task[q].event # task[p].event

(***************************************************************************)
(* Every message is answered and every handler returns to its socket, also *)
(* when the subscribers it broadcasts to go away.                          *)
(***************************************************************************)
HandlersReturn == \A c \in Sockets : task[c].pc # "receive" ~> task[c].pc = "receive"

=============================================================================
