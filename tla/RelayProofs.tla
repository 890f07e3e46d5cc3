------------------------------ MODULE RelayProofs ------------------------------
(***************************************************************************)
(* Proofs about Relay, for any number of websockets, subscriptions, events *)
(* and messages: nothing is broadcast twice, and a subscription misses no  *)
(* event between its replay and live delivery.                             *)
(***************************************************************************)
EXTENDS Relay, TLAPS

\* The handler that inserted an event is the only one to announce it, and what
\* becomes of the broadcast is settled after the event was stored.
OnceInv ==
  /\ PublishedOnce
  /\ \A p \in Sockets : task[p].pc = "ok" => task[p].event \in stored
  /\ \A e \in Events : fate[e] # "none" => e \in stored

\* A subscription is registered from its REQ on.
SubsInv ==
  \A c \in Sockets :
    /\ phase[c] # "open" => eose[c] = {}
    /\ \A i \in eose[c] : subs[c][i] # Null
    /\ task[c].pc \in {"query", "replay"} => subs[c][task[c].sub] # Null

\* The worker broadcasts a stored receipt that is not flagged yet.
WorkerInv ==
  /\ flagged \subseteq stored
  /\ worker # Null => worker \in stored \ flagged
  /\ \A s \in sends : s.by = Worker => s.event = worker

\* The subscription has had what its replay had for it of e.
Replayed(c, i, e) ==
  \/ i \in eose[c]
  \/ task[c].pc = "replay" /\ task[c].sub = i /\ e \notin task[c].todo

Due(c, i, e) ==
  /\ phase[c] = "open" /\ peer[c] /\ Replayed(c, i, e)
  /\ e \in stored /\ e \in subs[c][i] /\ ~Hidden(e)

\* The worker will broadcast e, and has not begun.
Pending(e) == e \in Receipts \ flagged /\ e # worker

Announcing(e) == \E p \in Sockets : task[p].pc = "ok" /\ task[p].event = e
Sending(c, i, e) == \E s \in sends : s.to = c /\ s.sub = i /\ s.event = e

Coming(c, i, e) ==
  \/ <<i, e>> \in heard[c] \/ Sending(c, i, e)
  \/ Announcing(e) \/ Pending(e) \/ fate[e] = "dropped"

\* The receipt being broadcast is not in the outbox any more as far as the
\* subscriptions of before are concerned: they have their sends, and those
\* opened since find it stored.
GapInv == \A c \in Sockets, i \in SubIds, e \in Events : Due(c, i, e) => Coming(c, i, e)

Inv == TypeOK /\ OnceInv /\ SubsInv /\ WorkerInv /\ GapInv

-----------------------------------------------------------------------------
(* Types.                                                                  *)

LEMMA TaskTyped ==
  ASSUME NEW t \in Tasks
  PROVE  /\ t.pc \in {"receive", "send", "save", "ok", "reply", "query", "replay"}
         /\ t.pc \in {"save", "ok", "reply"} =>
              t.event \in Events /\ t = [pc |-> t.pc, event |-> t.event]
         /\ t.pc \in {"query", "replay"} => t.sub \in SubIds
         /\ t.pc = "replay" =>
              t.todo \subseteq Events /\ t = [pc |-> "replay", sub |-> t.sub, todo |-> t.todo]
  BY DEF Tasks

LEMMA TasksMade ==
  /\ Receiving \in Tasks /\ [pc |-> "send"] \in Tasks
  /\ \A pc \in {"save", "ok", "reply"}, e \in Events : [pc |-> pc, event |-> e] \in Tasks
  /\ \A i \in SubIds : [pc |-> "query", sub |-> i] \in Tasks
  /\ \A i \in SubIds, S \in SUBSET Events : [pc |-> "replay", sub |-> i, todo |-> S] \in Tasks
  BY DEF Tasks, Receiving

\* What a handler goes to, from where.
LEMMA TaskMoves ==
  ASSUME TypeOK, NEW c \in Sockets
  PROVE  /\ task[c] \in Tasks
         /\ task[c].pc # "receive" => phase[c] = "open"
         /\ task[c].pc \in {"save", "ok", "reply"} =>
              \A pc \in {"save", "ok", "reply"} :
                [task[c] EXCEPT !.pc = pc] = [pc |-> pc, event |-> task[c].event]
         /\ task[c].pc = "replay" =>
              \A S \in SUBSET Events :
                [task[c] EXCEPT !.todo = S] = [pc |-> "replay", sub |-> task[c].sub, todo |-> S]
<1>1. task[c] \in Tasks /\ (task[c].pc # "receive" => phase[c] = "open")
  BY DEF TypeOK, Receiving
<1> QED
  BY <1>1, TaskTyped

LEMMA DropTyped ==
  ASSUME TypeOK, NEW c \in Sockets, Drop(c)
  PROVE  /\ phase' \in [Sockets -> {"new", "open", "closed"}]
         /\ subs' \in [Sockets -> [SubIds -> FilterLists \cup {Null}]]
         /\ task' \in [Sockets -> Tasks]
         /\ heard' \in [Sockets -> SUBSET (SubIds \X Events)]
         /\ eose' \in [Sockets -> SUBSET SubIds]
         /\ \A d \in Sockets : phase'[d] # "open" => subs'[d] = NoSubs /\ task'[d] = Receiving
  BY TasksMade DEF TypeOK, Drop, Go, NoSubs

LEMMA AudienceTyped ==
  ASSUME NEW by, NEW e
  PROVE  Audience(by, e) \subseteq Sends
  BY DEF Audience

\* A handler goes on at an open websocket.
LEMMA TaskStepTyped ==
  ASSUME TypeOK, NEW c \in Sockets, NEW t \in Tasks, Go(c, t),
         phase[c] = "open", UNCHANGED phase,
         \A d \in Sockets : d # c => subs'[d] = subs[d]
  PROVE  /\ task' \in [Sockets -> Tasks]
         /\ \A d \in Sockets : phase'[d] # "open" => subs'[d] = NoSubs /\ task'[d] = Receiving
  BY DEF TypeOK, Go

LEMMA TypeStep ==
  ASSUME TypeOK, [Next]_vars
  PROVE  TypeOK'
<1> USE RelayAssumption DEF RelayAssumption
<1>1. ASSUME NEW c \in Sockets, Connect(c) PROVE TypeOK'
  BY <1>1 DEF TypeOK, Connect, clientVars, boundVars
<1>2. ASSUME NEW c \in Sockets, PeerLost(c) PROVE TypeOK'
  BY <1>2 DEF TypeOK, PeerLost, Fault, clientVars
<1>3. ASSUME NEW c \in Sockets, Disconnect(c) PROVE TypeOK'
  BY <1>3, DropTyped DEF TypeOK, Disconnect, boundVars
<1>4. ASSUME NEW c \in Sockets, SendRaises(c) PROVE TypeOK'
  <2>1. fate' \in [Events -> {"none", "announced", "dropped"}]
    BY <1>4 DEF TypeOK, SendRaises
  <2> QED
    BY <1>4, <2>1, DropTyped DEF TypeOK, SendRaises, boundVars
<1>5. ASSUME NEW c \in Sockets, HandlerFails(c) PROVE TypeOK'
  BY <1>5, DropTyped DEF TypeOK, HandlerFails, Fault
<1>6. ASSUME NEW c \in Sockets, NEW e \in Events, ReceiveEvent(c, e) PROVE TypeOK'
  <2>1. [pc |-> "save", event |-> e] \in Tasks
    BY TasksMade
  <2> QED
    BY <1>6, <2>1, TaskStepTyped DEF TypeOK, ReceiveEvent, Ask, clientVars
<1>7. ASSUME NEW c \in Sockets, NEW i \in SubIds, NEW f \in FilterLists, ReceiveReq(c, i, f) PROVE TypeOK'
  <2>1. [pc |-> "query", sub |-> i] \in Tasks
    BY TasksMade
  <2>2. subs' \in [Sockets -> [SubIds -> FilterLists \cup {Null}]]
        /\ \A d \in Sockets : d # c => subs'[d] = subs[d]
    BY <1>7 DEF TypeOK, ReceiveReq
  <2>3. heard' \in [Sockets -> SUBSET (SubIds \X Events)] /\ eose' \in [Sockets -> SUBSET SubIds]
    BY <1>7 DEF TypeOK, ReceiveReq, Reset
  <2> QED
    BY <1>7, <2>1, <2>2, <2>3, TaskStepTyped DEF TypeOK, ReceiveReq, Ask
<1>8. ASSUME NEW c \in Sockets, NEW i \in SubIds, CloseSub(c, i) PROVE TypeOK'
  <2>1. subs' \in [Sockets -> [SubIds -> FilterLists \cup {Null}]]
        /\ \A d \in Sockets : d # c => subs'[d] = subs[d]
    BY <1>8 DEF TypeOK, CloseSub
  <2>2. heard' \in [Sockets -> SUBSET (SubIds \X Events)] /\ eose' \in [Sockets -> SUBSET SubIds]
    BY <1>8 DEF TypeOK, CloseSub, Reset
  <2> QED
    BY <1>8, <2>1, <2>2 DEF TypeOK, CloseSub, Ask
<1>9. ASSUME NEW c \in Sockets, Save(c) PROVE TypeOK'
  <2>1. [pc |-> "ok", event |-> task[c].event] \in Tasks /\ [pc |-> "reply", event |-> task[c].event] \in Tasks
        /\ task[c].event \in Events /\ phase[c] = "open"
    BY <1>9, TasksMade, TaskMoves, TaskTyped DEF Save
  <2>2. [task[c] EXCEPT !.pc = IF task[c].event \in stored THEN "reply" ELSE "ok"] \in Tasks
    BY <1>9, <2>1, TaskMoves DEF Save
  <2> QED
    BY <1>9, <2>1, <2>2, TaskStepTyped DEF TypeOK, Save, clientVars, boundVars
<1>10. ASSUME NEW c \in Sockets, SaveFails(c) PROVE TypeOK'
  <2>1. [pc |-> "reply", event |-> task[c].event] \in Tasks /\ task[c].event \in Events /\ phase[c] = "open"
    BY <1>10, TasksMade, TaskMoves, TaskTyped DEF SaveFails
  <2>2. [task[c] EXCEPT !.pc = "reply"] \in Tasks
    BY <1>10, <2>1, TaskMoves DEF SaveFails
  <2>3. stored' \subseteq Events /\ fate' \in [Events -> {"none", "announced", "dropped"}]
    BY <1>10, <2>1 DEF TypeOK, SaveFails
  <2> QED
    BY <1>10, <2>1, <2>2, <2>3, TaskStepTyped DEF TypeOK, SaveFails, Fault, clientVars
<1>11. ASSUME NEW c \in Sockets, Reply(c) PROVE TypeOK'
  BY <1>11, TasksMade, TaskMoves, TaskStepTyped DEF TypeOK, Reply, clientVars, boundVars
<1>12. ASSUME NEW c \in Sockets, Announce(c) PROVE TypeOK'
  <2>1. task[c].event \in Events /\ phase[c] = "open"
    BY <1>12, TaskMoves, TaskTyped DEF Announce
  <2>2. sends' \subseteq Sends /\ fate' \in [Events -> {"none", "announced", "dropped"}]
    BY <1>12, <2>1, AudienceTyped DEF TypeOK, Announce
  <2> QED
    BY <1>12, <2>1, <2>2, TasksMade, TaskStepTyped DEF TypeOK, Announce, clientVars, boundVars
<1>13. ASSUME NEW c \in Sockets, Broadcasted(c) PROVE TypeOK'
  BY <1>13, TasksMade, TaskMoves, TaskStepTyped DEF TypeOK, Broadcasted, clientVars, boundVars
<1>14. ASSUME NEW c \in Sockets, Query(c) PROVE TypeOK'
  <2>1. task[c].sub \in SubIds /\ phase[c] = "open"
    BY <1>14, TaskMoves, TaskTyped DEF Query
  <2>2. {e \in stored \cap subs[c][task[c].sub] : ~Hidden(e)} \in SUBSET Events
    BY DEF TypeOK
  <2> QED
    BY <1>14, <2>1, <2>2, TasksMade, TaskStepTyped DEF TypeOK, Query, clientVars, boundVars
<1>15. ASSUME NEW c \in Sockets, QueryFails(c) PROVE TypeOK'
  <2>1. task[c].sub \in SubIds /\ phase[c] = "open"
    BY <1>15, TaskMoves, TaskTyped DEF QueryFails
  <2>2. subs' \in [Sockets -> [SubIds -> FilterLists \cup {Null}]]
        /\ \A d \in Sockets : d # c => subs'[d] = subs[d]
    BY <1>15, <2>1 DEF TypeOK, QueryFails
  <2>3. heard' \in [Sockets -> SUBSET (SubIds \X Events)] /\ eose' \in [Sockets -> SUBSET SubIds]
    BY <1>15 DEF TypeOK, QueryFails, Reset
  <2> QED
    BY <1>15, <2>1, <2>2, <2>3, TasksMade, TaskStepTyped DEF TypeOK, QueryFails, Fault
<1>16. ASSUME NEW c \in Sockets, Replay(c) PROVE TypeOK'
  <2>1. task[c].sub \in SubIds /\ task[c].todo \subseteq Events /\ phase[c] = "open"
    <3>1. task[c] \in Tasks /\ task[c].pc = "replay" /\ phase[c] = "open"
      BY <1>16, TaskMoves DEF Replay
    <3> QED
      BY <3>1, TaskTyped
  <2>2. PICK e \in task[c].todo :
          /\ Go(c, [task[c] EXCEPT !.todo = task[c].todo \ {e}])
          /\ IF peer[c] THEN Hear(c, task[c].sub, e) ELSE UNCHANGED heard
    BY <1>16 DEF Replay
  <2> DEFINE S == task[c].todo \ {e}
  <2>3. [task[c] EXCEPT !.todo = S] = [pc |-> "replay", sub |-> task[c].sub, todo |-> S]
    <3>1. S \in SUBSET Events
      BY <2>1
    <3> HIDE DEF S
    <3> QED
      BY <1>16, <3>1, TaskMoves DEF Replay
  <2>4. [task[c] EXCEPT !.todo = S] \in Tasks
    BY <2>1, <2>3, TasksMade
  <2>5. heard' \in [Sockets -> SUBSET (SubIds \X Events)]
    BY <2>1, <2>2 DEF TypeOK, Hear
  <2> QED
    BY <1>16, <2>1, <2>2, <2>4, <2>5, TaskStepTyped DEF TypeOK, Replay, boundVars
<1>17. ASSUME NEW c \in Sockets, EndReplay(c) PROVE TypeOK'
  <2>1. task[c].sub \in SubIds /\ phase[c] = "open"
    BY <1>17, TaskMoves, TaskTyped DEF EndReplay
  <2> QED
    BY <1>17, <2>1, TasksMade, TaskStepTyped DEF TypeOK, EndReplay, boundVars
<1>18. ASSUME NEW s \in sends, Deliver(s) PROVE TypeOK'
  <2>1. s.to \in Sockets /\ s.sub \in SubIds /\ s.event \in Events
    BY DEF TypeOK, Sends
  <2>2. heard' \in [Sockets -> SUBSET (SubIds \X Events)]
    BY <1>18, <2>1 DEF TypeOK, Deliver, Hear
  <2> QED
    BY <1>18, <2>2 DEF TypeOK, Deliver, relayVars, boundVars
<1>19. ASSUME NEW e \in Receipts, StoreReceipt(e) \/ WorkerBroadcast(e) PROVE TypeOK'
  BY <1>19, AudienceTyped DEF TypeOK, StoreReceipt, WorkerBroadcast, relayVars, clientVars, boundVars
<1>20. ASSUME WorkerFlag \/ WorkerTimeout PROVE TypeOK'
  BY <1>20 DEF TypeOK, WorkerFlag, WorkerTimeout, Fault, relayVars, clientVars, boundVars
<1>21. ASSUME UNCHANGED vars PROVE TypeOK'
  BY <1>21 DEF TypeOK, vars, relayVars, clientVars, boundVars
<1> QED
  BY <1>1, <1>2, <1>3, <1>4, <1>5, <1>6, <1>7, <1>8, <1>9, <1>10, <1>11, <1>12, <1>13, <1>14,
     <1>15, <1>16, <1>17, <1>18, <1>19, <1>20, <1>21 DEF Next, Handle, WorkerRuns

-----------------------------------------------------------------------------
(* Who announces an event.                                                 *)

\* No handler comes to announce, and the fate of no event changes.
LEMMA OnceQuiet ==
  ASSUME OnceInv, stored \subseteq stored', fate' = fate,
         \A p \in Sockets : task'[p].pc = "ok" => task'[p] = task[p]
  PROVE  OnceInv'
  BY DEF OnceInv, PublishedOnce

LEMMA OnceStep ==
  ASSUME TypeOK, OnceInv, [Next]_vars
  PROVE  OnceInv'
<1> DEFINE Quiet == /\ stored \subseteq stored' /\ fate' = fate
                    /\ \A p \in Sockets : task'[p].pc = "ok" => task'[p] = task[p]
<1>1. Quiet => OnceInv'
  BY OnceQuiet
<1>2. ASSUME NEW c \in Sockets, NEW t, t.pc # "ok", Go(c, t), stored \subseteq stored', fate' = fate PROVE Quiet
  BY <1>2 DEF Go, TypeOK
<1>3. Receiving.pc # "ok" /\ [pc |-> "send"].pc # "ok"
  BY DEF Receiving
<1>4. ASSUME NEW c \in Sockets, SendRaises(c), task[c].pc = "ok" PROVE OnceInv'
  <2>1. /\ task[c].event \in Events /\ fate' = [fate EXCEPT ![task[c].event] = "dropped"]
        /\ stored' = stored /\ task' = [task EXCEPT ![c] = Receiving]
    BY <1>4, TaskMoves, TaskTyped DEF SendRaises, Drop, Go
  <2> QED
    BY <2>1, <1>3, <1>4 DEF OnceInv, PublishedOnce, TypeOK
<1>5. ASSUME NEW c \in Sockets,
             Connect(c) \/ PeerLost(c) \/ Disconnect(c) \/ (SendRaises(c) /\ task[c].pc # "ok") \/ HandlerFails(c)
      PROVE OnceInv'
  <2>1. CASE Connect(c) \/ PeerLost(c)
    BY <1>1, <2>1 DEF Connect, PeerLost
  <2>2. CASE Disconnect(c) \/ (SendRaises(c) /\ task[c].pc # "ok") \/ HandlerFails(c)
    BY <1>1, <1>2, <1>3, <2>2 DEF Disconnect, SendRaises, HandlerFails, Drop
  <2> QED
    BY <1>5, <2>1, <2>2
<1>6. ASSUME NEW c \in Sockets, NEW e \in Events, ReceiveEvent(c, e) PROVE OnceInv'
  BY <1>1, <1>2, <1>6 DEF ReceiveEvent
<1>7. ASSUME NEW c \in Sockets, NEW i \in SubIds, NEW f \in FilterLists, ReceiveReq(c, i, f) PROVE OnceInv'
  BY <1>1, <1>2, <1>7 DEF ReceiveReq
<1>8. ASSUME NEW c \in Sockets, NEW i \in SubIds, CloseSub(c, i) PROVE OnceInv'
  BY <1>1, <1>8 DEF CloseSub
<1>9. ASSUME NEW c \in Sockets, Save(c) PROVE OnceInv'
  <2> DEFINE e == task[c].event
  <2>1. /\ e \in Events /\ stored' = stored \cup {e} /\ fate' = fate
        /\ \A p \in Sockets : p # c => task'[p] = task[p]
        /\ task'[c] = [pc |-> IF e \in stored THEN "reply" ELSE "ok", event |-> e]
    <3>1. e \in Events /\ [task[c] EXCEPT !.pc = IF e \in stored THEN "reply" ELSE "ok"]
                             = [pc |-> IF e \in stored THEN "reply" ELSE "ok", event |-> e]
      BY <1>9, TaskMoves, TaskTyped DEF Save
    <3> QED
      BY <1>9, <3>1 DEF Save, Go, TypeOK
  <2>2. CASE e \in stored
    BY <1>1, <2>1, <2>2
  <2>3. CASE e \notin stored
    <3>1. \A p \in Sockets \ {c} : task[p].pc = "ok" => task[p].event \in stored /\ fate[task[p].event] = "none"
      BY DEF OnceInv, PublishedOnce
    <3>2. fate[e] = "none" /\ task'[c].pc = "ok" /\ task'[c].event = e
      BY <2>1, <2>3 DEF OnceInv
    <3> HIDE DEF e
    <3>3. PublishedOnce'
      BY <2>1, <2>3, <3>1, <3>2 DEF OnceInv, PublishedOnce
    <3> QED
      BY <2>1, <3>1, <3>2, <3>3 DEF OnceInv
  <2> QED
    BY <2>2, <2>3
<1>10. ASSUME NEW c \in Sockets, SaveFails(c) PROVE OnceInv'
  <2> DEFINE e == task[c].event
  <2>1. /\ e \in Events
        /\ \A p \in Sockets : p # c => task'[p] = task[p]
        /\ task'[c] = [pc |-> "reply", event |-> e]
    <3>1. e \in Events /\ [task[c] EXCEPT !.pc = "reply"] = [pc |-> "reply", event |-> e]
      BY <1>10, TaskMoves, TaskTyped DEF SaveFails
    <3> QED
      BY <1>10, <3>1 DEF SaveFails, Go, TypeOK
  <2>2. CASE UNCHANGED <<stored, fate>>
    BY <1>1, <2>1, <2>2
  <2>3. CASE e \notin stored /\ stored' = stored \cup {e} /\ fate' = [fate EXCEPT ![e] = "dropped"]
    <3>1. \A p \in Sockets : task'[p].pc = "ok" => task'[p] = task[p] /\ task[p].event \in stored
      BY <2>1 DEF OnceInv
    <3>2. \A d \in Events : d # e => fate'[d] = fate[d]
      BY <2>3 DEF TypeOK
    <3> HIDE DEF e
    <3>3. \A p \in Sockets : task'[p].pc = "ok" => task[p].event # e /\ task[p].event \in Events
      BY <2>3, <3>1 DEF TypeOK
    <3> QED
      BY <2>3, <3>1, <3>2, <3>3 DEF OnceInv, PublishedOnce
  <2> QED
    BY <1>10, <2>2, <2>3 DEF SaveFails
<1>11. ASSUME NEW c \in Sockets, Announce(c) PROVE OnceInv'
  <2>1. /\ task[c].event \in Events /\ fate' = [fate EXCEPT ![task[c].event] = "announced"]
        /\ stored' = stored /\ task' = [task EXCEPT ![c] = [pc |-> "send"]]
    BY <1>11, TaskMoves, TaskTyped DEF Announce, Go
  <2> QED
    BY <2>1, <1>11 DEF Announce, OnceInv, PublishedOnce, TypeOK
<1>12. ASSUME NEW c \in Sockets, Reply(c) \/ Broadcasted(c) \/ Query(c) \/ EndReplay(c) \/ QueryFails(c) PROVE OnceInv'
  BY <1>1, <1>2, <1>3, <1>12 DEF Reply, Broadcasted, Query, EndReplay, QueryFails
<1>13. ASSUME NEW c \in Sockets, Replay(c) PROVE OnceInv'
  <2>1. PICK e \in task[c].todo : Go(c, [task[c] EXCEPT !.todo = task[c].todo \ {e}])
    BY <1>13 DEF Replay
  <2>2. [task[c] EXCEPT !.todo = task[c].todo \ {e}].pc = "replay"
    BY <1>13, TaskMoves, TaskTyped DEF Replay
  <2> QED
    BY <1>1, <1>2, <1>13, <2>1, <2>2 DEF Replay
<1>14. ASSUME NEW s \in sends, Deliver(s) PROVE OnceInv'
  BY <1>1, <1>14 DEF Deliver, relayVars
<1>15. ASSUME NEW e \in Receipts, StoreReceipt(e) \/ WorkerBroadcast(e) PROVE OnceInv'
  BY <1>1, <1>15 DEF StoreReceipt, WorkerBroadcast, relayVars
<1>16. ASSUME WorkerFlag \/ WorkerTimeout PROVE OnceInv'
  BY <1>1, <1>16 DEF WorkerFlag, WorkerTimeout, relayVars
<1>17. ASSUME UNCHANGED vars PROVE OnceInv'
  BY <1>1, <1>17 DEF vars, relayVars
<1> QED
  BY <1>4, <1>5, <1>6, <1>7, <1>8, <1>9, <1>10, <1>11, <1>12, <1>13, <1>14, <1>15, <1>16, <1>17
     DEF Next, Handle, WorkerRuns

-----------------------------------------------------------------------------
(* Subscriptions, and the worker.                                          *)

LEMMA SubsStep ==
  ASSUME TypeOK, SubsInv, [Next]_vars
  PROVE  SubsInv'
<1> USE RelayAssumption DEF RelayAssumption
<1>1. Receiving.pc = "receive" /\ [pc |-> "send"].pc = "send"
  BY DEF Receiving
<1>2. ASSUME NEW c \in Sockets, Drop(c) PROVE SubsInv'
  BY <1>1, <1>2 DEF SubsInv, TypeOK, Drop, Go
<1>3. ASSUME NEW c \in Sockets, NEW t, t.pc \notin {"query", "replay"}, Go(c, t), UNCHANGED <<phase, subs, eose>>
      PROVE  SubsInv'
  BY <1>3 DEF SubsInv, TypeOK, Go
<1>4. ASSUME NEW c \in Sockets, NEW e \in Events, ReceiveEvent(c, e) PROVE SubsInv'
  BY <1>3, <1>4 DEF ReceiveEvent, clientVars
<1>5. ASSUME NEW c \in Sockets, NEW i \in SubIds, NEW f \in FilterLists, ReceiveReq(c, i, f) PROVE SubsInv'
  <2>1. /\ phase' = phase /\ phase[c] = "open" /\ f # Null
        /\ task' = [task EXCEPT ![c] = [pc |-> "query", sub |-> i]]
        /\ subs' = [subs EXCEPT ![c][i] = f] /\ eose' = [eose EXCEPT ![c] = @ \ {i}]
    BY <1>5 DEF ReceiveReq, Reset, Go
  <2> QED
    BY <2>1 DEF SubsInv, TypeOK
<1>6. ASSUME NEW c \in Sockets, NEW i \in SubIds, CloseSub(c, i) PROVE SubsInv'
  <2>1. /\ phase' = phase /\ phase[c] = "open" /\ task[c].pc = "receive" /\ task' = task
        /\ subs' = [subs EXCEPT ![c][i] = Null] /\ eose' = [eose EXCEPT ![c] = @ \ {i}]
    BY <1>6 DEF CloseSub, Reset
  <2> QED
    BY <2>1 DEF SubsInv, TypeOK
<1>7. ASSUME NEW c \in Sockets, Save(c) \/ SaveFails(c) PROVE SubsInv'
  <2>1. \A pc \in {"ok", "reply"} : [task[c] EXCEPT !.pc = pc].pc = pc
    BY <1>7, TaskMoves DEF Save, SaveFails
  <2>2. PICK pc \in {"ok", "reply"} : Go(c, [task[c] EXCEPT !.pc = pc])
    BY <1>7 DEF Save, SaveFails
  <2>3. UNCHANGED <<phase, subs, eose>>
    BY <1>7 DEF Save, SaveFails, clientVars
  <2> DEFINE t == [task[c] EXCEPT !.pc = pc]
  <2>4. t.pc \notin {"query", "replay"} /\ Go(c, t)
    BY <2>1, <2>2
  <2> HIDE DEF t
  <2> QED
    BY <1>3, <2>3, <2>4
<1>8. ASSUME NEW c \in Sockets, Reply(c) \/ Announce(c) \/ Broadcasted(c) PROVE SubsInv'
  BY <1>1, <1>3, <1>8 DEF Reply, Announce, Broadcasted, clientVars
<1>9. ASSUME NEW c \in Sockets, Query(c) PROVE SubsInv'
  <2> DEFINE S == {e \in stored \cap subs[c][task[c].sub] : ~Hidden(e)}
  <2>1. /\ task' = [task EXCEPT ![c] = [pc |-> "replay", sub |-> task[c].sub, todo |-> S]]
        /\ task[c].pc = "query" /\ UNCHANGED <<phase, subs, eose>>
    BY <1>9 DEF Query, Go, clientVars
  <2> HIDE DEF S
  <2> QED
    BY <2>1 DEF SubsInv, TypeOK
<1>10. ASSUME NEW c \in Sockets, QueryFails(c) PROVE SubsInv'
  <2>1. /\ phase' = phase /\ task[c].pc = "query" /\ task' = [task EXCEPT ![c] = Receiving]
        /\ subs' = [subs EXCEPT ![c][task[c].sub] = Null] /\ eose' = [eose EXCEPT ![c] = @ \ {task[c].sub}]
    BY <1>10 DEF QueryFails, Reset, Go
  <2>2. task[c].sub \in SubIds
    BY <2>1, TaskMoves, TaskTyped
  <2> QED
    BY <1>1, <2>1, <2>2 DEF SubsInv, TypeOK
<1>11. ASSUME NEW c \in Sockets, Replay(c) PROVE SubsInv'
  <2>1. PICK e \in task[c].todo : Go(c, [task[c] EXCEPT !.todo = task[c].todo \ {e}])
    BY <1>11 DEF Replay
  <2>2. /\ [task[c] EXCEPT !.todo = task[c].todo \ {e}].sub = task[c].sub
        /\ task[c].pc = "replay" /\ UNCHANGED <<phase, subs, eose>>
    BY <1>11, TaskMoves, TaskTyped DEF Replay
  <2> QED
    BY <2>1, <2>2 DEF SubsInv, TypeOK, Go
<1>12. ASSUME NEW c \in Sockets, EndReplay(c) PROVE SubsInv'
  <2>1. /\ task' = [task EXCEPT ![c] = Receiving] /\ task[c].pc = "replay"
        /\ eose' = [eose EXCEPT ![c] = @ \cup {task[c].sub}] /\ UNCHANGED <<phase, subs>>
        /\ phase[c] = "open"
    BY <1>12, TaskMoves DEF EndReplay, Go
  <2> QED
    BY <1>1, <2>1 DEF SubsInv, TypeOK
<1>13. ASSUME NEW c \in Sockets, Connect(c) \/ PeerLost(c) PROVE SubsInv'
  BY <1>13 DEF Connect, PeerLost, clientVars, SubsInv, TypeOK
<1>14. ASSUME UNCHANGED <<phase, subs, task, eose>> PROVE SubsInv'
  BY <1>14 DEF SubsInv
<1>15. ASSUME NEW s \in sends, Deliver(s) PROVE SubsInv'
  BY <1>14, <1>15 DEF Deliver, relayVars
<1>16. ASSUME WorkerRuns \/ WorkerTimeout \/ UNCHANGED vars PROVE SubsInv'
  BY <1>14, <1>16 DEF WorkerRuns, WorkerTimeout, StoreReceipt, WorkerBroadcast, WorkerFlag, vars, relayVars, clientVars
<1> QED
  BY <1>2, <1>4, <1>5, <1>6, <1>7, <1>8, <1>9, <1>10, <1>11, <1>12, <1>13, <1>15, <1>16
     DEF Next, Handle, Disconnect, SendRaises, HandlerFails

LEMMA WorkerStep ==
  ASSUME TypeOK, WorkerInv, [Next]_vars
  PROVE  WorkerInv'
<1> USE RelayAssumption DEF RelayAssumption
<1>1. ASSUME stored \subseteq stored', UNCHANGED <<worker, flagged>>,
             \A s \in sends' : s \in sends \/ s.by # Worker
      PROVE  WorkerInv'
  BY <1>1 DEF WorkerInv
<1>2. ASSUME NEW c \in Sockets, Handle(c) \/ SaveFails(c) \/ QueryFails(c) PROVE WorkerInv'
  <2>1. stored \subseteq stored' /\ UNCHANGED <<worker, flagged>>
    BY <1>2 DEF Handle, Save, Reply, Announce, Broadcasted, Query, Replay, EndReplay, SaveFails, QueryFails
  <2>2. \A s \in sends' : s \in sends \/ s.by # Worker
    BY <1>2 DEF Handle, Save, Reply, Announce, Broadcasted, Query, Replay, EndReplay, SaveFails, QueryFails,
                Audience, Worker
  <2> QED
    BY <1>1, <2>1, <2>2
<1>3. ASSUME NEW c \in Sockets,
             \/ Connect(c) \/ PeerLost(c) \/ Disconnect(c) \/ SendRaises(c) \/ HandlerFails(c)
             \/ \E e \in Events : ReceiveEvent(c, e)
             \/ \E i \in SubIds, f \in FilterLists : ReceiveReq(c, i, f)
             \/ \E i \in SubIds : CloseSub(c, i)
      PROVE  WorkerInv'
  BY <1>1, <1>3 DEF Connect, PeerLost, Disconnect, SendRaises, HandlerFails, ReceiveEvent, ReceiveReq, CloseSub
<1>4. ASSUME NEW s \in sends, Deliver(s) PROVE WorkerInv'
  BY <1>1, <1>4 DEF Deliver
<1>5. ASSUME NEW e \in Receipts, StoreReceipt(e) PROVE WorkerInv'
  BY <1>1, <1>5 DEF StoreReceipt
<1>6. ASSUME NEW e \in Receipts, WorkerBroadcast(e) PROVE WorkerInv'
  <2>1. \A s \in sends : s.by # Worker
    BY <1>6 DEF WorkerBroadcast, WorkerInv, TypeOK, Sends
  <2> QED
    BY <1>6, <2>1 DEF WorkerBroadcast, WorkerInv, TypeOK, Audience
<1>7. ASSUME WorkerFlag \/ WorkerTimeout PROVE WorkerInv'
  BY <1>7 DEF WorkerFlag, WorkerTimeout, WorkerInv
<1>8. ASSUME UNCHANGED vars PROVE WorkerInv'
  BY <1>1, <1>8 DEF vars
<1> QED
  BY <1>2, <1>3, <1>4, <1>5, <1>6, <1>7, <1>8 DEF Next, WorkerRuns

-----------------------------------------------------------------------------
(* Replay and live delivery.                                               *)

\* A broadcast reaches every subscription that has its replay of e behind it.
LEMMA AudienceReaches ==
  ASSUME TypeOK, SubsInv, NEW by \in Senders, NEW c \in Sockets, NEW i \in SubIds, NEW e \in Events,
         Due(c, i, e)
  PROVE  [by |-> by, to |-> c, sub |-> i, event |-> e] \in Audience(by, e)
<1>1. phase[c] = "open" /\ e \in subs[c][i] /\ subs[c][i] # Null
  BY DEF Due, Replayed, SubsInv
<1> QED
  BY <1>1 DEF Audience, Sends

LEMMA GapStep ==
  ASSUME Inv, TypeOK', [Next]_vars
  PROVE  GapInv'
<1> USE RelayAssumption DEF RelayAssumption
<1> SUFFICES ASSUME NEW d \in Sockets, NEW i \in SubIds, NEW e \in Events, Due(d, i, e)'
             PROVE  Coming(d, i, e)'
  BY DEF GapInv
<1> TypeOK /\ OnceInv /\ SubsInv /\ WorkerInv /\ (Due(d, i, e) => Coming(d, i, e))
  BY DEF Inv, GapInv
\* What does not depend on the action.
<1>1. ASSUME stored \subseteq stored', ~Hidden(e)' PROVE ~Hidden(e)
  BY <1>1 DEF Hidden
<1>2. ASSUME NEW c \in Sockets, NEW t, Go(c, t), task[c].pc # "ok", Announcing(e) PROVE Announcing(e)'
  BY <1>2 DEF Announcing, Go, TypeOK
<1>3. Receiving.pc = "receive" /\ [pc |-> "send"].pc = "send"
  BY DEF Receiving
\* A handler goes on, and neither the events nor the subscriptions change.
<1>4. ASSUME NEW c \in Sockets, NEW t, Go(c, t), task[c].pc # "ok", t.pc # "replay",
             UNCHANGED <<phase, peer, subs, stored, sends, worker, flagged, clientVars, fate>>
      PROVE  Coming(d, i, e)'
  <2>1. Due(d, i, e)
    BY <1>4 DEF Due, Replayed, Hidden, Go, TypeOK, clientVars
  <2> QED
    BY <1>2, <1>4, <2>1 DEF Coming, Sending, Pending, clientVars
<1>5. ASSUME NEW c \in Sockets, Drop(c), UNCHANGED <<peer, stored, sends, worker, flagged>>,
             \/ task[c].pc # "ok" /\ fate' = fate
             \/ task[c].pc = "ok" /\ fate' = [fate EXCEPT ![task[c].event] = "dropped"]
      PROVE  Coming(d, i, e)'
  <2>1. d # c
    BY <1>5 DEF Drop, Due, TypeOK
  <2>2. Due(d, i, e) /\ heard'[d] = heard[d]
    BY <1>5, <2>1 DEF Drop, Due, Replayed, Hidden, Go, TypeOK
  <2>3. Sending(d, i, e)' <=> Sending(d, i, e)
    BY <1>5 DEF Sending
  <2>4. Pending(e)' <=> Pending(e)
    BY <1>5 DEF Pending
  <2>5. CASE task[c].pc # "ok" /\ fate' = fate
    BY <1>2, <1>5, <2>2, <2>3, <2>4, <2>5 DEF Coming, Drop
  <2>6. CASE task[c].pc = "ok" /\ fate' = [fate EXCEPT ![task[c].event] = "dropped"]
    <3>1. CASE e = task[c].event
      BY <2>6, <3>1 DEF Coming, TypeOK
    <3>2. CASE e # task[c].event
      <4>1. Announcing(e) => Announcing(e)'
        BY <1>5, <3>2 DEF Announcing, Drop, Go, TypeOK
      <4>2. fate'[e] = fate[e]
        BY <2>6, <3>2 DEF TypeOK
      <4> QED
        BY <2>2, <2>3, <2>4, <4>1, <4>2 DEF Coming
    <3> QED
      BY <3>1, <3>2
  <2> QED
    BY <1>5, <2>5, <2>6
<1>6. ASSUME NEW c \in Sockets, Disconnect(c) \/ SendRaises(c) \/ HandlerFails(c) PROVE Coming(d, i, e)'
  BY <1>5, <1>6 DEF Disconnect, SendRaises, HandlerFails
<1>7. ASSUME NEW c \in Sockets, Connect(c) \/ PeerLost(c) PROVE Coming(d, i, e)'
  <2>1. Due(d, i, e)
    <3>1. CASE Connect(c)
      <4>1. eose[c] = {} /\ task[c].pc = "receive"
        BY <1>3, <3>1 DEF Connect, SubsInv, TypeOK
      <4> QED
        BY <3>1, <4>1 DEF Connect, Due, Replayed, Hidden, TypeOK, clientVars
    <3>2. CASE PeerLost(c)
      BY <3>2 DEF PeerLost, Due, Replayed, Hidden, TypeOK, clientVars
    <3> QED
      BY <1>7, <3>1, <3>2
  <2>2. UNCHANGED <<task, sends, worker, flagged, heard, fate>>
    BY <1>7 DEF Connect, PeerLost, clientVars
  <2> QED
    BY <2>1, <2>2 DEF Coming, Announcing, Sending, Pending
<1>8. ASSUME NEW c \in Sockets, NEW f \in Events, ReceiveEvent(c, f) PROVE Coming(d, i, e)'
  BY <1>4, <1>8 DEF ReceiveEvent
\* A REQ, a CLOSE or a failed query: the subscription concerned is not due.
<1>9. ASSUME NEW c \in Sockets, NEW j \in SubIds, NEW f, subs' = [subs EXCEPT ![c][j] = f], Reset(c, j),
             task'[c].pc # "replay", \A p \in Sockets : p # c => task'[p] = task[p],
             task[c].pc # "ok", UNCHANGED <<phase, peer, stored, sends, worker, flagged, fate>>
      PROVE  Coming(d, i, e)'
  <2>1. ~(d = c /\ i = j)
    BY <1>9 DEF Reset, Due, Replayed, TypeOK
  <2>2. Due(d, i, e) /\ (<<i, e>> \in heard[d] => <<i, e>> \in heard'[d])
    BY <1>9, <2>1 DEF Reset, Due, Replayed, Hidden, TypeOK
  <2>3. Announcing(e) => Announcing(e)'
    BY <1>9 DEF Announcing
  <2> QED
    BY <1>9, <2>2, <2>3 DEF Coming, Sending, Pending
<1>10. ASSUME NEW c \in Sockets, NEW j \in SubIds, NEW f \in FilterLists, ReceiveReq(c, j, f) PROVE Coming(d, i, e)'
  <2>1. task' = [task EXCEPT ![c] = [pc |-> "query", sub |-> j]]
    BY <1>10 DEF ReceiveReq, Go
  <2>2. task'[c].pc = "query" /\ \A p \in Sockets : p # c => task'[p] = task[p]
    BY <2>1 DEF TypeOK
  <2> QED
    BY <1>9, <1>10, <2>2 DEF ReceiveReq
<1>11. ASSUME NEW c \in Sockets, NEW j \in SubIds, CloseSub(c, j) PROVE Coming(d, i, e)'
  BY <1>9, <1>11 DEF CloseSub
<1>12. ASSUME NEW c \in Sockets, QueryFails(c) PROVE Coming(d, i, e)'
  <2>1. task' = [task EXCEPT ![c] = Receiving] /\ task[c].pc = "query" /\ task[c].sub \in SubIds
    BY <1>12, TaskMoves, TaskTyped DEF QueryFails, Go
  <2>2. task'[c].pc = "receive" /\ \A p \in Sockets : p # c => task'[p] = task[p]
    BY <1>3, <2>1 DEF TypeOK
  <2>3. /\ subs' = [subs EXCEPT ![c][task[c].sub] = Null] /\ Reset(c, task[c].sub)
        /\ UNCHANGED <<phase, peer, stored, sends, worker, flagged, fate>>
    BY <1>12 DEF QueryFails
  <2>4. task'[c].pc # "replay" /\ task[c].pc # "ok"
    BY <2>1, <2>2
  <2> DEFINE j == task[c].sub
             f == Null
  <2>5. /\ j \in SubIds /\ subs' = [subs EXCEPT ![c][j] = f] /\ Reset(c, j)
    BY <2>1, <2>3
  <2> HIDE DEF j, f
  <2> QED
    BY <1>9, <2>2, <2>3, <2>4, <2>5
\* An event is stored: it is new, or nothing changes for d.
<1>13. ASSUME NEW c \in Sockets, task[c].pc = "save", NEW pc \in {"ok", "reply"},
              Go(c, [task[c] EXCEPT !.pc = pc]),
              UNCHANGED <<phase, peer, subs, sends, worker, flagged, clientVars>>,
              \/ UNCHANGED <<stored, fate>>
              \/ /\ task[c].event \notin stored /\ stored' = stored \cup {task[c].event}
                 /\ \/ pc = "ok" /\ fate' = fate
                    \/ fate' = [fate EXCEPT ![task[c].event] = "dropped"]
       PROVE  Coming(d, i, e)'
  <2>1. /\ task[c].event \in Events /\ task'[c] = [pc |-> pc, event |-> task[c].event]
        /\ \A p \in Sockets : p # c => task'[p] = task[p]
    <3>1. task[c].event \in Events /\ [task[c] EXCEPT !.pc = pc] = [pc |-> pc, event |-> task[c].event]
      BY <1>13, TaskMoves, TaskTyped
    <3> QED
      BY <1>13, <3>1 DEF Go, TypeOK
  <2>2. Announcing(e) => Announcing(e)'
    BY <1>2, <1>13
  <2>3. CASE e \in stored
    <3>1. Due(d, i, e)
      BY <1>13, <2>1, <2>3, <1>1 DEF Due, Replayed, clientVars
    <3>2. fate'[e] = fate[e]
      BY <1>13, <2>3 DEF TypeOK
    <3> QED
      BY <1>13, <2>2, <3>1, <3>2 DEF Coming, Sending, Pending, clientVars
  <2>4. CASE e \notin stored
    <3>1. e = task[c].event /\ stored' # stored
      BY <1>13, <2>4 DEF Due
    <3>2. CASE pc = "ok"
      <4>1. Announcing(e)'
        BY <2>1, <3>1, <3>2 DEF Announcing
      <4> QED
        BY <4>1 DEF Coming
    <3>3. CASE fate' = [fate EXCEPT ![task[c].event] = "dropped"]
      BY <3>1, <3>3 DEF Coming, TypeOK
    <3> QED
      BY <1>13, <3>1, <3>2, <3>3
  <2> QED
    BY <2>3, <2>4
<1>14. ASSUME NEW c \in Sockets, Save(c) PROVE Coming(d, i, e)'
  <2> DEFINE pc == IF task[c].event \in stored THEN "reply" ELSE "ok"
  <2>1. /\ pc \in {"ok", "reply"} /\ Go(c, [task[c] EXCEPT !.pc = pc])
        /\ task[c].pc = "save" /\ UNCHANGED <<phase, peer, subs, sends, worker, flagged, clientVars, fate>>
    BY <1>14 DEF Save
  <2>2. \/ stored' = stored
        \/ task[c].event \notin stored /\ stored' = stored \cup {task[c].event} /\ pc = "ok"
    BY <1>14 DEF Save
  <2> HIDE DEF pc
  <2> QED
    BY <1>13, <2>1, <2>2
<1>15. ASSUME NEW c \in Sockets, SaveFails(c) PROVE Coming(d, i, e)'
  BY <1>13, <1>15 DEF SaveFails
<1>16. ASSUME NEW c \in Sockets, Reply(c) \/ Broadcasted(c) PROVE Coming(d, i, e)'
  BY <1>3, <1>4, <1>16 DEF Reply, Broadcasted
<1>17. ASSUME NEW c \in Sockets, Announce(c) PROVE Coming(d, i, e)'
  <2> DEFINE f == task[c].event
  <2>1. /\ task' = [task EXCEPT ![c] = [pc |-> "send"]] /\ fate' = [fate EXCEPT ![f] = "announced"]
        /\ sends' = sends \cup Audience(c, f) /\ task[c].pc = "ok"
        /\ UNCHANGED <<phase, peer, subs, stored, worker, flagged, heard, eose>>
    BY <1>17 DEF Announce, Go, clientVars
  <2>2. Due(d, i, e)
    BY <1>3, <2>1 DEF Due, Replayed, Hidden, TypeOK
  <2>3. CASE e = f
    <3>1. [by |-> c, to |-> d, sub |-> i, event |-> e] \in sends'
      BY <2>1, <2>2, <2>3, AudienceReaches DEF Senders
    <3> QED
      BY <3>1 DEF Coming, Sending
  <2>4. CASE e # f
    <3>1. Announcing(e) => Announcing(e)'
      BY <2>1, <2>4 DEF Announcing, TypeOK
    <3>2. fate'[e] = fate[e]
      BY <2>1, <2>4 DEF TypeOK
    <3> QED
      BY <2>1, <2>2, <3>1, <3>2 DEF Coming, Sending, Pending
  <2> QED
    BY <2>3, <2>4
<1>18. ASSUME NEW c \in Sockets, Query(c) PROVE Coming(d, i, e)'
  <2> DEFINE S == {g \in stored \cap subs[c][task[c].sub] : ~Hidden(g)}
  <2>1. /\ task' = [task EXCEPT ![c] = [pc |-> "replay", sub |-> task[c].sub, todo |-> S]]
        /\ task[c].pc = "query" /\ UNCHANGED <<phase, peer, subs, stored, sends, worker, flagged, heard, eose, fate>>
    BY <1>18 DEF Query, Go, clientVars
  <2>2. ~(d = c /\ i = task[c].sub /\ e \notin S)
    BY <1>1, <2>1 DEF Due
  <2> HIDE DEF S
  <2>3. Due(d, i, e)
    BY <1>1, <2>1, <2>2 DEF Due, Replayed, TypeOK
  <2>4. Announcing(e) => Announcing(e)'
    BY <1>2, <1>18 DEF Query
  <2> QED
    BY <2>1, <2>3, <2>4 DEF Coming, Sending, Pending
<1>19. ASSUME NEW c \in Sockets, Replay(c) PROVE Coming(d, i, e)'
  <2>1. PICK g \in task[c].todo :
          /\ Go(c, [task[c] EXCEPT !.todo = task[c].todo \ {g}])
          /\ IF peer[c] THEN Hear(c, task[c].sub, g) ELSE UNCHANGED heard
    BY <1>19 DEF Replay
  <2> DEFINE S == task[c].todo \ {g}
  <2>2. /\ task[c].pc = "replay"
        /\ UNCHANGED <<phase, peer, subs, stored, sends, worker, flagged, eose, fate>>
    BY <1>19 DEF Replay
  <2>3. [task[c] EXCEPT !.todo = S] = [pc |-> "replay", sub |-> task[c].sub, todo |-> S]
    <3>1. task[c] \in Tasks
      BY TaskMoves
    <3>2. S \in SUBSET Events
      BY <2>2, <3>1, TaskTyped
    <3> HIDE DEF S
    <3> QED
      BY <2>2, <3>2, TaskMoves
  <2>4. task' = [task EXCEPT ![c] = [pc |-> "replay", sub |-> task[c].sub, todo |-> S]]
    BY <2>1, <2>3 DEF Go
  <2>5. Announcing(e) => Announcing(e)'
    BY <1>2, <2>1, <2>2
  <2>6. CASE d = c /\ i = task[c].sub /\ e = g
    <3>1. <<i, e>> \in heard'[d]
      BY <2>1, <2>2, <2>6 DEF Due, Hear, TypeOK
    <3> QED
      BY <3>1 DEF Coming
  <2>7. CASE ~(d = c /\ i = task[c].sub /\ e = g)
    <3>1. Due(d, i, e)
      BY <1>1, <2>2, <2>4, <2>7 DEF Due, Replayed, TypeOK
    <3>2. heard' = heard \/ heard' = [heard EXCEPT ![c] = heard[c] \cup {<<task[c].sub, g>>}]
      BY <2>1 DEF Hear
    <3>3. heard[d] \subseteq heard'[d]
      <4>1. heard \in [Sockets -> SUBSET (SubIds \X Events)]
        BY DEF TypeOK
      <4>2. heard'[d] = heard[d] \/ heard'[d] = heard[d] \cup {<<task[c].sub, g>>}
        BY <3>2, <4>1
      <4> QED
        BY <4>2
    <3> QED
      BY <2>2, <2>5, <3>1, <3>3 DEF Coming, Sending, Pending
  <2> QED
    BY <2>6, <2>7
<1>20. ASSUME NEW c \in Sockets, EndReplay(c) PROVE Coming(d, i, e)'
  <2>1. /\ task' = [task EXCEPT ![c] = Receiving] /\ task[c].pc = "replay" /\ task[c].todo = {}
        /\ eose' = [eose EXCEPT ![c] = @ \cup {task[c].sub}]
        /\ UNCHANGED <<phase, peer, subs, stored, sends, worker, flagged, heard, fate>>
    BY <1>20 DEF EndReplay, Go
  <2>2. Due(d, i, e)
    BY <1>1, <1>3, <2>1 DEF Due, Replayed, TypeOK
  <2>3. Announcing(e) => Announcing(e)'
    BY <1>2, <1>20 DEF EndReplay
  <2> QED
    BY <2>1, <2>2, <2>3 DEF Coming, Sending, Pending
<1>21. ASSUME NEW s \in sends, Deliver(s) PROVE Coming(d, i, e)'
  <2>1. /\ sends' = sends \ {s}
        /\ UNCHANGED <<phase, peer, subs, task, stored, worker, flagged, eose, fate>>
        /\ s.to \in Sockets
    BY <1>21 DEF Deliver, relayVars, TypeOK, Sends
  <2>2. Due(d, i, e)
    BY <2>1 DEF Due, Replayed, Hidden
  <2>3. <<i, e>> \in heard[d] => <<i, e>> \in heard'[d]
    BY <1>21, <2>1 DEF Deliver, Hear, TypeOK
  <2>4. CASE s.to = d /\ s.sub = i /\ s.event = e
    <3>1. <<i, e>> \in heard'[d]
      BY <1>21, <2>2, <2>4 DEF Due, Deliver, Hear, TypeOK
    <3> QED
      BY <3>1 DEF Coming
  <2>5. CASE ~(s.to = d /\ s.sub = i /\ s.event = e)
    <3>1. Sending(d, i, e) => Sending(d, i, e)'
      BY <2>1, <2>5 DEF Sending
    <3> QED
      BY <2>1, <2>2, <2>3, <3>1 DEF Coming, Announcing, Pending
  <2> QED
    BY <2>4, <2>5
<1>22. ASSUME NEW f \in Receipts, StoreReceipt(f) PROVE Coming(d, i, e)'
  <2>1. /\ f \notin stored /\ stored' = stored \cup {f} /\ worker = Null
        /\ UNCHANGED <<phase, peer, subs, task, sends, worker, flagged, heard, eose, fate>>
    BY <1>22 DEF StoreReceipt, relayVars, clientVars
  <2>2. CASE e = f
    BY <2>1, <2>2 DEF Coming, Pending, WorkerInv
  <2>3. CASE e # f
    <3>1. Due(d, i, e)
      BY <1>1, <2>1, <2>3 DEF Due, Replayed
    <3> QED
      BY <2>1, <3>1 DEF Coming, Announcing, Sending, Pending
  <2> QED
    BY <2>2, <2>3
<1>23. ASSUME NEW f \in Receipts, WorkerBroadcast(f) PROVE Coming(d, i, e)'
  <2>1. /\ worker' = f /\ sends' = sends \cup Audience(Worker, f)
        /\ UNCHANGED <<phase, peer, subs, task, stored, flagged, heard, eose, fate>>
    BY <1>23 DEF WorkerBroadcast, relayVars, clientVars
  <2>2. Due(d, i, e)
    BY <2>1 DEF Due, Replayed, Hidden
  <2>3. CASE e = f
    <3>1. [by |-> Worker, to |-> d, sub |-> i, event |-> e] \in sends'
      BY <2>1, <2>2, <2>3, AudienceReaches DEF Senders
    <3> QED
      BY <3>1 DEF Coming, Sending
  <2>4. CASE e # f
    BY <2>1, <2>2, <2>4 DEF Coming, Announcing, Sending, Pending
  <2> QED
    BY <2>3, <2>4
<1>24. ASSUME WorkerTimeout PROVE Coming(d, i, e)'
  <2>1. /\ worker # Null /\ worker' = Null /\ sends' = {s \in sends : s.by # Worker}
        /\ UNCHANGED <<phase, peer, subs, task, stored, flagged, heard, eose, fate>>
    BY <1>24 DEF WorkerTimeout, relayVars, clientVars
  <2>2. Due(d, i, e)
    BY <2>1 DEF Due, Replayed, Hidden
  <2>3. CASE e = worker
    BY <2>1, <2>3 DEF Coming, Pending, WorkerInv, TypeOK
  <2>4. CASE e # worker
    <3>1. Sending(d, i, e) => Sending(d, i, e)'
      BY <2>1, <2>4 DEF Sending, WorkerInv
    <3> QED
      BY <2>1, <2>2, <3>1 DEF Coming, Announcing, Pending
  <2> QED
    BY <2>3, <2>4
<1>25. ASSUME WorkerFlag PROVE Coming(d, i, e)'
  <2>1. /\ worker' = Null /\ flagged' = flagged \cup {worker}
        /\ UNCHANGED <<phase, peer, subs, task, stored, sends, heard, eose, fate>>
    BY <1>25 DEF WorkerFlag, relayVars, clientVars
  <2>2. Due(d, i, e)
    BY <2>1 DEF Due, Replayed, Hidden
  <2> QED
    BY <2>1, <2>2 DEF Coming, Announcing, Sending, Pending
<1>26. ASSUME UNCHANGED vars PROVE Coming(d, i, e)'
  <2>1. UNCHANGED <<phase, peer, subs, task, stored, sends, worker, flagged, heard, eose, fate>>
    BY <1>26 DEF vars, relayVars, clientVars
  <2>2. Due(d, i, e)
    BY <2>1 DEF Due, Replayed, Hidden
  <2> QED
    BY <2>1, <2>2 DEF Coming, Announcing, Sending, Pending
<1> QED
  BY <1>6, <1>7, <1>8, <1>10, <1>11, <1>12, <1>14, <1>15, <1>16, <1>17, <1>18, <1>19, <1>20, <1>21,
     <1>22, <1>23, <1>24, <1>25, <1>26 DEF Next, Handle, WorkerRuns

-----------------------------------------------------------------------------
(***************************************************************************)
(* Inv is inductive: who announces an event, what is registered, what the  *)
(* worker broadcasts, and what each subscription is still due, across      *)
(* every interleaving of main.py's handlers.                               *)
(***************************************************************************)
THEOREM RelayInductive == Spec => []Inv
<1>1. Init => Inv
  <2> SUFFICES ASSUME Init PROVE Inv
    OBVIOUS
  <2>1. TypeOK
    BY RelayAssumption, TasksMade DEF RelayAssumption, Init, TypeOK, NoSubs
  <2>2. \A c \in Sockets : task[c].pc = "receive" /\ eose[c] = {}
    BY DEF Init, Receiving
  <2>3. OnceInv /\ SubsInv /\ WorkerInv
    BY <2>2 DEF Init, OnceInv, PublishedOnce, SubsInv, WorkerInv
  <2>4. GapInv
    BY <2>2 DEF GapInv, Due, Replayed
  <2> QED
    BY <2>1, <2>3, <2>4 DEF Inv
<1>2. Inv /\ [Next]_vars => Inv'
  <2> SUFFICES ASSUME Inv, [Next]_vars PROVE Inv'
    OBVIOUS
  <2>1. TypeOK /\ OnceInv /\ SubsInv /\ WorkerInv
    BY DEF Inv
  <2>2. TypeOK'
    BY <2>1, TypeStep
  <2> QED
    BY <2>1, <2>2, OnceStep, SubsStep, WorkerStep, GapStep DEF Inv
<1> QED
  BY <1>1, <1>2, PTL DEF Spec

(***************************************************************************)
(* Types, and a closed websocket leaves neither subscriptions nor a        *)
(* handler behind (disconnect in main.py).                                 *)
(***************************************************************************)
THEOREM RelayTyped == Spec => []TypeOK
<1>1. Inv => TypeOK
  BY DEF Inv
<1> QED
  BY <1>1, RelayInductive, PTL

(***************************************************************************)
(* However many clients publish an event at once, one handler broadcasts   *)
(* it (_handle_event in main.py).                                          *)
(***************************************************************************)
THEOREM EventPublishedOnce == Spec => []PublishedOnce
<1>1. Inv => PublishedOnce
  BY DEF Inv, OnceInv
<1> QED
  BY <1>1, RelayInductive, PTL

(***************************************************************************)
(* Between its replay and live delivery a subscription misses no visible   *)
(* event but those whose broadcast was dropped (_handle_req and broadcast  *)
(* in main.py).                                                            *)
(***************************************************************************)
THEOREM SubscriptionsHaveNoGap == Spec => []NoGap
<1>1. Inv => NoGap
  <2> SUFFICES ASSUME Inv, NEW c \in Sockets, NEW i \in SubIds, NEW e \in Events, Missed(c, i, e)
               PROVE  fate[e] = "dropped"
    BY DEF NoGap
  <2>1. Due(c, i, e)
    BY DEF Missed, Live, Due, Replayed
  <2>2. Coming(c, i, e)
    BY <2>1 DEF Inv, GapInv
  <2> QED
    BY <2>2 DEF Coming, Sending, Announcing, Pending, Missed, OnItsWay
<1> QED
  BY <1>1, RelayInductive, PTL

=============================================================================
