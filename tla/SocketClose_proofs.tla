------------------------- MODULE SocketClose_proofs -------------------------
(***************************************************************************)
(* Proofs about SocketClose, for any number of tasks that close and send    *)
(* and any bounds on the client.                                            *)
(***************************************************************************)
EXTENDS SocketClose, TLAPS

\* What a task writes: the serving loop control frames, a closing task its
\* Close and the answers to Pings inside a message, a sender data.
WritesItsOwn ==
    \A t \in Tasks : pc[t] \in {"write", "writing"} =>
        /\ t = Reader => frame[t] \in {"pong", "inner pong", "close"}
        /\ t \in Closers \cup Waiters => frame[t] \in {"inner pong", "close"}
        /\ t \in Senders => frame[t] = "text"

\* A sender neither reads nor closes.
SendersOnlySend ==
    \A t \in Senders : pc[t] \in {"idle", "write", "writing", "done"}

\* Only the serving loop reads, and answers Pings, before a Close frame is out.
WaitsAfterClose ==
    \A t \in Tasks \ {Reader} :
        \/ pc[t] \in {"read", "receive"}
        \/ pc[t] \in {"write", "writing"} /\ frame[t] = "inner pong"
        => closeSent

\* The shutdown begins when the Close frame is out or cannot be sent.
ShutsAfterClose ==
    \A t \in Tasks : pc[t] \in {"shutdown", "shutting", "closing"} => closeSent \/ reset

\* The status is stored after a Close frame and the shutdown.
StoresLast ==
    \A t \in Tasks :
        /\ stores[t] => closeSent
        /\ pc[t] = "store" => shut /\ stores[t]

\* The inductive invariant: none of the properties is inductive without the
\* others and these five facts about where a task is.
Inv ==
    /\ TypeOK
    /\ WritesItsOwn
    /\ SendersOnlySend
    /\ WaitsAfterClose
    /\ ShutsAfterClose
    /\ StoresLast
    /\ ReaderLeavesNothingOpen
    /\ OkMeansShut
    /\ StatusAfterShutdown
    /\ CloseBeforeShutdown

\* The parts of Inv besides the types.
Order ==
    /\ WritesItsOwn
    /\ SendersOnlySend
    /\ WaitsAfterClose
    /\ ShutsAfterClose
    /\ StoresLast
    /\ ReaderLeavesNothingOpen
    /\ OkMeansShut
    /\ StatusAfterShutdown
    /\ CloseBeforeShutdown

LEMMA InitInv == Init => Inv
<1> SUFFICES ASSUME Init PROVE Inv
  OBVIOUS
<1> USE TasksAssumption, InputsAssumption
<1>1. TypeOK
  <2>1. NoRequest \in Request
    BY DEF NoRequest, Request
  <2>2. incoming \in Seq(ClientFrames) /\ outgoing \in Seq(ServerFrames)
    BY DEF Init
  <2>3. /\ pc \in [Tasks -> Labels]
        /\ frame \in [Tasks -> ServerFrames]
        /\ request \in [Tasks -> Request]
        /\ stores \in [Tasks -> BOOLEAN]
        /\ result \in [Tasks -> {"none", "ok", "error"}]
    BY <2>1 DEF Init, Labels, ServerFrames
  <2>4. Held
    BY DEF Init, Held, Tasks
  <2> QED BY <2>2, <2>3, <2>4 DEF Init, TypeOK
<1>2. Order
  BY <1>1 DEF Init, TypeOK, Order, WritesItsOwn, SendersOnlySend, WaitsAfterClose, ShutsAfterClose,
     StoresLast,
     ReaderLeavesNothingOpen, OkMeansShut, StatusAfterShutdown, CloseBeforeShutdown, Tasks
<1> QED BY <1>1, <1>2 DEF Inv, Order

-----------------------------------------------------------------------------
(* Types *)

LEMMA Roles ==
    /\ Reader \in Tasks /\ Closers \subseteq Tasks /\ Waiters \subseteq Tasks /\ Senders \subseteq Tasks
    /\ Reader \notin Closers \cup Waiters \cup Senders
    /\ Null \notin Tasks
BY TasksAssumption DEF Tasks

\* After a write, done or failed, a task reads on, closes, shuts down or has
\* ended.
LEMMA AfterWriteMoves ==
    ASSUME TypeOK, NEW t \in Tasks, NEW ok \in BOOLEAN, AfterWrite(t, ok)
    PROVE  /\ \E l \in {"read", "write", "shutdown", "done"} : pc' = [pc EXCEPT ![t] = l]
           /\ frame' \in [Tasks -> ServerFrames]
           /\ request' \in [Tasks -> Request]
           /\ stores' \in [Tasks -> BOOLEAN]
           /\ result' \in [Tasks -> {"none", "ok", "error"}]
<1>1. CASE frame[t] = "close"
  <2>1. AfterClose(t, ok) /\ UNCHANGED <<frame, request>>
    BY <1>1 DEF AfterWrite
  <2>2. /\ \E l \in {"read", "shutdown"} : pc' = [pc EXCEPT ![t] = l]
        /\ result' = result
    BY <2>1 DEF AfterClose, Goto
  <2>3. stores' \in [Tasks -> BOOLEAN]
    BY <2>1 DEF AfterClose, TypeOK
  <2> QED BY <2>1, <2>2, <2>3 DEF TypeOK
<1>2. CASE frame[t] = "inner pong"
  <2>1. AfterInnerPong(t, ok) /\ UNCHANGED stores
    BY <1>2 DEF AfterWrite
  <2>2. CASE t = Reader /\ ~ok
    <3>1. [clean |-> FALSE, early |-> FALSE] \in Request
      BY DEF Request
    <3>2. /\ pc' = [pc EXCEPT ![t] = "write"]
          /\ frame' = [frame EXCEPT ![t] = "close"]
          /\ request' = [request EXCEPT ![t] = [clean |-> FALSE, early |-> FALSE]]
          /\ UNCHANGED result
      BY <2>1, <2>2 DEF AfterInnerPong, Closes, Sends, Goto
    <3> QED BY <2>1, <3>1, <3>2 DEF TypeOK, ServerFrames
  <2>3. CASE ~(t = Reader /\ ~ok)
    <3>1. /\ IF ok THEN Goto(t, "read") ELSE Finish(t, "error")
          /\ UNCHANGED <<frame, request>>
      BY <2>1, <2>3 DEF AfterInnerPong
    <3> QED BY <2>1, <3>1 DEF Goto, Finish, TypeOK
  <2> QED BY <2>2, <2>3
<1>3. CASE frame[t] \in {"text", "pong"}
  <2>1. UNCHANGED <<frame, request, stores>>
    BY <1>3 DEF AfterWrite
  <2>2. CASE frame[t] = "pong" /\ ok
    BY <1>3, <2>1, <2>2 DEF AfterWrite, Goto, TypeOK
  <2>3. CASE ~(frame[t] = "pong" /\ ok)
    <3>1. Finish(t, IF ok THEN "ok" ELSE "error")
      BY <1>3, <2>3 DEF AfterWrite
    <3> QED BY <2>1, <3>1 DEF Finish, TypeOK
  <2> QED BY <2>2, <2>3
<1>4. frame[t] \in ServerFrames
  BY DEF TypeOK
<1> QED BY <1>1, <1>2, <1>3, <1>4 DEF ServerFrames

LEMMA TypeStep ==
    ASSUME TypeOK, [Next]_vars
    PROVE  TypeOK'
<1> USE Roles, InputsAssumption
<1>1. ASSUME NEW f \in Frames, ClientSends(f) PROVE TypeOK'
  BY <1>1 DEF ClientSends, TypeOK, Held, wire, tasks
<1>2. CASE ClientReads
  <2>1. outgoing' \in Seq(ServerFrames) /\ closeSeen' \in BOOLEAN
    BY <1>2 DEF ClientReads, TypeOK
  <2> QED BY <1>2, <2>1 DEF ClientReads, TypeOK, Held, tasks
<1>3. CASE ClientEnds
  <2>0. "close" \in ClientFrames /\ incoming \in Seq(ClientFrames)
    BY DEF TypeOK, ClientFrames
  <2>1. Append(incoming, "close") \in Seq(ClientFrames)
    BY <2>0
  <2>2. incoming' \in Seq(ClientFrames)
    BY <1>3, <2>1 DEF ClientEnds, TypeOK
  <2> QED BY <1>3, <2>2 DEF ClientEnds, TypeOK, Held, wire, tasks
<1>4. CASE Resets
  <2>0. <<>> \in Seq(ClientFrames) /\ incoming \in Seq(ClientFrames)
    BY DEF TypeOK
  <2>1. incoming' \in Seq(ClientFrames)
    BY <1>4, <2>0 DEF Resets
  <2> QED BY <1>4, <2>1 DEF Resets, TypeOK, Held, wire, tasks
<1>5. ASSUME NEW t \in Tasks, CallSend(t) PROVE TypeOK'
  BY <1>5 DEF CallSend, Sends, Goto, TypeOK, Held, wire, client, Labels, ServerFrames
<1>6. ASSUME NEW t \in Tasks, CallClose(t) PROVE TypeOK'
  <2>1. PICK q \in Requests : Closes(t, q.clean, q.early)
    BY <1>6 DEF CallClose
  <2>2. [clean |-> q.clean, early |-> q.early] \in Request
    BY DEF Request
  <2> QED BY <1>6, <2>1, <2>2 DEF CallClose, Closes, Sends, Goto, TypeOK, Held, wire, client,
          Labels, ServerFrames
<1>7. ASSUME NEW t \in Tasks, LockReader(t) PROVE TypeOK'
  BY <1>7 DEF LockReader, Goto, TypeOK, Held, wire, client, Labels
<1>8. ASSUME NEW t \in Tasks, LockWriter(t) PROVE TypeOK'
  BY <1>8 DEF LockWriter, Goto, TypeOK, Held, wire, client, Labels
<1>9. ASSUME NEW t \in Tasks, LockWriterToShut(t) PROVE TypeOK'
  BY <1>9 DEF LockWriterToShut, Goto, TypeOK, Held, wire, client, Labels
<1>10. ASSUME NEW t \in Tasks, PassReader(t) PROVE TypeOK'
  BY <1>10 DEF PassReader, Goto, TypeOK, Held, wire, client, Labels
<1>11. ASSUME NEW t \in Tasks, Receive(t) PROVE TypeOK'
  <2>1. Head(incoming) \in ClientFrames /\ incoming' \in Seq(ClientFrames)
    BY <1>11 DEF Receive, TypeOK
  <2>2. CASE t = Reader
    <3> DEFINE f == Head(incoming)
    <3>1. ASSUME f = "text" PROVE TypeOK'
      BY <1>11, <2>1, <2>2, <3>1 DEF Receive, ReaderGets, Closes, Sends, Goto, TypeOK, Held, wire, Labels
    <3>2. ASSUME f \in {"ping", "inner ping"} PROVE TypeOK'
      <4>1. PICK k \in {"pong", "inner pong"} : Sends(t, k) /\ UNCHANGED request
        BY <1>11, <2>2, <3>2 DEF Receive, ReaderGets
      <4> QED BY <1>11, <2>1, <4>1 DEF Receive, Sends, Goto, TypeOK, Held, wire, Labels, ServerFrames
    <3>3. ASSUME f \in {"close", "early close", "bad"} PROVE TypeOK'
      <4>1. PICK clean \in BOOLEAN, early \in BOOLEAN : Closes(t, clean, early)
        BY <1>11, <2>2, <3>3 DEF Receive, ReaderGets
      <4>2. [clean |-> clean, early |-> early] \in Request
        BY DEF Request
      <4> QED BY <1>11, <2>1, <4>1, <4>2 DEF Receive, Closes, Sends, Goto, TypeOK, Held, wire, Labels,
              ServerFrames
    <3> QED BY <2>1, <3>1, <3>2, <3>3 DEF ClientFrames
  <2>3. CASE t # Reader
    <3>1. /\ WaiterGets(t, Head(incoming))
          /\ pc[t] = "receive"
          /\ readLock' = Null
          /\ UNCHANGED <<sent, ended, reset, closeSeen, wire, status, writeLock, stores>>
      BY <1>11, <2>3 DEF Receive
    <3>2. CASE Head(incoming) = "inner ping"
      <4>1. Sends(t, "inner pong") /\ UNCHANGED request
        BY <3>1, <3>2 DEF WaiterGets
      <4> QED BY <2>1, <3>1, <4>1 DEF Sends, Goto, TypeOK, Held, wire, Labels, ServerFrames
    <3>3. CASE Head(incoming) # "inner ping"
      <4>1. /\ UNCHANGED <<frame, request>>
            /\ Goto(t, "read") \/ Goto(t, "shutdown") \/ Finish(t, "error")
        BY <3>1, <3>3 DEF WaiterGets
      <4>2. PICK l \in {"read", "shutdown", "done"} : pc' = [pc EXCEPT ![t] = l]
        BY <4>1 DEF Goto, Finish
      <4>3. result' \in [Tasks -> {"none", "ok", "error"}]
        BY <4>1 DEF Goto, Finish, TypeOK
      <4> QED BY <2>1, <3>1, <4>1, <4>2, <4>3 DEF TypeOK, Held, wire, Labels
    <3> QED BY <3>2, <3>3
  <2> QED BY <2>2, <2>3
<1>12. ASSUME NEW t \in Tasks, ReceiveFails(t) PROVE TypeOK'
  <2>1. CASE t = Reader
    <3>1. [clean |-> FALSE, early |-> TRUE] \in Request
      BY DEF Request
    <3>2. /\ UNCHANGED <<client, wire, status, writeLock, stores, result>>
          /\ readLock' = Null
          /\ pc' = [pc EXCEPT ![t] = "write"]
          /\ frame' = [frame EXCEPT ![t] = "close"]
          /\ request' = [request EXCEPT ![t] = [clean |-> FALSE, early |-> TRUE]]
      BY <1>12, <2>1 DEF ReceiveFails, Closes, Sends, Goto
    <3>3. request' \in [Tasks -> Request]
      BY <3>1, <3>2 DEF TypeOK
    <3>4. pc[t] = "receive"
      BY <1>12 DEF ReceiveFails
    <3> QED BY <3>2, <3>3, <3>4 DEF TypeOK, Held, wire, client, Labels, ServerFrames
  <2>2. CASE t # Reader
    BY <1>12, <2>2 DEF ReceiveFails, Finish, TypeOK, Held, wire, client, Labels
  <2> QED BY <2>1, <2>2
<1>13. ASSUME NEW t \in Tasks, Write(t) PROVE TypeOK'
  <2>1. frame[t] \in ServerFrames /\ outgoing \in Seq(ServerFrames)
    BY DEF TypeOK
  <2>2. /\ outgoing' \in Seq(ServerFrames)
        /\ closeSent' \in BOOLEAN /\ shut' = shut
    BY <1>13, <2>1 DEF Write, Puts, TypeOK
  <2>3. /\ UNCHANGED <<client, status, readLock>>
        /\ writeLock' = Null
        /\ pc[t] = "writing"
        /\ AfterWrite(t, TRUE)
    BY <1>13 DEF Write
  <2>4. PICK l \in {"read", "write", "shutdown", "done"} : pc' = [pc EXCEPT ![t] = l]
    BY <2>3, AfterWriteMoves
  <2>5. /\ frame' \in [Tasks -> ServerFrames] /\ request' \in [Tasks -> Request]
        /\ stores' \in [Tasks -> BOOLEAN]
        /\ result' \in [Tasks -> {"none", "ok", "error"}]
    BY <2>3, AfterWriteMoves
  <2> QED BY <2>2, <2>3, <2>4, <2>5 DEF TypeOK, Held, client, Labels
<1>14. ASSUME NEW t \in Tasks, WriteFails(t) PROVE TypeOK'
  <2>1. /\ UNCHANGED <<client, wire, status, readLock>>
        /\ writeLock' = Null
        /\ pc[t] = "writing"
        /\ AfterWrite(t, FALSE)
    BY <1>14 DEF WriteFails
  <2>2. PICK l \in {"read", "write", "shutdown", "done"} : pc' = [pc EXCEPT ![t] = l]
    BY <2>1, AfterWriteMoves
  <2>3. /\ frame' \in [Tasks -> ServerFrames] /\ request' \in [Tasks -> Request]
        /\ stores' \in [Tasks -> BOOLEAN]
        /\ result' \in [Tasks -> {"none", "ok", "error"}]
    BY <2>1, AfterWriteMoves
  <2> QED BY <2>1, <2>2, <2>3 DEF TypeOK, Held, wire, client, Labels
<1>15. ASSUME NEW t \in Tasks, Shutdown(t) PROVE TypeOK'
  <2>1. /\ UNCHANGED <<client, outgoing, closeSent, status, readLock, frame, request, stores>>
        /\ writeLock' = Null /\ pc[t] = "closing" /\ shut' \in BOOLEAN
    BY <1>15 DEF Shutdown, TypeOK
  <2>2. PICK l \in {"store", "done"} : pc' = [pc EXCEPT ![t] = l]
    BY <1>15 DEF Shutdown, Goto, Finish
  <2>3. result' \in [Tasks -> {"none", "ok", "error"}]
    BY <1>15 DEF Shutdown, Goto, Finish, TypeOK
  <2> QED BY <2>1, <2>2, <2>3 DEF TypeOK, Held, client, Labels
<1>16. ASSUME NEW t \in Tasks, Store(t) PROVE TypeOK'
  BY <1>16 DEF Store, Finish, TypeOK, Held, wire, client, Labels, Request
<1>17. CASE UNCHANGED vars
  BY <1>17 DEF vars, TypeOK, Held, wire, client, tasks
<1> QED BY <1>1, <1>2, <1>3, <1>4, <1>5, <1>6, <1>7, <1>8, <1>9, <1>10, <1>11, <1>12, <1>13,
           <1>14, <1>15, <1>16, <1>17 DEF Next, Client, Locks, Works

\* The state of a connection keeps its type, and each lock is held by exactly
\* the task that waits for bytes, or writes or shuts down.
THEOREM Typing == Spec => []TypeOK
<1>1. Init => TypeOK
  BY InitInv DEF Inv
<1>2. TypeOK /\ [Next]_vars => TypeOK'
  BY TypeStep
<1> QED BY <1>1, <1>2, PTL DEF Spec

-----------------------------------------------------------------------------
(* The order of a close *)

\* What the facts say of one task.
InOrder(t) ==
    /\ pc[t] \in {"write", "writing"} =>
        /\ t = Reader => frame[t] \in {"pong", "inner pong", "close"}
        /\ t \in Closers \cup Waiters => frame[t] \in {"inner pong", "close"}
        /\ t \in Senders => frame[t] = "text"
        /\ t # Reader /\ frame[t] = "inner pong" => closeSent
    /\ t \in Senders => pc[t] \in {"idle", "write", "writing", "done"}
    /\ t # Reader /\ pc[t] \in {"read", "receive"} => closeSent
    /\ pc[t] \in {"shutdown", "shutting", "closing"} => closeSent \/ reset
    /\ stores[t] => closeSent
    /\ pc[t] = "store" => shut /\ stores[t]
    /\ t = Reader /\ pc[t] = "done" => shut \/ reset
    /\ t \in Closers \cup Waiters /\ result[t] = "ok" => shut

AllInOrder == \A t \in Tasks : InOrder(t)

\* A step of t: the other tasks stay where they are, and what has happened to
\* the connection stays so.
StepOf(t) ==
    /\ \A u \in Tasks \ {t} : /\ pc'[u] = pc[u] /\ frame'[u] = frame[u]
                              /\ stores'[u] = stores[u] /\ result'[u] = result[u]
    /\ closeSent => closeSent'
    /\ shut => shut'
    /\ reset => reset'

LEMMA OrderOfTasks ==
    Order <=> AllInOrder /\ StatusAfterShutdown /\ CloseBeforeShutdown
<1> USE Roles, TasksAssumption
<1>1. ASSUME Order, NEW t \in Tasks PROVE InOrder(t)
  BY <1>1 DEF Order, InOrder, WritesItsOwn, SendersOnlySend, WaitsAfterClose, ShutsAfterClose,
     StoresLast, ReaderLeavesNothingOpen, OkMeansShut
<1>2. ASSUME \A t \in Tasks : InOrder(t)
      PROVE  /\ WritesItsOwn /\ SendersOnlySend /\ WaitsAfterClose /\ ShutsAfterClose /\ StoresLast
             /\ ReaderLeavesNothingOpen /\ OkMeansShut
  <2>1. WritesItsOwn
    BY <1>2 DEF InOrder, WritesItsOwn
  <2>2. SendersOnlySend
    BY <1>2 DEF InOrder, SendersOnlySend
  <2>3. WaitsAfterClose
    BY <1>2 DEF InOrder, WaitsAfterClose
  <2>4. ShutsAfterClose /\ StoresLast
    BY <1>2 DEF InOrder, ShutsAfterClose, StoresLast
  <2>5. ReaderLeavesNothingOpen /\ OkMeansShut
    BY <1>2 DEF InOrder, ReaderLeavesNothingOpen, OkMeansShut
  <2> QED BY <2>1, <2>2, <2>3, <2>4, <2>5
<1> QED BY <1>1, <1>2 DEF Order, AllInOrder

\* Only the task that moves has to be looked at.
LEMMA OthersKeepOrder ==
    ASSUME Order, NEW t \in Tasks, StepOf(t), InOrder(t)',
           StatusAfterShutdown', CloseBeforeShutdown'
    PROVE  Order'
<1>1. ASSUME NEW u \in Tasks, u # t PROVE InOrder(u)'
  <2>1. InOrder(u)
    BY OrderOfTasks DEF AllInOrder
  <2>2. /\ pc'[u] = pc[u] /\ frame'[u] = frame[u] /\ stores'[u] = stores[u] /\ result'[u] = result[u]
        /\ (closeSent => closeSent') /\ (shut => shut') /\ (reset => reset')
    BY <1>1 DEF StepOf
  <2> QED BY <2>1, <2>2 DEF InOrder
<1>2. AllInOrder'
  BY <1>1 DEF AllInOrder
<1>3. (AllInOrder /\ StatusAfterShutdown /\ CloseBeforeShutdown)' => Order'
  BY OrderOfTasks, PTL
<1> QED BY <1>2, <1>3

\* A step that shuts nothing down and stores no status.
LEMMA QuietStep ==
    ASSUME Order, NEW t \in Tasks, StepOf(t), InOrder(t)', UNCHANGED <<shut, status>>
    PROVE  Order'
<1>1. StatusAfterShutdown' /\ CloseBeforeShutdown'
  BY DEF Order, StepOf, StatusAfterShutdown, CloseBeforeShutdown
<1> QED BY <1>1, OthersKeepOrder

LEMMA OrderStep ==
    ASSUME Inv, [Next]_vars
    PROVE  Order'
<1> USE Roles, TasksAssumption
<1>0. TypeOK /\ Order /\ \A t \in Tasks : InOrder(t)
  BY OrderOfTasks DEF Inv, Order, AllInOrder
<1>t. /\ pc \in [Tasks -> Labels] /\ frame \in [Tasks -> ServerFrames]
      /\ stores \in [Tasks -> BOOLEAN] /\ result \in [Tasks -> {"none", "ok", "error"}]
  BY <1>0 DEF TypeOK
<1>1. CASE Client
  <2>1. UNCHANGED <<pc, frame, request, stores, result, closeSent, shut, status>> /\ (reset => reset')
    BY <1>1 DEF Client, ClientSends, ClientReads, ClientEnds, Resets, wire, tasks
  <2>2. InOrder(Reader)' /\ StepOf(Reader)
    BY <1>0, <2>1 DEF InOrder, StepOf
  <2> QED BY <1>0, <2>1, <2>2, QuietStep
<1>2. ASSUME NEW t \in Tasks, CallSend(t) PROVE Order'
  <2>1. /\ UNCHANGED <<stores, result, closeSent, shut, status, reset>>
        /\ t \in Senders
        /\ pc' = [pc EXCEPT ![t] = "write"]
        /\ frame' = [frame EXCEPT ![t] = "text"]
    BY <1>2 DEF CallSend, Sends, Goto, wire, client
  <2>2. InOrder(t)' /\ StepOf(t)
    BY <1>0, <1>t, <2>1 DEF InOrder, StepOf
  <2> QED BY <1>0, <2>1, <2>2, QuietStep
<1>3. ASSUME NEW t \in Tasks, CallClose(t) PROVE Order'
  <2>1. /\ UNCHANGED <<stores, result, closeSent, shut, status, reset>>
        /\ t \in Closers \cup Waiters
        /\ pc' = [pc EXCEPT ![t] = "write"]
        /\ frame' = [frame EXCEPT ![t] = "close"]
    BY <1>3 DEF CallClose, Closes, Sends, Goto, wire, client
  <2>2. InOrder(t)' /\ StepOf(t)
    BY <1>0, <1>t, <2>1 DEF InOrder, StepOf
  <2> QED BY <1>0, <2>1, <2>2, QuietStep
<1>4. ASSUME NEW t \in Tasks, Locks(t) PROVE Order'
  <2>1. UNCHANGED <<frame, stores, result, closeSent, shut, status, reset>>
    BY <1>4 DEF Locks, LockReader, LockWriter, LockWriterToShut, PassReader, Goto, wire, client
  <2>2. \/ pc[t] = "read" /\ pc' = [pc EXCEPT ![t] = "receive"]
        \/ pc[t] = "write" /\ pc' = [pc EXCEPT ![t] = "writing"]
        \/ pc[t] = "shutdown" /\ pc' = [pc EXCEPT ![t] = "shutting"]
        \/ pc[t] = "shutting" /\ pc' = [pc EXCEPT ![t] = "closing"]
    BY <1>4 DEF Locks, LockReader, LockWriter, LockWriterToShut, PassReader, Goto
  <2>3. InOrder(t)' /\ StepOf(t)
    BY <1>0, <1>t, <2>1, <2>2 DEF InOrder, StepOf
  <2> QED BY <1>0, <2>1, <2>3, QuietStep
<1>5. ASSUME NEW t \in Tasks, Receive(t) PROVE Order'
  <2>1. UNCHANGED <<stores, closeSent, shut, status, reset>> /\ pc[t] = "receive"
    BY <1>5 DEF Receive, wire
  <2>2. CASE t = Reader
    <3>1. /\ UNCHANGED result
          /\ \/ pc' = [pc EXCEPT ![t] = "read"] /\ UNCHANGED frame
             \/ /\ pc' = [pc EXCEPT ![t] = "write"]
                /\ \E k \in {"pong", "inner pong", "close"} : frame' = [frame EXCEPT ![t] = k]
      BY <1>5, <2>2 DEF Receive, ReaderGets, Closes, Sends, Goto
    <3>2. InOrder(t)' /\ StepOf(t)
      BY <1>0, <1>t, <2>1, <2>2, <3>1 DEF InOrder, StepOf
    <3> QED BY <1>0, <2>1, <3>2, QuietStep
  <2>3. CASE t # Reader
    <3>1. t \notin Senders /\ closeSent
      BY <1>0, <2>1, <2>3 DEF InOrder
    <3>2. CASE Head(incoming) = "inner ping"
      <4>1. /\ pc' = [pc EXCEPT ![t] = "write"]
            /\ frame' = [frame EXCEPT ![t] = "inner pong"]
            /\ UNCHANGED result
        BY <1>5, <2>3, <3>2 DEF Receive, WaiterGets, Sends, Goto
      <4>2. InOrder(t)' /\ StepOf(t)
        BY <1>0, <1>t, <2>1, <2>3, <3>1, <4>1 DEF InOrder, StepOf
      <4> QED BY <1>0, <2>1, <4>2, QuietStep
    <3>3. CASE Head(incoming) # "inner ping"
      <4>1. /\ UNCHANGED frame
            /\ \/ pc' \in {[pc EXCEPT ![t] = "read"], [pc EXCEPT ![t] = "shutdown"]} /\ UNCHANGED result
               \/ pc' = [pc EXCEPT ![t] = "done"] /\ result' = [result EXCEPT ![t] = "error"]
        BY <1>5, <2>3, <3>3 DEF Receive, WaiterGets, Goto, Finish
      <4>2. InOrder(t)' /\ StepOf(t)
        BY <1>0, <1>t, <2>1, <2>3, <3>1, <4>1 DEF InOrder, StepOf
      <4> QED BY <1>0, <2>1, <4>2, QuietStep
    <3> QED BY <3>2, <3>3
  <2> QED BY <2>2, <2>3
<1>6. ASSUME NEW t \in Tasks, ReceiveFails(t) PROVE Order'
  <2>1. UNCHANGED <<stores, closeSent, shut, status, reset>> /\ pc[t] = "receive"
    BY <1>6 DEF ReceiveFails, wire, client
  <2>2. CASE t = Reader
    <3>1. /\ pc' = [pc EXCEPT ![t] = "write"]
          /\ frame' = [frame EXCEPT ![t] = "close"]
          /\ UNCHANGED result
      BY <1>6, <2>2 DEF ReceiveFails, Closes, Sends, Goto
    <3>2. InOrder(t)' /\ StepOf(t)
      BY <1>0, <1>t, <2>1, <2>2, <3>1 DEF InOrder, StepOf
    <3> QED BY <1>0, <2>1, <3>2, QuietStep
  <2>3. CASE t # Reader
    <3>1. /\ pc' = [pc EXCEPT ![t] = "done"]
          /\ result' = [result EXCEPT ![t] = "error"]
          /\ UNCHANGED frame
      BY <1>6, <2>3 DEF ReceiveFails, Finish
    <3>2. InOrder(t)' /\ StepOf(t)
      BY <1>0, <1>t, <2>1, <2>3, <3>1 DEF InOrder, StepOf
    <3> QED BY <1>0, <2>1, <3>2, QuietStep
  <2> QED BY <2>2, <2>3
<1>7. ASSUME NEW t \in Tasks, Write(t) PROVE Order'
  <2>1. /\ UNCHANGED <<reset, shut, status>>
        /\ pc[t] = "writing"
        /\ closeSent' = (closeSent \/ frame[t] = "close")
        /\ AfterWrite(t, TRUE)
    BY <1>7 DEF Write, Puts, client
  <2>2. CASE frame[t] = "close"
    <3>1. /\ \E b \in BOOLEAN : stores' = [stores EXCEPT ![t] = b]
          /\ \E l \in {"read", "shutdown"} : pc' = [pc EXCEPT ![t] = l]
          /\ UNCHANGED <<frame, result>>
      BY <1>t, <2>1, <2>2 DEF AfterWrite, AfterClose, Goto
    <3>2. t \notin Senders
      BY <1>0, <2>1, <2>2 DEF InOrder
    <3>3. InOrder(t)' /\ StepOf(t)
      BY <1>0, <1>t, <2>1, <2>2, <3>1, <3>2 DEF InOrder, StepOf
    <3> QED BY <1>0, <2>1, <3>3, QuietStep
  <2>3. CASE frame[t] = "inner pong"
    <3>1. /\ UNCHANGED <<frame, stores, result>>
          /\ pc' = [pc EXCEPT ![t] = "read"]
      BY <2>1, <2>3 DEF AfterWrite, AfterInnerPong, Goto
    <3>2. InOrder(t)' /\ StepOf(t)
      BY <1>0, <1>t, <2>1, <2>3, <3>1 DEF InOrder, StepOf
    <3> QED BY <1>0, <2>1, <3>2, QuietStep
  <2>4. CASE frame[t] = "pong"
    <3>1. /\ UNCHANGED <<frame, stores, result>>
          /\ pc' = [pc EXCEPT ![t] = "read"]
      BY <2>1, <2>4 DEF AfterWrite, Goto
    <3>2. t = Reader
      BY <1>0, <2>1, <2>4 DEF InOrder, Tasks
    <3>3. InOrder(t)' /\ StepOf(t)
      BY <1>0, <1>t, <2>1, <3>1, <3>2 DEF InOrder, StepOf
    <3> QED BY <1>0, <2>1, <3>3, QuietStep
  <2>5. CASE frame[t] = "text"
    <3>1. /\ UNCHANGED <<frame, stores>>
          /\ pc' = [pc EXCEPT ![t] = "done"]
          /\ result' = [result EXCEPT ![t] = "ok"]
      BY <2>1, <2>5 DEF AfterWrite, Finish
    <3>2. t \in Senders /\ t # Reader /\ t \notin Closers \cup Waiters
      BY <1>0, <2>1, <2>5 DEF InOrder, Tasks
    <3>3. InOrder(t)' /\ StepOf(t)
      BY <1>0, <1>t, <2>1, <3>1, <3>2 DEF InOrder, StepOf
    <3> QED BY <1>0, <2>1, <3>3, QuietStep
  <2> QED BY <1>t, <2>2, <2>3, <2>4, <2>5 DEF ServerFrames
<1>8. ASSUME NEW t \in Tasks, WriteFails(t) PROVE Order'
  <2>1. /\ UNCHANGED <<reset, shut, closeSent, status>>
        /\ pc[t] = "writing"
        /\ shut \/ reset
        /\ AfterWrite(t, FALSE)
    BY <1>8 DEF WriteFails, wire, client
  <2>2. CASE frame[t] = "close"
    <3>1. /\ UNCHANGED <<frame, result>>
          /\ stores' = [stores EXCEPT ![t] = FALSE]
          /\ pc' = [pc EXCEPT ![t] = "shutdown"]
      BY <2>1, <2>2 DEF AfterWrite, AfterClose, Goto
    <3>2. closeSent \/ reset
      BY <1>0, <2>1 DEF Order, CloseBeforeShutdown
    <3>3. t \notin Senders
      BY <1>0, <2>1, <2>2 DEF InOrder
    <3>4. InOrder(t)' /\ StepOf(t)
      BY <1>0, <1>t, <2>1, <3>1, <3>2, <3>3 DEF InOrder, StepOf
    <3> QED BY <1>0, <2>1, <3>4, QuietStep
  <2>3. CASE frame[t] = "inner pong" /\ t = Reader
    <3>1. /\ UNCHANGED <<stores, result>>
          /\ pc' = [pc EXCEPT ![t] = "write"]
          /\ frame' = [frame EXCEPT ![t] = "close"]
      BY <2>1, <2>3 DEF AfterWrite, AfterInnerPong, Closes, Sends, Goto
    <3>2. InOrder(t)' /\ StepOf(t)
      BY <1>0, <1>t, <2>1, <2>3, <3>1 DEF InOrder, StepOf
    <3> QED BY <1>0, <2>1, <3>2, QuietStep
  <2>4. CASE frame[t] # "close" /\ ~(frame[t] = "inner pong" /\ t = Reader)
    <3>1. /\ UNCHANGED <<frame, stores>>
          /\ pc' = [pc EXCEPT ![t] = "done"]
          /\ result' = [result EXCEPT ![t] = "error"]
      BY <2>1, <2>4 DEF AfterWrite, AfterInnerPong, Finish
    <3>2. InOrder(t)' /\ StepOf(t)
      BY <1>0, <1>t, <2>1, <3>1 DEF InOrder, StepOf
    <3> QED BY <1>0, <2>1, <3>2, QuietStep
  <2> QED BY <2>2, <2>3, <2>4
<1>9. ASSUME NEW t \in Tasks, Shutdown(t) PROVE Order'
  <2>1. UNCHANGED <<closeSent, status, frame, stores, reset>> /\ pc[t] = "closing"
    BY <1>9 DEF Shutdown, client
  <2>2. (closeSent \/ reset) /\ t \notin Senders
    BY <1>0, <2>1 DEF InOrder
  <2>3. CASE shut' = TRUE /\ IF stores[t] THEN Goto(t, "store") ELSE Finish(t, "ok")
    <3>1. InOrder(t)' /\ StepOf(t)
      BY <1>0, <1>t, <2>1, <2>2, <2>3 DEF InOrder, StepOf, Goto, Finish
    <3>2. StatusAfterShutdown' /\ CloseBeforeShutdown'
      BY <1>0, <2>1, <2>2, <2>3 DEF Order, StatusAfterShutdown, CloseBeforeShutdown
    <3> QED BY <1>0, <3>1, <3>2, OthersKeepOrder
  <2>4. CASE reset /\ UNCHANGED shut /\ Finish(t, "error")
    <3>1. InOrder(t)' /\ StepOf(t)
      BY <1>0, <1>t, <2>1, <2>2, <2>4 DEF InOrder, StepOf, Finish
    <3> QED BY <1>0, <2>1, <2>4, <3>1, QuietStep
  <2> QED BY <1>9, <2>3, <2>4 DEF Shutdown
<1>10. ASSUME NEW t \in Tasks, Store(t) PROVE Order'
  <2>1. /\ UNCHANGED <<closeSent, shut, frame, stores, reset>>
        /\ pc[t] = "store"
        /\ pc' = [pc EXCEPT ![t] = "done"]
        /\ result' = [result EXCEPT ![t] = "ok"]
    BY <1>10 DEF Store, Finish, wire, client
  <2>2. shut /\ closeSent /\ t \notin Senders
    BY <1>0, <2>1 DEF InOrder
  <2>3. InOrder(t)' /\ StepOf(t)
    BY <1>0, <1>t, <2>1, <2>2 DEF InOrder, StepOf
  <2>4. StatusAfterShutdown' /\ CloseBeforeShutdown'
    BY <2>1, <2>2 DEF StatusAfterShutdown, CloseBeforeShutdown
  <2> QED BY <1>0, <2>3, <2>4, OthersKeepOrder
<1>11. CASE UNCHANGED vars
  <2>1. InOrder(Reader)' /\ StepOf(Reader)
    BY <1>0, <1>11 DEF InOrder, StepOf, vars, wire, client, tasks
  <2> QED BY <1>0, <1>11, <2>1, QuietStep DEF vars, wire
<1> QED BY <1>1, <1>2, <1>3, <1>4, <1>5, <1>6, <1>7, <1>8, <1>9, <1>10, <1>11 DEF Next, Works

LEMMA Invariant == Spec => []Inv
<1>1. Init => Inv
  BY InitInv
<1>2. Inv /\ [Next]_vars => Inv'
  BY TypeStep, OrderStep DEF Inv, Order
<1> QED BY <1>1, <1>2, PTL DEF Spec

\* Whatever ends the serving loop, the connection is then shut down or broken,
\* for any other tasks that send and close.
THEOREM LoopClosesConnection == Spec => []ReaderLeavesNothingOpen
<1>1. Inv => ReaderLeavesNothingOpen
  BY DEF Inv
<1> QED BY Invariant, <1>1, PTL

\* A close that returns Ok has shut the connection down.
THEOREM CloseShuts == Spec => []OkMeansShut
<1>1. Inv => OkMeansShut
  BY DEF Inv
<1> QED BY Invariant, <1>1, PTL

\* The status turns only after a Close frame and the shutdown.
THEOREM StatusComesLast == Spec => []StatusAfterShutdown
<1>1. Inv => StatusAfterShutdown
  BY DEF Inv
<1> QED BY Invariant, <1>1, PTL

\* No shutdown of a working connection without a Close frame.
THEOREM CloseComesFirst == Spec => []CloseBeforeShutdown
<1>1. Inv => CloseBeforeShutdown
  BY DEF Inv
<1> QED BY Invariant, <1>1, PTL
=============================================================================
