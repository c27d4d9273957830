------------------------- MODULE FrameWriter_proofs -------------------------
(***************************************************************************)
(* Proofs about FrameWriter, for any number of tasks, calls and bytes.     *)
(*                                                                         *)
(* The state that matters is a message the client has begun and not        *)
(* finished.  Such a message belongs to exactly one task inside its loop;  *)
(* under Discipline no other task can be about to write a data frame, so   *)
(* the next data frame continues it.                                       *)
(***************************************************************************)
EXTENDS FrameWriter, TLAPS

LEMMA AppendType ==
    ASSUME NEW S, NEW s \in Seq(S), NEW e \in S
    PROVE  Append(s, e) \in Seq(S)
OBVIOUS

LEMMA NoCallType == NoCall \in CallType
BY SizesAssumption DEF NoCall, CallType, Lengths

LEMMA TypeInit == Init => TypeOK
<1> USE SizesAssumption, TasksAssumption DEF Lengths
<1> SUFFICES ASSUME Init PROVE TypeOK
  OBVIOUS
<1>1. client \in ClientType
  BY DEF Init, ClientType
<1>2. delivered \in Seq(MessageType)
  BY DEF Init
<1>3. calls \in [Tasks -> 0..MaxCalls] /\ call \in [Tasks -> CallType]
  BY NoCallType DEF Init
<1>4. /\ pc \in [Tasks -> {"idle", "rooms", "send", "chunk"}]
      /\ roomLock \in Tasks \cup {NoTask} /\ broken \in BOOLEAN
  BY DEF Init
<1> QED BY <1>1, <1>2, <1>3, <1>4 DEF TypeOK

\* Type correctness of the write side of a connection.
THEOREM Typing == Spec => []TypeOK
<1> USE SizesAssumption, TasksAssumption DEF Lengths
<1>1. Init => TypeOK
  BY TypeInit
<1>2. TypeOK /\ [Next]_vars => TypeOK'
  <2> SUFFICES ASSUME TypeOK, [Next]_vars PROVE TypeOK'
    OBVIOUS
  <2>1. ASSUME NEW t \in Tasks, Send(t) PROVE TypeOK'
    BY SMTT(30), <2>1 DEF Send, BeginCall, WholePayload, TypeOK, CallType
  <2>2. ASSUME NEW t \in Tasks, SendLarge(t) PROVE TypeOK'
    <3>1. PICK len \in CallLengths, chunk \in ChunkSizes :
             BeginCall(t, [large |-> TRUE, chunk |-> chunk, total |-> len,
                           lo |-> 0, hi |-> 0, pos |-> 0], "chunk")
      BY <2>2 DEF SendLarge
    <3>2. [large |-> TRUE, chunk |-> chunk, total |-> len,
           lo |-> 0, hi |-> 0, pos |-> 0] \in CallType
      BY DEF CallType
    <3> QED BY <3>1, <3>2 DEF BeginCall, TypeOK
  <2>3. ASSUME NEW t \in Tasks, Broadcast(t) PROVE TypeOK'
    BY SMTT(30), <2>3 DEF Broadcast, BeginCall, WholePayload, TypeOK, CallType
  <2>4. ASSUME NEW t \in Tasks, LockRooms(t) PROVE TypeOK'
    BY <2>4 DEF LockRooms, TypeOK
  <2>5. ASSUME NEW t \in Tasks, NextChunk(t) PROVE TypeOK'
    <3> DEFINE c == call[t]
               end == IF c.hi + c.chunk < c.total THEN c.hi + c.chunk ELSE c.total
    <3>1. c \in CallType
      BY DEF TypeOK
    <3>2. end \in Lengths
      BY <3>1 DEF CallType
    <3>3. [c EXCEPT !.lo = c.hi, !.pos = c.hi, !.hi = end] \in CallType
      BY <3>1, <3>2 DEF CallType
    <3>4. CASE c.hi < c.total
      BY <2>5, <3>3, <3>4 DEF NextChunk, TypeOK
    <3>5. CASE ~(c.hi < c.total)
      BY <2>5, <3>5, NoCallType DEF NextChunk, Return, TypeOK
    <3> QED BY <3>4, <3>5
  <2>6. ASSUME NEW t \in Tasks, WriteFrame(t) PROVE TypeOK'
    <3>1. SliceEnd(call[t]) \in Lengths
      BY SMTT(30) DEF SliceEnd, TypeOK, CallType
    <3>2. Message(t) \in MessageType
      BY DEF Message, MessageType, TypeOK, CallType
    <3> DEFINE f == Frame(t)
    <3>a. f.msg \in MessageType /\ f.to \in Lengths
      BY <3>1, <3>2 DEF Frame
    <3>b. Receive(f)
      BY <2>6 DEF WriteFrame
    <3> HIDE DEF f
    <3>3. delivered' \in Seq(MessageType)
      <4>1. delivered' = delivered \/ delivered' = Append(delivered, f.msg)
        BY <3>b DEF Receive, Fail, Complete, Extend
      <4>2. delivered \in Seq(MessageType)
        BY DEF TypeOK
      <4> QED BY <4>1, <4>2, <3>a, AppendType
    <3>c. client' \in ClientType
      <4>1. \/ client' = client
            \/ client' = [client EXCEPT !.verdict = "error"]
            \/ client' = [client EXCEPT !.verdict = "mixed"]
            \/ client' = [client EXCEPT !.open = FALSE, !.msg = Nothing, !.upto = 0]
            \/ client' = [client EXCEPT !.open = TRUE, !.msg = f.msg, !.upto = f.to]
        BY <3>b DEF Receive, Fail, Complete, Extend
      <4>2. client \in ClientType
        BY DEF TypeOK
      <4>3. \A v \in {"error", "mixed"} : [client EXCEPT !.verdict = v] \in ClientType
        BY <4>2 DEF ClientType
      <4>4. [client EXCEPT !.open = FALSE, !.msg = Nothing, !.upto = 0] \in ClientType
        <5>1. 0 \in Lengths /\ Nothing \in MessageType \cup {Nothing}
          OBVIOUS
        <5> HIDE DEF Lengths
        <5> QED BY <4>2, <5>1 DEF ClientType
      <4>5. [client EXCEPT !.open = TRUE, !.msg = f.msg, !.upto = f.to] \in ClientType
        BY <4>2, <3>a DEF ClientType
      <4> QED BY <4>1, <4>2, <4>3, <4>4, <4>5
    <3>4. /\ pc' \in [Tasks -> {"idle", "rooms", "send", "chunk"}]
          /\ call' \in [Tasks -> CallType]
          /\ roomLock' \in Tasks \cup {NoTask}
          /\ calls' = calls /\ broken' = broken
      <4>1. [call[t] EXCEPT !.pos = SliceEnd(call[t])] \in CallType
        BY ZenonT(30), <3>1 DEF TypeOK, CallType
      <4> QED BY <2>6, <4>1, NoCallType DEF WriteFrame, Return, TypeOK
    <3> QED BY <3>3, <3>c, <3>4 DEF TypeOK
  <2>7. ASSUME NEW t \in Tasks, WriteFails(t) PROVE TypeOK'
    BY <2>7, NoCallType DEF WriteFails, Return, TypeOK
  <2>8. CASE Break
    BY <2>8 DEF Break, TypeOK
  <2>9. CASE UNCHANGED vars
    BY <2>9 DEF vars, TypeOK
  <2> QED BY <2>1, <2>2, <2>3, <2>4, <2>5, <2>6, <2>7, <2>8, <2>9 DEF Next, Step
<1> QED BY <1>1, <1>2, PTL DEF Spec

-----------------------------------------------------------------------------
(* What each task knows about its call *)

\* t has written the first frame of a message and not the last one.
Begun(t) == pc[t] = "send" /\ call[t].lo < call[t].pos

CallOK(t) ==
    /\ pc[t] = "send" => call[t].lo <= call[t].pos /\ call[t].pos <= call[t].hi
    /\ Begun(t) => call[t].pos < call[t].hi /\ call[t].lo + MaxPayload <= call[t].pos
    /\ t \in ControlTasks => ~Begun(t) /\ (pc[t] = "send" => call[t].lo = 0 /\ call[t].hi <= MaxPayload)
    /\ t \in BroadcastTasks /\ pc[t] = "send" => roomLock = t
    /\ pc[t] = "rooms" => t \in BroadcastTasks /\ call[t].lo = 0 /\ call[t].pos = 0
    /\ pc[t] = "chunk" => t \in DirectTasks
    /\ call[t].large => t \in DirectTasks

\* The client's open message is the one a task is in the middle of.
ClientOK ==
    /\ client.verdict = "ok"
    /\ ~broken /\ client.open => \E t \in Tasks : Begun(t)
    /\ ~broken => \A t \in Tasks :
          Begun(t) => /\ client.open
                      /\ client.msg = Message(t)
                      /\ client.upto = call[t].pos

IInv == TypeOK /\ (\A t \in Tasks : CallOK(t)) /\ ClientOK

\* The slice send_large takes next begins where the last one ended.
LEMMA NextChunkCall ==
    ASSUME TypeOK, NEW t \in Tasks, NextChunk(t), call[t].hi < call[t].total
    PROVE  /\ pc'[t] = "send"
           /\ call'[t].lo = call[t].hi /\ call'[t].pos = call[t].hi
           /\ call'[t].hi >= call[t].hi /\ call'[t].hi \in Nat
<1> DEFINE c == call[t]
           end == IF c.hi + c.chunk < c.total THEN c.hi + c.chunk ELSE c.total
<1>1. c \in CallType /\ call \in [Tasks -> CallType]
      /\ pc \in [Tasks -> {"idle", "rooms", "send", "chunk"}]
  BY DEF TypeOK
<1>2. end >= c.hi /\ end \in Nat
  BY <1>1, SizesAssumption DEF CallType, Lengths
<1>3. /\ pc' = [pc EXCEPT ![t] = "send"]
      /\ call' = [call EXCEPT ![t] = [c EXCEPT !.lo = c.hi, !.pos = c.hi, !.hi = end]]
  BY DEF NextChunk
<1>4. call'[t] = [c EXCEPT !.lo = c.hi, !.pos = c.hi, !.hi = end]
  BY <1>1, <1>3
<1> HIDE DEF end
<1> QED BY <1>1, <1>2, <1>3, <1>4 DEF CallType

\* Whatever step is taken, a task keeps knowing where it is in its call.
LEMMA CallStep ==
    ASSUME NEW u \in Tasks, TypeOK, CallOK(u), [Next]_vars
    PROVE  CallOK(u)'
<1> USE SizesAssumption, TasksAssumption DEF Lengths, Tasks, DataTasks
<1>0. /\ call[u] \in CallType
      /\ pc \in [Tasks -> {"idle", "rooms", "send", "chunk"}]
      /\ call \in [Tasks -> CallType]
  BY DEF TypeOK
<1>1. ASSUME NEW t \in Tasks, t # u, Send(t) \/ SendLarge(t) \/ Broadcast(t) \/ Step(t)
      PROVE  CallOK(u)'
  <2>1. pc'[u] = pc[u] /\ call'[u] = call[u]
    BY <1>0, <1>1 DEF Send, SendLarge, Broadcast, BeginCall, Step, LockRooms,
                      NextChunk, WriteFrame, WriteFails, Return
  <2>2. roomLock = u => roomLock' = u
    BY <1>0, <1>1 DEF Send, SendLarge, Broadcast, BeginCall, Step, LockRooms,
                      NextChunk, WriteFrame, WriteFails, Return
  <2> QED BY <2>1, <2>2 DEF CallOK, Begun
<1>2. CASE Send(u)
  <2>1. PICK len \in CallLengths :
           /\ u \in ControlTasks => len <= MaxPayload
           /\ BeginCall(u, WholePayload(len), "send")
    BY <1>2 DEF Send
  <2>2. pc'[u] = "send" /\ call'[u] = WholePayload(len)
    BY <1>0, <2>1 DEF BeginCall
  <2> QED BY <1>2, <2>1, <2>2 DEF Send, CallOK, Begun, WholePayload
<1>3. CASE SendLarge(u)
  <2>1. /\ pc'[u] = "chunk"
        /\ u \in DirectTasks
    BY <1>0, <1>3 DEF SendLarge, BeginCall
  <2> QED BY <2>1 DEF CallOK, Begun
<1>4. CASE Broadcast(u)
  <2>1. PICK len \in CallLengths : BeginCall(u, WholePayload(len), "rooms")
    BY <1>4 DEF Broadcast
  <2>2. pc'[u] = "rooms" /\ call'[u] = WholePayload(len)
    BY <1>0, <2>1 DEF BeginCall
  <2> QED BY <1>4, <2>2 DEF Broadcast, CallOK, Begun, WholePayload
<1>5. CASE LockRooms(u)
  <2>1. pc'[u] = "send" /\ call' = call /\ roomLock' = u /\ pc[u] = "rooms"
    BY <1>0, <1>5 DEF LockRooms
  <2> QED BY <1>0, <2>1 DEF CallOK, Begun, CallType
<1>6. CASE NextChunk(u)
  <2>1. u \in DirectTasks
    BY <1>6 DEF NextChunk, CallOK
  <2>2. CASE call[u].hi < call[u].total
    <3>1. /\ pc'[u] = "send"
          /\ call'[u].lo = call[u].hi /\ call'[u].pos = call[u].hi
          /\ call'[u].hi >= call[u].hi
      BY <1>6, <2>2, NextChunkCall
    <3> QED BY <1>0, <2>1, <3>1 DEF CallOK, Begun, CallType
  <2>3. CASE ~(call[u].hi < call[u].total)
    <3>1. pc'[u] = "idle" /\ call'[u] = NoCall
      BY <1>0, <1>6, <2>3 DEF NextChunk, Return
    <3> QED BY <2>1, <3>1 DEF CallOK, Begun
  <2> QED BY <2>2, <2>3
<1>7. CASE WriteFrame(u)
  <2>1. CASE call[u].large \/ SliceEnd(call[u]) # call[u].hi
    <3>1. /\ call'[u] = [call[u] EXCEPT !.pos = SliceEnd(call[u])]
          /\ pc'[u] = IF SliceEnd(call[u]) = call[u].hi THEN "chunk" ELSE "send"
          /\ roomLock' = roomLock /\ pc[u] = "send"
      BY <1>0, <1>7, <2>1 DEF WriteFrame
    <3>2. CASE SliceEnd(call[u]) = call[u].hi
      BY <1>0, <2>1, <3>1, <3>2 DEF CallOK, Begun, CallType
    <3>3. CASE SliceEnd(call[u]) # call[u].hi
      <4>1. call[u].pos + MaxPayload < call[u].hi
            /\ SliceEnd(call[u]) = call[u].pos + MaxPayload
        BY <1>0, <3>3 DEF SliceEnd, CallType
      <4> QED BY <1>0, <3>1, <3>3, <4>1 DEF CallOK, Begun, CallType
    <3> QED BY <3>2, <3>3
  <2>2. CASE ~(call[u].large \/ SliceEnd(call[u]) # call[u].hi)
    <3>1. pc'[u] = "idle" /\ call'[u] = NoCall
      BY <1>0, <1>7, <2>2 DEF WriteFrame, Return
    <3> QED BY <3>1 DEF CallOK, Begun, NoCall
  <2> QED BY <2>1, <2>2
<1>8. CASE WriteFails(u)
  <2>1. pc'[u] = "idle" /\ call'[u] = NoCall
    BY <1>0, <1>8 DEF WriteFails, Return
  <2> QED BY <2>1 DEF CallOK, Begun, NoCall
<1>9. CASE Break \/ UNCHANGED vars
  BY <1>9 DEF Break, vars, CallOK, Begun
<1> QED BY <1>1, <1>2, <1>3, <1>4, <1>5, <1>6, <1>7, <1>8, <1>9 DEF Next, Step

\* Under Discipline no other task is about to write a data frame while one
\* task is between two frames of a message.
LEMMA Exclusive ==
    ASSUME Discipline, TypeOK, \A v \in Tasks : CallOK(v),
           NEW t \in DataTasks, NEW u \in DataTasks, pc[t] = "send", Begun(u)
    PROVE  t = u
<1>1. t \in Tasks /\ u \in Tasks
  BY DEF Tasks
<1>2. CASE SingleFrames
  <2>1. call[u] \in CallType
    BY <1>1 DEF TypeOK
  <2> QED BY <1>1, <1>2, <2>1, SizesAssumption DEF SingleFrames, CallOK, CallType, Lengths
<1>3. CASE OneWriter
  <2>1. CASE t \in BroadcastTasks /\ u \in BroadcastTasks
    BY <1>1, <2>1 DEF CallOK, Begun
  <2>2. CASE t \in DirectTasks \/ u \in DirectTasks
    BY <1>3, <2>2 DEF OneWriter, DataTasks
  <2> QED BY <2>1, <2>2 DEF DataTasks
<1> QED BY <1>2, <1>3 DEF Discipline

\* When a task writes a frame: the client's side of the invariant, and what
\* the frame delivers.
LEMMA FrameStep ==
    ASSUME Discipline, IInv, TypeOK', NEW t \in Tasks, WriteFrame(t)
    PROVE  /\ ClientOK'
           /\ delivered' = IF SliceEnd(call[t]) = call[t].hi
                             THEN Append(delivered, Message(t)) ELSE delivered
<1> USE SizesAssumption, TasksAssumption
<1> DEFINE f == Frame(t)
           end == SliceEnd(call[t])
<1>1. /\ \A u \in Tasks : CallOK(u)
      /\ pc[t] = "send" /\ ~broken /\ ~broken' /\ calls' = calls
      /\ Receive(f)
  BY DEF IInv, WriteFrame
<1>2. /\ call[t] \in CallType /\ call \in [Tasks -> CallType]
      /\ pc \in [Tasks -> {"idle", "rooms", "send", "chunk"}]
      /\ client \in ClientType
  BY DEF IInv, TypeOK
<1>3. \A u \in Tasks : u # t => pc'[u] = pc[u] /\ call'[u] = call[u]
  BY <1>2 DEF WriteFrame, Return
<1>4. \A u \in Tasks : u # t => (Begun(u)' <=> Begun(u)) /\ Message(u)' = Message(u)
  BY <1>1, <1>3 DEF Begun, Message
<1>5. /\ end \in Nat /\ end <= call[t].hi
      /\ call[t].lo <= call[t].pos
      /\ end # call[t].hi => end = call[t].pos + MaxPayload
  BY <1>1, <1>2 DEF SliceEnd, CallType, CallOK, Lengths
<1>6. CASE t \in ControlTasks
  <2>1. end = call[t].hi /\ call[t].pos = call[t].lo /\ ~call[t].large
    BY <1>1, <1>2, <1>6 DEF SliceEnd, CallType, CallOK, Begun, Lengths, DataTasks
  <2>2. f.op = "control" /\ f.fin /\ f.msg = Message(t)
    BY <1>6, <2>1 DEF Frame
  <2> HIDE DEF f
  <2>3. client' = client /\ delivered' = Append(delivered, f.msg)
    BY <1>1, <2>2 DEF Receive, IInv, ClientOK
  <2>4. pc'[t] = "idle"
    BY <1>2, <2>1 DEF WriteFrame, Return
  <2>5. ~Begun(t) /\ ~Begun(t)'
    BY <1>1, <1>6, <2>4 DEF CallOK, Begun
  <2>6. ClientOK'
    BY <1>1, <1>3, <1>4, <2>3, <2>5 DEF IInv, ClientOK
  <2> QED BY <2>1, <2>2, <2>3, <2>6
<1>7. CASE t \in DataTasks
  <2>1. \A u \in Tasks : u # t => ~Begun(u)
    <3>1. \A u \in DataTasks : Begun(u) => t = u
      BY <1>1, <1>7, Exclusive DEF IInv
    <3>2. \A u \in ControlTasks : ~Begun(u)
      BY <1>1 DEF CallOK, Tasks
    <3> QED BY <3>1, <3>2 DEF Tasks
  <2>2. \A u \in Tasks : u # t => ~Begun(u)'
    BY <1>4, <2>1
  <2>3. client.verdict = "ok"
    BY DEF IInv, ClientOK
  <2>4. ~Begun(t) => ~client.open /\ f.op = "data"
    <3>1. ~Begun(t) => ~client.open
      BY <1>1, <2>1 DEF IInv, ClientOK
    <3>2. ~Begun(t) => call[t].pos = call[t].lo
      BY <1>1, <1>2, <1>5 DEF Begun, CallType, Lengths
    <3> QED BY <1>7, <3>1, <3>2 DEF Frame
  <2>5. Begun(t) => /\ client.open /\ f.op = "continuation"
                    /\ client.msg = f.msg /\ client.upto = f.from
    <3>1. Begun(t) => client.open /\ client.msg = Message(t) /\ client.upto = call[t].pos
      BY <1>1 DEF IInv, ClientOK
    <3>2. Begun(t) => call[t].pos # call[t].lo
      BY <1>2 DEF Begun, CallType, Lengths
    <3> QED BY <3>1, <3>2 DEF Frame
  <2>6. f.msg = Message(t) /\ f.to = end /\ (f.fin <=> end = call[t].hi)
    BY DEF Frame
  <2>7. CASE end = call[t].hi
    <3>1. f.fin
      BY <2>6, <2>7
    <3> HIDE DEF f
    <3>2. Complete(f)
      BY <1>1, <2>3, <2>4, <2>5, <3>1 DEF Receive
    <3>3. client'.verdict = "ok" /\ client'.open = FALSE
          /\ delivered' = Append(delivered, Message(t))
      BY <1>2, <2>3, <2>6, <3>2 DEF Complete, ClientType
    <3>4. pc'[t] # "send"
      BY <1>2, <2>7 DEF WriteFrame, Return
    <3> QED BY <2>2, <2>7, <3>3, <3>4 DEF ClientOK, Begun
  <2>8. CASE end # call[t].hi
    <3>1. ~f.fin
      BY <2>6, <2>8
    <3>2. /\ call' = [call EXCEPT ![t].pos = end]
          /\ pc' = [pc EXCEPT ![t] = "send"]
      BY <2>8 DEF WriteFrame
    <3>3. call'[t] = [call[t] EXCEPT !.pos = end] /\ pc'[t] = "send"
      BY <1>2, <3>2
    <3>4. Begun(t)' /\ Message(t)' = Message(t) /\ call'[t].pos = end
      BY <1>1, <1>2, <1>5, <2>8, <3>3 DEF Begun, Message, CallType, Lengths
    <3> HIDE DEF f, end
    <3>5. Extend(f)
      BY <1>1, <2>3, <2>4, <2>5, <3>1 DEF Receive
    <3>6. /\ client'.verdict = "ok" /\ client'.open = TRUE /\ delivered' = delivered
          /\ client'.msg = f.msg /\ client'.upto = f.to
      BY <1>2, <2>3, <3>5 DEF Extend, ClientType
    <3>7. ClientOK'
      BY <2>2, <2>6, <3>4, <3>6 DEF ClientOK
    <3> QED BY <2>8, <3>6, <3>7 DEF end
  <2> QED BY <2>7, <2>8
<1> QED BY <1>6, <1>7 DEF Tasks

\* The inductive invariant, for any number of tasks and any payload lengths.
LEMMA Inductive == ASSUME Discipline PROVE Spec => []IInv
<1>1. Init => IInv
  <2> SUFFICES ASSUME Init PROVE IInv
    OBVIOUS
  <2>1. TypeOK
    BY TypeInit
  <2>2. \A t \in Tasks : CallOK(t)
    BY DEF Init, CallOK, Begun, NoCall
  <2>3. ClientOK
    BY DEF Init, ClientOK, Begun
  <2> QED BY <2>1, <2>2, <2>3 DEF IInv
<1>2. IInv /\ TypeOK' /\ [Next]_vars => IInv'
  <2> SUFFICES ASSUME IInv, TypeOK', [Next]_vars PROVE IInv'
    OBVIOUS
  <2>1. \A u \in Tasks : CallOK(u)'
    BY CallStep DEF IInv
  <2>2. ASSUME NEW t \in Tasks, WriteFrame(t) PROVE ClientOK'
    BY <2>2, FrameStep
  <2>3. ASSUME Break PROVE ClientOK'
    <3>1. broken' /\ client' = client
      BY <2>3 DEF Break
    <3> QED BY <3>1 DEF IInv, ClientOK
  <2>4. ASSUME NEW t \in Tasks,
               Send(t) \/ SendLarge(t) \/ Broadcast(t) \/ LockRooms(t)
                 \/ NextChunk(t) \/ WriteFails(t)
        PROVE  ClientOK'
    <3>1. client' = client /\ broken' = broken
      BY <2>4 DEF Send, SendLarge, Broadcast, BeginCall, LockRooms, NextChunk, WriteFails
    <3>2. ASSUME NEW u \in Tasks, ~broken, Begun(u)' \/ Begun(u)
          PROVE  Begun(u)' /\ Begun(u) /\ Message(u)' = Message(u) /\ call'[u] = call[u]
      <4>1. CASE u = t
        <5>1. call[t] \in CallType /\ CallOK(t)
              /\ call \in [Tasks -> CallType]
              /\ pc \in [Tasks -> {"idle", "rooms", "send", "chunk"}]
          BY DEF IInv, TypeOK
        <5>2. ~Begun(t)
          BY <2>4, <3>2, <5>1 DEF Begun, Send, SendLarge, Broadcast, BeginCall, LockRooms,
             NextChunk, WriteFails
        <5>3. ~Begun(t)'
          <6>1. pc'[t] = "send" => call'[t].lo = call'[t].pos
            <7>1. CASE Send(t)
              <8>1. PICK len \in CallLengths : BeginCall(t, WholePayload(len), "send")
                BY <7>1 DEF Send
              <8>2. call'[t] = WholePayload(len)
                BY <5>1, <8>1 DEF BeginCall
              <8> QED BY <8>2 DEF WholePayload
            <7>2. CASE SendLarge(t) \/ Broadcast(t)
              BY <5>1, <7>2 DEF SendLarge, Broadcast, BeginCall
            <7>3. CASE LockRooms(t)
              BY <5>1, <7>3 DEF LockRooms, CallOK
            <7>4. CASE NextChunk(t)
              <8>1. CASE call[t].hi < call[t].total
                BY <7>4, <8>1, NextChunkCall DEF IInv, CallType, Lengths
              <8>2. CASE ~(call[t].hi < call[t].total)
                BY <5>1, <7>4, <8>2 DEF NextChunk, Return
              <8> QED BY <8>1, <8>2
            <7>5. CASE WriteFails(t)
              BY <5>1, <7>5 DEF WriteFails, Return
            <7> QED BY <2>4, <7>1, <7>2, <7>3, <7>4, <7>5
          <6>2. call'[t].pos \in Nat
            BY DEF TypeOK, CallType, Lengths
          <6> QED BY <6>1, <6>2 DEF Begun
        <5> QED BY <3>2, <4>1, <5>2, <5>3
      <4>2. CASE u # t
        <5>1. pc'[u] = pc[u] /\ call'[u] = call[u] /\ calls'[u] = calls[u]
          BY <2>4, <4>2 DEF IInv, TypeOK, Send, SendLarge, Broadcast, BeginCall, LockRooms,
             NextChunk, WriteFails, Return
        <5> QED BY <3>2, <5>1 DEF Begun, Message
      <4> QED BY <4>1, <4>2
    <3> QED BY <3>1, <3>2 DEF IInv, ClientOK
  <2>5. ClientOK'
    <3>1. CASE \E t \in Tasks : Send(t) \/ SendLarge(t) \/ Broadcast(t) \/ Step(t)
      BY <2>2, <2>4, <3>1 DEF Step
    <3>2. CASE UNCHANGED vars
      <4>1. \A t \in Tasks : (Begun(t)' <=> Begun(t)) /\ Message(t)' = Message(t)
        BY <3>2 DEF vars, Begun, Message
      <4>2. UNCHANGED <<client, broken, call>>
        BY <3>2 DEF vars
      <4> QED BY <4>1, <4>2 DEF IInv, ClientOK
    <3>3. \/ \E t \in Tasks : Send(t) \/ SendLarge(t) \/ Broadcast(t) \/ Step(t)
          \/ Break \/ UNCHANGED vars
      BY DEF Next
    <3> QED BY <2>3, <3>1, <3>2, <3>3
  <2> QED BY <2>1, <2>5 DEF IInv
<1> QED BY <1>1, <1>2, Typing, PTL DEF Spec

\* Under Discipline the client can decode everything the tasks write, for any
\* number of tasks and calls and any payload lengths.
THEOREM Decodes == ASSUME Discipline PROVE Spec => []ClientDecodes
<1>1. IInv => ClientDecodes
  BY DEF IInv, ClientOK, ClientDecodes
<1> QED BY <1>1, Inductive, PTL

-----------------------------------------------------------------------------
(* The order of messages *)

\* What the client has of a task comes before what the task is about to write.
SoFar(m, n, place, c) ==
    /\ m.n <= n
    /\ m.n = n =>
          /\ place # "rooms"
          /\ place = "send" => m.hi <= c.lo
          /\ place = "chunk" => m.hi <= c.hi

OrderInv ==
    /\ \A i \in DOMAIN delivered :
          LET t == delivered[i].from IN SoFar(delivered[i], calls[t], pc[t], call[t])
    /\ DeliveredInOrder

\* A frame adds its message to what the client has if it is the last of it.
LEMMA FrameDelivers ==
    ASSUME NEW t \in Tasks, WriteFrame(t)
    PROVE  \/ delivered' = delivered
           \/ delivered' = Append(delivered, Message(t)) /\ SliceEnd(call[t]) = call[t].hi
<1> DEFINE f == Frame(t)
<1>1. Receive(f)
  BY DEF WriteFrame
<1>2. f.msg = Message(t) /\ (f.fin <=> SliceEnd(call[t]) = call[t].hi)
  BY DEF Frame
<1> HIDE DEF f
<1> QED BY <1>1, <1>2 DEF Receive, Fail, Complete, Extend

\* A task goes on behind what it has written.
LEMMA GoesOn ==
    ASSUME TypeOK, NEW t \in Tasks, CallOK(t),
           Send(t) \/ SendLarge(t) \/ Broadcast(t) \/ Step(t),
           NEW m \in MessageType, m.from = t, SoFar(m, calls[t], pc[t], call[t])
    PROVE  SoFar(m, calls'[t], pc'[t], call'[t])
<1> USE SizesAssumption, TasksAssumption DEF Lengths
<1>0. /\ call[t] \in CallType /\ calls \in [Tasks -> 0..MaxCalls]
      /\ pc \in [Tasks -> {"idle", "rooms", "send", "chunk"}]
      /\ call \in [Tasks -> CallType]
      /\ m.n \in Nat /\ m.hi \in Nat /\ calls[t] \in Nat
      /\ call[t].lo \in Nat /\ call[t].hi \in Nat
  <2>1. /\ call[t] \in CallType /\ calls \in [Tasks -> 0..MaxCalls]
        /\ pc \in [Tasks -> {"idle", "rooms", "send", "chunk"}]
        /\ call \in [Tasks -> CallType]
    BY DEF TypeOK
  <2>2. calls[t] \in Nat
    BY <2>1
  <2>3. call[t].lo \in Nat /\ call[t].hi \in Nat
    BY <2>1 DEF CallType
  <2>4. m.n \in Nat /\ m.hi \in Nat
    BY DEF MessageType
  <2> QED BY <2>1, <2>2, <2>3, <2>4
<1>1. CASE Send(t) \/ SendLarge(t) \/ Broadcast(t)
  <2>1. calls'[t] = calls[t] + 1
    BY <1>0, <1>1 DEF Send, SendLarge, Broadcast, BeginCall
  <2> QED BY <1>0, <2>1 DEF SoFar
<1>2. CASE LockRooms(t)
  <2>1. pc[t] = "rooms" /\ calls' = calls
    BY <1>2 DEF LockRooms
  <2> QED BY <1>0, <2>1 DEF SoFar
<1>3. CASE NextChunk(t)
  <2>1. pc[t] = "chunk" /\ calls' = calls
    BY <1>3 DEF NextChunk
  <2>2. CASE call[t].hi < call[t].total
    <3>1. pc'[t] = "send" /\ call'[t].lo = call[t].hi
      BY <1>3, <2>2, NextChunkCall
    <3> QED BY <2>1, <3>1 DEF SoFar
  <2>3. CASE ~(call[t].hi < call[t].total)
    <3>1. pc'[t] = "idle"
      BY <1>0, <1>3, <2>3 DEF NextChunk, Return
    <3> QED BY <2>1, <3>1 DEF SoFar
  <2> QED BY <2>2, <2>3
<1>4. CASE WriteFrame(t)
  <2>1. pc[t] = "send" /\ calls' = calls /\ call[t].lo <= call[t].hi
    BY <1>0, <1>4 DEF WriteFrame, CallOK, CallType
  <2>2. \/ pc'[t] \in {"send", "chunk"} /\ call'[t] = [call[t] EXCEPT !.pos = SliceEnd(call[t])]
        \/ pc'[t] = "idle"
    BY <1>0, <1>4 DEF WriteFrame, Return
  <2>3. /\ [call[t] EXCEPT !.pos = SliceEnd(call[t])].lo = call[t].lo
        /\ [call[t] EXCEPT !.pos = SliceEnd(call[t])].hi = call[t].hi
    BY <1>0 DEF CallType
  <2>4. CASE pc'[t] = "idle"
    BY <2>1, <2>4 DEF SoFar
  <2>5. CASE pc'[t] \in {"send", "chunk"} /\ call'[t] = [call[t] EXCEPT !.pos = SliceEnd(call[t])]
    <3>1. pc'[t] # "rooms" /\ call'[t].lo = call[t].lo /\ call'[t].hi = call[t].hi
      BY <2>3, <2>5
    <3> QED BY <1>0, <2>1, <3>1 DEF SoFar
  <2> QED BY <2>2, <2>4, <2>5
<1>5. CASE WriteFails(t)
  <2>1. pc'[t] = "idle" /\ calls' = calls
    BY <1>0, <1>5 DEF WriteFails, Return
  <2> QED BY <2>1 DEF SoFar
<1> QED BY <1>1, <1>2, <1>3, <1>4, <1>5 DEF Step

\* When the last frame of a message is written, the task is behind the message.
LEMMA GoesOnBehind ==
    ASSUME TypeOK, NEW t \in Tasks, WriteFrame(t), NEW m, m = Message(t),
           SliceEnd(call[t]) = call[t].hi
    PROVE  SoFar(m, calls'[t], pc'[t], call'[t])
<1>1. /\ call[t] \in CallType /\ call \in [Tasks -> CallType]
      /\ pc \in [Tasks -> {"idle", "rooms", "send", "chunk"}]
      /\ calls' = calls /\ calls[t] \in Nat /\ call[t].hi \in Nat
  BY SizesAssumption DEF TypeOK, WriteFrame, CallType, Lengths
<1>2. \/ pc'[t] = "chunk" /\ call'[t] = [call[t] EXCEPT !.pos = SliceEnd(call[t])]
      \/ pc'[t] = "idle"
  BY <1>1 DEF WriteFrame, Return
<1>3. [call[t] EXCEPT !.pos = SliceEnd(call[t])].hi = call[t].hi
  BY <1>1 DEF CallType
<1>4. m.n = calls[t] /\ m.hi = call[t].hi
  BY DEF Message
<1>5. CASE pc'[t] = "idle"
  BY <1>1, <1>4, <1>5 DEF SoFar
<1>6. CASE pc'[t] = "chunk" /\ call'[t] = [call[t] EXCEPT !.pos = SliceEnd(call[t])]
  <2>1. pc'[t] = "chunk" /\ call'[t].hi = call[t].hi
    BY <1>3, <1>6
  <2> QED BY <1>1, <1>4, <2>1 DEF SoFar
<1> QED BY <1>2, <1>5, <1>6

\* Messages of one task arrive in the order of its calls and of its chunks, for
\* any number of tasks and calls and any payload lengths, whatever frames of other
\* tasks come between its own.
THEOREM InOrder == Spec => []DeliveredInOrder
<1> USE SizesAssumption, TasksAssumption
<1> DEFINE Known == OrderInv /\ \A t \in Tasks : CallOK(t)
<1>1. Init => Known
  BY DEF Init, OrderInv, DeliveredInOrder, CallOK, Begun, NoCall
<1>2. TypeOK /\ TypeOK' /\ Known /\ [Next]_vars => Known'
  <2> SUFFICES ASSUME TypeOK, TypeOK', \A t \in Tasks : CallOK(t), OrderInv, [Next]_vars
               PROVE  OrderInv'
    BY CallStep
  <2>0. /\ delivered \in Seq(MessageType) /\ Len(delivered) \in Nat
        /\ \A i \in DOMAIN delivered : delivered[i] \in MessageType /\ delivered[i].from \in Tasks
    <3>1. delivered \in Seq(MessageType)
      BY DEF TypeOK
    <3>2. \A i \in DOMAIN delivered : delivered[i] \in MessageType
      BY <3>1
    <3> QED BY <3>1, <3>2 DEF MessageType
  <2>1. ASSUME NEW t \in Tasks, Send(t) \/ SendLarge(t) \/ Broadcast(t) \/ Step(t)
        PROVE  OrderInv'
    <3>1. \A u \in Tasks : u # t => pc'[u] = pc[u] /\ call'[u] = call[u] /\ calls'[u] = calls[u]
      BY <2>1 DEF TypeOK, Send, SendLarge, Broadcast, BeginCall, Step, LockRooms, NextChunk,
                  WriteFrame, WriteFails, Return
    <3>3. ASSUME NEW i \in DOMAIN delivered, NEW u, u = delivered[i].from,
                 NEW m, m = delivered[i]
          PROVE  SoFar(m, calls'[u], pc'[u], call'[u])
      <4>1. SoFar(m, calls[u], pc[u], call[u]) /\ m \in MessageType /\ u \in Tasks
        BY <2>0, <3>3 DEF OrderInv
      <4>2. CASE u = t
        BY <2>1, <3>3, <4>1, <4>2, GoesOn
      <4>3. CASE u # t
        BY <3>1, <4>1, <4>3 DEF SoFar
      <4> QED BY <4>2, <4>3
    <3>4. CASE delivered' = delivered
      <4>1. \A i \in DOMAIN delivered :
               LET u == delivered[i].from IN SoFar(delivered[i], calls'[u], pc'[u], call'[u])
        BY <3>3
      <4> QED BY <3>4, <4>1 DEF OrderInv, DeliveredInOrder, Before
    <3>5. ASSUME NEW m, m = Message(t), delivered' = Append(delivered, m),
                 WriteFrame(t), SliceEnd(call[t]) = call[t].hi
          PROVE  OrderInv'
      <4> DEFINE n == Len(delivered) + 1
      <4>1. m \in MessageType /\ m.from = t
        BY <3>5 DEF Message, TypeOK, MessageType, CallType
      <4>2. /\ DOMAIN delivered' = 1..n /\ delivered'[n] = m /\ DOMAIN delivered = 1..Len(delivered)
            /\ \A i \in DOMAIN delivered : delivered'[i] = delivered[i]
        BY <2>0, <3>5, <4>1
      <4>3. SoFar(m, calls'[t], pc'[t], call'[t])
        BY <3>5, GoesOnBehind
      <4>4. ASSUME NEW i \in DOMAIN delivered', NEW u, u = delivered'[i].from
            PROVE  SoFar(delivered'[i], calls'[u], pc'[u], call'[u])
        <5>1. CASE i = n
          BY <4>1, <4>2, <4>3, <4>4, <5>1
        <5>2. CASE i \in DOMAIN delivered
          BY <3>3, <4>2, <4>4, <5>2
        <5> QED BY <2>0, <4>2, <4>4, <5>1, <5>2
      <4>5. ASSUME NEW i \in DOMAIN delivered, delivered[i].from = t PROVE Before(delivered[i], m)
        <5>1. SoFar(delivered[i], calls[t], pc[t], call[t]) /\ delivered[i] \in MessageType
          BY <2>0, <4>5 DEF OrderInv
        <5>2. pc[t] = "send" /\ m.n = calls[t] /\ m.lo = call[t].lo /\ calls[t] \in Nat
          BY <3>5 DEF WriteFrame, Message, TypeOK
        <5> QED BY <5>1, <5>2 DEF SoFar, Before, MessageType
      <4>6. DeliveredInOrder'
        <5> SUFFICES ASSUME NEW i \in DOMAIN delivered', NEW j \in DOMAIN delivered', i < j,
                            delivered'[i].from = delivered'[j].from
                     PROVE  Before(delivered'[i], delivered'[j])
          BY DEF DeliveredInOrder, Before
        <5>1. i \in DOMAIN delivered
          BY <2>0, <4>2
        <5>2. CASE j = n
          BY <4>1, <4>2, <4>5, <5>1, <5>2
        <5>3. CASE j \in DOMAIN delivered
          BY <4>2, <5>1, <5>3 DEF OrderInv, DeliveredInOrder
        <5> QED BY <2>0, <4>2, <5>2, <5>3
      <4> QED BY <4>4, <4>6 DEF OrderInv
    <3>6. delivered' = delivered \/ WriteFrame(t)
      BY <2>1 DEF Send, SendLarge, Broadcast, BeginCall, Step, LockRooms, NextChunk, WriteFails
    <3> QED BY <3>4, <3>5, <3>6, FrameDelivers
  <2>2. CASE Break \/ UNCHANGED vars
    BY <2>2 DEF Break, vars, OrderInv, DeliveredInOrder, SoFar, Before
  <2> QED BY <2>1, <2>2 DEF Next
<1>3. Known => DeliveredInOrder
  BY DEF OrderInv
<1> HIDE DEF Known
<1> QED BY <1>1, <1>2, <1>3, Typing, PTL DEF Spec

-----------------------------------------------------------------------------
(* Refinement *)

Pending == [t \in Tasks |-> IF pc[t] = "send" THEN Message(t) ELSE Nothing]

\* Under Discipline a connection is a channel of whole messages: every step of
\* the tasks submits, delivers or drops one message, or is invisible.
THEOREM Refinement == ASSUME Discipline PROVE Spec => ImplementsChannel
<1> USE SizesAssumption, TasksAssumption
<1>1. Init => Channel!Init
  BY DEF Init, Channel!Init
<1>2. IInv /\ TypeOK' /\ [Next]_vars => [Channel!Next]_Channel!vars
  <2> SUFFICES ASSUME IInv, TypeOK', [Next]_vars PROVE [Channel!Next]_Channel!vars
    OBVIOUS
  <2>0. /\ pc \in [Tasks -> {"idle", "rooms", "send", "chunk"}]
        /\ call \in [Tasks -> CallType] /\ calls \in [Tasks -> 0..MaxCalls]
        /\ Nothing \notin MessageType
    BY DEF IInv, TypeOK, Nothing, MessageType
  <2>1. CASE UNCHANGED vars
    <3>1. Pending' = Pending /\ UNCHANGED <<delivered, broken>>
      BY <2>1 DEF vars, Pending, Message
    <3> QED BY <3>1 DEF Channel!vars, Pending
  <2>2. CASE Break
    <3>1. Pending' = Pending
      BY <2>2 DEF Break, Pending, Message
    <3>2. Channel!Lose
      BY <2>2, <3>1 DEF Break, Channel!Lose, Pending
    <3> QED BY <3>2 DEF Channel!Next
  <2>3. ASSUME NEW t \in Tasks,
               Send(t) \/ SendLarge(t) \/ Broadcast(t) \/ LockRooms(t)
                 \/ NextChunk(t) \/ WriteFrame(t) \/ WriteFails(t)
        PROVE  [Channel!Next]_Channel!vars
    <3>1. \A u \in Tasks : u # t => Pending'[u] = Pending[u]
      <4>1. \A u \in Tasks : u # t =>
               pc'[u] = pc[u] /\ call'[u] = call[u] /\ calls'[u] = calls[u]
        BY <2>0, <2>3 DEF Send, SendLarge, Broadcast, BeginCall, LockRooms, NextChunk,
           WriteFrame, WriteFails, Return
      <4> QED BY <4>1 DEF Pending, Message
    <3>2. broken' = broken
      BY <2>3 DEF Send, SendLarge, Broadcast, BeginCall, LockRooms, NextChunk,
         WriteFrame, WriteFails
    <3>3. CASE pc[t] = "send"
      <4>1. WriteFrame(t) \/ WriteFails(t)
        BY <2>3, <3>3 DEF Send, SendLarge, Broadcast, BeginCall, LockRooms, NextChunk
      <4>2. Pending[t] = Message(t) /\ Message(t) \in MessageType
        BY <2>0, <3>3 DEF Pending, Message, MessageType, CallType
      <4>3. CASE WriteFrame(t) /\ SliceEnd(call[t]) # call[t].hi
        <5>1. delivered' = delivered
          BY <4>3, FrameStep
        <5>2. pc'[t] = "send" /\ Message(t)' = Message(t)
          BY <2>0, <4>3 DEF WriteFrame, Message, CallType
        <5>3. Pending' = Pending
          BY <3>1, <4>2, <5>2 DEF Pending
        <5> QED BY <3>2, <5>1, <5>3 DEF Channel!vars, Pending
      <4>4. CASE WriteFrame(t) /\ SliceEnd(call[t]) = call[t].hi
        <5>1. delivered' = Append(delivered, Message(t))
          BY <4>4, FrameStep
        <5>2. pc'[t] # "send" /\ ~broken
          BY <2>0, <4>4 DEF WriteFrame, Return
        <5>3. Pending' = [Pending EXCEPT ![t] = Nothing]
          BY <3>1, <5>2 DEF Pending
        <5>4. Channel!Deliver(t)
          BY <2>0, <3>2, <4>2, <5>1, <5>2, <5>3 DEF Channel!Deliver, Pending
        <5> QED BY <5>4 DEF Channel!Next
      <4>5. CASE WriteFails(t)
        <5>1. pc'[t] # "send" /\ broken /\ delivered' = delivered
          BY <2>0, <4>5 DEF WriteFails, Return
        <5>2. Pending' = [Pending EXCEPT ![t] = Nothing]
          BY <3>1, <5>1 DEF Pending
        <5>3. Channel!Drop(t)
          BY <2>0, <3>2, <4>2, <5>1, <5>2 DEF Channel!Drop, Pending
        <5> QED BY <5>3 DEF Channel!Next
      <4> QED BY <4>1, <4>3, <4>4, <4>5
    <3>4. CASE pc[t] # "send"
      <4>1. delivered' = delivered
        BY <2>3, <3>4 DEF Send, SendLarge, Broadcast, BeginCall, LockRooms, NextChunk,
           WriteFrame, WriteFails
      <4>2. Pending[t] = Nothing
        BY <3>4 DEF Pending
      <4>3. CASE pc'[t] = "send"
        <5>1. Message(t)' \in MessageType
          BY DEF TypeOK, Message, MessageType, CallType
        <5>2. Pending' = [Pending EXCEPT ![t] = Message(t)']
          BY <3>1, <4>3 DEF Pending
        <5>3. Channel!Submit(t)
          BY <3>2, <4>1, <4>2, <5>1, <5>2 DEF Channel!Submit, Pending
        <5> QED BY <5>3 DEF Channel!Next
      <4>4. CASE pc'[t] # "send"
        <5>1. Pending' = Pending
          BY <3>1, <4>2, <4>4 DEF Pending
        <5> QED BY <3>2, <4>1, <5>1 DEF Channel!vars, Pending
      <4> QED BY <4>3, <4>4
    <3> QED BY <3>3, <3>4
  <2>4. Next \/ UNCHANGED vars
    OBVIOUS
  <2> QED BY <2>1, <2>2, <2>3, <2>4 DEF Next, Step
<1> QED BY <1>1, <1>2, Inductive, Typing, PTL DEF Spec, ImplementsChannel, Channel!Spec
=============================================================================
