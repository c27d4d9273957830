----------------------------- MODULE FrameWriter -----------------------------
(***************************************************************************)
(* The write side of one WebSocket connection: Socket::send, send_large    *)
(* (ws/socket/write.rs) and send_frame_inner (ws/frame.rs), called by      *)
(* several tasks at a time.                                                *)
(*                                                                         *)
(* send_frame_inner cuts a payload into frames of at most MaxPayload bytes *)
(* and takes the connection's writer lock once PER FRAME, so the frames of *)
(* two calls may interleave.  The client is the other half of the model:   *)
(* it puts the frames together again by the rules that read_frame applies  *)
(* to the client's own frames.                                             *)
(*                                                                         *)
(* A frame is written and received in one step: the writer lock is held    *)
(* from before write_all until after flush, and the stream is FIFO.        *)
(***************************************************************************)
EXTENDS Integers, Sequences

CONSTANTS
    DirectTasks,     \* call Socket::send or send_large on this connection
    BroadcastTasks,  \* reach it through broadcast_to_room, under the rooms lock
    ControlTasks,    \* answer Pings and send Close: one frame, at most 125 bytes
    MaxPayload,      \* MAX_PAYLOAD_SIZE
    MaxLen,          \* bound: the longest payload of a call
    CallLengths,     \* the payload lengths tried
    MaxCalls,        \* bound: the calls of one task
    ChunkSizes,      \* the max_chunk_size values given to send_large
    NoTask           \* the rooms lock is free

DataTasks == DirectTasks \cup BroadcastTasks
Tasks     == DataTasks \cup ControlTasks

ASSUME SizesAssumption ==
    /\ MaxPayload \in Nat \ {0}
    /\ MaxLen \in Nat
    /\ CallLengths \subseteq 0..MaxLen
    /\ MaxCalls \in Nat
    /\ ChunkSizes \subseteq Nat \ {0}

ASSUME TasksAssumption ==
    /\ DirectTasks \cap BroadcastTasks = {}
    /\ DataTasks \cap ControlTasks = {}
    /\ NoTask \notin Tasks

VARIABLES
    pc,         \* pc[t]: "idle", "rooms", "send" or "chunk"
    call,       \* call[t]: the call task t is in, see CallType
    calls,      \* calls[t]: the calls t has begun
    roomLock,   \* the task that holds the rooms lock, or NoTask
    broken,     \* the stream is shut down or reset: writes fail
    client,     \* the client's decoder, see ClientType
    delivered   \* the messages the client has put together, oldest first

vars == <<pc, call, calls, roomLock, broken, client, delivered>>

Lengths == 0..MaxLen

\* send(payload) has lo = 0 and hi = total = payload.len(); send_large moves
\* lo and hi over its chunks.  pos is `start` of send_frame_inner, counted
\* from the beginning of the whole payload.
CallType == [large : BOOLEAN, chunk : Nat, total : Lengths,
             lo : Lengths, hi : Lengths, pos : Lengths]

\* One WebSocket message: bytes lo to hi of the n-th payload of a task.
MessageType == [from : Tasks, n : 0..MaxCalls, lo : Lengths, hi : Lengths]

NoCall == [large |-> FALSE, chunk |-> 0, total |-> 0, lo |-> 0, hi |-> 0, pos |-> 0]

Message(t) == [from |-> t, n |-> calls[t], lo |-> call[t].lo, hi |-> call[t].hi]

\* `message_buffer` and `current_opcode` on the client's side.  upto: how far
\* into msg the buffer reaches.  "error": the client saw a frame the protocol
\* forbids; "mixed": it assembled bytes of two payloads.
Nothing    == [from |-> NoTask, n |-> 0, lo |-> 0, hi |-> 0]
ClientType == [open : BOOLEAN, msg : MessageType \cup {Nothing},
               upto : Lengths, verdict : {"ok", "error", "mixed"}]

Init ==
    /\ pc = [t \in Tasks |-> "idle"]
    /\ call = [t \in Tasks |-> NoCall]
    /\ calls = [t \in Tasks |-> 0]
    /\ roomLock = NoTask
    /\ broken = FALSE
    /\ client = [open |-> FALSE, msg |-> Nothing, upto |-> 0, verdict |-> "ok"]
    /\ delivered = <<>>

-----------------------------------------------------------------------------
(* The tasks *)

BeginCall(t, c, first) ==
    /\ pc[t] = "idle"
    /\ calls[t] < MaxCalls
    /\ calls' = [calls EXCEPT ![t] = @ + 1]
    /\ call' = [call EXCEPT ![t] = c]
    /\ pc' = [pc EXCEPT ![t] = first]
    /\ UNCHANGED <<roomLock, broken, client, delivered>>

WholePayload(len) ==
    [large |-> FALSE, chunk |-> len, total |-> len, lo |-> 0, hi |-> len, pos |-> 0]

\* Socket::send, send_json, send_text, send_binary, a Pong or a Close frame.
Send(t) ==
    /\ t \in DirectTasks \cup ControlTasks
    /\ \E len \in CallLengths :
          /\ t \in ControlTasks => len <= MaxPayload
          /\ BeginCall(t, WholePayload(len), "send")

SendLarge(t) ==
    /\ t \in DirectTasks
    /\ \E len \in CallLengths, chunk \in ChunkSizes :
          BeginCall(t, [large |-> TRUE, chunk |-> chunk, total |-> len,
                        lo |-> 0, hi |-> 0, pos |-> 0], "chunk")

\* broadcast_to_room: the send to this connection, between lock and unlock.
Broadcast(t) ==
    /\ t \in BroadcastTasks
    /\ \E len \in CallLengths : BeginCall(t, WholePayload(len), "rooms")

LockRooms(t) ==
    /\ pc[t] = "rooms"
    /\ roomLock = NoTask
    /\ roomLock' = t
    /\ pc' = [pc EXCEPT ![t] = "send"]
    /\ UNCHANGED <<call, calls, broken, client, delivered>>

\* Mutated form: the rooms lock stays with the task.
ReturnKeepsRooms(t) ==
    /\ pc' = [pc EXCEPT ![t] = "idle"]
    /\ call' = [call EXCEPT ![t] = NoCall]
    /\ UNCHANGED roomLock

\* The call is over; the guard of broadcast_to_room is dropped with it.
Return(t) ==
    /\ pc' = [pc EXCEPT ![t] = "idle"]
    /\ call' = [call EXCEPT ![t] = NoCall]
    /\ roomLock' = IF roomLock = t THEN NoTask ELSE roomLock

\* Mutated form: offset + max_chunk_size is not limited by payload.len().
NextChunkNoMin(t) ==
    /\ pc[t] = "chunk"
    /\ LET c == call[t] IN
       IF c.hi < c.total
         THEN /\ call' = [call EXCEPT ![t] = [c EXCEPT !.lo = c.hi, !.pos = c.hi,
                                                       !.hi = c.hi + c.chunk]]
              /\ pc' = [pc EXCEPT ![t] = "send"]
              /\ UNCHANGED roomLock
         ELSE Return(t)
    /\ UNCHANGED <<calls, broken, client, delivered>>

\* The loop of send_large: the next chunk is a message of its own.
NextChunk(t) ==
    /\ pc[t] = "chunk"
    /\ LET c == call[t]
           end == IF c.hi + c.chunk < c.total THEN c.hi + c.chunk ELSE c.total
       IN  IF c.hi < c.total
             THEN /\ call' = [call EXCEPT ![t] = [c EXCEPT !.lo = c.hi,
                                                           !.pos = c.hi,
                                                           !.hi = end]]
                  /\ pc' = [pc EXCEPT ![t] = "send"]
                  /\ UNCHANGED roomLock
             ELSE Return(t)
    /\ UNCHANGED <<calls, broken, client, delivered>>

-----------------------------------------------------------------------------
(* Frames *)

\* The end of the slice that the next frame carries.
SliceEnd(c) == IF c.pos + MaxPayload < c.hi THEN c.pos + MaxPayload ELSE c.hi

\* Mutated form: every frame carries the opcode.
FrameOpcodeAlways(t) ==
    LET c == call[t] IN
    [ op  |-> IF t \in ControlTasks THEN "control" ELSE "data",
      fin |-> SliceEnd(c) = c.hi,
      msg |-> Message(t), from |-> c.pos, to |-> SliceEnd(c) ]

\* Mutated form: FIN is lost when the payload fills its last frame.
FrameFinStrict(t) ==
    LET c == call[t] IN
    [ op  |-> IF c.pos # c.lo THEN "continuation"
              ELSE IF t \in ControlTasks THEN "control" ELSE "data",
      fin |-> c.hi < c.pos + MaxPayload,
      msg |-> Message(t), from |-> c.pos, to |-> SliceEnd(c) ]

\* Only the first frame of a payload carries its opcode, only the last one
\* FIN; an empty payload is one frame with both.
Frame(t) ==
    LET c == call[t] IN
    [ op  |-> IF c.pos # c.lo THEN "continuation"
              ELSE IF t \in ControlTasks THEN "control" ELSE "data",
      fin |-> SliceEnd(c) = c.hi,
      msg |-> Message(t), from |-> c.pos, to |-> SliceEnd(c) ]

Fail(verdict) == client' = [client EXCEPT !.verdict = verdict] /\ UNCHANGED delivered

\* The frame completes the message it belongs to.
Complete(f) ==
    /\ delivered' = Append(delivered, f.msg)
    /\ client' = [client EXCEPT !.open = FALSE, !.msg = Nothing, !.upto = 0]

\* The client's buffer now ends where the frame's slice ends.
Extend(f) ==
    /\ client' = [client EXCEPT !.open = TRUE, !.msg = f.msg, !.upto = f.to]
    /\ UNCHANGED delivered

\* The client puts frame f together with what it has.
Receive(f) ==
    \/ client.verdict # "ok" /\ UNCHANGED <<client, delivered>>
    \/ /\ client.verdict = "ok"
       /\ f.op = "control"
       /\ IF f.fin THEN delivered' = Append(delivered, f.msg) /\ UNCHANGED client
                   ELSE Fail("error")
    \/ /\ client.verdict = "ok"
       /\ f.op = "data"
       /\ IF client.open THEN Fail("error")
          ELSE IF f.fin THEN Complete(f) ELSE Extend(f)
    \/ /\ client.verdict = "ok"
       /\ f.op = "continuation"
       /\ IF ~client.open THEN Fail("error")
          ELSE IF client.msg # f.msg \/ client.upto # f.from THEN Fail("mixed")
          ELSE IF f.fin THEN Complete(f) ELSE Extend(f)

\* Mutated form: the loop does not move `start`.
WriteFrameStays(t) ==
    /\ pc[t] = "send"
    /\ ~broken
    /\ Receive(Frame(t))
    /\ UNCHANGED <<pc, call, calls, roomLock, broken>>

\* One turn of the loop: lock the writer, write, flush, unlock, start = end.
WriteFrame(t) ==
    /\ pc[t] = "send"
    /\ ~broken
    /\ Receive(Frame(t))
    /\ IF call[t].large \/ SliceEnd(call[t]) # call[t].hi
         THEN /\ call' = [call EXCEPT ![t].pos = SliceEnd(call[t])]
              /\ pc' = [pc EXCEPT ![t] = IF SliceEnd(call[t]) = call[t].hi
                                           THEN "chunk" ELSE "send"]
              /\ UNCHANGED roomLock
         ELSE Return(t)
    /\ UNCHANGED <<calls, broken>>

\* write_all or flush fails: the error ends the call, whatever is left of it.
WriteFails(t) ==
    /\ pc[t] = "send"
    /\ broken
    /\ Return(t)
    /\ UNCHANGED <<calls, broken, client, delivered>>

\* The client resets the connection, or perform_close shuts it down.
Break ==
    /\ ~broken
    /\ broken' = TRUE
    /\ UNCHANGED <<pc, call, calls, roomLock, client, delivered>>

\* What a task does once it has begun a call.
Step(t) == LockRooms(t) \/ NextChunk(t) \/ WriteFrame(t) \/ WriteFails(t)

Next ==
    \/ \E t \in Tasks : Send(t) \/ SendLarge(t) \/ Broadcast(t) \/ Step(t)
    \/ Break

Spec == Init /\ [][Next]_vars

\* A runnable task is polled again (tokio), and the rooms lock is handed over
\* in the order in which it was asked for (tokio::sync::Mutex is FIFO).
Fairness == \A t \in Tasks : SF_vars(Step(t))

FairSpec == Spec /\ Fairness

-----------------------------------------------------------------------------
(* Properties *)

TypeOK ==
    /\ pc \in [Tasks -> {"idle", "rooms", "send", "chunk"}]
    /\ call \in [Tasks -> CallType]
    /\ calls \in [Tasks -> 0..MaxCalls]
    /\ roomLock \in Tasks \cup {NoTask}
    /\ broken \in BOOLEAN
    /\ client \in ClientType
    /\ delivered \in Seq(MessageType)

\* The two disciplines under which frames of different payloads cannot mix:
\* no payload needs a second frame, or all the payloads of the connection
\* come from one task or are sent under the rooms lock.
SingleFrames == MaxLen <= MaxPayload
OneWriter    == \A t, u \in DirectTasks : t = u /\ BroadcastTasks = {}
Discipline   == SingleFrames \/ OneWriter

\* The client can decode what it is sent: no frame it receives breaks the
\* fragmentation rules and no message mixes two payloads, although
\* send_frame_inner gives the writer lock up between two frames.
ClientDecodes == client.verdict = "ok"

Before(m, o) == m.n < o.n \/ (m.n = o.n /\ m.hi <= o.lo)

\* Messages of one task arrive in the order of its calls and, for send_large,
\* of its chunks; none arrives twice and no two overlap.
DeliveredInOrder ==
    \A i, j \in DOMAIN delivered :
        i < j /\ delivered[i].from = delivered[j].from
            => Before(delivered[i], delivered[j])

\* Every send, send_large and broadcast returns, with a result or an error.
EveryCallReturns == \A t \in Tasks : pc[t] # "idle" ~> pc[t] = "idle"

\* Seen from outside, the connection is a channel of whole messages.
Channel == INSTANCE MessageChannel WITH
    Senders   <- Tasks,
    Payloads  <- MessageType,
    NoPayload <- Nothing,
    failed    <- broken,
    pending   <- [t \in Tasks |-> IF pc[t] = "send" THEN Message(t) ELSE Nothing]

ImplementsChannel == Channel!Spec
=============================================================================
