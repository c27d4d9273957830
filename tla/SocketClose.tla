----------------------------- MODULE SocketClose -----------------------------
(***************************************************************************)
(* Closing one WebSocket connection: perform_close, close, internal_close,  *)
(* wait_for_client_close_frame and shutdown_stream (ws/socket/socket.rs),   *)
(* with the loop around Socket::read that answers and fails connections     *)
(* (ws/socket/read.rs) and the tasks that send meanwhile.                   *)
(*                                                                         *)
(* The tasks share two asynchronous locks.  A send takes the writer lock    *)
(* for one frame; a read holds the reader lock while it waits for bytes;    *)
(* shutdown_stream takes the writer lock and then, for a moment, the        *)
(* reader lock.  A frame is read in one step here (FrameReader has its      *)
(* parts); an "inner ping" is a Ping between the fragments of a message,    *)
(* which read_frame answers itself; and codes are "early" (1002, 1003,      *)
(* 1007, 1009: perform_close returns before it waits and stores) or not.    *)
(***************************************************************************)
EXTENDS Integers, Sequences, FiniteSets

CONSTANTS
    Reader,      \* the task that serves the connection: a loop around read
    Closers,     \* tasks that may call close
    Waiters,     \* tasks that may call internal_close
    Senders,     \* tasks that may send a message
    Requests,    \* the arguments they call close and internal_close with
    Frames,      \* the frames the client may send
    MaxFrames,   \* bound: how many of them it sends before it ends
    Window,      \* bound: the frames written that the client has not read
    Null

Tasks == {Reader} \cup Closers \cup Waiters \cup Senders

ClientFrames == {"text", "ping", "inner ping", "close", "early close", "bad"}
ServerFrames == {"text", "pong", "inner pong", "close"}

\* The arguments of perform_close: the clean flag and the class of the code.
Request   == [clean : BOOLEAN, early : BOOLEAN]
NoRequest == [clean |-> TRUE, early |-> TRUE]

ASSUME TasksAssumption ==
    /\ Reader \notin Closers \cup Waiters \cup Senders
    /\ Closers \cap Waiters = {} /\ Closers \cap Senders = {} /\ Waiters \cap Senders = {}
    /\ Null \notin Tasks

ASSUME InputsAssumption ==
    /\ Requests \subseteq Request
    /\ Frames \subseteq ClientFrames
    /\ MaxFrames \in Nat /\ Window \in Nat \ {0}

VARIABLES
    incoming,    \* the client's frames that nobody has read
    sent,        \* how many frames the client has sent
    ended,       \* the client has closed its half: end of file after incoming
    reset,       \* the connection is broken: writes fail, reads find no more
    outgoing,    \* the server's frames that the client has not read
    closeSent,   \* history: a Close frame has been written
    closeSeen,   \* the client has read one
    shut,        \* the write half is shut down
    status,      \* clean_status
    readLock,    \* the task that holds the reader lock, or Null
    writeLock,   \* the task that holds the writer lock, or Null
    pc,          \* what each task does
    frame,       \* the frame each task writes
    request,     \* the close each task is in
    stores,      \* the close goes on to store the status
    result       \* how the call of each task ended

client == <<incoming, sent, ended, reset, closeSeen>>
wire   == <<outgoing, closeSent, shut>>
tasks  == <<pc, frame, request, stores, result>>

vars == <<client, wire, status, readLock, writeLock, tasks>>

Init ==
    /\ incoming = <<>>
    /\ sent = 0
    /\ ended = FALSE /\ reset = FALSE
    /\ outgoing = <<>>
    /\ closeSent = FALSE /\ closeSeen = FALSE
    /\ shut = FALSE
    /\ status = TRUE
    /\ readLock = Null /\ writeLock = Null
    /\ pc = [t \in Tasks |-> IF t = Reader THEN "read" ELSE "idle"]
    /\ frame = [t \in Tasks |-> "text"]
    /\ request = [t \in Tasks |-> NoRequest]
    /\ stores = [t \in Tasks |-> FALSE]
    /\ result = [t \in Tasks |-> "none"]

-----------------------------------------------------------------------------
(* The client *)

ClientSends(f) ==
    /\ ~ended /\ ~reset
    /\ sent < MaxFrames
    /\ sent' = sent + 1
    /\ incoming' = Append(incoming, f)
    /\ UNCHANGED <<ended, reset, closeSeen, wire, status, readLock, writeLock, tasks>>

ClientReads ==
    /\ ~reset
    /\ outgoing # <<>>
    /\ outgoing' = Tail(outgoing)
    /\ closeSeen' = (closeSeen \/ Head(outgoing) = "close")
    /\ UNCHANGED <<incoming, sent, ended, reset, closeSent, shut, status,
                   readLock, writeLock, tasks>>

\* It closes its half, with or without a Close frame.
ClientEnds ==
    /\ ~ended
    /\ ended' = TRUE
    /\ incoming' \in {incoming, Append(incoming, "close")}
    /\ UNCHANGED <<sent, reset, closeSeen, wire, status, readLock, writeLock, tasks>>

\* What has arrived and was not read may be lost.
Resets ==
    /\ ~reset
    /\ reset' = TRUE
    /\ incoming' \in {incoming, <<>>}
    /\ UNCHANGED <<sent, ended, closeSeen, wire, status, readLock, writeLock, tasks>>

-----------------------------------------------------------------------------
(* Parts of the tasks' steps *)

Goto(t, l) ==
    /\ pc' = [pc EXCEPT ![t] = l]
    /\ UNCHANGED result

Finish(t, r) ==
    /\ pc' = [pc EXCEPT ![t] = "done"]
    /\ result' = [result EXCEPT ![t] = r]

\* Socket::send, which waits for the writer lock.
Sends(t, f) ==
    /\ frame' = [frame EXCEPT ![t] = f]
    /\ Goto(t, "write")

\* perform_close begins with the Close frame.
Closes(t, clean, early) ==
    /\ request' = [request EXCEPT ![t] = [clean |-> clean, early |-> early]]
    /\ Sends(t, "close")

\* Mutated form: the loop leaves a Close to the callback.
ReaderGetsOnly(t, f) ==
    \/ /\ f \in {"text", "close", "early close"}
       /\ Goto(t, "read")
       /\ UNCHANGED <<frame, request>>
    \/ /\ \/ f = "ping" /\ Sends(t, "pong")
          \/ f = "inner ping" /\ Sends(t, "inner pong")
       /\ UNCHANGED request
    \/ /\ f = "bad"
       /\ Closes(t, FALSE, TRUE)

\* Socket::read: data goes to the callback, which reads again; a Ping is
\* answered; a Close is answered with the client's code; a bad frame fails the
\* connection (handle_error_close).
ReaderGets(t, f) ==
    \/ /\ f = "text"
       /\ Goto(t, "read")
       /\ UNCHANGED <<frame, request>>
    \/ /\ \/ f = "ping" /\ Sends(t, "pong")
          \/ f = "inner ping" /\ Sends(t, "inner pong")
       /\ UNCHANGED request
    \/ /\ f \in {"close", "early close"}
       /\ Closes(t, TRUE, f = "early close")
    \/ /\ f = "bad"
       /\ Closes(t, FALSE, TRUE)

\* wait_for_client_close_frame: it drops a Ping, and read_frame answers one
\* inside a message here as well.
WaiterGets(t, f) ==
    \/ /\ \/ f \in {"text", "ping"} /\ Goto(t, "read")
          \/ f \in {"close", "early close"} /\ Goto(t, "shutdown")
          \/ f = "bad" /\ Finish(t, "error")
       /\ UNCHANGED <<frame, request>>
    \/ /\ f = "inner ping"
       /\ Sends(t, "inner pong")
       /\ UNCHANGED request

\* Mutated form: a task whose Close was written returns at once.
AfterCloseReturns(t, ok) ==
    /\ stores' = [stores EXCEPT ![t] = ok /\ ~request[t].early]
    /\ IF ok /\ request[t].early THEN Finish(t, "ok")
       ELSE Goto(t, IF ok /\ ~request[t].early /\ t \in Waiters THEN "read" ELSE "shutdown")

\* perform_close once the Close frame is sent, or could not be: only
\* internal_close waits, and only a Close that was sent with a code that is
\* not early comes to the store.
AfterClose(t, ok) ==
    /\ stores' = [stores EXCEPT ![t] = ok /\ ~request[t].early]
    /\ Goto(t, IF ok /\ ~request[t].early /\ t \in Waiters THEN "read" ELSE "shutdown")

\* read_frame reads on when its Pong is written.  If not, its 1011 makes read
\* close the connection, and internal_close return.
AfterInnerPong(t, ok) ==
    IF t = Reader /\ ~ok THEN Closes(t, FALSE, FALSE)
    ELSE /\ IF ok THEN Goto(t, "read") ELSE Finish(t, "error")
         /\ UNCHANGED <<frame, request>>

\* A failed answer to a Ping outside of a message ends read with 1011, without
\* a close.
AfterWrite(t, ok) ==
    \/ /\ frame[t] = "close"
       /\ AfterClose(t, ok)
       /\ UNCHANGED <<frame, request>>
    \/ /\ frame[t] = "inner pong"
       /\ AfterInnerPong(t, ok)
       /\ UNCHANGED stores
    \/ /\ frame[t] \in {"text", "pong"}
       /\ IF frame[t] = "pong" /\ ok THEN Goto(t, "read")
          ELSE Finish(t, IF ok THEN "ok" ELSE "error")
       /\ UNCHANGED <<frame, request, stores>>

-----------------------------------------------------------------------------
(* The steps of the tasks *)

CallSend(t) ==
    /\ t \in Senders /\ pc[t] = "idle"
    /\ Sends(t, "text")
    /\ UNCHANGED <<client, wire, status, readLock, writeLock, request, stores>>

CallClose(t) ==
    /\ t \in Closers \cup Waiters /\ pc[t] = "idle"
    /\ \E q \in Requests : Closes(t, q.clean, q.early)
    /\ UNCHANGED <<client, wire, status, readLock, writeLock, stores>>

\* read_frame takes the reader lock and waits for bytes under it.
LockReader(t) ==
    /\ pc[t] = "read"
    /\ readLock = Null
    /\ readLock' = t
    /\ Goto(t, "receive")
    /\ UNCHANGED <<client, wire, status, writeLock, frame, request, stores>>

\* Mutated form: the reader lock is kept while a Ping is answered.
ReceiveKeepsLock(t) ==
    /\ pc[t] = "receive"
    /\ incoming # <<>>
    /\ incoming' = Tail(incoming)
    /\ readLock' = IF Head(incoming) = "ping" THEN t ELSE Null
    /\ IF t = Reader THEN ReaderGets(t, Head(incoming)) ELSE WaiterGets(t, Head(incoming))
    /\ UNCHANGED <<sent, ended, reset, closeSeen, wire, status, writeLock, stores>>

Receive(t) ==
    /\ pc[t] = "receive"
    /\ incoming # <<>>
    /\ incoming' = Tail(incoming)
    /\ readLock' = Null
    /\ IF t = Reader THEN ReaderGets(t, Head(incoming)) ELSE WaiterGets(t, Head(incoming))
    /\ UNCHANGED <<sent, ended, reset, closeSeen, wire, status, writeLock, stores>>

\* Mutated form: no Close frame for a client that has ended the stream.
ReceiveFailsSilently(t) ==
    /\ pc[t] = "receive"
    /\ incoming = <<>>
    /\ ended \/ reset
    /\ readLock' = Null
    /\ IF t = Reader THEN Goto(t, "shutdown") ELSE Finish(t, "error")
    /\ UNCHANGED <<client, wire, status, writeLock, frame, request, stores>>

\* The end of the stream is error 1002: a close for read, and an error that
\* internal_close returns.
ReceiveFails(t) ==
    /\ pc[t] = "receive"
    /\ incoming = <<>>
    /\ ended \/ reset
    /\ readLock' = Null
    /\ IF t = Reader THEN Closes(t, FALSE, TRUE)
       ELSE Finish(t, "error") /\ UNCHANGED <<frame, request>>
    /\ UNCHANGED <<client, wire, status, writeLock, stores>>

\* send_frame_inner takes the writer lock for the one frame.
LockWriter(t) ==
    /\ pc[t] = "write"
    /\ writeLock = Null
    /\ writeLock' = t
    /\ Goto(t, "writing")
    /\ UNCHANGED <<client, wire, status, readLock, frame, request, stores>>

\* A frame goes out when the client's window has room for it.
Puts(f) ==
    /\ Len(outgoing) < Window
    /\ outgoing' = Append(outgoing, f)
    /\ closeSent' = (closeSent \/ f = "close")
    /\ UNCHANGED shut

\* Mutated form: the status is stored with the Close frame.
WriteStores(t) ==
    /\ pc[t] = "writing"
    /\ ~shut /\ ~reset
    /\ Puts(frame[t])
    /\ writeLock' = Null
    /\ status' = IF frame[t] = "close" THEN request[t].clean ELSE status
    /\ AfterWrite(t, TRUE)
    /\ UNCHANGED <<client, readLock>>

\* write_all waits while the client's window is full.
Write(t) ==
    /\ pc[t] = "writing"
    /\ ~shut /\ ~reset
    /\ Puts(frame[t])
    /\ writeLock' = Null
    /\ AfterWrite(t, TRUE)
    /\ UNCHANGED <<client, status, readLock>>

WriteFails(t) ==
    /\ pc[t] = "writing"
    /\ shut \/ reset
    /\ writeLock' = Null
    /\ AfterWrite(t, FALSE)
    /\ UNCHANGED <<client, wire, status, readLock>>

\* shutdown_stream, the first lock.
LockWriterToShut(t) ==
    /\ pc[t] = "shutdown"
    /\ writeLock = Null
    /\ writeLock' = t
    /\ Goto(t, "shutting")
    /\ UNCHANGED <<client, wire, status, readLock, frame, request, stores>>

\* Mutated form: the second lock is kept as well.
PassReaderKeeps(t) ==
    /\ pc[t] = "shutting"
    /\ readLock = Null
    /\ readLock' = t
    /\ Goto(t, "closing")
    /\ UNCHANGED <<client, wire, status, writeLock, frame, request, stores>>

\* The second lock, taken and dropped while the first is kept.
PassReader(t) ==
    /\ pc[t] = "shutting"
    /\ readLock = Null
    /\ Goto(t, "closing")
    /\ UNCHANGED <<client, wire, status, readLock, writeLock, frame, request, stores>>

\* shutdown may fail on a connection that is gone.
Shutdown(t) ==
    /\ pc[t] = "closing"
    /\ writeLock' = Null
    /\ \/ /\ shut' = TRUE
          /\ IF stores[t] THEN Goto(t, "store") ELSE Finish(t, "ok")
       \/ /\ reset
          /\ UNCHANGED shut
          /\ Finish(t, "error")
    /\ UNCHANGED <<client, outgoing, closeSent, status, readLock, frame, request, stores>>

\* The locks are free again when the status is stored.
Store(t) ==
    /\ pc[t] = "store"
    /\ status' = request[t].clean
    /\ Finish(t, "ok")
    /\ UNCHANGED <<client, wire, readLock, writeLock, frame, request, stores>>

Locks(t) == LockReader(t) \/ LockWriter(t) \/ LockWriterToShut(t) \/ PassReader(t)

Works(t) == Receive(t) \/ ReceiveFails(t) \/ Write(t) \/ WriteFails(t) \/ Shutdown(t) \/ Store(t)

Client ==
    \/ \E f \in Frames : ClientSends(f)
    \/ ClientReads
    \/ ClientEnds
    \/ Resets

Next ==
    \/ Client
    \/ \E t \in Tasks : CallSend(t) \/ CallClose(t) \/ Locks(t) \/ Works(t)

Spec == Init /\ [][Next]_vars

\* Tasks that can go on are polled, and tokio's locks are queues: who waits for
\* a lock that is given back again and again gets it.
ServerFairness == \A t \in Tasks : SF_vars(Locks(t) \/ Works(t))

\* The client has read a Close frame, or all there was before the end.
Dismissed == closeSeen \/ (shut /\ outgoing = <<>>)

\* A client as RFC 6455 wants it reads, and ends when it is told to.  Nothing
\* in the server makes one that does not: no read, write or close has a timeout.
PoliteClient == WF_vars(ClientReads) /\ WF_vars(ClientEnds /\ Dismissed)

FairSpec == Spec /\ ServerFairness /\ PoliteClient

-----------------------------------------------------------------------------
(* Properties *)

Labels == {"idle", "read", "receive", "write", "writing", "shutdown", "shutting",
           "closing", "store", "done"}

\* The reader lock is held while waiting for bytes, the writer lock for one
\* frame and for a shutdown.
Held ==
    /\ \A t \in Tasks : readLock = t <=> pc[t] = "receive"
    /\ \A t \in Tasks : writeLock = t <=> pc[t] \in {"writing", "shutting", "closing"}

TypeOK ==
    /\ incoming \in Seq(ClientFrames)
    /\ sent \in Nat
    /\ {ended, reset, shut, status, closeSent, closeSeen} \subseteq BOOLEAN
    /\ outgoing \in Seq(ServerFrames)
    /\ readLock \in Tasks \cup {Null}
    /\ writeLock \in Tasks \cup {Null}
    /\ pc \in [Tasks -> Labels]
    /\ frame \in [Tasks -> ServerFrames]
    /\ request \in [Tasks -> Request]
    /\ stores \in [Tasks -> BOOLEAN]
    /\ result \in [Tasks -> {"none", "ok", "error"}]
    /\ Held

\* However read ends (a Close, a bad frame, the end of the stream, a Ping that
\* could not be answered, another task's close in between), the connection is
\* not left open when the loop is over.
ReaderLeavesNothingOpen ==
    pc[Reader] = "done" => shut \/ reset

\* A close that returns Ok has shut the connection down, whatever it gave up.
OkMeansShut ==
    \A t \in Closers \cup Waiters : result[t] = "ok" => shut

\* The status never turns before the connection is closed with a Close frame.
StatusAfterShutdown ==
    ~status => shut /\ closeSent

\* No orderly end without a Close frame: the stream is shut down only after
\* one, or when it is broken.
CloseBeforeShutdown ==
    shut => closeSent \/ reset

\* No order of the locks, and no frame of the client, keeps a close from
\* returning when the client reads and ends after a Close.
ClosersReturn ==
    \A t \in Closers \cup Waiters : pc[t] # "idle" ~> pc[t] = "done"

\* A client's Close is answered, whoever sends, closes or fails meanwhile.
CloseAnswered ==
    "close" \in {incoming[i] : i \in DOMAIN incoming} ~> closeSent \/ reset

\* status() as documented: an unclean close of the serving loop shows.
StatusTellsUnclean ==
    pc[Reader] = "done" /\ result[Reader] = "ok" /\ ~request[Reader].clean => ~status
=============================================================================
