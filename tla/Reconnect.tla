------------------------------ MODULE Reconnect ------------------------------
(***************************************************************************)
(* Replacing the connection of a socket: send_command, handle_commands and  *)
(* reconnect (ws/socket/socket.rs), beside the tasks that use the socket.   *)
(*                                                                         *)
(* One task per socket takes the commands out of a bounded channel.         *)
(* reconnect connects to peer_addr again, waits longer after each failure,  *)
(* and puts the two halves of the new connection in the place of the old    *)
(* ones: the reader under the reader lock, then the writer under the        *)
(* writer lock.  Meanwhile a loop reads, tasks send, and closes shut down.  *)
(* Connections are numbered as they are opened; a frame is read in one      *)
(* step, and a close is the Close frame and the shutdown, as SocketClose    *)
(* has them for one connection.                                             *)
(***************************************************************************)
EXTENDS Integers, FiniteSets

CONSTANTS
    Handler,     \* the task of handle_commands
    Reader,      \* the task that serves the connection
    Closers,     \* tasks that may call close
    Senders,     \* tasks that may send a message
    Capacity,    \* of the channel of commands
    MaxDelay,    \* the longest delay between two attempts, in seconds
    MaxCommands, \* bound: the calls of send_command
    MaxOpened,   \* bound: the connections, the first one included
    MaxFrames,   \* bound: the frames the client sends, over all connections
    Null

Users == {Reader} \cup Closers \cup Senders
Tasks == Users \cup {Handler}

ASSUME TasksAssumption ==
    /\ Handler \notin Users
    /\ Reader \notin Closers \cup Senders
    /\ Closers \cap Senders = {}
    /\ Null \notin Tasks

ASSUME SizesAssumption ==
    /\ Capacity \in Nat \ {0}
    /\ MaxDelay \in Nat /\ MaxDelay > 1
    /\ MaxCommands \in Nat /\ MaxFrames \in Nat
    /\ MaxOpened \in Nat \ {0}

VARIABLES
    commands,    \* how many Reconnects are in the channel
    called,      \* how many calls of send_command there were
    opened,      \* the connections so far; the last one has this number
    delay,       \* `delay` of reconnect
    slept,       \* history: the seconds this reconnect has slept
    readHalf,    \* the connection whose reading half the socket has
    writeHalf,   \* the connection whose writing half it has
    arrived,     \* arrived[c]: the client's frames on c that nobody has read
    sent,        \* how many frames the client has sent
    over,        \* the connections that the client has ended or reset
    readLock,    \* the task that holds the reader lock, or Null
    writeLock,   \* the task that holds the writer lock, or Null
    pc,          \* what each task does
    on           \* the connection whose half a task has locked, or 0

channel == <<commands, called>>
backoff == <<delay, slept>>
halves  == <<readHalf, writeHalf>>
wire    == <<arrived, sent, over>>
locks   == <<readLock, writeLock>>
tasks   == <<pc, on>>

vars == <<channel, backoff, opened, halves, wire, locks, tasks>>

Connections == 1..opened

Init ==
    /\ commands = 0 /\ called = 0
    /\ opened = 1
    /\ delay = 1 /\ slept = 0
    /\ readHalf = 1 /\ writeHalf = 1
    /\ arrived = [c \in 1..MaxOpened |-> 0]
    /\ sent = 0
    /\ over = {}
    /\ readLock = Null /\ writeLock = Null
    /\ pc = [t \in Tasks |-> IF t = Handler THEN "recv"
                             ELSE IF t = Reader THEN "read" ELSE "idle"]
    /\ on = [t \in Users |-> 0]

-----------------------------------------------------------------------------
(* The client.  A connection is closed when the socket has neither half of  *)
(* it: what the client does to it then changes nothing.                     *)

Held(c) == c \in {readHalf, writeHalf} \/ (c = opened /\ pc[Handler] \in {"swapReader", "swapWriter"})

ClientSends(c) ==
    /\ Held(c) /\ c \notin over
    /\ sent < MaxFrames
    /\ sent' = sent + 1
    /\ arrived' = [arrived EXCEPT ![c] = @ + 1]
    /\ UNCHANGED <<channel, backoff, opened, halves, over, locks, tasks>>

ClientEnds(c) ==
    /\ Held(c) /\ c \notin over
    /\ over' = over \cup {c}
    /\ UNCHANGED <<channel, backoff, opened, halves, arrived, sent, locks, tasks>>

-----------------------------------------------------------------------------
(* The channel of commands and the task that takes them out *)

\* Mutated form: a channel without a capacity.
SendCommandUnbounded ==
    /\ called < MaxCommands
    /\ called' = called + 1
    /\ commands' = commands + 1
    /\ UNCHANGED <<backoff, opened, halves, wire, locks, tasks>>

\* Any task: try_send gives the command back when the channel is full.
SendCommand ==
    /\ called < MaxCommands
    /\ called' = called + 1
    /\ commands' = IF commands < Capacity THEN commands + 1 ELSE commands
    /\ UNCHANGED <<backoff, opened, halves, wire, locks, tasks>>

HandlerGoes(l) == pc' = [pc EXCEPT ![Handler] = l] /\ UNCHANGED on

TakeCommand ==
    /\ pc[Handler] = "recv"
    /\ commands > 0
    /\ commands' = commands - 1
    /\ HandlerGoes("connect")
    /\ UNCHANGED <<called, backoff, opened, halves, wire, locks>>

\* `delay` is local to one reconnect.
ForgetDelay == delay' = 1 /\ slept' = 0

Connect ==
    /\ pc[Handler] = "connect"
    /\ opened < MaxOpened
    /\ opened' = opened + 1
    /\ ForgetDelay
    /\ HandlerGoes("swapReader")
    /\ UNCHANGED <<channel, halves, wire, locks>>

\* Mutated form: the longest delay is waited for as well, again and again.
ConnectFailsAgain ==
    /\ pc[Handler] = "connect"
    /\ IF delay <= MaxDelay THEN HandlerGoes("sleep") /\ UNCHANGED backoff
                            ELSE HandlerGoes("recv") /\ ForgetDelay
    /\ UNCHANGED <<channel, opened, halves, wire, locks>>

\* Once the delay has come to its maximum, a failure is the last one.
ConnectFails ==
    /\ pc[Handler] = "connect"
    /\ IF delay < MaxDelay THEN HandlerGoes("sleep") /\ UNCHANGED backoff
                           ELSE HandlerGoes("recv") /\ ForgetDelay
    /\ UNCHANGED <<channel, opened, halves, wire, locks>>

Wake ==
    /\ pc[Handler] = "sleep"
    /\ slept' = slept + delay
    /\ delay' = IF delay * 2 < MaxDelay THEN delay * 2 ELSE MaxDelay
    /\ HandlerGoes("connect")
    /\ UNCHANGED <<channel, opened, halves, wire, locks>>

\* *self.reader.lock().await = ...: the guard ends with the statement.
SwapReader ==
    /\ pc[Handler] = "swapReader"
    /\ readLock = Null
    /\ readHalf' = opened
    /\ HandlerGoes("swapWriter")
    /\ UNCHANGED <<channel, backoff, opened, writeHalf, wire, locks>>

\* Mutated form: try_lock, and the writer stays when it is in use.
SwapWriterTries ==
    /\ pc[Handler] = "swapWriter"
    /\ writeHalf' = IF writeLock = Null THEN opened ELSE writeHalf
    /\ HandlerGoes("recv")
    /\ UNCHANGED <<channel, backoff, opened, readHalf, wire, locks>>

SwapWriter ==
    /\ pc[Handler] = "swapWriter"
    /\ writeLock = Null
    /\ writeHalf' = opened
    /\ HandlerGoes("recv")
    /\ UNCHANGED <<channel, backoff, opened, readHalf, wire, locks>>

\* Mutated form: both guards live until both halves are replaced.
HandlesBothLocked ==
    \/ TakeCommand \/ Connect \/ ConnectFails \/ Wake
    \/ /\ pc[Handler] = "swapReader"
       /\ readLock = Null
       /\ readLock' = Handler
       /\ readHalf' = opened
       /\ HandlerGoes("swapWriter")
       /\ UNCHANGED <<channel, backoff, opened, writeHalf, wire, writeLock>>
    \/ /\ pc[Handler] = "swapWriter"
       /\ writeLock = Null
       /\ readLock' = Null
       /\ writeHalf' = opened
       /\ HandlerGoes("recv")
       /\ UNCHANGED <<channel, backoff, opened, readHalf, wire, writeLock>>

Handles == TakeCommand \/ Connect \/ ConnectFails \/ Wake \/ SwapReader \/ SwapWriter

-----------------------------------------------------------------------------
(* The tasks that use the socket *)

Goto(t, l) == pc' = [pc EXCEPT ![t] = l] /\ UNCHANGED on

\* Socket::send, or the Close frame that perform_close begins with.
Call(t) ==
    /\ pc[t] = "idle"
    /\ t \in Closers \cup Senders
    /\ Goto(t, "write")
    /\ UNCHANGED <<channel, backoff, opened, halves, wire, locks>>

Release(t, l) ==
    /\ pc' = [pc EXCEPT ![t] = l]
    /\ on' = [on EXCEPT ![t] = 0]

\* What a task uses is the half that is in its place when it has the lock.
LockReader(t) ==
    /\ pc[t] = "read"
    /\ readLock = Null
    /\ readLock' = t
    /\ pc' = [pc EXCEPT ![t] = "receive"]
    /\ on' = [on EXCEPT ![t] = readHalf]
    /\ UNCHANGED <<channel, backoff, opened, halves, wire, writeLock>>

\* A frame comes: read on, answer a Ping, or close.
Receive(t) ==
    /\ pc[t] = "receive"
    /\ arrived[on[t]] > 0
    /\ arrived' = [arrived EXCEPT ![on[t]] = @ - 1]
    /\ readLock' = Null
    /\ \E l \in {"read", "answer", "write"} : Release(t, l)
    /\ UNCHANGED <<channel, backoff, opened, halves, sent, over, writeLock>>

\* The end of the stream is error 1002: read closes.
ReceiveFails(t) ==
    /\ pc[t] = "receive"
    /\ arrived[on[t]] = 0
    /\ on[t] \in over
    /\ readLock' = Null
    /\ Release(t, "write")
    /\ UNCHANGED <<channel, backoff, opened, halves, wire, writeLock>>

Wanted == [answer |-> "answering", write |-> "writing", shutdown |-> "shutting"]

LockWriter(t) ==
    /\ pc[t] \in DOMAIN Wanted
    /\ writeLock = Null
    /\ writeLock' = t
    /\ pc' = [pc EXCEPT ![t] = Wanted[pc[t]]]
    /\ on' = [on EXCEPT ![t] = writeHalf]
    /\ UNCHANGED <<channel, backoff, opened, halves, wire, readLock>>

\* The frame is out, or the write has failed: a close goes on either way.
\* After a Ping's answer read goes on, or ends with an error.
Write(t) ==
    /\ pc[t] \in {"answering", "writing"}
    /\ writeLock' = Null
    /\ \E l \in IF pc[t] = "answering" THEN {"read", "done"}
                ELSE IF t \in Senders THEN {"done"} ELSE {"shutdown"} :
          Release(t, l)
    /\ UNCHANGED <<channel, backoff, opened, halves, wire, readLock>>

\* shutdown_stream: the reader lock, taken and dropped under the writer lock.
PassReader(t) ==
    /\ pc[t] = "shutting"
    /\ readLock = Null
    /\ Goto(t, "closing")
    /\ UNCHANGED <<channel, backoff, opened, halves, wire, locks>>

Shutdown(t) ==
    /\ pc[t] = "closing"
    /\ writeLock' = Null
    /\ Release(t, "done")
    /\ UNCHANGED <<channel, backoff, opened, halves, wire, readLock>>

Locks(t) == LockReader(t) \/ LockWriter(t) \/ PassReader(t)
Works(t) == Receive(t) \/ ReceiveFails(t) \/ Write(t) \/ Shutdown(t)

Next ==
    \/ \E c \in Connections : ClientSends(c) \/ ClientEnds(c)
    \/ SendCommand
    \/ Handles
    \/ \E t \in Users : Call(t) \/ Locks(t) \/ Works(t)

Spec == Init /\ [][Next]_vars

\* Tasks that can go on are polled, and who waits for a lock gets its turn.
ServerFairness ==
    /\ SF_vars(Handles)
    /\ \A t \in Users : SF_vars(Locks(t) \/ Works(t))

\* Nothing in the server ends a read of a silent client: the connection that is
\* read ends at some time by itself.
ConnectionsEnd == \A c \in 1..MaxOpened : WF_vars(c \in Connections /\ ClientEnds(c))

FairSpec == Spec /\ ServerFairness /\ ConnectionsEnd

-----------------------------------------------------------------------------
(* Properties *)

HandlerLabels == {"recv", "connect", "sleep", "swapReader", "swapWriter"}
Writing       == {"answering", "writing", "shutting", "closing"}
UserLabels    == {"idle", "read", "receive", "answer", "write", "shutdown", "done"}
                    \cup Writing

CountersOK ==
    /\ commands \in 0..Capacity /\ called \in Nat
    /\ delay \in 1..MaxDelay /\ slept \in Nat
    /\ arrived \in [1..MaxOpened -> Nat] /\ sent \in Nat

HalvesOK ==
    /\ opened \in 1..MaxOpened
    /\ readHalf \in Connections /\ writeHalf \in Connections
    /\ over \subseteq Connections
    /\ on \in [Users -> 0..opened]

PlacesOK ==
    /\ pc \in [Tasks -> HandlerLabels \cup UserLabels]
    /\ pc[Handler] \in HandlerLabels
    /\ \A t \in Users : pc[t] \in UserLabels

\* Each lock is held by the task that uses its half, and by nobody else.
LocksOK ==
    /\ readLock \in Users \cup {Null} /\ writeLock \in Users \cup {Null}
    /\ \A t \in Users : readLock = t <=> pc[t] = "receive"
    /\ \A t \in Users : writeLock = t <=> pc[t] \in Writing

TypeOK == CountersOK /\ HalvesOK /\ PlacesOK /\ LocksOK

\* When no reconnect is at its swap, both halves of the socket are of the newest
\* connection, however many Reconnects were queued; and a task that reads,
\* writes or shuts down does so on the half that is still in its place.
HalvesAgree ==
    /\ pc[Handler] \notin {"swapReader", "swapWriter"}
          => readHalf = opened /\ writeHalf = opened
    /\ \A t \in Users : pc[t] = "receive" => on[t] = readHalf
    /\ \A t \in Users : pc[t] \in Writing => on[t] = writeHalf

\* A Reconnect that finds nobody gives up: it sleeps less than twice the longest
\* delay in all, and never the longest delay itself.
WaitsBounded == slept <= 2 * MaxDelay - 3

\* No order of the two locks keeps a send, a close, the serving loop or a
\* Reconnect from its end, when the connections that are read end.
CallsEnd ==
    /\ \A t \in Users : pc[t] # "idle" ~> pc[t] = "done"
    /\ commands > 0 ~> commands = 0 /\ pc[Handler] = "recv"
=============================================================================
