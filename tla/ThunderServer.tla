---------------------------- MODULE ThunderServer ----------------------------
(***************************************************************************)
(* The life of a TCP connection in the server: start and handle_connection  *)
(* (server/server.rs), parse_request_path (server/parser.rs),               *)
(* perform_handshake (ws/handshake.rs), handle_ws and close_connection      *)
(* (ws/server.rs).                                                          *)
(*                                                                         *)
(* A request comes in pieces: what arrives at once, up to the 1024 bytes    *)
(* that peek and the handshake's one read look at.  A piece is the set of   *)
(* the parts of the request that it completes: the request line, the two    *)
(* headers the handshake needs ("keys"), and the end of the headers.        *)
(*                                                                         *)
(* The table of connections has one asynchronous lock, which close_connection *)
(* keeps over the close of the connection.  What that close waits for is    *)
(* SocketClose's subject: while the callback's loop sits in a read, the     *)
(* shutdown gets no further until the client sends something or leaves.     *)
(***************************************************************************)
EXTENDS Integers, Sequences, FiniteSets

CONSTANTS
    Clients,
    Closers,      \* tasks of the application that may call close_connection
    Requests,     \* what the clients may ask for
    Null

Parts == {"line", "keys", "end"}

\* ws: the method is known and the path starts with /ws; upgrade: the headers
\* ask for websocket with a key.
RequestType == [ws : BOOLEAN, upgrade : BOOLEAN, pieces : Seq(SUBSET Parts)]

ASSUME RequestsAssumption ==
    /\ Requests \subseteq RequestType
    /\ \A q \in Requests : Parts = UNION {q.pieces[i] : i \in DOMAIN q.pieces}
    /\ Clients \cap Closers = {}
    /\ Null \notin Clients \cup Closers \cup Requests

VARIABLES
    request,      \* request[c]: what c asks for; Null before it connects
    arrived,      \* how many pieces of it have arrived
    gone,         \* the clients that have left
    answered,     \* the clients that sent something or ended after a Close frame
    pc,           \* what the task of each connection, and each closer, does
    connections,  \* the table
    lock,         \* the closer that keeps the table's lock, or Null
    shut,         \* the connections the server has shut down
    served,       \* the connections whose on_connect callback was called
    target,       \* target[k]: the connection closer k closes
    closes        \* history: how often each connection was closed by a closer

clientVars == <<request, arrived, gone, answered>>
closerVars == <<lock, target, closes>>

vars == <<clientVars, pc, connections, shut, served, closerVars>>

Init ==
    /\ request = [c \in Clients |-> Null]
    /\ arrived = [c \in Clients |-> 0]
    /\ gone = {}
    /\ answered = {}
    /\ pc = [t \in Clients \cup Closers |-> IF t \in Clients THEN "none" ELSE "idle"]
    /\ connections = {}
    /\ lock = Null
    /\ shut = {}
    /\ served = {}
    /\ target = [k \in Closers |-> Null]
    /\ closes = [c \in Clients |-> 0]

\* The parts that the first n pieces of c's request complete.
Complete(c, n) == UNION {request[c].pieces[i] : i \in 1..n}

Goto(t, l) == pc' = [pc EXCEPT ![t] = l]

-----------------------------------------------------------------------------
(* The clients *)

\* The client connects and the accept loop spawns the connection's task.
Accept(c) ==
    /\ pc[c] = "none"
    /\ \E q \in Requests : request' = [request EXCEPT ![c] = q]
    /\ Goto(c, "peek")
    /\ UNCHANGED <<arrived, gone, answered, connections, shut, served,
                   closerVars>>

Arrives(c) ==
    /\ pc[c] # "none" /\ c \notin gone
    /\ arrived[c] < Len(request[c].pieces)
    /\ arrived' = [arrived EXCEPT ![c] = @ + 1]
    /\ UNCHANGED <<request, gone, answered, pc, connections, shut, served,
                   closerVars>>

Leaves(c) ==
    /\ pc[c] # "none" /\ c \notin gone
    /\ gone' = gone \cup {c}
    /\ UNCHANGED <<request, arrived, answered, pc, connections, shut, served,
                   closerVars>>

\* The client sends something (a Close, as a rule) after the server's Close.
Answers(c) ==
    /\ c \notin gone \cup answered
    /\ \E k \in Closers : pc[k] = "closing" /\ target[k] = c
    /\ answered' = answered \cup {c}
    /\ UNCHANGED <<request, arrived, gone, pc, connections, shut, served,
                   closerVars>>

-----------------------------------------------------------------------------
(* handle_connection *)

\* A connection that ends before a byte has come is dropped, and so is one that
\* breaks before its task has looked, whatever had come.
PeekFails(c) ==
    /\ pc[c] = "peek"
    /\ c \in gone
    /\ Goto(c, "dropped")
    /\ UNCHANGED <<clientVars, connections, shut, served, closerVars>>

\* peek sees what has come, and parse_request_path wants the whole request
\* line in it: without, the path is "/" and the connection goes to HTTP.
Peek(c) ==
    /\ pc[c] = "peek"
    /\ \E n \in 1..arrived[c] :
          Goto(c, IF "line" \in Complete(c, n) /\ request[c].ws THEN "handshake" ELSE "http")
    /\ UNCHANGED <<clientVars, connections, shut, served, closerVars>>

\* perform_handshake, one read: the headers in it decide.  The answer cannot be
\* written to a client that is gone.
Handshake(c) ==
    /\ pc[c] = "handshake"
    /\ \E n \in 1..arrived[c] :
          \/ /\ request[c].upgrade /\ "keys" \in Complete(c, n)
             /\ Goto(c, "insert")
             /\ UNCHANGED shut
          \/ /\ (request[c].upgrade /\ "keys" \in Complete(c, n)) => c \in gone
             /\ Goto(c, "refused")
             /\ shut' = shut \cup {c}
    /\ UNCHANGED <<clientVars, connections, served, closerVars>>

-----------------------------------------------------------------------------
(* handle_ws (ws/server.rs) *)

\* Socket::new unwraps peer_addr, which a connection that is gone may not have.
Panic(c) ==
    /\ pc[c] = "insert"
    /\ c \in gone
    /\ Goto(c, "panicked")
    /\ UNCHANGED <<clientVars, connections, shut, served, closerVars>>

Insert(c) ==
    /\ pc[c] = "insert"
    /\ lock = Null
    /\ connections' = connections \cup {c}
    /\ Goto(c, "connected")
    /\ UNCHANGED <<clientVars, shut, served, closerVars>>

\* on_connect, which spawns the callback's loop.
OnConnect(c) ==
    /\ pc[c] = "connected"
    /\ served' = served \cup {c}
    /\ Goto(c, "serve")
    /\ UNCHANGED <<clientVars, connections, shut, closerVars>>

\* The loop ends with the client, and closes the connection (SocketClose).  The
\* table keeps it, and nothing calls on_close.
LoopEnds(c) ==
    /\ pc[c] = "serve"
    /\ c \in gone \cup shut
    /\ Goto(c, "ended")
    /\ shut' = shut \cup {c}
    /\ UNCHANGED <<clientVars, connections, served, closerVars>>

-----------------------------------------------------------------------------
(* close_connection *)

\* The application learns of a connection and its id from the callback.
CallClose(k, c) ==
    /\ pc[k] = "idle"
    /\ c \in served
    /\ target' = [target EXCEPT ![k] = c]
    /\ Goto(k, "wait")
    /\ UNCHANGED <<clientVars, connections, lock, shut, served, closes>>

\* Mutated form: the connection is looked up but not removed.
LookUpGets(k) ==
    /\ pc[k] = "wait"
    /\ lock = Null
    /\ LET c == target[k] IN
       IF c \in connections
         THEN /\ lock' = k
              /\ closes' = [closes EXCEPT ![c] = @ + 1]
              /\ Goto(k, "closing")
         ELSE /\ Goto(k, "done")
              /\ UNCHANGED <<lock, closes>>
    /\ UNCHANGED <<clientVars, connections, shut, served, target>>

LookUp(k) ==
    /\ pc[k] = "wait"
    /\ lock = Null
    /\ LET c == target[k] IN
       IF c \in connections
         THEN /\ lock' = k
              /\ connections' = connections \ {c}
              /\ closes' = [closes EXCEPT ![c] = @ + 1]
              /\ Goto(k, "closing")
         ELSE /\ Goto(k, "done")
              /\ UNCHANGED <<lock, connections, closes>>
    /\ UNCHANGED <<clientVars, shut, served, target>>

\* Mutated form: the lock is never given back.
CloseEndsLocked(k) ==
    /\ pc[k] = "closing"
    /\ pc[target[k]] = "serve" => target[k] \in answered \cup gone
    /\ shut' = shut \cup {target[k]}
    /\ Goto(k, "done")
    /\ UNCHANGED <<clientVars, connections, served, closerVars>>

\* Mutated form: the close is left to itself.
CloseEndsAtOnce(k) ==
    /\ pc[k] = "closing"
    /\ lock' = Null
    /\ Goto(k, "done")
    /\ UNCHANGED <<clientVars, connections, shut, served, target, closes>>

\* At worst the shutdown waits for the loop's read.  It may fail on a connection
\* that is gone.
CloseEnds(k) ==
    /\ pc[k] = "closing"
    /\ pc[target[k]] = "serve" => target[k] \in answered \cup gone
    /\ \/ shut' = shut \cup {target[k]}
       \/ target[k] \in gone /\ UNCHANGED shut
    /\ lock' = Null
    /\ Goto(k, "done")
    /\ UNCHANGED <<clientVars, connections, served, target, closes>>

ConnectionStep(c) ==
    \/ PeekFails(c) \/ Peek(c) \/ Handshake(c)
    \/ Panic(c) \/ Insert(c) \/ OnConnect(c) \/ LoopEnds(c)

CloserStep(k) == LookUp(k) \/ CloseEnds(k)

Next ==
    \/ \E c \in Clients : Accept(c) \/ Arrives(c) \/ Leaves(c) \/ Answers(c) \/ ConnectionStep(c)
    \/ \E k \in Closers : CloserStep(k) \/ \E c \in Clients : CallClose(k, c)

Spec == Init /\ [][Next]_vars

\* Tasks are polled when they can go on, and the table's lock is a queue.
ServerFairness ==
    /\ \A c \in Clients : SF_vars(ConnectionStep(c))
    /\ \A k \in Closers : SF_vars(CloserStep(k))

\* The clients answer a Close or leave.  The server does not make them: a client
\* that stays silent holds the close, and with it the table.
PoliteClients == \A c \in Clients : WF_vars(Answers(c))

FairSpec == Spec /\ ServerFairness /\ PoliteClients

-----------------------------------------------------------------------------
(* Properties *)

Labels == {"none", "peek", "dropped", "handshake", "refused", "http", "insert", "panicked",
           "connected", "serve", "ended", "idle", "wait", "closing", "done"}

TypeOK ==
    /\ request \in [Clients -> Requests \cup {Null}]
    /\ arrived \in [Clients -> Nat]
    /\ \A c \in Clients :
          /\ request[c] = Null <=> pc[c] = "none"
          /\ arrived[c] <= IF request[c] = Null THEN 0 ELSE Len(request[c].pieces)
    /\ pc \in [Clients \cup Closers -> Labels]
    /\ \A s \in {gone, answered, connections, shut, served} : s \subseteq Clients
    /\ \A k \in Closers : lock = k <=> pc[k] = "closing"
    /\ target \in [Closers -> Clients \cup {Null}]
    /\ \A k \in Closers : target[k] = Null <=> pc[k] = "idle"
    /\ closes \in [Clients -> Nat]

\* However many tasks close a connection at once, one does, and it stays out of
\* the table.
ClosedOnce ==
    \A c \in Clients : closes[c] <= 1 /\ (closes[c] = 1 => c \notin connections)

\* When close_connection returns the connection is closed, also for the task
\* that found it closed by another one, and for one that the callback started.
CloseTakesEffect ==
    \A k \in Closers : pc[k] = "done" => target[k] \in shut \cup gone

\* Every client that shakes hands is handed to the callback, whoever is closed
\* meanwhile.
EveryoneServed ==
    \A c \in Clients : pc[c] = "insert" ~> c \in served \/ c \in gone

\* close_connection returns.
CloserReturns ==
    \A k \in Closers : pc[k] = "wait" ~> pc[k] = "done"
=============================================================================
