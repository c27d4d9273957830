-------------------------------- MODULE Rooms --------------------------------
(***************************************************************************)
(* Rooms (ws/socket/room.rs): a map from room ids to member connections     *)
(* behind one asynchronous lock, used by one task per connection.           *)
(*                                                                         *)
(* Most operations take the lock, do their work without awaiting and give   *)
(* it back: one step here.  Two do not:                                     *)
(*   - create_room takes the lock twice, to look and to insert;             *)
(*   - a broadcast keeps the lock over one awaited send per member, and a   *)
(*     send that fails ends it: broadcast_to_room unwraps, so the task      *)
(*     panics; broadcast_json_to_room returns the error.                    *)
(***************************************************************************)
EXTENDS Integers, Sequences, FiniteSets

CONSTANTS
    Conns,           \* the connections; each has one task that serves it
    RoomIds,
    Calls,           \* Calls[c]: the operations that the callback of c may call
    Mortals,         \* the connections whose client may go away
    MaxBroadcasts,   \* bound: the broadcasts that are asked for
    None             \* no task holds the lock; no room

BroadcastOps == {"broadcast", "broadcast_json"}
Ops == {"create", "remove", "join", "leave", "members"} \cup BroadcastOps

ASSUME ConnsAssumption ==
    /\ Calls \in [Conns -> SUBSET Ops]
    /\ Mortals \subseteq Conns
    /\ None \notin Conns \cup RoomIds
    /\ MaxBroadcasts \in Nat

VARIABLES
    rooms,      \* the map: the members of each existing room
    holder,     \* the task that keeps the lock over an await, or None
    pc,         \* "idle", "wait" (for the lock), "insert" (second half of
                \* create_room), "send" (inside a broadcast) or "panicked"
    job,        \* the operation a task is in
    todo,       \* the connections a broadcast has not come to yet
    serial,     \* the number of the broadcast a task is in
    gone,       \* the connections whose client has gone away
    inbox,      \* what each client got, oldest first
    broadcasts  \* the broadcasts that have got the lock

vars == <<rooms, holder, pc, job, todo, serial, gone, inbox, broadcasts>>

JobType == [op : Ops, room : RoomIds]
NoJob   == [op |-> "none", room |-> None]

\* n numbers the broadcasts in the order in which they got the lock.
Broadcast == [from : Conns, room : RoomIds, n : Nat]

Exists(r) == r \in DOMAIN rooms

Init ==
    /\ rooms = [r \in {} |-> {}]
    /\ holder = None
    /\ pc = [c \in Conns |-> "idle"]
    /\ job = [c \in Conns |-> NoJob]
    /\ todo = [c \in Conns |-> {}]
    /\ serial = [c \in Conns |-> 0]
    /\ gone = {}
    /\ inbox = [c \in Conns |-> <<>>]
    /\ broadcasts = 0

-----------------------------------------------------------------------------
(* The steps of a task *)

\* The tasks that wait for the lock to broadcast.
Waiting == {d \in Conns : pc[d] = "wait" /\ job[d].op \in BroadcastOps}

\* The callback's code calls one of the operations.
Call(c) ==
    /\ pc[c] = "idle"
    /\ \E j \in JobType :
          /\ j.op \in Calls[c]
          /\ j.op \in BroadcastOps => broadcasts + Cardinality(Waiting) < MaxBroadcasts
          /\ job' = [job EXCEPT ![c] = j]
    /\ pc' = [pc EXCEPT ![c] = "wait"]
    /\ UNCHANGED <<rooms, holder, todo, serial, gone, inbox, broadcasts>>

\* Mutated form: the lock outlives the operation.
EndKeepsLock(c, state) ==
    /\ pc' = [pc EXCEPT ![c] = state]
    /\ job' = [job EXCEPT ![c] = NoJob]
    /\ todo' = [todo EXCEPT ![c] = {}]
    /\ serial' = [serial EXCEPT ![c] = 0]
    /\ UNCHANGED holder

\* The operation ends, normally, with an error, or in a panic.  Its guard is
\* dropped either way: an unwinding task frees a tokio lock.
End(c, state) ==
    /\ pc' = [pc EXCEPT ![c] = state]
    /\ job' = [job EXCEPT ![c] = NoJob]
    /\ todo' = [todo EXCEPT ![c] = {}]
    /\ serial' = [serial EXCEPT ![c] = 0]
    /\ holder' = IF holder = c THEN None ELSE holder

\* c gets the lock for operation op on room r.
Locks(c, op, r) ==
    /\ pc[c] = "wait"
    /\ holder = None
    /\ job[c] = [op |-> op, room |-> r]

\* Mutated form: create_room does not look.
CreateLooksNot(c, r) ==
    /\ Locks(c, "create", r)
    /\ pc' = [pc EXCEPT ![c] = "insert"]
    /\ UNCHANGED <<rooms, holder, job, todo, serial, gone, inbox, broadcasts>>

\* create_room, first half: room_exists, under its own guard.
CreateLooks(c, r) ==
    /\ Locks(c, "create", r)
    /\ IF Exists(r)
         THEN End(c, "idle")
         ELSE /\ pc' = [pc EXCEPT ![c] = "insert"]
              /\ UNCHANGED <<job, todo, serial, holder>>
    /\ UNCHANGED <<rooms, gone, inbox, broadcasts>>

\* create_room, second half: the insert, whatever the map holds by now.
CreateInserts(c, r) ==
    /\ pc[c] = "insert"
    /\ holder = None
    /\ job[c].room = r
    /\ rooms' = [s \in DOMAIN rooms \cup {r} |-> IF s = r THEN {} ELSE rooms[s]]
    /\ End(c, "idle")
    /\ UNCHANGED <<gone, inbox, broadcasts>>

RemoveRoom(c, r) ==
    /\ Locks(c, "remove", r)
    /\ rooms' = [s \in DOMAIN rooms \ {r} |-> rooms[s]]
    /\ End(c, "idle")
    /\ UNCHANGED <<gone, inbox, broadcasts>>

\* insert_ws_to_room: an error when the room is missing or c is in it already.
Join(c, r) ==
    /\ Locks(c, "join", r)
    /\ rooms' = IF Exists(r) THEN [rooms EXCEPT ![r] = @ \cup {c}] ELSE rooms
    /\ End(c, "idle")
    /\ UNCHANGED <<gone, inbox, broadcasts>>

\* remove_ws_from_room
Leave(c, r) ==
    /\ Locks(c, "leave", r)
    /\ rooms' = IF Exists(r) THEN [rooms EXCEPT ![r] = @ \ {c}] ELSE rooms
    /\ End(c, "idle")
    /\ UNCHANGED <<gone, inbox, broadcasts>>

\* connections_vec unwraps the room it looks for.
Members(c, r) ==
    /\ Locks(c, "members", r)
    /\ End(c, IF Exists(r) THEN "idle" ELSE "panicked")
    /\ UNCHANGED <<rooms, gone, inbox, broadcasts>>

\* Mutated form: the members are copied and the lock is given back before the
\* sends.
BroadcastBeginsUnlocked(c, r) ==
    /\ \E op \in BroadcastOps : Locks(c, op, r)
    /\ IF Exists(r)
         THEN /\ pc' = [pc EXCEPT ![c] = "send"]
              /\ todo' = [todo EXCEPT ![c] = rooms[r] \ {c}]
              /\ broadcasts' = broadcasts + 1
              /\ serial' = [serial EXCEPT ![c] = broadcasts + 1]
              /\ UNCHANGED <<job, holder>>
         ELSE End(c, "idle") /\ UNCHANGED broadcasts
    /\ UNCHANGED <<rooms, gone, inbox>>

\* broadcast_to_room and broadcast_json_to_room get the lock; from here to the
\* end of the operation the task keeps it.
BroadcastBegins(c, r) ==
    /\ \E op \in BroadcastOps : Locks(c, op, r)
    /\ IF Exists(r)
         THEN /\ holder' = c
              /\ pc' = [pc EXCEPT ![c] = "send"]
              /\ todo' = [todo EXCEPT ![c] = rooms[r] \ {c}]
              /\ broadcasts' = broadcasts + 1
              /\ serial' = [serial EXCEPT ![c] = broadcasts + 1]
              /\ UNCHANGED job
         ELSE End(c, "idle") /\ UNCHANGED broadcasts
    /\ UNCHANGED <<rooms, gone, inbox>>

\* The send to the next member succeeds.  A client that is gone gets nothing,
\* although the first writes after it left may still succeed.
SendArrives(c, m) ==
    /\ pc[c] = "send"
    /\ m \in todo[c]
    /\ inbox' = IF m \in gone THEN inbox
                ELSE [inbox EXCEPT ![m] = Append(@, [from |-> c, room |-> job[c].room,
                                                     n |-> serial[c]])]
    /\ todo' = [todo EXCEPT ![c] = @ \ {m}]
    /\ UNCHANGED <<rooms, holder, pc, job, serial, gone, broadcasts>>

\* The send to the next member fails: the rest of the members get nothing.
SendFails(c, m) ==
    /\ pc[c] = "send"
    /\ m \in todo[c]
    /\ m \in gone
    /\ End(c, IF job[c].op = "broadcast" THEN "panicked" ELSE "idle")
    /\ UNCHANGED <<rooms, gone, inbox, broadcasts>>

\* Mutated form: the loop stops after the first member.
BroadcastEndsEarly(c) ==
    /\ pc[c] = "send"
    /\ End(c, "idle")
    /\ UNCHANGED <<rooms, gone, inbox, broadcasts>>

BroadcastEnds(c) ==
    /\ pc[c] = "send"
    /\ todo[c] = {}
    /\ End(c, "idle")
    /\ UNCHANGED <<rooms, gone, inbox, broadcasts>>

\* The client of m goes away; nothing removes m from its rooms.
GoesAway(m) ==
    /\ m \in Mortals \ gone
    /\ gone' = gone \cup {m}
    /\ UNCHANGED <<rooms, holder, pc, job, todo, serial, inbox, broadcasts>>

OpStep(c, r) ==
    \/ CreateLooks(c, r) \/ CreateInserts(c, r)
    \/ RemoveRoom(c, r) \/ Join(c, r) \/ Leave(c, r) \/ Members(c, r)
    \/ BroadcastBegins(c, r)

SendStep(c) ==
    \/ \E m \in Conns : SendArrives(c, m) \/ SendFails(c, m)
    \/ BroadcastEnds(c)

Step(c) == SendStep(c) \/ \E r \in RoomIds : OpStep(c, r)

Next ==
    \/ \E c \in Conns : Call(c) \/ Step(c)
    \/ \E m \in Mortals : GoesAway(m)

Spec == Init /\ [][Next]_vars

\* Runnable tasks are polled, sends to members complete, and the lock is handed
\* over in the order in which it was asked for (tokio::sync::Mutex is FIFO).
Fairness == \A c \in Conns : SF_vars(Step(c))

FairSpec == Spec /\ Fairness

-----------------------------------------------------------------------------
(* Properties *)

TypeOK ==
    /\ DOMAIN rooms \subseteq RoomIds
    /\ rooms \in [DOMAIN rooms -> SUBSET Conns]
    /\ holder \in Conns \cup {None}
    /\ \A c \in Conns : holder = c <=> pc[c] = "send"
    /\ pc \in [Conns -> {"idle", "wait", "insert", "send", "panicked"}]
    /\ job \in [Conns -> JobType \cup {NoJob}]
    /\ \A c \in Conns : pc[c] \in {"wait", "insert", "send"} => job[c] \in JobType
    /\ todo \in [Conns -> SUBSET Conns]
    /\ serial \in [Conns -> Nat]
    /\ gone \subseteq Mortals
    /\ inbox \in [Conns -> Seq(Broadcast)]
    /\ broadcasts \in Nat

\* All members see broadcasts in one order, that in which they got the lock:
\* no inbox holds a later broadcast before an earlier one, or one twice.
SameOrder ==
    \A c \in Conns : \A i, j \in DOMAIN inbox[c] :
        i < j => inbox[c][i].n < inbox[c][j].n

\* A broadcast reaches the room as it was when it got the lock: nobody joins,
\* leaves, creates or removes a room between its first send and its last.
AudienceFrozen ==
    \A c \in Conns : pc[c] = "send" =>
        /\ Exists(job[c].room)
        /\ todo[c] \subseteq rooms[job[c].room] \ {c}
        /\ \A m \in rooms[job[c].room] \ (todo[c] \cup {c} \cup gone) :
              /\ inbox[m] # <<>>
              /\ inbox[m][Len(inbox[m])] =
                    [from |-> c, room |-> job[c].room, n |-> serial[c]]

\* While no member goes away, a broadcast that returns has reached every member
\* except the sender.
ReachesAll ==
    [][\A c \in Conns :
          pc[c] = "send" /\ pc'[c] # "send" /\ gone = {} =>
              \A m \in rooms[job[c].room] \ {c} :
                  \E i \in DOMAIN inbox[m] : inbox[m][i].n = serial[c]]_vars

\* Every operation returns, or its task panics: nobody waits for the lock
\* forever, although broadcasts keep it while they wait for clients.
EveryOpReturns ==
    \A c \in Conns : pc[c] \in {"wait", "insert", "send"} ~> pc[c] \in {"idle", "panicked"}

Creators == {c \in Conns : "create" \in Calls[c]}

\* The discipline under which looking and inserting need no common guard.
OneCreator == \A c, d \in Creators : c = d

\* create_room never replaces a room that exists, so its members stay in it.
CreateKeepsRooms ==
    [][\A c \in Conns, r \in RoomIds : CreateInserts(c, r) => ~Exists(r)]_vars

Registry == INSTANCE RoomRegistry

\* The rooms map behaves as a registry with atomic operations.
ImplementsRegistry == Registry!Spec
=============================================================================
