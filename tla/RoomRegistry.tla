---------------------------- MODULE RoomRegistry ----------------------------
(***************************************************************************)
(* What the rooms map promises to the tasks that share it: a registry whose *)
(* operations are atomic.  A room appears empty and only where there was    *)
(* none, a connection joins or leaves one room at a time, and a room loses  *)
(* all its members only when it is removed.  Rooms implements it.           *)
(***************************************************************************)
CONSTANTS Conns, RoomIds

VARIABLE rooms   \* a function from the existing rooms to their members

Init == rooms = [r \in {} |-> {}]

Exists(r) == r \in DOMAIN rooms

Create(r) ==
    /\ ~Exists(r)
    /\ rooms' = [s \in DOMAIN rooms \cup {r} |-> IF s = r THEN {} ELSE rooms[s]]

Remove(r) ==
    /\ Exists(r)
    /\ rooms' = [s \in DOMAIN rooms \ {r} |-> rooms[s]]

Join(c, r) ==
    /\ Exists(r)
    /\ c \notin rooms[r]
    /\ rooms' = [rooms EXCEPT ![r] = @ \cup {c}]

Leave(c, r) ==
    /\ Exists(r)
    /\ c \in rooms[r]
    /\ rooms' = [rooms EXCEPT ![r] = @ \ {c}]

Next ==
    \E r \in RoomIds :
        \/ Create(r) \/ Remove(r)
        \/ \E c \in Conns : Join(c, r) \/ Leave(c, r)

Spec == Init /\ [][Next]_rooms
=============================================================================
