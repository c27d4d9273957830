------------------------------- MODULE MCRooms -------------------------------
(* Instances of Rooms for TLC. *)
EXTENDS Rooms, TLC

CONSTANTS a, b, c, lobby

Three    == {a, b, c}
Two      == {a, b}
Other    == {b}
Nobody   == {}
OneRoom  == {lobby}

\* a does everything but ask for the members, b and c what a member does.
OneMaker  == (a :> {"create", "remove", "join", "leave", "broadcast"})
          @@ (b :> {"join", "leave", "broadcast_json"})
          @@ (c :> {"join", "members"})
TwoMakers == [d \in Two |-> {"create", "join"}]
=============================================================================
