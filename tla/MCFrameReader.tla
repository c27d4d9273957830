---------------------------- MODULE MCFrameReader ----------------------------
(* Instances of FrameReader for TLC. *)
EXTENDS FrameReader

CONSTANTS r1, r2

OneReader  == {r1}
TwoReaders == {r1, r2}

F(op, fin, body) == [op |-> op, fin |-> fin, rsv |-> FALSE, key |-> "random", body |-> body]

\* What read_frame tells apart: frames in sequence or out of it, and frames that
\* are refused for themselves.
Taken ==
    {F("text", TRUE, "whole"), F("text", TRUE, "tail"), F("text", FALSE, "head"),
     F("continuation", TRUE, "tail"), F("continuation", FALSE, "empty"), F("binary", FALSE, "empty"),
     F("ping", TRUE, "whole"), F("close", TRUE, "code")}

Refused ==
    {F("ping", FALSE, "empty"), F("ping", TRUE, "big"),
     F("close", TRUE, "bad code"), F("close", TRUE, "bad reason"), F("reserved", TRUE, "empty"),
     [F("text", TRUE, "whole") EXCEPT !.rsv = TRUE],
     [F("binary", TRUE, "whole") EXCEPT !.key = "zero"]}

\* Of the frames on which RFC 6455 and the code disagree there are a zero key
\* (above) and a Pong that may come inside a message.
All == Taken \cup Refused \cup {F("pong", TRUE, "whole")}

Fragments == {F("text", FALSE, "whole"), F("continuation", TRUE, "whole"), F("pong", TRUE, "empty")}
=============================================================================
