--------------------------- MODULE MCThunderServer ---------------------------
(* Instances of ThunderServer for TLC. *)
EXTENDS ThunderServer

CONSTANTS c1, c2, k1, k2

TwoClients == {c1, c2}
TwoClosers == {k1, k2}

Q(ws, upgrade, pieces) == [ws |-> ws, upgrade |-> upgrade, pieces |-> pieces]

Whole     == <<{"line", "keys", "end"}>>
InHeaders == <<{"line"}, {"keys", "end"}>>       \* cut between the headers
InLine    == <<{}, {"line", "keys", "end"}>>     \* cut in the request line
InTail    == <<{"line", "keys"}, {"end"}>>       \* cut behind the two headers

\* A WebSocket request whole and cut at each place, and one for HTTP.
AnyRequests == {Q(TRUE, TRUE, Whole), Q(TRUE, TRUE, InHeaders), Q(TRUE, TRUE, InLine),
                Q(TRUE, FALSE, InTail), Q(FALSE, FALSE, InLine)}
=============================================================================
