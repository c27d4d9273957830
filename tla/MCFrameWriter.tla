---------------------------- MODULE MCFrameWriter ----------------------------
(* Instances of FrameWriter for TLC: two-byte frames, payloads of a few bytes. *)
EXTENDS FrameWriter, TLC

CONSTANTS d1, d2, b1, b2, c1

Direct    == {d1, d2}
One       == {d1}
Broadcast2 == {b1, b2}
Control   == {c1}
None      == {}
Long      == {0, 5}
TwoFrames == {1, 3}
Chunks    == {1, 3}

(* FrameWriter's discipline, behaviour by behaviour: the data of one           *)
(* connection comes from one direct task, or from broadcasts.                  *)
Disciplined ==
    \A d \in DirectTasks, b \in BroadcastTasks : calls[d] = 0 \/ calls[b] = 0

DisciplinedNext == Next /\ Disciplined'

DisciplinedSpec == Init /\ [][DisciplinedNext]_vars /\ Fairness
=============================================================================
