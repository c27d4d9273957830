--------------------------- MODULE MessageChannel ---------------------------
(***************************************************************************)
(* What one WebSocket connection promises to the tasks that write to it:   *)
(* every payload handed to Socket::send reaches the client whole, exactly  *)
(* once unless the connection fails, and the payloads of one task in the   *)
(* order the task handed them over.  How a payload is cut into frames, and *)
(* how the frames of several tasks interleave, is not visible here;        *)
(* FrameWriter implements it.                                              *)
(***************************************************************************)
EXTENDS Sequences

CONSTANTS
    Senders,    \* the tasks that write to the connection
    Payloads,   \* the payloads that can be handed over
    NoPayload   \* "the task is not sending", no payload

VARIABLES
    pending,    \* the payload each task is sending, or NoPayload
    delivered,  \* what the client has received, oldest first
    failed      \* the connection is gone

vars == <<pending, delivered, failed>>

Init ==
    /\ pending = [t \in Senders |-> NoPayload]
    /\ delivered = <<>>
    /\ failed = FALSE

\* A task hands a payload over.
Submit(t) ==
    /\ pending[t] = NoPayload
    /\ \E p \in Payloads : pending' = [pending EXCEPT ![t] = p]
    /\ UNCHANGED <<delivered, failed>>

\* The whole payload reaches the client.
Deliver(t) ==
    /\ ~failed
    /\ pending[t] # NoPayload
    /\ delivered' = Append(delivered, pending[t])
    /\ pending' = [pending EXCEPT ![t] = NoPayload]
    /\ UNCHANGED failed

\* The connection goes away.
Lose == ~failed /\ failed' = TRUE /\ UNCHANGED <<pending, delivered>>

\* The connection failed: the payload is given up.
Drop(t) ==
    /\ failed
    /\ pending[t] # NoPayload
    /\ pending' = [pending EXCEPT ![t] = NoPayload]
    /\ UNCHANGED <<delivered, failed>>

Next == Lose \/ \E t \in Senders : Submit(t) \/ Deliver(t) \/ Drop(t)

Spec == Init /\ [][Next]_vars
=============================================================================
