---------------------------- MODULE MCSocketClose ----------------------------
(* Instances of SocketClose for TLC. *)
EXTENDS SocketClose

CONSTANTS reader, w1, s1

Nobody    == {}
OneWaiter == {w1}
OneSender == {s1}

\* A close that waits for the client and stores FALSE, and one that returns
\* early: for it internal_close is close.
Unclean == [clean |-> FALSE, early |-> FALSE]
Early   == [clean |-> FALSE, early |-> TRUE]

OneRequest == {Unclean}
WaitOrNot  == {Unclean, Early}
Bad        == {"bad"}
=============================================================================
