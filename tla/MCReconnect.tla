----------------------------- MODULE MCReconnect -----------------------------
(* Instances of Reconnect for TLC. *)
EXTENDS Reconnect, TLC

CONSTANTS s1, c1

OneSender == {s1}
OneCloser == {c1}
=============================================================================
