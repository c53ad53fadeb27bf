------------------------------- MODULE MCTimer -------------------------------
(***************************************************************************)
(* The timers checked by TLC: notify a belongs to the event thread, as     *)
(* those of the sockets and of the configuration files do, notify b to a   *)
(* thread of its own.                                                      *)
(***************************************************************************)
EXTENDS Timer

CONSTANTS a, b, c1

OwnerOf == [n \in Notify |-> IF n = a THEN Event ELSE c1]
NoSelfCalls == {}
SelfUpdate == {<<b, "update">>}
SelfClose == {<<b, "close">>}
=============================================================================
