------------------------------ MODULE MCDaemon ------------------------------
(***************************************************************************)
(* Three clients: between them one or two Shutdowns, a request, silence,   *)
(* and one or two that trickle.                                            *)
(***************************************************************************)
EXTENDS Daemon

CONSTANTS c1, c2, c3

MCWants == [c \in Clients |-> CASE c = c1 -> {"stop"}
                                [] c = c2 -> {"mute", "trickle", "stop"}
                                [] OTHER -> {"query", "trickle"}]
=============================================================================
