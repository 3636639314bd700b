---------------------------- MODULE MCConnections ----------------------------
(* A small instance of Connections. *)
EXTENDS Connections

\* The SDP socket, a listening and an accepted one, and one that was left.
Limit == 4

=============================================================================
