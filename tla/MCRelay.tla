------------------------------ MODULE MCRelay -------------------------------
(* A small instance of Relay for TLC. *)
EXTENDS Relay

\* More than a chunk to send, a single unit to receive.
Uneven == [d \in Directions |-> IF d = "out" THEN 3 ELSE 1]
=============================================================================
