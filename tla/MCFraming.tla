----------------------------- MODULE MCFraming ------------------------------
(* Framing has no model values: the configuration gives its bounds. *)
EXTENDS Framing
=============================================================================
