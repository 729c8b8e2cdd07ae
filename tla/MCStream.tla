----------------------------- MODULE MCStream -------------------------------
(* A small instance of Stream for TLC: one session with one stream. *)
EXTENDS Stream, TLC

CONSTANTS s1, o1

SoloOwner == o1 :> s1
=============================================================================
