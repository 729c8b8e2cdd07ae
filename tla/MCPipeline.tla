---------------------------- MODULE MCPipeline ------------------------------
(* A small instance of Pipeline for TLC. *)
EXTENDS Pipeline, TLC

CONSTANTS s1, o1, c1, c2, t1

\* One session, one operation, two calls that carry its request_id.
RetryOwner == o1 :> s1
RetryTarget == c1 :> o1 @@ c2 :> o1
=============================================================================
