---------------------------- MODULE MCRecorder ------------------------------
(* A small instance of Recorder for TLC: one required and one best-effort  *)
(* flow, in two sessions.                                                  *)
EXTENDS Recorder

FlowSession == [f \in Flows |-> IF f = "req" THEN "s1" ELSE "s2"]
ClassSize == [x \in Classes |-> IF x = "metadata" THEN 1 ELSE 2]

Metadata(x) == [stream |-> x, class |-> "metadata"]
Content(x) == [stream |-> x, class |-> "content"]

\* Content in one view, with or without an event in the other.
SmallUpdates == {<<Content("agent")>>, <<Content("agent"), Metadata("upstream")>>}

Everything == [sessions |-> Sessions, streams |-> Streams, classes |-> Classes]
Headers == [Everything EXCEPT !.classes = {"metadata"}]

\* A wide scope with a small queue, a narrow one with a larger queue.
SmallGrants == {[scope |-> Everything, quota |-> [events |-> 2, bytes |-> 3]],
                [scope |-> Headers, quota |-> [events |-> 1, bytes |-> 3]]}
=============================================================================
