---------------------------- MODULE MCRemoteMcp -----------------------------
(* Small instances of RemoteMcp for TLC. *)
EXTENDS RemoteMcp, TLC

CONSTANTS i1, i2, n1, c1, x1, a1, d1, d2

\* One conversation: handshake, a call, and who may disturb it.
AllMethods ==
    i1 :> "initialize" @@ i2 :> "initialize" @@ n1 :> "initialized" @@ c1 :> "call"
      @@ x1 :> "cancel" @@ a1 :> "abort" @@ d1 :> "delete" @@ d2 :> "delete"
AllIds ==
    i1 :> 1 @@ i2 :> 1 @@ n1 :> NoId @@ c1 :> 2 @@ x1 :> NoId @@ a1 :> NoId
      @@ d1 :> NoId @@ d2 :> NoId

MethodOf == [k \in Calls |-> AllMethods[k]]
IdOf     == [k \in Calls |-> AllIds[k]]
NamedId  == [k \in Calls |-> 2]

Alike == Permutations({i1, i2}) \cup Permutations({d1, d2})
=============================================================================
