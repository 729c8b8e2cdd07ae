------------------------------ MODULE MCVault -------------------------------
(* Small instances of Vault for TLC. *)
EXTENDS Vault, TLC

CONSTANTS g1, g2, h1, p1, l1, f1, s1, o1

AllKinds ==
    g1 :> "issue" @@ g2 :> "issue" @@ h1 :> "issue" @@ p1 :> "page" @@ l1 :> "login"
      @@ f1 :> "fetch" @@ s1 :> "status" @@ o1 :> "logout"

KindOf == [k \in Calls |-> AllKinds[k]]

\* g1 and g2 ask for one login twice; h1 asks for another of the same item.
OnOf == [k \in Calls |-> IF k = h1 THEN "h" ELSE "g"]
=============================================================================
