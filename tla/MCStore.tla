------------------------------ MODULE MCStore -------------------------------
(* Small instances of Store for TLC. *)
EXTENDS Store, TLC

CONSTANTS p1, p2, m1, r1, l1, u1, b1, k1, d1, A, B, R

AllOps ==
    p1 :> "put" @@ p2 :> "put" @@ m1 :> "metadata" @@ r1 :> "resolve" @@ l1 :> "lock"
      @@ u1 :> "unlock" @@ b1 :> "backup" @@ k1 :> "rotate" @@ d1 :> "delete"

OpOf == [j \in Jobs |-> AllOps[j]]

\* A rotation moves to B; an unlock finds the restored copy, under R.
KeyOf == [j \in Jobs |-> IF Op[j] = "rotate" THEN B ELSE R]

Writers == Permutations({p1, p2})
=============================================================================
