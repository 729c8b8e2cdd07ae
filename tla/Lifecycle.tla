----------------------------- MODULE Lifecycle ------------------------------
(***************************************************************************)
(* What the broker promises about one tracked operation, with no mention   *)
(* of locks, cancellation tokens, tasks or the order of cleanup.           *)
(*                                                                         *)
(* A session's authority is granted once and ended once.  An operation is  *)
(* admitted, and then is either refused without any external effect, or    *)
(* committed to dispatch while the authority stands.  Only a committed     *)
(* operation is handed to the transport, at most once; it ends completed,  *)
(* which again needs standing authority, or with an unknown outcome.       *)
(***************************************************************************)
CONSTANTS Sessions, Ops,
          Owner          \* the session an operation belongs to

VARIABLES
    authority,   \* authority[s]: "none", "granted" or "ended"
    phase,       \* phase[o]: where the operation stands
    handed       \* handed[o]: how often it was given to the transport

avars == <<authority, phase, handed>>

Init ==
    /\ authority = [s \in Sessions |-> "none"]
    /\ phase = [o \in Ops |-> "none"]
    /\ handed = [o \in Ops |-> 0]

Grant(s) ==
    /\ authority[s] = "none"
    /\ authority' = [authority EXCEPT ![s] = "granted"]
    /\ UNCHANGED <<phase, handed>>

\* Revocation and expiry end one session, closing the broker ends them all.
End(S) ==
    /\ S # {} /\ \A s \in S : authority[s] = "granted"
    /\ authority' = [s \in Sessions |-> IF s \in S THEN "ended" ELSE authority[s]]
    /\ UNCHANGED <<phase, handed>>

\* The check that admits an operation may be stale when it is tracked.
Admit(o) ==
    /\ phase[o] = "none" /\ authority[Owner[o]] # "none"
    /\ phase' = [phase EXCEPT ![o] = "pending"]
    /\ UNCHANGED <<authority, handed>>

Commit(o) ==
    /\ phase[o] = "pending" /\ authority[Owner[o]] = "granted"
    /\ phase' = [phase EXCEPT ![o] = "committed"]
    /\ UNCHANGED <<authority, handed>>

\* Cancellation may overtake the handoff of a committed operation.
Hand(o) ==
    /\ phase[o] \in {"committed", "unknown"} /\ handed[o] = 0
    /\ handed' = [handed EXCEPT ![o] = 1]
    /\ UNCHANGED <<authority, phase>>

Complete(o) ==
    /\ phase[o] = "committed" /\ handed[o] = 1 /\ authority[Owner[o]] = "granted"
    /\ phase' = [phase EXCEPT ![o] = "completed"]
    /\ UNCHANGED <<authority, handed>>

Lose(o) ==
    /\ phase[o] = "committed"
    /\ phase' = [phase EXCEPT ![o] = "unknown"]
    /\ UNCHANGED <<authority, handed>>

Refuse(o) ==
    /\ phase[o] = "pending"
    /\ phase' = [phase EXCEPT ![o] = "refused"]
    /\ UNCHANGED <<authority, handed>>

Next ==
    \/ \E s \in Sessions : Grant(s)
    \/ \E S \in SUBSET Sessions : End(S)
    \/ \E o \in Ops : Admit(o) \/ Commit(o) \/ Hand(o) \/ Complete(o)
                      \/ Lose(o) \/ Refuse(o)

Spec == Init /\ [][Next]_avars
=============================================================================
