------------------------------- MODULE Stream -------------------------------
(***************************************************************************)
(* TCP streams of the broker: admission of an attachment, approval, dial,  *)
(* the connected operation with its watchdog, the relay, and everyone who  *)
(* may end it: the owner (an error or a dropped future), the watchdog, the *)
(* agent's cancel call, the host's abort handle and a revoking thread.     *)
(*                                                                         *)
(* Operation::finish sets the operation's token before it waits for the    *)
(* state lock, so a call of finish is two steps: it is pending in fin from *)
(* the token until FinishCall.  finish_locked, called with the lock held,  *)
(* is one step (Ended).  The relay is opaque here: a poll forwards a unit, *)
(* or ends for some cause; module Relay models what happens inside.        *)
(***************************************************************************)
EXTENDS Integers, FiniteSets

CONSTANTS
    Sessions, Streams,
    Owner,          \* the session of a stream
    NeedsApproval,  \* streams whose connection a human must approve
    MaxAttach,      \* SessionCore.tcp_pending, 16 permits
    MaxHostAttach,  \* Host.tcp_pending, 128 permits
    MaxActive,      \* SessionCore.active, 8 permits shared with HTTP
    MaxHostActive,  \* Host.tcp_active, 64 permits
    MaxApprovals,   \* SessionCore.pending, 16 permits shared with HTTP
    MaxTracked,     \* 4096 tracked operations of a session
    MaxUnits,       \* bound of the model: units a relay forwards
    Actors          \* who, of the outside actors, takes part in an instance

ASSUME StreamAssumption ==
    /\ Owner \in [Streams -> Sessions]
    /\ NeedsApproval \subseteq Streams
    /\ Actors \subseteq {"retire", "expire", "revoke", "cancel", "abort"}
    /\ {MaxAttach, MaxHostAttach, MaxActive, MaxHostActive, MaxApprovals,
        MaxTracked, MaxUnits} \subseteq Nat
    /\ IsFiniteSet(Streams)

VARIABLES
    retired,      \* revoked, or the broker's admission is closed
    token,        \* SessionCore.cancelled
    expired,      \* SessionCore.expires has passed
    rpc, todo,    \* the thread that revokes a session, its walk
    settled,      \* revoke has returned
    st,           \* State.status.state, "None" before admit_tcp
    cause,        \* State.cause, "None" before the end
    flow,         \* the flow's records: none, open, closed, late (after closing)
    socket,       \* who owns the upstream socket: none, task, state, relay
    capacity,     \* who owns the active permits: none, task, state
    attached,     \* State.attachments is Some
    reported,     \* State.sent_bytes
    tok,          \* Operation.cancelled
    fin,          \* calls of finish that wait for the state lock
    cancelling,   \* agent cancel calls between their lookup and finish
    watch,        \* the watchdog task
    late,         \* the stream's current deadline has passed
    pc,           \* where the owner of the attachment stands
    dialled,      \* calls of the connector
    forwarded,    \* units handed to the upstream socket
    attachSlots,  \* permits in use: session and host attachments,
    hostAttach,
    activeSlots,  \* session and host connections,
    hostActive,
    approvals     \* and approvals of the session

sessionVars == <<retired, token, expired, rpc, todo, settled>>
stateVars   == <<st, cause, flow, socket, capacity, attached, reported>>
slotVars    == <<attachSlots, hostAttach, activeSlots, hostActive, approvals>>
taskVars    == <<watch, late, pc, dialled, forwarded>>
callVars    == <<tok, fin, cancelling>>
vars == <<sessionVars, stateVars, slotVars, taskVars, callVars>>

-----------------------------------------------------------------------------
Committed == {"Dispatching", "Completed", "OutcomeUnknown"}
Refused   == {"Failed", "Denied", "Expired", "Cancelled"}
Before    == {"Validated", "PendingApproval", "Ready"}
terminal(state) == state \in Refused \cup {"Completed", "OutcomeUnknown"}

Causes == {"OrderlyEnd", "Cancelled", "SessionEnded", "AttachmentLost",
           "ApprovalDenied", "PolicyChanged", "ApprovalTimeout", "Timeout",
           "InteractionUnavailable", "CapacityExhausted", "InvalidFrame", "LimitExceeded",
           "ObservationUnavailable", "UpstreamUnavailable", "InternalError"}

Ses(o)   == Owner[o]
Check(s) == ~retired[s] /\ ~token[s] /\ ~expired[s]

\* The operations lock of a session is held by a revoking thread's walk.
OperationsLocked(s) == rpc[s] = "walk"

Tracked(s) == {o \in Streams : Ses(o) = s /\ st[o] # "None"}

EndState_ByCause(state, why) ==
    IF why = "OrderlyEnd" THEN "Completed"
    ELSE IF why \in {"Cancelled", "SessionEnded", "AttachmentLost"} THEN "Cancelled"
    ELSE IF why \in {"ApprovalDenied", "PolicyChanged"} THEN "Denied"
    ELSE IF why \in {"ApprovalTimeout", "Timeout"} THEN "Expired" ELSE "Failed"

\* The state an operation ends in: a dial that was committed is never said
\* not to have happened.
EndState(state, why) ==
    IF why = "OrderlyEnd" THEN "Completed"
    ELSE IF state = "Dispatching" THEN "OutcomeUnknown"
    ELSE IF why \in {"Cancelled", "SessionEnded", "AttachmentLost"} THEN "Cancelled"
    ELSE IF why \in {"ApprovalDenied", "PolicyChanged"} THEN "Denied"
    ELSE IF why \in {"ApprovalTimeout", "Timeout"} THEN "Expired" ELSE "Failed"

\* An orderly end needs a relay, and the acceptance of its closing records.
FinalCauses(o, why) ==
    IF why # "OrderlyEnd" THEN {why}
    ELSE IF socket[o] = "relay" THEN {"OrderlyEnd", "ObservationUnavailable"}
    ELSE {"InternalError"}

\* Attachment permits that finish_locked gives back.
ReleasedByEnd(o) == IF attached[o] THEN 1 ELSE 0

\* The early return of finish_locked.
AlreadyEnded(o) == terminal(st[o])

ReportedByEnd_Kept(o) == reported[o]

\* The byte count of the outcome comes from the relay that is terminated.
ReportedByEnd(o) == IF socket[o] = "relay" THEN forwarded[o] ELSE reported[o]

\* Operation::finish_locked: the first end wins.  State, socket, permits,
\* closing record and the reported count change in one critical section.
Ended(o, why) ==
    IF AlreadyEnded(o)
    THEN UNCHANGED <<stateVars, attachSlots, hostAttach, activeSlots, hostActive>>
    ELSE \E final \in FinalCauses(o, why) :
         LET freed == IF capacity[o] = "state" THEN 1 ELSE 0
         IN /\ st' = [st EXCEPT ![o] = EndState(@, final)]
            /\ cause' = [cause EXCEPT ![o] = final]
            /\ flow' = [flow EXCEPT ![o] = IF @ = "open" THEN "closed" ELSE @]
            /\ reported' = [reported EXCEPT ![o] = ReportedByEnd(o)]
            /\ socket' = [socket EXCEPT ![o] = IF @ = "task" THEN @ ELSE "none"]
            /\ capacity' = [capacity EXCEPT ![o] = IF @ = "task" THEN @ ELSE "none"]
            /\ activeSlots' = [activeSlots EXCEPT ![Ses(o)] = @ - freed]
            /\ hostActive' = hostActive - freed
            /\ attached' = [attached EXCEPT ![o] = FALSE]
            /\ attachSlots' = [attachSlots EXCEPT ![Ses(o)] = @ - ReleasedByEnd(o)]
            /\ hostAttach' = hostAttach - ReleasedByEnd(o)

\* The first half of a call of finish.
StartFinish(o, by, why) ==
    /\ tok' = [tok EXCEPT ![o] = TRUE]
    /\ fin' = [fin EXCEPT ![o] = @ \cup {[by |-> by, why |-> why]}]

\* The second half; the caller goes on.
FinishCall(o, f) ==
    /\ f \in fin[o]
    /\ Ended(o, f.why)
    /\ fin' = [fin EXCEPT ![o] = @ \ {f}]
    /\ tok' = [tok EXCEPT ![o] = TRUE]
    /\ pc' = [pc EXCEPT ![o] = IF f.by = "owner" THEN "done"
                               ELSE IF f.by = "relay" THEN "polling" ELSE @]
    /\ UNCHANGED <<sessionVars, approvals, watch, late, dialled, forwarded,
                   cancelling>>
-----------------------------------------------------------------------------
(* Sessions and the part of revoke that ends streams *)

Frame == <<stateVars, slotVars, taskVars, callVars>>

\* close_admission: authority goes, nobody is notified.
Retire(s) ==
    /\ "retire" \in Actors /\ ~retired[s]
    /\ retired' = [retired EXCEPT ![s] = TRUE]
    /\ UNCHANGED <<token, expired, rpc, todo, settled, Frame>>

Expire(s) ==
    /\ "expire" \in Actors /\ ~expired[s]
    /\ expired' = [expired EXCEPT ![s] = TRUE]
    /\ UNCHANGED <<retired, token, rpc, todo, settled, Frame>>

RevokeFlip(s) ==
    /\ "revoke" \in Actors /\ rpc[s] = "idle" /\ ~settled[s]
    /\ retired' = [retired EXCEPT ![s] = TRUE]
    /\ rpc' = [rpc EXCEPT ![s] = "notify"]
    /\ UNCHANGED <<token, expired, todo, settled, Frame>>

RevokeNotify(s) ==
    /\ rpc[s] = "notify"
    /\ token' = [token EXCEPT ![s] = TRUE]
    /\ rpc' = [rpc EXCEPT ![s] = "lock"]
    /\ UNCHANGED <<retired, expired, todo, settled, Frame>>

RevokeLock(s) ==
    /\ rpc[s] = "lock"
    /\ todo' = [todo EXCEPT ![s] = Tracked(s)]
    /\ rpc' = [rpc EXCEPT ![s] = "walk"]
    /\ UNCHANGED <<retired, token, expired, settled, Frame>>

RevokeWaits(s) == \E o \in Streams : Ses(o) = s /\ \E f \in fin[o] : f.by = "revoke"

RevokeFinish(s, o) ==
    /\ rpc[s] = "walk" /\ o \in todo[s] /\ ~RevokeWaits(s)
    /\ todo' = [todo EXCEPT ![s] = @ \ {o}]
    /\ StartFinish(o, "revoke", "SessionEnded")
    /\ UNCHANGED <<retired, token, expired, rpc, settled, stateVars, slotVars,
                   taskVars, cancelling>>

RevokeReturn(s) ==
    /\ rpc[s] = "walk" /\ todo[s] = {} /\ ~RevokeWaits(s)
    /\ rpc' = [rpc EXCEPT ![s] = "idle"]
    /\ settled' = [settled EXCEPT ![s] = TRUE]
    /\ UNCHANGED <<retired, token, expired, todo, Frame>>
-----------------------------------------------------------------------------
(* The agent's cancel call and the host's abort handle *)

CancelLookup(o) ==
    /\ "cancel" \in Actors
    /\ Check(Ses(o)) /\ st[o] # "None" /\ ~OperationsLocked(Ses(o))
    /\ o \notin cancelling
    /\ cancelling' = cancelling \cup {o}
    /\ UNCHANGED <<sessionVars, stateVars, slotVars, taskVars, tok, fin>>

CancelFinish(o) ==
    /\ o \in cancelling
    /\ cancelling' = cancelling \ {o}
    /\ StartFinish(o, "cancel", "Cancelled")
    /\ UNCHANGED <<sessionVars, stateVars, slotVars, taskVars>>

Abort(o) ==
    /\ "abort" \in Actors /\ pc[o] \notin {"idle", "admit", "done"}
    /\ StartFinish(o, "abort", "InvalidFrame")
    /\ UNCHANGED <<sessionVars, stateVars, slotVars, taskVars, cancelling>>
-----------------------------------------------------------------------------
(* The owner before the connection *)

Goto(o, to) == pc' = [pc EXCEPT ![o] = to]

\* The owner's error path; the future's own reservations go with its frame.
OwnerFinish(o, by, why) ==
    LET freed == IF capacity[o] = "task" THEN 1 ELSE 0
    IN /\ StartFinish(o, by, why)
       /\ Goto(o, "finishing")
       /\ capacity' = [capacity EXCEPT ![o] = IF @ = "task" THEN "none" ELSE @]
       /\ activeSlots' = [activeSlots EXCEPT ![Ses(o)] = @ - freed]
       /\ hostActive' = hostActive - freed
       /\ socket' = [socket EXCEPT ![o] = IF @ = "task" THEN "none" ELSE @]
       /\ approvals' = [approvals EXCEPT ![Ses(o)] =
                           @ - (IF pc[o] = "approving" THEN 1 ELSE 0)]
       /\ UNCHANGED <<st, cause, flow, attached, reported, attachSlots,
                      hostAttach, watch, late, dialled, forwarded>>

\* check_preparation, and what transition and record refuse.
Blocked(o) == ~Check(Ses(o)) \/ tok[o] \/ terminal(st[o])
BlockedCause(o) == IF ~Check(Ses(o)) THEN "SessionEnded" ELSE "Cancelled"

Recordable_Always(o) == TRUE

\* Operation::transition, begin_flow and record look at the state and the
\* token under the state lock.
Recordable(o) == ~terminal(st[o]) /\ ~tok[o]

\* A record of an open flow, or one that comes after its end.
Recorded(o) ==
    flow' = [flow EXCEPT ![o] = IF @ = "closed" THEN "late" ELSE "open"]

\* A first submission, or a retry of an identical one that has ended.
Start(o) ==
    /\ pc[o] \in {"idle", "done"}
    /\ Goto(o, IF Check(Ses(o)) THEN "admit" ELSE "done")
    /\ UNCHANGED <<sessionVars, stateVars, slotVars, watch, late, dialled,
                   forwarded, callVars>>

AdmitAuthority_FirstLook(s) == TRUE

\* The second check of admit_tcp, with the operations lock held.
AdmitAuthority(s) == Check(s)

Known_InFlight(o) == st[o] # "None" /\ ~terminal(st[o])

\* The request_id has an operation, ended or not.
Known(o) == st[o] # "None"

\* Under the operations lock: a known request only gets its status back.
\* Otherwise limits, permits, the flow, then the session
\* again; refusal, by any of them, leaves nothing behind.
Admit(o) ==
    /\ pc[o] = "admit" /\ ~OperationsLocked(Ses(o))
    /\ \/ /\ ~Known(o) /\ Cardinality(Tracked(Ses(o))) < MaxTracked
          /\ attachSlots[Ses(o)] < MaxAttach /\ hostAttach < MaxHostAttach
          /\ AdmitAuthority(Ses(o))
          /\ st' = [st EXCEPT ![o] = "Validated"]
          /\ attached' = [attached EXCEPT ![o] = TRUE]
          /\ attachSlots' = [attachSlots EXCEPT ![Ses(o)] = @ + 1]
          /\ hostAttach' = hostAttach + 1
          /\ tok' = [tok EXCEPT ![o] = FALSE]
          /\ Goto(o, "pending")
       \/ Goto(o, "done") /\ UNCHANGED <<st, attached, attachSlots, hostAttach, tok>>
    /\ UNCHANGED <<sessionVars, cause, flow, socket, capacity, reported,
                   activeSlots, hostActive, approvals, watch, late, dialled,
                   forwarded, fin, cancelling>>

\* connect() up to begin_flow; a required flow may be refused.
Begin(o) ==
    /\ pc[o] = "pending"
    /\ \/ /\ Check(Ses(o)) /\ Recordable(o)
          /\ Recorded(o)
          /\ Goto(o, IF o \in NeedsApproval THEN "reserve" ELSE "resolve")
          /\ UNCHANGED <<st, cause, socket, capacity, attached, reported,
                         slotVars, watch, late, dialled, forwarded, tok, fin>>
       \/ Blocked(o) /\ OwnerFinish(o, "owner", BlockedCause(o))
       \/ OwnerFinish(o, "owner", "ObservationUnavailable")
    /\ UNCHANGED <<sessionVars, cancelling>>

\* reserve_approval, PendingApproval and its record; the session is not
\* looked at here.
Reserve(o) ==
    /\ pc[o] = "reserve"
    /\ \/ /\ approvals[Ses(o)] < MaxApprovals /\ Recordable(o)
          /\ approvals' = [approvals EXCEPT ![Ses(o)] = @ + 1]
          /\ st' = [st EXCEPT ![o] = "PendingApproval"]
          /\ Recorded(o)
          /\ Goto(o, "approving")
          /\ UNCHANGED <<cause, socket, capacity, attached, reported,
                         attachSlots, hostAttach, activeSlots, hostActive,
                         watch, late, dialled, forwarded, tok, fin>>
       \/ ~Recordable(o) /\ OwnerFinish(o, "owner", "Cancelled")
       \/ /\ approvals[Ses(o)] >= MaxApprovals
          /\ OwnerFinish(o, "owner", "CapacityExhausted")
       \/ OwnerFinish(o, "owner", "InteractionUnavailable")
    /\ UNCHANGED <<sessionVars, cancelling>>

Approved(o) ==
    /\ pc[o] = "approving"
    /\ approvals' = [approvals EXCEPT ![Ses(o)] = @ - 1]
    /\ Goto(o, "resolve")
    /\ UNCHANGED <<sessionVars, stateVars, attachSlots, hostAttach,
                   activeSlots, hostActive, watch, late, dialled, forwarded,
                   callVars>>

HasCapacity(o) == activeSlots[Ses(o)] < MaxActive /\ hostActive < MaxHostActive

\* The resolver has answered and the address is admitted.  The pools of the
\* resource and of the payload bytes may be empty at any time.
Acquire(o) ==
    /\ pc[o] = "resolve"
    /\ \/ /\ ~Blocked(o) /\ HasCapacity(o)
          /\ capacity' = [capacity EXCEPT ![o] = "task"]
          /\ activeSlots' = [activeSlots EXCEPT ![Ses(o)] = @ + 1]
          /\ hostActive' = hostActive + 1
          /\ Goto(o, "ready")
          /\ UNCHANGED <<st, cause, flow, socket, attached, reported,
                         attachSlots, hostAttach, approvals, watch, late,
                         dialled, forwarded, tok, fin>>
       \/ Blocked(o) /\ OwnerFinish(o, "owner", BlockedCause(o))
       \/ OwnerFinish(o, "owner", "CapacityExhausted")
    /\ UNCHANGED <<sessionVars, cancelling>>

MakeReady(o) ==
    /\ pc[o] = "ready"
    /\ \/ /\ Check(Ses(o)) /\ Recordable(o)
          /\ st' = [st EXCEPT ![o] = "Ready"]
          /\ Goto(o, "record")
          /\ UNCHANGED <<cause, flow, socket, capacity, attached, reported,
                         slotVars, watch, late, dialled, forwarded, tok, fin>>
       \/ Blocked(o) /\ OwnerFinish(o, "owner", BlockedCause(o))
    /\ UNCHANGED <<sessionVars, cancelling>>

\* The policy decision and the admission, before any connection exists.
RecordAllow(o) ==
    /\ pc[o] = "record"
    /\ \/ /\ Recordable(o)
          /\ Recorded(o)
          /\ Goto(o, "commit")
          /\ UNCHANGED <<st, cause, socket, capacity, attached, reported,
                         slotVars, watch, late, dialled, forwarded, tok, fin>>
       \/ ~Recordable(o) /\ OwnerFinish(o, "owner", "Cancelled")
       \/ OwnerFinish(o, "owner", "ObservationUnavailable")
    /\ UNCHANGED <<sessionVars, cancelling>>

\* commit_dispatch, under the state lock and the admission lock.
MayDial(o) == Check(Ses(o)) /\ st[o] = "Ready" /\ ~tok[o]

CommitDispatch(o) ==
    /\ pc[o] = "commit"
    /\ IF MayDial(o)
       THEN /\ st' = [st EXCEPT ![o] = "Dispatching"]
            /\ Goto(o, "dial")
            /\ UNCHANGED <<cause, flow, socket, capacity, attached, reported,
                           slotVars, watch, late, dialled, forwarded, tok, fin>>
       ELSE OwnerFinish(o, "owner", BlockedCause(o))
    /\ UNCHANGED <<sessionVars, cancelling>>

Dial(o) ==
    /\ pc[o] = "dial"
    /\ dialled' = [dialled EXCEPT ![o] = @ + 1]
    /\ Goto(o, "dialing")
    /\ UNCHANGED <<sessionVars, stateVars, slotVars, watch, late, forwarded,
                   callVars>>

Dialled(o) ==
    /\ pc[o] = "dialing"
    /\ IF Blocked(o)
       THEN OwnerFinish(o, "owner", BlockedCause(o))
       ELSE /\ socket' = [socket EXCEPT ![o] = "task"]
            /\ Goto(o, "install")
            /\ UNCHANGED <<st, cause, flow, capacity, attached, reported,
                           slotVars, watch, late, dialled, forwarded, tok, fin>>
    /\ UNCHANGED <<sessionVars, cancelling>>

MayInstall_Trusting(o) == TRUE

\* The recheck of connect() after its await, under the state lock.
MayInstall(o) == ~Blocked(o) /\ ~late[o]

\* Socket and permits move into the shared state, the attachment's permits
\* are given back, and the watchdog starts.
Install(o) ==
    /\ pc[o] = "install"
    /\ IF MayInstall(o)
       THEN /\ socket' = [socket EXCEPT ![o] = "state"]
            /\ capacity' = [capacity EXCEPT ![o] = "state"]
            /\ attached' = [attached EXCEPT ![o] = FALSE]
            /\ attachSlots' = [attachSlots EXCEPT ![Ses(o)] = @ - ReleasedByEnd(o)]
            /\ hostAttach' = hostAttach - ReleasedByEnd(o)
            /\ watch' = [watch EXCEPT ![o] = "on"]
            /\ Goto(o, "connected")
            /\ UNCHANGED <<st, cause, flow, reported, activeSlots, hostActive,
                           approvals, late, dialled, forwarded, tok, fin>>
       ELSE OwnerFinish(o, "owner", IF late[o] THEN "Timeout" ELSE BlockedCause(o))
    /\ UNCHANGED <<sessionVars, cancelling>>

Awaits_DialOnly == {"resolve", "dialing"}

\* Where the preparation is suspended.
Awaits == {"approving", "resolve", "dialing"}

\* The select of connect(), at the awaits of its preparation.
SelectWake(o) ==
    /\ pc[o] \in Awaits
    /\ \/ token[Ses(o)] /\ OwnerFinish(o, "owner", "SessionEnded")
       \/ tok[o] /\ OwnerFinish(o, "owner", "Cancelled")
       \/ expired[Ses(o)] /\ OwnerFinish(o, "owner", "Timeout")
    /\ UNCHANGED <<sessionVars, cancelling>>

\* A refusal, a late answer or an error of the approver, resolver or connector,
\* or the ten seconds of a dial are over.
PrepareFails(o) ==
    /\ \/ /\ pc[o] = "approving"
          /\ \E why \in {"ApprovalDenied", "ApprovalTimeout"} :
                OwnerFinish(o, "owner", why)
       \/ pc[o] = "resolve" /\ OwnerFinish(o, "owner", "PolicyChanged")
       \/ /\ pc[o] \in {"resolve", "dialing"}
          /\ OwnerFinish(o, "owner", "UpstreamUnavailable")
       \/ /\ pc[o] \in {"resolve", "ready", "commit", "dialing"}
          /\ OwnerFinish(o, "owner", "Timeout")
    /\ UNCHANGED <<sessionVars, cancelling>>

\* Drop of PendingTcp or of the future that owns it.
DropPending(o) ==
    /\ pc[o] \in {"pending"} \cup Awaits
    /\ OwnerFinish(o, "owner", "AttachmentLost")
    /\ UNCHANGED <<sessionVars, cancelling>>
-----------------------------------------------------------------------------
(* The connected stream *)

\* opened() and start_relay(); a relay future exists in any case.  A token
\* that opened() sees stops the start silently, start_relay() finishes.
StartRelay(o) ==
    /\ pc[o] = "connected"
    /\ \/ late[o] /\ OwnerFinish(o, "relay", "Timeout")
       \/ ~Check(Ses(o)) /\ OwnerFinish(o, "relay", "SessionEnded")
       \/ tok[o] /\ OwnerFinish(o, "relay", "Cancelled")
       \/ /\ ~late[o] /\ Check(Ses(o))
          /\ Goto(o, "relay")
          /\ socket' = [socket EXCEPT ![o] =
                           IF Recordable(o) /\ @ = "state" THEN "relay" ELSE @]
          /\ UNCHANGED <<st, cause, flow, capacity, attached, reported,
                         slotVars, watch, late, dialled, forwarded, tok, fin>>
    /\ UNCHANGED <<sessionVars, cancelling>>

\* TcpRelay::poll checks the session, then takes the state lock.
PollCheck(o) ==
    /\ pc[o] = "relay"
    /\ IF Check(Ses(o))
       THEN /\ Goto(o, "polling")
            /\ UNCHANGED <<stateVars, slotVars, watch, late, dialled,
                           forwarded, tok, fin>>
       ELSE OwnerFinish(o, "relay", "SessionEnded")
    /\ UNCHANGED <<sessionVars, cancelling>>

PollTerminal(o) ==
    /\ pc[o] = "polling" /\ terminal(st[o])
    /\ Goto(o, "done")
    /\ UNCHANGED <<sessionVars, stateVars, slotVars, watch, late, dialled,
                   forwarded, callVars>>

\* The relay moves data; each chunk is recorded before it is forwarded.
PollProgress(o) ==
    /\ pc[o] = "polling" /\ ~terminal(st[o]) /\ socket[o] = "relay"
    /\ ~tok[o] /\ ~late[o] /\ forwarded[o] < MaxUnits
    /\ forwarded' = [forwarded EXCEPT ![o] = @ + 1]
    /\ Recorded(o)
    /\ Goto(o, "relay")
    /\ UNCHANGED <<sessionVars, st, cause, socket, capacity, attached,
                   reported, slotVars, watch, late, dialled, callVars>>

PollPending(o) ==
    /\ pc[o] = "polling" /\ ~terminal(st[o]) /\ socket[o] = "relay"
    /\ ~tok[o] /\ ~late[o]
    /\ Goto(o, "relay")
    /\ UNCHANGED <<sessionVars, stateVars, slotVars, watch, late, dialled,
                   forwarded, callVars>>

\* Why a poll of the relay may end it; a set token wins over what it says.
RelayCause(o) ==
    IF socket[o] # "relay" THEN {"InternalError"}
    ELSE IF tok[o] THEN {"Cancelled"}
    ELSE IF late[o] THEN {"Timeout"}
    ELSE {"OrderlyEnd", "UpstreamUnavailable", "AttachmentLost",
          "LimitExceeded", "ObservationUnavailable"}

PollEnd(o) ==
    /\ pc[o] = "polling" /\ ~terminal(st[o])
    /\ \E why \in RelayCause(o) : Ended(o, why)
    /\ tok' = [tok EXCEPT ![o] = TRUE]
    /\ Goto(o, "done")
    /\ UNCHANGED <<sessionVars, approvals, watch, late, dialled, forwarded,
                   fin, cancelling>>

\* Drop of ConnectedTcp, alone or inside the relay future.
DropConnected(o) ==
    /\ pc[o] \in {"connected", "relay"}
    /\ StartFinish(o, "owner", "AttachmentLost")
    /\ Goto(o, "finishing")
    /\ watch' = [watch EXCEPT ![o] = "done"]
    /\ UNCHANGED <<sessionVars, stateVars, slotVars, late, dialled, forwarded,
                   cancelling>>

Deadline(o) ==
    /\ socket[o] # "none" /\ ~late[o]
    /\ late' = [late EXCEPT ![o] = TRUE]
    /\ UNCHANGED <<sessionVars, stateVars, slotVars, watch, pc, dialled,
                   forwarded, callVars>>

WatchDue_BeforeRelay(o) == late[o] /\ socket[o] = "state"

\* The deadline the watchdog reads: the relay's, or before it the first one.
WatchDue(o) == late[o]

\* The watchdog ends a stream nobody polls, without the owner's help.
WatchTimeout(o) ==
    /\ watch[o] = "on" /\ WatchDue(o) /\ ~terminal(st[o])
    /\ Ended(o, "Timeout")
    /\ tok' = [tok EXCEPT ![o] = TRUE]
    /\ watch' = [watch EXCEPT ![o] = "done"]
    /\ UNCHANGED <<sessionVars, approvals, late, pc, dialled, forwarded, fin,
                   cancelling>>

WatchSession(o) ==
    /\ watch[o] = "on" /\ token[Ses(o)] /\ ~tok[o]
    /\ StartFinish(o, "watch", "SessionEnded")
    /\ watch' = [watch EXCEPT ![o] = "done"]
    /\ UNCHANGED <<sessionVars, stateVars, slotVars, late, pc, dialled,
                   forwarded, cancelling>>

\* Someone else has set the token, and will finish.
WatchReturn(o) ==
    /\ watch[o] = "on" /\ (tok[o] \/ terminal(st[o]))
    /\ watch' = [watch EXCEPT ![o] = "done"]
    /\ UNCHANGED <<sessionVars, stateVars, slotVars, late, pc, dialled,
                   forwarded, callVars>>
-----------------------------------------------------------------------------
Init ==
    /\ retired = [s \in Sessions |-> FALSE]
    /\ token = [s \in Sessions |-> FALSE]
    /\ expired = [s \in Sessions |-> FALSE]
    /\ rpc = [s \in Sessions |-> "idle"]
    /\ todo = [s \in Sessions |-> {}]
    /\ settled = [s \in Sessions |-> FALSE]
    /\ st = [o \in Streams |-> "None"]
    /\ cause = [o \in Streams |-> "None"]
    /\ flow = [o \in Streams |-> "none"]
    /\ socket = [o \in Streams |-> "none"]
    /\ capacity = [o \in Streams |-> "none"]
    /\ attached = [o \in Streams |-> FALSE]
    /\ reported = [o \in Streams |-> 0]
    /\ tok = [o \in Streams |-> FALSE]
    /\ fin = [o \in Streams |-> {}]
    /\ cancelling = {}
    /\ watch = [o \in Streams |-> "off"]
    /\ late = [o \in Streams |-> FALSE]
    /\ pc = [o \in Streams |-> "idle"]
    /\ dialled = [o \in Streams |-> 0]
    /\ forwarded = [o \in Streams |-> 0]
    /\ attachSlots = [s \in Sessions |-> 0]
    /\ hostAttach = 0
    /\ activeSlots = [s \in Sessions |-> 0]
    /\ hostActive = 0
    /\ approvals = [s \in Sessions |-> 0]

RevokeStep(s) ==
    \/ RevokeNotify(s) \/ RevokeLock(s) \/ RevokeReturn(s)
    \/ \E o \in Streams : RevokeFinish(s, o)

FinishStep(o) == \E f \in fin[o] : FinishCall(o, f)

WatchStep(o) == WatchTimeout(o) \/ WatchSession(o) \/ WatchReturn(o)

OpenStep(o) ==
    \/ Start(o) \/ Admit(o) \/ Begin(o) \/ Reserve(o) \/ Approved(o)
    \/ Acquire(o) \/ MakeReady(o) \/ RecordAllow(o) \/ CommitDispatch(o)
    \/ Dial(o) \/ Dialled(o) \/ Install(o) \/ SelectWake(o)
    \/ PrepareFails(o) \/ DropPending(o)

RelayStep(o) ==
    \/ StartRelay(o) \/ PollCheck(o) \/ PollTerminal(o) \/ PollProgress(o)
    \/ PollPending(o) \/ PollEnd(o) \/ DropConnected(o)

Next ==
    \/ \E s \in Sessions : Retire(s) \/ Expire(s) \/ RevokeFlip(s) \/ RevokeStep(s)
    \/ \E o \in Streams :
         \/ CancelLookup(o) \/ CancelFinish(o) \/ Abort(o) \/ Deadline(o)
         \/ FinishStep(o) \/ WatchStep(o) \/ OpenStep(o) \/ RelayStep(o)

Spec == Init /\ [][Next]_vars

\* What the host's scheduler owes: threads inside a call run on, and a
\* spawned watchdog whose timer or token fires is polled.  Nothing is assumed
\* of the resolver, the approver, the network, or the owner of the relay.
Fairness ==
    /\ \A s \in Sessions : WF_vars(RevokeStep(s))
    /\ \A o \in Streams : WF_vars(FinishStep(o)) /\ WF_vars(WatchStep(o))

\* In addition, the host polls a future it owns once it is woken.
OwnerFairness ==
    \A o \in Streams : /\ WF_vars(SelectWake(o) \/ Dialled(o) \/ Install(o))
                       /\ WF_vars(MakeReady(o) \/ RecordAllow(o) \/ CommitDispatch(o) \/ Dial(o))

FairSpec == Spec /\ Fairness
OwnedSpec == FairSpec /\ OwnerFairness
-----------------------------------------------------------------------------
PCs == {"idle", "admit", "pending", "reserve", "approving", "resolve", "ready",
        "record", "commit", "dial", "dialing", "install", "connected", "relay",
        "polling", "finishing", "done"}
Finishers == [by : {"owner", "relay", "revoke", "cancel", "abort", "watch"},
              why : Causes]

SessionTypes ==
    /\ retired \in [Sessions -> BOOLEAN] /\ token \in [Sessions -> BOOLEAN]
    /\ expired \in [Sessions -> BOOLEAN] /\ settled \in [Sessions -> BOOLEAN]
    /\ rpc \in [Sessions -> {"idle", "notify", "lock", "walk"}]
    /\ todo \in [Sessions -> SUBSET Streams]

StateTypes ==
    /\ st \in [Streams -> {"None", "Dispatching", "Completed", "OutcomeUnknown"}
                            \cup Before \cup Refused]
    /\ cause \in [Streams -> Causes \cup {"None"}]
    /\ flow \in [Streams -> {"none", "open", "closed", "late"}]
    /\ socket \in [Streams -> {"none", "task", "state", "relay"}]
    /\ capacity \in [Streams -> {"none", "task", "state"}]
    /\ attached \in [Streams -> BOOLEAN] /\ reported \in [Streams -> Nat]

SlotTypes ==
    /\ attachSlots \in [Sessions -> Int] /\ activeSlots \in [Sessions -> Int]
    /\ approvals \in [Sessions -> Int] /\ hostAttach \in Int /\ hostActive \in Int

TaskTypes ==
    /\ watch \in [Streams -> {"off", "on", "done"}]
    /\ late \in [Streams -> BOOLEAN]
    /\ pc \in [Streams -> PCs]
    /\ dialled \in [Streams -> Nat] /\ forwarded \in [Streams -> Nat]

CallTypes ==
    /\ tok \in [Streams -> BOOLEAN]
    /\ fin \in [Streams -> SUBSET Finishers]
    /\ cancelling \subseteq Streams

\* Every variable has its type, whoever wrote it last.
TypeOK == SessionTypes /\ StateTypes /\ SlotTypes /\ TaskTypes /\ CallTypes

\* Retrying a request_id, before or after its end, never dials twice
\* (admit_tcp, commit_dispatch), and an operation whose connector was called is
\* never reported denied, expired, cancelled or failed, whoever ends it
\* (finish_locked).
DialReported ==
    \A o \in Streams : dialled[o] <= 1 /\ (dialled[o] = 1 => st[o] \in Committed)

\* Once revoke has returned, the session has no live stream, and the shared
\* state of none holds a socket, a permit or an attachment (admit_tcp's second
\* check against revoke's walk; connect()'s recheck).
RevokeEndsStreams ==
    \A s \in Sessions : settled[s] =>
        \A o \in Streams : Ses(o) = s =>
            /\ st[o] = "None" \/ terminal(st[o])
            /\ socket[o] \in {"none", "task"} /\ capacity[o] \in {"none", "task"}
            /\ ~attached[o]

\* The ending an owner and an observer read is one story, whoever ended the
\* stream first: a cause exactly when ended, success exactly for an orderly
\* end, all forwarded bytes accounted for, and a closing record that is the
\* flow's last (finish_locked, record).
OutcomeCoherent ==
    \A o \in Streams : /\ cause[o] # "None" <=> terminal(st[o])
                       /\ cause[o] = "OrderlyEnd" <=> st[o] = "Completed"
                       /\ terminal(st[o]) => reported[o] = forwarded[o]
                       /\ flow[o] \in (IF terminal(st[o]) THEN {"none", "closed"}
                                                         ELSE {"none", "open"})

\* The permits in use, of a session and of the host, are those that some
\* attachment, connection or approval still owns, and no pool is overdrawn:
\* while permits move from the preparing task into the shared state, whoever
\* ends the stream gives each back once (install, finish_locked, finish).
SlotsExact ==
    /\ \A s \in Sessions :
         /\ attachSlots[s] = Cardinality({o \in Streams : attached[o] /\ Ses(o) = s})
         /\ activeSlots[s] =
              Cardinality({o \in Streams : capacity[o] # "none" /\ Ses(o) = s})
         /\ approvals[s] =
              Cardinality({o \in Streams : pc[o] = "approving" /\ Ses(o) = s})
         /\ attachSlots[s] <= MaxAttach /\ activeSlots[s] <= MaxActive
         /\ approvals[s] <= MaxApprovals
    /\ hostAttach = Cardinality({o \in Streams : attached[o]})
    /\ hostActive = Cardinality({o \in Streams : capacity[o] # "none"})
    /\ hostAttach <= MaxHostAttach /\ hostActive <= MaxHostActive

\* A connected stream whose deadline has passed ends although nobody polls
\* its relay any more: the watchdog does not need the owner (watch).
DeadlineReaps == \A o \in Streams : late[o] /\ watch[o] = "on" ~> terminal(st[o])

\* Once a session's revocation has returned, its connections and
\* attachments all return to their pools, also those a preparing task held.
PermitsReturn ==
    \A s \in Sessions : settled[s] ~>
        [](activeSlots[s] = 0 /\ attachSlots[s] = 0 /\ approvals[s] = 0)

\* plan/lifecycle.md: "Completion has one ordering point with session/broker
\* revocation and generation retirement": success is only ever published by a
\* session that still has authority.
CompletesUnderAuthority ==
    [][\A o \in Streams :
          st[o] # "Completed" /\ st'[o] = "Completed" => Check(Ses(o))]_vars
=============================================================================
