------------------------------ MODULE Pipeline ------------------------------
(***************************************************************************)
(* The broker's HTTP operation pipeline: sessions, their authority, the    *)
(* tracked operations, the task that drives each execute call with an API  *)
(* key, the guard it owns, human approval, the active and pending permits, *)
(* and the operator threads that revoke sessions or close the broker.      *)
(*                                                                         *)
(* Locks.  host.sessions is the admission lock: what the code does under   *)
(* it is one step.  The operations lock of a session is held by a thread   *)
(* for its whole walk over the tracked operations (OperationsLocked), the  *)
(* state lock of an operation from the first check of complete() to its    *)
(* commitment (StateLocked); every other critical section is one step.     *)
(*                                                                         *)
(* Awaits.  execute_inner selects, with bias, over the session's token,    *)
(* the operation's token and the dispatch future.  A future that is ready  *)
(* at once continues in the same poll, so an await never forces a look at  *)
(* the tokens: a step that follows an await is not guarded by them, and    *)
(* SelectCancelled may win at every await while a token is set.            *)
(***************************************************************************)
EXTENDS Integers, FiniteSets

CONSTANTS
    Sessions,       \* sessions the operator may create
    Ops,            \* tracked operations: (session, request_id) pairs
    Calls,          \* execute calls; two may carry the same request_id
    Operators,      \* threads that call revoke and close
    Owner,          \* the session of an operation
    Target,         \* the operation a call names
    NeedsApproval,  \* operations whose policy asks for a human approval
    NoSession,      \* no session: an operator thread at rest
    MaxSessions,    \* 64 in create_session
    MaxActive,      \* permits of SessionCore.active, 8 in the code
    MaxPending,     \* permits of SessionCore.pending, 16 in the code
    MaxSessionOps,  \* 4096 operations and 8 MiB per session, one unit each
    MaxHostOps,     \* 64 MiB over all sessions, in the same unit
    MaxLease        \* bound of the model: changes of the credential store

ASSUME ConstantsAssumption ==
    /\ Owner \in [Ops -> Sessions]
    /\ Target \in [Calls -> Ops]
    /\ NeedsApproval \subseteq Ops
    /\ NoSession \notin Sessions
    /\ {MaxSessions, MaxActive, MaxPending, MaxSessionOps, MaxHostOps, MaxLease}
         \subseteq Nat
    /\ IsFiniteSet(Sessions) /\ IsFiniteSet(Ops) /\ IsFiniteSet(Calls)

VARIABLES
    closed,       \* Host.closed
    creating,     \* create_session calls past their first look at closed
    sess,         \* "none", "live" (published and referenced) or "dropped"
    revoked,      \* SessionCore.revoked
    token,        \* SessionCore.cancelled
    expired,      \* SessionCore.expires has passed
    hostOps,      \* Host.operation_bytes
    sessOps,      \* Operations.bytes of a session
    active,       \* permits of SessionCore.active in use
    pending,      \* permits of SessionCore.pending in use
    st,           \* OperationStatus.state, "None" before track_operation
    opTok,        \* Operation.cancelled
    cancelling,   \* agent cancel calls between their lookup and cancel()
    pc,           \* where a call's task stands
    dispatched,   \* Guard.dispatched
    held,         \* Guard.active is Some
    lease,        \* the lease read from metadata, 0 before
    granted,      \* the lease current when the approval was granted, 0 before
    sent,         \* how often an operation was handed to the transport
    store,        \* the credential store: open, and the item's current lease
    tpc,          \* where an operator thread stands
    inClose,      \* its revoke is called by close
    tsess,        \* the session it is revoking
    tqueue,       \* sessions of close()'s snapshot still to be revoked
    tnotify,      \* sessions of the snapshot still to be notified
    ttodo,        \* operations its walk has still to cancel
    settled,      \* some revoke(s) has returned
    closeReturned \* some close() has returned

authVars  == <<closed, creating, sess, revoked, token, expired>>
limitVars == <<hostOps, sessOps, active, pending>>
opVars    == <<st, opTok, cancelling, sent>>
guardVars == <<dispatched, held, lease, granted>>
callVars  == <<pc, guardVars>>
threadVars == <<tpc, inClose, tsess, tqueue, tnotify, ttodo, settled, closeReturned>>
\* what a session or operator step leaves alone, and what a call's step does
workVars == <<limitVars, opVars, callVars, store>>
envVars  == <<authVars, store, threadVars>>
vars == <<authVars, limitVars, opVars, callVars, store, threadVars>>

Op(c)  == Target[c]
Ses(c) == Owner[Target[c]]

-----------------------------------------------------------------------------
(* Operation states *)

Undispatched == {"Received", "Validated", "PendingApproval", "Ready"}
Committed    == {"Dispatching", "Completed", "OutcomeUnknown"}
Refused      == {"Failed", "Denied", "Expired", "Cancelled"}
OperationState == Undispatched \cup Committed \cup Refused

terminal(state) == state \in Refused \cup {"Completed", "OutcomeUnknown"}

\* The tasks whose complete() holds the operation's state lock.
StateLocked(o) == \E c \in Calls : pc[c] = "commit" /\ Op(c) = o

\* The walk of revoke holds the session's operations lock.
OperationsLocked(s) == \E t \in Operators : tpc[t] = "walk" /\ tsess[t] = s

Check(s) == ~closed /\ ~revoked[s] /\ ~token[s] /\ ~expired[s]

CommitAuthority_Trusting(s) == ~token[s]

\* commit_authority: Check, with the admission lock held around the commit.
CommitAuthority(s) == Check(s)

LeaseCurrent_OpenOnly(c) == store.open

LeaseCurrent(c) == store.open /\ store.lease = lease[c]

CancelledState_KeepDispatching(state) ==
    IF terminal(state) \/ state = "Dispatching" THEN state ELSE "Cancelled"

\* What Operation::cancel makes of a state.
CancelledState(state) ==
    IF terminal(state) THEN state
    ELSE IF state = "Dispatching" THEN "OutcomeUnknown" ELSE "Cancelled"

cancel(o) ==
    /\ ~StateLocked(o)
    /\ st' = [st EXCEPT ![o] = CancelledState(@)]
    /\ opTok' = [opTok EXCEPT ![o] = @ \/ ~terminal(st[o])]

\* Operation::transition, then the task goes on at to; a terminal state
\* refuses it and the task fails with RequestConflict.
Advance(c, next, to) ==
    IF terminal(st[Op(c)])
    THEN pc' = [pc EXCEPT ![c] = "fail"] /\ UNCHANGED st
    ELSE /\ pc' = [pc EXCEPT ![c] = to]
         /\ st' = [st EXCEPT ![Op(c)] = next]

Goto(c, to) == pc' = [pc EXCEPT ![c] = to]
-----------------------------------------------------------------------------
(* Sessions *)

CreateCheck(s) ==
    /\ sess[s] = "none" /\ s \notin creating /\ ~closed
    /\ creating' = creating \cup {s}
    /\ UNCHANGED <<closed, sess, revoked, token, expired, workVars,
                   threadVars>>

LiveSessions == {s \in Sessions : sess[s] = "live"}

MayPublish_NoRecheck == Cardinality(LiveSessions) < MaxSessions

\* closed is looked at again; sessions nobody references are not counted.
MayPublish == ~closed /\ Cardinality(LiveSessions) < MaxSessions

\* Under the admission lock.
CreatePublish(s) ==
    /\ s \in creating
    /\ creating' = creating \ {s}
    /\ sess' = IF MayPublish THEN [sess EXCEPT ![s] = "live"] ELSE sess
    /\ UNCHANGED <<closed, revoked, token, expired, workVars, threadVars>>

Expire(s) ==
    /\ sess[s] = "live" /\ ~expired[s]
    /\ expired' = [expired EXCEPT ![s] = TRUE]
    /\ UNCHANGED <<closed, creating, sess, revoked, token, workVars,
                   threadVars>>

ReturnedBytes_None(s) == 0

ReturnedBytes(s) == sessOps[s]

\* Drop of the last reference: guards, operator threads and cancel calls own
\* one, so none of them is left.  The tracked bytes return to the host.
SessionDrop(s) ==
    /\ sess[s] = "live"
    /\ \A c \in Calls : Ses(c) = s => pc[c] \in {"idle", "done"}
    /\ \A t \in Operators : tsess[t] # s /\ s \notin tqueue[t]
    /\ \A o \in cancelling : Owner[o] # s
    /\ sess' = [sess EXCEPT ![s] = "dropped"]
    /\ token' = [token EXCEPT ![s] = TRUE]
    /\ hostOps' = hostOps - ReturnedBytes(s)
    /\ UNCHANGED <<closed, creating, revoked, expired, sessOps, active,
                   pending, opVars, callVars, store, threadVars>>
-----------------------------------------------------------------------------
(* Operator threads: revoke, close_admission and close *)

CloseAdmission ==
    /\ ~closed
    /\ closed' = TRUE
    /\ UNCHANGED <<creating, sess, revoked, token, expired, workVars,
                   threadVars>>

\* Under the admission lock: closed, and the snapshot of the live sessions.
CloseStart(t) ==
    /\ tpc[t] = "idle"
    /\ closed' = TRUE
    /\ tqueue' = [tqueue EXCEPT ![t] = LiveSessions]
    /\ tnotify' = [tnotify EXCEPT ![t] = LiveSessions]
    /\ tpc' = [tpc EXCEPT ![t] = "close"]
    /\ inClose' = [inClose EXCEPT ![t] = TRUE]
    /\ UNCHANGED <<creating, sess, revoked, token, expired, workVars, tsess,
                   ttodo, settled, closeReturned>>

\* Every session of the snapshot is notified before any is cleaned up.
CloseNotify(t, s) ==
    /\ tpc[t] = "close" /\ s \in tnotify[t]
    /\ token' = [token EXCEPT ![s] = TRUE]
    /\ tnotify' = [tnotify EXCEPT ![t] = @ \ {s}]
    /\ UNCHANGED <<closed, creating, sess, revoked, expired, workVars, tpc,
                   inClose, tsess, tqueue, ttodo, settled, closeReturned>>

\* The loop of close over its snapshot calls revoke.
CloseNext(t, s) ==
    /\ tpc[t] = "close" /\ tnotify[t] = {} /\ s \in tqueue[t]
    /\ tqueue' = [tqueue EXCEPT ![t] = @ \ {s}]
    /\ tsess' = [tsess EXCEPT ![t] = s]
    /\ tpc' = [tpc EXCEPT ![t] = "flip"]
    /\ UNCHANGED <<authVars, workVars, inClose, tnotify, ttodo, settled,
                   closeReturned>>

CloseReturn_Notified(t) ==
    /\ tpc[t] = "close" /\ tnotify[t] = {}
    /\ tpc' = [tpc EXCEPT ![t] = "idle"]
    /\ inClose' = [inClose EXCEPT ![t] = FALSE]
    /\ tqueue' = [tqueue EXCEPT ![t] = {}]
    /\ closeReturned' = TRUE
    /\ UNCHANGED <<authVars, workVars, tsess, tnotify, ttodo, settled>>

CloseReturn(t) ==
    /\ tpc[t] = "close" /\ tnotify[t] = {} /\ tqueue[t] = {}
    /\ tpc' = [tpc EXCEPT ![t] = "idle"]
    /\ inClose' = [inClose EXCEPT ![t] = FALSE]
    /\ closeReturned' = TRUE
    /\ UNCHANGED <<authVars, workVars, tsess, tqueue, tnotify, ttodo, settled>>

RevokeCall(t, s) ==
    /\ tpc[t] = "idle" /\ sess[s] = "live"
    /\ tsess' = [tsess EXCEPT ![t] = s]
    /\ tpc' = [tpc EXCEPT ![t] = "flip"]
    /\ UNCHANGED <<authVars, workVars, inClose, tqueue, tnotify, ttodo,
                   settled, closeReturned>>

\* Under the admission lock.
RevokeFlip(t) ==
    /\ tpc[t] = "flip"
    /\ revoked' = [revoked EXCEPT ![tsess[t]] = TRUE]
    /\ tpc' = [tpc EXCEPT ![t] = "notify"]
    /\ UNCHANGED <<closed, creating, sess, token, expired, workVars, inClose,
                   tsess, tqueue, tnotify, ttodo, settled, closeReturned>>

\* Outside of it, so that a waker never runs under the lock.
RevokeNotify(t) ==
    /\ tpc[t] = "notify"
    /\ token' = [token EXCEPT ![tsess[t]] = TRUE]
    /\ tpc' = [tpc EXCEPT ![t] = "lock"]
    /\ UNCHANGED <<closed, creating, sess, revoked, expired, workVars,
                   inClose, tsess, tqueue, tnotify, ttodo, settled,
                   closeReturned>>

RevokeLock(t) ==
    /\ tpc[t] = "lock" /\ ~OperationsLocked(tsess[t])
    /\ ttodo' = [ttodo EXCEPT ![t] =
                    {o \in Ops : Owner[o] = tsess[t] /\ st[o] # "None"}]
    /\ tpc' = [tpc EXCEPT ![t] = "walk"]
    /\ UNCHANGED <<authVars, workVars, inClose, tsess, tqueue, tnotify,
                   settled, closeReturned>>

RevokeCancel(t, o) ==
    /\ tpc[t] = "walk" /\ o \in ttodo[t]
    /\ cancel(o)
    /\ ttodo' = [ttodo EXCEPT ![t] = @ \ {o}]
    /\ UNCHANGED <<authVars, limitVars, cancelling, sent, callVars, store,
                   tpc, inClose, tsess, tqueue, tnotify, settled,
                   closeReturned>>

RevokeReturn(t) ==
    /\ tpc[t] = "walk" /\ ttodo[t] = {}
    /\ tpc' = [tpc EXCEPT ![t] = IF inClose[t] THEN "close" ELSE "idle"]
    /\ tsess' = [tsess EXCEPT ![t] = NoSession]
    /\ settled' = [settled EXCEPT ![tsess[t]] = TRUE]
    /\ UNCHANGED <<authVars, workVars, inClose, tqueue, tnotify, ttodo,
                   closeReturned>>
-----------------------------------------------------------------------------
(* The agent's cancel call: the lookup checks the session, cancel() does not *)

CancelLookup(o) ==
    /\ sess[Owner[o]] = "live" /\ Check(Owner[o])
    /\ st[o] # "None" /\ o \notin cancelling
    /\ ~OperationsLocked(Owner[o])
    /\ cancelling' = cancelling \cup {o}
    /\ UNCHANGED <<envVars, limitVars, st, opTok, sent, callVars>>

CancelOperation(o) ==
    /\ o \in cancelling
    /\ cancel(o)
    /\ cancelling' = cancelling \ {o}
    /\ UNCHANGED <<envVars, limitVars, sent, callVars>>
-----------------------------------------------------------------------------
(* The credential store.  Every version and every generation is a fresh     *)
(* random value, so a lease that stopped being current never is again.      *)

StorePut ==
    /\ store.open /\ store.lease < MaxLease
    /\ store' = [store EXCEPT !.lease = @ + 1]
    /\ UNCHANGED <<authVars, limitVars, opVars, callVars, threadVars>>

StoreLock ==
    /\ store.open /\ store.lease < MaxLease
    /\ store' = [open |-> FALSE, lease |-> store.lease + 1]
    /\ UNCHANGED <<authVars, limitVars, opVars, callVars, threadVars>>

StoreUnlock ==
    /\ ~store.open /\ store.lease < MaxLease
    /\ store' = [open |-> TRUE, lease |-> store.lease + 1]
    /\ UNCHANGED <<authVars, limitVars, opVars, callVars, threadVars>>
-----------------------------------------------------------------------------
(* One execute call *)

\* Awaits of the dispatch future, where the select looks at the tokens.
Awaits == {"validate", "dns", "metadata", "approving", "revalidate", "resolve",
           "recheck", "sending"}

\* Steps that may fail by themselves: observation, limits, a resolver, the
\* store, the transport, the deadline of the call.
Fallible == Awaits \cup {"open", "gate", "body"}

\* The approval's reservation is given back when its future is dropped.
LeaveApproval(c) ==
    pending' = IF pc[c] = "approving" THEN [pending EXCEPT ![Ses(c)] = @ - 1]
               ELSE pending

Execute(c) ==
    /\ pc[c] = "idle" /\ sess[Ses(c)] = "live"
    /\ Goto(c, IF Check(Ses(c)) THEN "track" ELSE "done")
    /\ UNCHANGED <<envVars, limitVars, opVars, guardVars>>

Known_WhileRunning(c) == st[Op(c)] # "None" /\ ~terminal(st[Op(c)])

\* The request_id was tracked before, and is so for the session's life.
Known(c) == st[Op(c)] # "None"

\* Under the operations lock.  A known request_id returns the status of the
\* operation it names (or a conflict, if the request differs) and owns nothing.
Track(c) ==
    /\ pc[c] = "track" /\ ~OperationsLocked(Ses(c))
    /\ IF Known(c) \/ sessOps[Ses(c)] >= MaxSessionOps \/ hostOps >= MaxHostOps
       THEN Goto(c, "done") /\ UNCHANGED <<st, sessOps, hostOps>>
       ELSE /\ Goto(c, "open")
            /\ st' = [st EXCEPT ![Op(c)] = "Received"]
            /\ sessOps' = [sessOps EXCEPT ![Ses(c)] = @ + 1]
            /\ hostOps' = hostOps + 1
    /\ UNCHANGED <<envVars, active, pending, opTok, cancelling, sent,
                   guardVars>>

\* FlowOpen is recorded and the select starts.
Open(c) ==
    /\ pc[c] = "open"
    /\ Goto(c, "validate")
    /\ UNCHANGED <<envVars, limitVars, opVars, guardVars>>

\* Grants, profile, target, body, route, headers, inspection, item.
Validate(c) ==
    /\ pc[c] = "validate"
    /\ Advance(c, "Validated", "dns")
    /\ UNCHANGED <<envVars, limitVars, opTok, cancelling, sent, guardVars>>

ResolveName(c) ==
    /\ pc[c] = "dns"
    /\ Goto(c, "metadata")
    /\ UNCHANGED <<envVars, limitVars, opVars, guardVars>>

Metadata(c) ==
    /\ pc[c] = "metadata" /\ store.open
    /\ lease' = [lease EXCEPT ![c] = store.lease]
    /\ Goto(c, "gate")
    /\ UNCHANGED <<envVars, limitVars, opVars, dispatched, held, granted>>

\* reserve_approval and the start of approve_operation, if policy asks for it.
Gate(c) ==
    /\ pc[c] = "gate"
    /\ IF Op(c) \notin NeedsApproval
       THEN Goto(c, "acquire") /\ UNCHANGED <<st, pending>>
       ELSE IF pending[Ses(c)] >= MaxPending
       THEN Goto(c, "fail") /\ UNCHANGED <<st, pending>>
       ELSE /\ Advance(c, "PendingApproval", "approving")
            /\ pending' = IF terminal(st[Op(c)]) THEN pending
                          ELSE [pending EXCEPT ![Ses(c)] = @ + 1]
    /\ UNCHANGED <<envVars, hostOps, sessOps, active, opTok, cancelling, sent,
                   guardVars>>

Approved(c) ==
    /\ pc[c] = "approving"
    /\ Goto(c, "acquire")
    /\ LeaveApproval(c)
    /\ granted' = [granted EXCEPT ![c] = IF store.open THEN store.lease ELSE 0]
    /\ UNCHANGED <<envVars, hostOps, sessOps, active, opVars, dispatched,
                   held, lease>>

\* A request outside the grant, a forbidden address, a human's refusal.
Deny(c) ==
    /\ pc[c] \in {"validate", "dns", "approving"}
    /\ Goto(c, "deny")
    /\ LeaveApproval(c)
    /\ UNCHANGED <<envVars, hostOps, sessOps, active, opVars, guardVars>>

PermitFree(c) == active[Ses(c)] < MaxActive

Acquire(c) ==
    /\ pc[c] = "acquire"
    /\ IF Check(Ses(c)) /\ PermitFree(c)
       THEN /\ Goto(c, "revalidate")
            /\ active' = [active EXCEPT ![Ses(c)] = @ + 1]
            /\ held' = [held EXCEPT ![c] = TRUE]
       ELSE Goto(c, "fail") /\ UNCHANGED <<active, held>>
    /\ UNCHANGED <<envVars, hostOps, sessOps, pending, opVars, dispatched,
                   lease, granted>>

Revalidate(c) ==
    /\ pc[c] = "revalidate"
    /\ Goto(c, IF LeaseCurrent(c) THEN "resolve" ELSE "fail")
    /\ UNCHANGED <<envVars, limitVars, opVars, guardVars>>

\* resolve_current: the session is checked around the store's answer.
Resolve(c) ==
    /\ pc[c] = "resolve"
    /\ Goto(c, IF Check(Ses(c)) /\ LeaseCurrent(c) THEN "recheck" ELSE "fail")
    /\ UNCHANGED <<envVars, limitVars, opVars, guardVars>>

\* After the injected request is observed: the lease and the session again.
Recheck(c) ==
    /\ pc[c] = "recheck"
    /\ Goto(c, IF Check(Ses(c)) /\ LeaseCurrent(c) THEN "ready" ELSE "fail")
    /\ UNCHANGED <<envVars, limitVars, opVars, guardVars>>

MakeReady(c) ==
    /\ pc[c] = "ready"
    /\ Advance(c, "Ready", "begin")
    /\ UNCHANGED <<envVars, limitVars, opTok, cancelling, sent, guardVars>>

\* Under the operation's state lock and the admission lock: authority, state
\* and token are looked at and the dispatch is committed in one step.
BeginDispatch(c) ==
    /\ pc[c] = "begin"
    /\ IF ~CommitAuthority(Ses(c))
       THEN Goto(c, "withdraw") /\ UNCHANGED <<st, dispatched>>
       ELSE IF st[Op(c)] # "Ready" \/ opTok[Op(c)]
       THEN Goto(c, "fail") /\ UNCHANGED <<st, dispatched>>
       ELSE /\ Goto(c, "send")
            /\ st' = [st EXCEPT ![Op(c)] = "Dispatching"]
            /\ dispatched' = [dispatched EXCEPT ![c] = TRUE]
    /\ UNCHANGED <<envVars, limitVars, opTok, cancelling, sent, held, lease,
                   granted>>

\* begin_dispatch lost to closure: it cancels without waiting for the walk.
Withdraw(c) ==
    /\ pc[c] = "withdraw"
    /\ cancel(Op(c))
    /\ Goto(c, "fail")
    /\ UNCHANGED <<envVars, limitVars, cancelling, sent, guardVars>>

\* transport.execute is called.
Send(c) ==
    /\ pc[c] = "send"
    /\ sent' = [sent EXCEPT ![Op(c)] = @ + 1]
    /\ Goto(c, "sending")
    /\ UNCHANGED <<envVars, limitVars, st, opTok, cancelling, guardVars>>

\* The response head arrived, was observed and sanitized.
Respond(c) ==
    /\ pc[c] = "sending"
    /\ Advance(c, "Dispatching", "body")
    /\ UNCHANGED <<envVars, limitVars, opTok, cancelling, sent, guardVars>>

\* complete() takes the state lock and checks; it keeps the lock until
\* CompleteCommit.  Here the body has reached its end.
CompleteCheck(c) ==
    /\ pc[c] = "body"
    /\ Goto(c, IF Check(Ses(c)) /\ ~opTok[Op(c)] /\ st[Op(c)] = "Dispatching"
               THEN "commit" ELSE "fail")
    /\ UNCHANGED <<envVars, limitVars, opVars, guardVars>>

\* The closing records are accepted and, under the admission lock, authority
\* is checked again; required observation may refuse the records.
CompleteCommit(c) ==
    /\ pc[c] = "commit"
    /\ \/ /\ CommitAuthority(Ses(c))
          /\ ~opTok[Op(c)] /\ st[Op(c)] = "Dispatching"
          /\ Goto(c, "over")
          /\ st' = [st EXCEPT ![Op(c)] = "Completed"]
       \/ Goto(c, "fail") /\ UNCHANGED st
    /\ UNCHANGED <<envVars, limitVars, opTok, cancelling, sent, guardVars>>

Woken_OperationOnly(c) == opTok[Op(c)]

Woken(c) == token[Ses(c)] \/ opTok[Op(c)]

\* The select of execute_inner, or the cancellation future of the body.
SelectCancelled(c) ==
    /\ pc[c] \in Awaits \cup {"body"}
    /\ Woken(c)
    /\ Goto(c, "fail")
    /\ LeaveApproval(c)
    /\ UNCHANGED <<envVars, hostOps, sessOps, active, opVars, guardVars>>

\* An error, or the call's deadline.
GiveUp(c) ==
    /\ pc[c] \in Fallible
    /\ Goto(c, "fail")
    /\ LeaveApproval(c)
    /\ UNCHANGED <<envVars, hostOps, sessOps, active, opVars, guardVars>>

\* The caller drops the future or the response body.
Abandon(c) ==
    /\ pc[c] \in Awaits \cup {"body"}
    /\ Goto(c, "drop")
    /\ LeaveApproval(c)
    /\ UNCHANGED <<envVars, hostOps, sessOps, active, opVars, guardVars>>

\* Drop of an unfinished guard: cancel() and then fail().
GuardDrop(c) ==
    /\ pc[c] = "drop"
    /\ cancel(Op(c))
    /\ Goto(c, "fail")
    /\ UNCHANGED <<envVars, limitVars, cancelling, sent, guardVars>>

FailState_Optimistic(c) ==
    IF terminal(st[Op(c)]) THEN st[Op(c)]
    ELSE IF pc[c] = "deny" THEN "Denied" ELSE "Failed"

\* fail(): the state by what the guard knows, unless it is terminal already.
FailState(c) ==
    IF terminal(st[Op(c)]) THEN st[Op(c)]
    ELSE IF dispatched[c] THEN "OutcomeUnknown"
    ELSE IF pc[c] = "deny" THEN "Denied" ELSE "Failed"

Fail(c) ==
    /\ pc[c] \in {"fail", "deny"} /\ ~StateLocked(Op(c))
    /\ st' = [st EXCEPT ![Op(c)] = FailState(c)]
    /\ Goto(c, "failed")
    /\ UNCHANGED <<envVars, limitVars, opTok, cancelling, sent, guardVars>>

\* The rest of fail(): the token, after the state lock is released.
FailCancel(c) ==
    /\ pc[c] = "failed"
    /\ opTok' = [opTok EXCEPT ![Op(c)] = TRUE]
    /\ Goto(c, "over")
    /\ UNCHANGED <<envVars, limitVars, st, cancelling, sent, guardVars>>

\* The finished guard is dropped, and its active permit with it.
Release(c) ==
    /\ pc[c] = "over"
    /\ active' = [active EXCEPT ![Ses(c)] = @ - (IF held[c] THEN 1 ELSE 0)]
    /\ held' = [held EXCEPT ![c] = FALSE]
    /\ Goto(c, "done")
    /\ UNCHANGED <<envVars, hostOps, sessOps, pending, opVars, dispatched,
                   lease, granted>>
-----------------------------------------------------------------------------
Init ==
    /\ closed = FALSE /\ creating = {}
    /\ sess = [s \in Sessions |-> "none"]
    /\ revoked = [s \in Sessions |-> FALSE]
    /\ token = [s \in Sessions |-> FALSE]
    /\ expired = [s \in Sessions |-> FALSE]
    /\ hostOps = 0
    /\ sessOps = [s \in Sessions |-> 0]
    /\ active = [s \in Sessions |-> 0]
    /\ pending = [s \in Sessions |-> 0]
    /\ st = [o \in Ops |-> "None"]
    /\ opTok = [o \in Ops |-> FALSE]
    /\ cancelling = {}
    /\ pc = [c \in Calls |-> "idle"]
    /\ dispatched = [c \in Calls |-> FALSE]
    /\ held = [c \in Calls |-> FALSE]
    /\ lease = [c \in Calls |-> 0]
    /\ granted = [c \in Calls |-> 0]
    /\ sent = [o \in Ops |-> 0]
    /\ store = [open |-> TRUE, lease |-> 1]
    /\ tpc = [t \in Operators |-> "idle"]
    /\ inClose = [t \in Operators |-> FALSE]
    /\ tsess = [t \in Operators |-> NoSession]
    /\ tqueue = [t \in Operators |-> {}]
    /\ tnotify = [t \in Operators |-> {}]
    /\ ttodo = [t \in Operators |-> {}]
    /\ settled = [s \in Sessions |-> FALSE]
    /\ closeReturned = FALSE

SessionStep(s) == CreateCheck(s) \/ CreatePublish(s) \/ Expire(s) \/ SessionDrop(s)

CloseStep(t) ==
    \/ CloseStart(t) \/ CloseReturn(t)
    \/ \E s \in Sessions : CloseNotify(t, s) \/ CloseNext(t, s)

RevokeStep(t) ==
    \/ \E s \in Sessions : RevokeCall(t, s)
    \/ RevokeFlip(t) \/ RevokeNotify(t) \/ RevokeLock(t) \/ RevokeReturn(t)
    \/ \E o \in Ops : RevokeCancel(t, o)

\* Preparation up to the final authority check.
PrepareStep(c) ==
    \/ Execute(c) \/ Track(c) \/ Open(c) \/ Validate(c) \/ ResolveName(c)
    \/ Metadata(c) \/ Gate(c) \/ Approved(c) \/ Deny(c) \/ Acquire(c)
    \/ Revalidate(c) \/ Resolve(c) \/ Recheck(c) \/ MakeReady(c)

DispatchStep(c) ==
    \/ BeginDispatch(c) \/ Withdraw(c) \/ Send(c) \/ Respond(c)
    \/ CompleteCheck(c) \/ CompleteCommit(c)

EndStep(c) ==
    \/ SelectCancelled(c) \/ GiveUp(c) \/ Abandon(c) \/ GuardDrop(c)
    \/ Fail(c) \/ FailCancel(c) \/ Release(c)

Next ==
    \/ \E s \in Sessions : SessionStep(s)
    \/ CloseAdmission
    \/ \E t \in Operators : CloseStep(t) \/ RevokeStep(t)
    \/ \E o \in Ops : CancelLookup(o) \/ CancelOperation(o)
    \/ StorePut \/ StoreLock \/ StoreUnlock
    \/ \E c \in Calls : PrepareStep(c) \/ DispatchStep(c) \/ EndStep(c)

Spec == Init /\ [][Next]_vars

\* The threads of the host run: an operator call that started goes on, and so
\* does a task between two awaits.  The select is polled again when one of
\* its tokens is set.  Nothing is assumed of resolvers, stores, approvals,
\* the network or whoever reads the response body.
OperatorProgress(t) ==
    \/ CloseReturn(t) \/ RevokeFlip(t) \/ RevokeNotify(t) \/ RevokeLock(t)
    \/ RevokeReturn(t)
    \/ \E s \in Sessions : CloseNotify(t, s) \/ CloseNext(t, s)
    \/ \E o \in Ops : RevokeCancel(t, o)

TaskProgress(c) ==
    \/ Track(c) \/ Open(c) \/ Gate(c) \/ Acquire(c) \/ MakeReady(c)
    \/ BeginDispatch(c) \/ Withdraw(c) \/ Send(c) \/ CompleteCommit(c)
    \/ GuardDrop(c) \/ Fail(c) \/ FailCancel(c)
    \/ (pc[c] \in Awaits /\ SelectCancelled(c))

FairSpec ==
    /\ Spec
    /\ \A t \in Operators : WF_vars(OperatorProgress(t))
    /\ \A c \in Calls : WF_vars(TaskProgress(c))
-----------------------------------------------------------------------------
(* Properties *)

CallPCs ==
    Awaits \cup {"idle", "track", "open", "gate", "acquire", "ready", "begin",
                "withdraw", "send", "body", "commit", "drop", "fail", "deny",
                "failed", "over", "done"}

AuthTypes ==
    /\ closed \in BOOLEAN /\ creating \subseteq Sessions
    /\ sess \in [Sessions -> {"none", "live", "dropped"}]
    /\ revoked \in [Sessions -> BOOLEAN]
    /\ token \in [Sessions -> BOOLEAN]
    /\ expired \in [Sessions -> BOOLEAN]
    /\ store \in [open : BOOLEAN, lease : Nat]

LimitTypes ==
    /\ hostOps \in Int /\ sessOps \in [Sessions -> Int]
    /\ active \in [Sessions -> Int] /\ pending \in [Sessions -> Int]

OpTypes ==
    /\ st \in [Ops -> OperationState \cup {"None"}]
    /\ opTok \in [Ops -> BOOLEAN] /\ sent \in [Ops -> Nat]
    /\ cancelling \subseteq Ops

CallTypes ==
    /\ pc \in [Calls -> CallPCs]
    /\ dispatched \in [Calls -> BOOLEAN] /\ held \in [Calls -> BOOLEAN]
    /\ lease \in [Calls -> Nat] /\ granted \in [Calls -> Nat]

ThreadTypes ==
    /\ tpc \in [Operators -> {"idle", "close", "flip", "notify", "lock", "walk"}]
    /\ inClose \in [Operators -> BOOLEAN]
    /\ tsess \in [Operators -> Sessions \cup {NoSession}]
    /\ tqueue \in [Operators -> SUBSET Sessions]
    /\ tnotify \in [Operators -> SUBSET Sessions]
    /\ ttodo \in [Operators -> SUBSET Ops]
    /\ settled \in [Sessions -> BOOLEAN] /\ closeReturned \in BOOLEAN

\* Every variable has its type, whichever handler wrote it last.
TypeOK == AuthTypes /\ LimitTypes /\ OpTypes /\ CallTypes /\ ThreadTypes

\* An operation that reached the transport never reports a state that means
\* "nothing was sent" (Failed, Denied, Expired, Cancelled), whichever of
\* cancel(), fail(), revoke and the guard's destructor wrote the state last.
TruthfulStatus == \A o \in Ops : sent[o] > 0 => st[o] \in Committed

\* However often a request_id is executed again, concurrently, after a
\* failure or after an unknown outcome, it reaches the transport once.
AtMostOnce == \A o \in Ops : sent[o] <= 1

\* Once revoke(s) has returned, no operation of s is Dispatching: those it
\* found were settled by its walk, and no later one passes begin_dispatch.
RevokeSettles ==
    \A o \in Ops : settled[Owner[o]] => st[o] # "Dispatching"

\* Once close() has returned, every session anyone can hold is revoked,
\* notified and settled: no concurrent creator escapes the snapshot.
CloseReachesAll ==
    closeReturned => \A s \in Sessions :
                        sess[s] = "live" => revoked[s] /\ token[s] /\ settled[s]

\* Permits in use are the permits owned by guards and approvals, and the
\* host's tracked bytes are those of the operations of referenced sessions: on
\* every way out a call gives its permits back, dropping a session returns all
\* its bytes, and the limits hold.
PermitsConserved ==
    /\ \A s \in Sessions :
         /\ active[s] = Cardinality({c \in Calls : held[c] /\ Ses(c) = s})
         /\ pending[s] = Cardinality({c \in Calls : pc[c] = "approving" /\ Ses(c) = s})
         /\ active[s] <= MaxActive /\ pending[s] <= MaxPending
         /\ sessOps[s] <= MaxSessionOps
    /\ hostOps = Cardinality({o \in Ops : st[o] # "None" /\ sess[Owner[o]] = "live"})
    /\ hostOps <= MaxHostOps

\* A request that needs approval leaves with the credential version that was
\* current when the approval was granted: a rotation, lock or unlock between
\* the metadata a human saw and the approval keeps it from being dispatched.
CredentialAsApproved ==
    \A c \in Calls : dispatched[c] /\ Op(c) \in NeedsApproval => granted[c] = lease[c]

\* A terminal state is never left, whoever still holds the operation.
TerminalStable ==
    [][\A o \in Ops : terminal(st[o]) => st'[o] = st[o]]_vars

\* A dispatch or a completion is only ever committed while the session still
\* has authority, however stale the checks were that led to it.
EffectsUnderAuthority ==
    [][\A o \in Ops :
          st'[o] # st[o] /\ st'[o] \in {"Dispatching", "Completed"}
             => Check(Owner[o])]_vars

\* After a revocation every operation of the session, including one tracked
\* behind the walk, reaches a terminal state for good.
RevocationConverges ==
    \A s \in Sessions :
        revoked[s] ~> [](\A o \in Ops :
                            Owner[o] = s => st[o] = "None" \/ terminal(st[o]))

\* The pipeline implements the lifecycle the broker promises: a session has
\* authority while Check lets it through, an operation is in the phase of its
\* reported state.
Authority ==
    [s \in Sessions |-> IF sess[s] = "none" THEN "none"
                        ELSE IF Check(s) THEN "granted" ELSE "ended"]

AbstractPhase(state) ==
    IF state \in Undispatched THEN "pending"
    ELSE IF state \in Refused THEN "refused"
    ELSE IF state = "None" THEN "none"
    ELSE IF state = "Dispatching" THEN "committed"
    ELSE IF state = "Completed" THEN "completed" ELSE "unknown"

Phase == [o \in Ops |-> AbstractPhase(st[o])]

Promise == INSTANCE Lifecycle WITH
    authority <- Authority, phase <- Phase, handed <- sent

\* Every step of sessions, tasks, guards and operator threads is a step of
\* Lifecycle or changes nothing it can see.
ImplementsLifecycle == Promise!Spec
=============================================================================
