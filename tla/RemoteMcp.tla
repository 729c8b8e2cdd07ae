----------------------------- MODULE RemoteMcp ------------------------------
(***************************************************************************)
(* Remote MCP of one session and one resource: the upstream contexts and   *)
(* their handshake, the exchanges that run over them, the cancellation of  *)
(* a request by an MCP message or by the agent's cancel call, the DELETE   *)
(* of a context, and the control children these dispatch.                  *)
(*                                                                         *)
(* A call is one request of the agent.  What it does between two points    *)
(* where it awaits or gives a lock back is one action.  A context ages     *)
(* when it is next looked at, so every action looks through Aged or Alive. *)
(* Denied, Failed and Cancelled are one state here, "stopped": the agent   *)
(* may retry.  Module Pipeline tells them apart.                           *)
(***************************************************************************)
EXTENDS Integers, Sequences, FiniteSets

CONSTANTS
    Calls,          \* requests of the agent
    Method,         \* the MCP method of a call; "delete" and "abort" are the
                    \* endpoint DELETE and the local cancel call
    Id,             \* the JSON-RPC id of a call, NoId for a notification
    NoId,
    TargetId,       \* the id that a cancellation message names
    TargetCalls,    \* the operations a local cancel call may name
    MaxContexts,    \* 16 contexts of a session
    MaxSerial,      \* 4096 exchanges of a context
    MaxControl,     \* 2 control exchanges pending, and 2 control permits
    MaxNormal,      \* 8 other exchanges pending, and 8 active permits
    MaxRunning,     \* bound of the model: calls of the agent in flight at once
    Pings,          \* bound of the model: the calls whose answer holds a ping
    Actors          \* outside events of an instance

Methods == {"initialize", "initialized", "ping", "call", "cancel", "delete", "abort"}

ASSUME RemoteAssumption ==
    /\ Method \in [Calls -> Methods]
    /\ TargetCalls \subseteq Calls
    /\ \A k \in Calls : Id[k] = NoId <=> Method[k] \notin {"initialize", "ping", "call"}
    /\ Pings \subseteq Calls
    /\ Actors \subseteq {"revoke", "expire", "rotate", "lock"}
    /\ {MaxContexts, MaxSerial, MaxControl, MaxNormal, MaxRunning} \subseteq Nat
    /\ MaxSerial > 0

VARIABLES
    ctxs,      \* Vault.contexts, the last one is current
    lease,     \* the lease the store holds for the item; 0 when locked
    rv, todo,  \* the revoking thread and the operations it has yet to cancel
    pc,        \* where the task of a call stands
    st, tok,   \* Operation.state and Operation.cancelled
    at,        \* the context of the call's exchange or control message
    meta,      \* the lease a call read from the store's metadata
    victim,    \* the operation a cancellation stops
    saw,       \* a cancellation read Dispatching in its victim's status
    child,     \* the call's control child
    sent       \* requests, notifications and DELETEs handed to the transport

callVars == <<pc, st, tok, at, meta, victim, saw, child>>
vars == <<ctxs, lease, rv, todo, callVars, sent>>

-----------------------------------------------------------------------------
(* The context (aap-mcp-upstream).                                         *)

Dead      == {"invalid", "closed"}
Handshake == {"initialize", "initialized"}
is_control(m) == m \in {"ping", "initialized", "cancel"}
terminal(s)   == s \in {"completed", "unknown", "stopped"}

NoPending == << >>
NewContext(l) ==
    [st |-> "new", fault |-> FALSE, native |-> FALSE, token |-> FALSE, closing |-> FALSE,
     expired |-> FALSE, lease |-> l, next |-> 1, pend |-> NoPending]

Pending(c) == DOMAIN c.pend
Without(c, k) == [j \in Pending(c) \ {k} |-> c.pend[j]]

\* Context::invalidate: a closed context stays closed.
invalidate(c) ==
    [c EXCEPT !.st = IF @ = "closed" THEN @ ELSE "invalid", !.fault = TRUE,
              !.native = FALSE, !.pend = NoPending]

\* Context::expire; expired stands for the lifetime of the context and, until
\* it is ready, for the deadline of its handshake.
Aged(c) == IF c.st \notin Dead /\ (c.fault \/ c.expired) THEN invalidate(c) ELSE c

\* Binding::invalidate, and Binding::check with what its failure leaves behind.
Retired(c) == [invalidate(c) EXCEPT !.token = TRUE]
Alive(c)   == ~c.token /\ ~c.expired /\ ~c.fault /\ c.st \notin Dead
Checked(c) == IF Alive(c) THEN c ELSE Retired(c)

\* A context that its owner finds dead is made known to all who wait on it.
Told(c) == IF Aged(c).st \in Dead THEN [Aged(c) EXCEPT !.token = TRUE] ELSE c

InState_AnyPhase(c, m) ==
    CASE m = "initialize" -> c.st = "new"
      [] m = "initialized" -> c.st = "awaiting"
      [] OTHER -> c.st # "new"

\* Which method the phase of the handshake admits.
InState(c, m) ==
    CASE m = "initialize" -> c.st = "new"
      [] m = "initialized" -> c.st = "awaiting"
      [] m = "ping" -> c.st # "new"
      [] OTHER -> c.st = "ready"

\* What Context::begin accepts, for the live context c.
Admits(c, k) ==
    LET m == Method[k]
        peers == {j \in Pending(c) : is_control(Method[j]) = is_control(m)}
    IN /\ InState(c, m)
       /\ m = "initialized" => \A j \in Pending(c) : Method[j] # "initialized"
       /\ Id[k] # NoId => \A j \in Pending(c) : Id[j] # Id[k]
       /\ c.next <= MaxSerial
       /\ Cardinality(peers) < IF is_control(m) THEN MaxControl ELSE MaxNormal

begin(c, k) ==
    [c EXCEPT !.st = IF Method[k] = "initialize" THEN "initializing" ELSE @,
              !.next = @ + 1,
              !.pend = [j \in Pending(c) \cup {k} |->
                          IF j = k THEN [cancelled |-> FALSE, started |-> FALSE] ELSE @[j]]]

\* Context::check of the exchange of k, after Binding::check.
Valid_Cancelled(c, k) == Alive(c) /\ k \in Pending(c)

Valid(c, k) == Alive(c) /\ k \in Pending(c) /\ ~c.pend[k].cancelled

\* Context::start_response, and its verdict on the status and the headers.
start_response(c, k) == [c EXCEPT !.pend[k].started = TRUE]
HeaderVerdicts == {"admitted", "refused"}

\* Context::complete with the answer r: an Initialize that the server refuses
\* ends the context, one it accepts may bring a native session.
complete(c, k, r) ==
    LET d == [c EXCEPT !.pend = Without(c, k)]
    IN CASE Method[k] = "initialize" /\ r = "error" -> invalidate(d)
         [] Method[k] = "initialize" /\ r # "error" ->
               [d EXCEPT !.st = "awaiting", !.native = (r = "session")]
         [] Method[k] = "initialized" -> [d EXCEPT !.st = "ready"]
         [] OTHER -> d

abandon_Quiet(c, k) == IF k \in Pending(c) THEN [c EXCEPT !.pend = Without(c, k)] ELSE c

\* Context::abandon: a dropped handshake leaves no half-open context.
abandon(c, k) ==
    IF k \notin Pending(c) THEN c
    ELSE IF Method[k] \in Handshake THEN invalidate(c)
    ELSE [c EXCEPT !.pend = Without(c, k)]

\* Context::close, with the token that prepare_remote_close sets.
close(c) == [Retired(c) EXCEPT !.st = "closed"]

-----------------------------------------------------------------------------
(* The session and its calls (aap-engine).                                 *)

Check == rv = "no"
Cur   == Len(ctxs)
VaultLocked == rv = "contexts"
CtxOf(k) == ctxs[at[k]]
CustodyOf(c) == lease = c.lease

ChildKind(k) == CASE Method[k] \in {"cancel", "abort"} -> "cancel"
                  [] Method[k] = "delete" -> "delete"
                  [] OTHER -> "ping"

IsExchange(k) == Method[k] \in {"initialize", "initialized", "ping", "call"}
Decoding    == {"responding", "decoding"}
Transmitted == {"sent", "pinging", "staged", "settled"} \cup Decoding
InExchange  == {"admitted", "outgoing", "ready"} \cup Transmitted
Authenticated == {"outgoing", "ready"} \cup Transmitted
Running(k) == pc[k] \notin {"idle", "ended"}
Room == Cardinality({k \in Calls : Running(k)}) < MaxRunning

\* Permits of SessionCore.control and SessionCore.active.
ControlHeld ==
    Cardinality({k \in Calls : is_control(Method[k]) /\ pc[k] \in Authenticated})
      + Cardinality({k \in Calls : child[k] \in {"ready", "sent"}})
ActiveHeld == Cardinality({k \in Calls : ~is_control(Method[k]) /\ pc[k] \in Authenticated})
PermitFor(k) == IF is_control(Method[k]) THEN ControlHeld < MaxControl
                ELSE ActiveHeld < MaxNormal

Becomes(f, k, v) == f' = [f EXCEPT ![k] = v]

\* cs with the context of k passed through what Exchange::abandon and the drop
\* of a Closing do to it.
Released(cs, k) ==
    IF at[k] = 0 THEN cs
    ELSE IF IsExchange(k) THEN [cs EXCEPT ![at[k]] = Told(abandon(@, k))]
    ELSE IF Method[k] = "delete" /\ pc[k] = "cleaning"
         THEN [cs EXCEPT ![at[k]].closing = FALSE]
    ELSE cs

\* Guard::child: a control message is an operation of its own.
Spawn(k) == Becomes(child, k, "new")

\* Guard::fail, of a call that leaves the contexts as cs.
Fail(k, cs) ==
    /\ ctxs' = Released(cs, k)
    /\ Becomes(st, k, IF Method[k] = "abort" \/ terminal(st[k]) THEN st[k]
                      ELSE IF pc[k] \in Transmitted THEN "unknown" ELSE "stopped")
    /\ Becomes(tok, k, TRUE)
    /\ Becomes(pc, k, "ended")
    /\ Becomes(child, k, "none")
    /\ Becomes(meta, k, 0)
    /\ Becomes(saw, k, FALSE)
    /\ Becomes(victim, k, k)
    /\ UNCHANGED <<lease, rv, todo, at, sent>>

\* Track the operation, admit its route and item, record its request.  The
\* session was checked before the operations are locked: a call may be tracked
\* when the revoking thread has already walked past.
Start(k) ==
    /\ pc[k] = "idle" /\ Method[k] # "abort" /\ Room
    /\ rv # "operations"
    /\ Becomes(pc, k, "validated")
    /\ Becomes(st, k, "open")
    /\ UNCHANGED <<ctxs, lease, rv, todo, tok, at, meta, victim, saw, child, sent>>

\* The store's metadata is read; if it cannot be, every context is retired.
Metadata(k) ==
    /\ pc[k] = "validated" /\ IsExchange(k)
    /\ \/ /\ lease # 0
          /\ Becomes(meta, k, lease)
          /\ Becomes(pc, k, "metadata")
          /\ UNCHANGED <<ctxs, lease, rv, todo, st, tok, at, victim, saw, child, sent>>
       \/ /\ lease = 0 /\ ~VaultLocked
          /\ Fail(k, [i \in 1..Cur |-> Retired(ctxs[i])])

\* The contexts as prepare_remote leaves them before it admits k: one pinned to
\* another lease, expired or dead is retired.
Current(k) ==
    IF Cur = 0 THEN ctxs
    ELSE [ctxs EXCEPT ![Cur] = IF @.lease # meta[k] THEN Retired(@) ELSE Checked(@)]
Closing == Cur > 0 /\ ctxs[Cur].closing
CurrentLives(k) == Cur > 0 /\ Alive(Current(k)[Cur])

MayCommit_Unordered(k) == ~terminal(st[k]) /\ ~tok[k]

\* Session::commit_authority with the operation's state locked.
MayCommit(k) == Check /\ ~terminal(st[k]) /\ ~tok[k]

Barrier_Dropped == FALSE

\* A DELETE in progress owns the resource's context.
Barrier == Closing

PrepareCurrent(k) ==
    /\ pc[k] = "metadata" /\ ~VaultLocked
    /\ ~Barrier /\ CurrentLives(k)
    /\ MayCommit(k) /\ Admits(ctxs[Cur], k)
    /\ ctxs' = [ctxs EXCEPT ![Cur] = begin(@, k)]
    /\ Becomes(at, k, Cur)
    /\ Becomes(meta, k, 0)
    /\ Becomes(pc, k, "admitted")
    /\ UNCHANGED <<lease, rv, todo, st, tok, victim, saw, child, sent>>

PrepareFresh(k) ==
    /\ pc[k] = "metadata" /\ ~VaultLocked
    /\ ~Barrier /\ ~CurrentLives(k)
    /\ Method[k] = "initialize" /\ Cur < MaxContexts
    /\ MayCommit(k)
    /\ ctxs' = Append(Current(k), begin(NewContext(meta[k]), k))
    /\ Becomes(at, k, Cur + 1)
    /\ Becomes(meta, k, 0)
    /\ Becomes(pc, k, "admitted")
    /\ UNCHANGED <<lease, rv, todo, st, tok, victim, saw, child, sent>>

PrepareRefused(k) ==
    /\ pc[k] = "metadata" /\ ~VaultLocked
    /\ \/ Barrier /\ Fail(k, ctxs)
       \/ /\ ~Barrier
          /\ IF CurrentLives(k) THEN ~(MayCommit(k) /\ Admits(ctxs[Cur], k))
             ELSE ~(Method[k] = "initialize" /\ Cur < MaxContexts /\ MayCommit(k))
          /\ Fail(k, Current(k))

\* Approval, custody, the permit, the destination and the credential.
Authenticate(k) ==
    /\ pc[k] = "admitted"
    /\ Check /\ Valid(CtxOf(k), k) /\ CustodyOf(CtxOf(k)) /\ PermitFor(k)
    /\ Becomes(pc, k, "outgoing")
    /\ UNCHANGED <<ctxs, lease, rv, todo, st, tok, at, meta, victim, saw, child, sent>>

\* The last look at the context before the dispatch.
Recheck(k) == Check /\ Valid(CtxOf(k), k) /\ CustodyOf(CtxOf(k))

MakeReady(k) ==
    /\ pc[k] = "outgoing"
    /\ Recheck(k) /\ ~terminal(st[k])
    /\ Becomes(st, k, "ready")
    /\ Becomes(pc, k, "ready")
    /\ UNCHANGED <<ctxs, lease, rv, todo, tok, at, meta, victim, saw, child, sent>>

\* begin_dispatch looks at the session and the operation, not at the context.
BeginDispatch(k) ==
    /\ pc[k] = "ready"
    /\ MayCommit(k) /\ st[k] = "ready"
    /\ Becomes(st, k, "dispatching")
    /\ Becomes(pc, k, "sent")
    /\ sent' = sent \cup {[kind |-> "request", ctx |-> at[k], subject |-> k, by |-> k]}
    /\ UNCHANGED <<ctxs, lease, rv, todo, tok, at, meta, victim, saw, child>>

StartResponse(k) ==
    /\ pc[k] = "sent"
    /\ Valid(CtxOf(k), k) /\ ~CtxOf(k).pend[k].started
    /\ \E v \in HeaderVerdicts :
         IF v = "refused" THEN Fail(k, [ctxs EXCEPT ![at[k]] = invalidate(@)])
         ELSE /\ ctxs' = [ctxs EXCEPT ![at[k]] = start_response(@, k)]
              /\ Becomes(pc, k, "responding")
              /\ UNCHANGED <<lease, rv, todo, st, tok, at, meta, victim, saw, child, sent>>

\* Bytes that the decoder refuses, or trailers.
RejectBody(k) ==
    /\ pc[k] \in Decoding
    /\ Fail(k, [ctxs EXCEPT ![at[k]] = Retired(@)])

\* Context::ping_reply, of a decoder that is not yet done.
ping_reply(c, k) == Valid(c, k)

\* A ping of the server inside the answer: the reply is a child.  An answer has
\* at most one here.
ServerPing(k) ==
    /\ pc[k] = "responding" /\ k \in Pings /\ Method[k] # "initialized"
    /\ ping_reply(CtxOf(k), k)
    /\ Spawn(k)
    /\ Becomes(pc, k, "pinging")
    /\ UNCHANGED <<ctxs, lease, rv, todo, st, tok, at, meta, victim, saw, sent>>

\* ResponseDecoder::finish: nothing poisoned the context or cancelled k.
Decoded(k) == Valid(CtxOf(k), k)

\* The whole answer is decoded, custody is still good: the transition is staged
\* and the body handed to the agent.
Finish(k) ==
    /\ pc[k] \in Decoding
    /\ Check /\ Decoded(k) /\ CustodyOf(CtxOf(k))
    /\ ~terminal(st[k])
    /\ Becomes(pc, k, "staged")
    /\ UNCHANGED <<ctxs, lease, rv, todo, st, tok, at, meta, victim, saw, child, sent>>

\* The body's completion check.
Settle(k) ==
    /\ pc[k] = "staged"
    /\ Alive(CtxOf(k)) /\ CustodyOf(CtxOf(k))
    /\ Becomes(pc, k, "settled")
    /\ UNCHANGED <<ctxs, lease, rv, todo, st, tok, at, meta, victim, saw, child, sent>>

\* Guard::complete: the operation and the context advance together.
Complete(k) ==
    /\ pc[k] = "settled"
    /\ MayCommit(k) /\ st[k] = "dispatching"
    /\ Valid(CtxOf(k), k)
    /\ \E r \in {"error", "stateless", "session"} :
         /\ Method[k] = "initialize" \/ r = "stateless"
         /\ ctxs' = [ctxs EXCEPT ![at[k]] = complete(@, k, r)]
    /\ Becomes(st, k, "completed")
    /\ Becomes(pc, k, "ended")
    /\ UNCHANGED <<lease, rv, todo, tok, at, meta, victim, saw, child, sent>>

\* Custody that is gone when it is looked at retires the context.
CustodyLost(k) ==
    /\ pc[k] \in {"admitted", "outgoing", "staged"} \cup Decoding
    /\ ~CustodyOf(CtxOf(k))
    /\ Fail(k, [ctxs EXCEPT ![at[k]] = Retired(@)])

\* An error, a deadline, or the agent that drops the call, wherever it awaits;
\* also a check that fails where a call would go on.
GiveUp(k) ==
    /\ Running(k) /\ (Method[k] = "abort" => pc[k] = "notifying")
    /\ Fail(k, ctxs)

-----------------------------------------------------------------------------
(* Cancellation: the mark under the context's lock, the status, the token  *)
(* of the operation, then perhaps a notification.                          *)

\* Context::cancel_serial: only the first to come may notify the server.
Marked(c, j) == IF j \in Pending(c) /\ Id[j] # NoId THEN [c EXCEPT !.pend[j].cancelled = TRUE]
                ELSE c
FirstMark_Any(c, j) == j \in Pending(c) /\ Id[j] # NoId

FirstMark(c, j) == j \in Pending(c) /\ Id[j] # NoId /\ ~c.pend[j].cancelled

\* Context::cancel_request: what a cancellation message may stop.
Named(c, k) == {j \in Pending(c) : Id[j] = TargetId[k] /\ Method[j] # "initialize"}

\* Context::cancel_operation: a handshake that is cancelled takes its context
\* with it, without a message to the server.
cancel_operation(c, j) ==
    IF j \in Pending(c) /\ Method[j] \in Handshake THEN invalidate(c) ELSE Marked(c, j)

\* notifications/cancelled, on the current context.
MarkMessage(k) ==
    /\ pc[k] = "validated" /\ Method[k] = "cancel" /\ ~VaultLocked
    /\ LET c == IF Cur = 0 THEN NewContext(0) ELSE Aged(ctxs[Cur])
           found == Named(c, k)
       IN IF \E j \in found : FirstMark(c, j)
          THEN \E j \in found :
                 /\ FirstMark(c, j)
                 /\ ctxs' = [ctxs EXCEPT ![Cur] = Told(Marked(c, j))]
                 /\ Becomes(victim, k, j)
                 /\ Becomes(at, k, Cur)
                 /\ Becomes(pc, k, "marked")
          ELSE /\ ctxs' = IF Cur = 0 THEN ctxs ELSE [ctxs EXCEPT ![Cur] = Told(c)]
               /\ Becomes(pc, k, "local")
               /\ UNCHANGED <<victim, at>>
    /\ UNCHANGED <<lease, rv, todo, st, tok, meta, saw, child, sent>>

\* The local cancel call: prepare_operation_cancel.
MarkAbort(k, j) ==
    LET c == Aged(ctxs[Cur])
    IN /\ pc[k] = "idle" /\ Method[k] = "abort" /\ Room
       /\ Check /\ j \in TargetCalls /\ st[j] # "none"
       /\ ~VaultLocked
       /\ IF terminal(st[j]) \/ Cur = 0 THEN UNCHANGED <<ctxs, at>>
          ELSE /\ ctxs' = [ctxs EXCEPT ![Cur] = Told(cancel_operation(c, j))]
               /\ Becomes(at, k, IF FirstMark(c, j) /\ Method[j] \notin Handshake THEN Cur ELSE 0)
       /\ Becomes(victim, k, j)
       /\ Becomes(pc, k, "marked")
       /\ UNCHANGED <<lease, rv, todo, st, tok, meta, saw, child, sent>>

ReadStatus_Assumed(k) == victim[k] \in Calls

\* The status that decides whether the server is told.
ReadStatus(k) == st[victim[k]] = "dispatching"

ReadVictim(k) ==
    /\ pc[k] = "marked"
    /\ Method[k] = "cancel" => Check
    /\ Becomes(saw, k, ReadStatus(k))
    /\ Becomes(pc, k, "read")
    /\ UNCHANGED <<ctxs, lease, rv, todo, st, tok, at, meta, victim, child, sent>>

\* Operation::cancel.
Cancelled(s) == IF terminal(s) THEN s ELSE IF s = "dispatching" THEN "unknown" ELSE "stopped"

AfterCancel(k) == IF Method[k] = "cancel" THEN "local" ELSE "ended"

CancelVictim(k) ==
    LET j == victim[k]
        notify == saw[k] /\ at[k] # 0
    IN /\ pc[k] = "read"
       /\ Becomes(st, j, Cancelled(st[j]))
       /\ Becomes(tok, j, tok[j] \/ ~terminal(st[j]))
       /\ IF notify THEN Spawn(k) ELSE UNCHANGED child
       /\ Becomes(pc, k, IF notify THEN "notifying" ELSE AfterCancel(k))
       /\ Becomes(saw, k, FALSE)
       /\ Becomes(victim, k, IF notify THEN j ELSE k)
       /\ UNCHANGED <<ctxs, lease, rv, todo, at, meta, sent>>

\* Guard::complete_local of a cancellation message or a DELETE.
CompleteLocal(k) ==
    /\ pc[k] = "local"
    /\ MayCommit(k)
    /\ Becomes(st, k, "completed")
    /\ Becomes(pc, k, "ended")
    /\ UNCHANGED <<ctxs, lease, rv, todo, tok, at, meta, victim, saw, child, sent>>

-----------------------------------------------------------------------------
(* DELETE of the current context, and the control children.                *)

\* prepare_remote_close: only a native session is worth a DELETE upstream.
CloseContext(k) ==
    /\ pc[k] = "validated" /\ Method[k] = "delete" /\ ~VaultLocked
    /\ LET c == IF Cur = 0 THEN NewContext(0) ELSE Aged(ctxs[Cur])
       IN \/ /\ c.native
             /\ ctxs' = [ctxs EXCEPT ![Cur] = [close(c) EXCEPT !.closing = TRUE]]
             /\ Becomes(at, k, Cur)
             /\ Spawn(k)
             /\ Becomes(pc, k, "cleaning")
          \/ /\ ~c.native
             /\ ctxs' = IF Cur = 0 THEN ctxs ELSE [ctxs EXCEPT ![Cur] = close(c)]
             /\ Becomes(pc, k, "local")
             /\ UNCHANGED <<at, child>>
    /\ UNCHANGED <<lease, rv, todo, st, tok, meta, victim, saw, sent>>

\* Kind::check: a DELETE outlives the authority of its context.
KindCheck(k) ==
    LET c == CtxOf(k)
    IN IF ChildKind(k) = "delete" THEN c.closing /\ ~c.expired /\ c.st = "closed" ELSE Alive(c)

ChildPrepare(k) ==
    /\ child[k] = "new"
    /\ Check /\ KindCheck(k) /\ CustodyOf(CtxOf(k)) /\ ControlHeld < MaxControl
    /\ Becomes(child, k, "ready")
    /\ UNCHANGED <<ctxs, lease, rv, todo, pc, st, tok, at, meta, victim, saw, sent>>

ChildDispatch(k) ==
    /\ child[k] = "ready"
    /\ Check
    /\ Becomes(child, k, "sent")
    /\ sent' = IF ChildKind(k) = "ping" THEN sent
               ELSE sent \cup {[kind |-> ChildKind(k), ctx |-> at[k], by |-> k,
                                subject |-> victim[k]]}
    /\ UNCHANGED <<ctxs, lease, rv, todo, pc, st, tok, at, meta, victim, saw>>

\* The call goes on after its child; the end of a DELETE's gives up the barrier.
Resume(k, cs) ==
    /\ ctxs' = IF ChildKind(k) = "delete" THEN [cs EXCEPT ![at[k]].closing = FALSE] ELSE cs
    /\ Becomes(pc, k, CASE ChildKind(k) = "ping" -> "decoding"
                        [] ChildKind(k) = "delete" -> "local"
                        [] OTHER -> AfterCancel(k))
    /\ Becomes(child, k, "none")
    /\ Becomes(victim, k, k)
    /\ UNCHANGED <<lease, rv, todo, st, tok, at, meta, saw, sent>>

\* An approval that nobody will wait for, or an acknowledgment.
ChildSkipped(k) == child[k] = "new" /\ Check /\ Resume(k, ctxs)

ChildAcknowledged(k) ==
    /\ child[k] = "sent"
    /\ Check /\ KindCheck(k) /\ CustodyOf(CtxOf(k))
    /\ Resume(k, ctxs)

\* The contexts after a child failed: one that was sent leaves its context
\* unsure, and so does custody that is found to be gone.
ChildFailures(k) ==
    LET retired == [ctxs EXCEPT ![at[k]] = Retired(@)]
    IN IF child[k] = "sent" THEN {retired}
       ELSE IF CustodyOf(CtxOf(k)) THEN {ctxs} ELSE {ctxs, retired}

\* Refusal, error, a token or the two seconds.  A reply that fails takes its
\* exchange with it, other children their callers survive.
ChildFailed(k) ==
    /\ child[k] # "none"
    /\ \E cs \in ChildFailures(k) :
         IF ChildKind(k) = "ping" THEN Fail(k, cs) ELSE Resume(k, cs)

-----------------------------------------------------------------------------
(* Broker::revoke, the store and time.                                     *)

RevokePublish ==
    /\ rv = "no" /\ "revoke" \in Actors
    /\ rv' = "operations"
    /\ todo' = {k \in Calls : st[k] # "none" /\ ~terminal(st[k])}
    /\ UNCHANGED <<ctxs, lease, callVars, sent>>

RevokeOperation(k) ==
    /\ rv = "operations" /\ k \in todo
    /\ todo' = todo \ {k}
    /\ Becomes(st, k, Cancelled(st[k]))
    /\ Becomes(tok, k, tok[k] \/ ~terminal(st[k]))
    /\ UNCHANGED <<ctxs, lease, rv, pc, at, meta, victim, saw, child, sent>>

\* invalidate_remote takes the vault's lock, then walks the contexts.
RevokeContexts ==
    /\ \/ rv = "operations" /\ todo = {} /\ rv' = "contexts" /\ UNCHANGED ctxs
       \/ /\ rv = "contexts" /\ rv' = "done"
          /\ ctxs' = [i \in 1..Cur |-> Retired(ctxs[i])]
    /\ UNCHANGED <<lease, todo, callVars, sent>>

\* The lifetime of the current context, or the deadline of its handshake.
Expire ==
    /\ "expire" \in Actors /\ Cur > 0 /\ ~ctxs[Cur].expired
    /\ ctxs' = [ctxs EXCEPT ![Cur].expired = TRUE]
    /\ UNCHANGED <<lease, rv, todo, callVars, sent>>

\* The item is replaced, or the store locked for good.
ChangeCustody ==
    /\ \/ "rotate" \in Actors /\ lease = 1 /\ lease' = 2
       \/ "lock" \in Actors /\ lease # 0 /\ lease' = 0
    /\ UNCHANGED <<ctxs, rv, todo, callVars, sent>>

-----------------------------------------------------------------------------
Init ==
    /\ ctxs = << >> /\ lease = 1
    /\ rv = "no" /\ todo = {}
    /\ pc = [k \in Calls |-> "idle"]
    /\ st = [k \in Calls |-> "none"]
    /\ tok = [k \in Calls |-> FALSE]
    /\ at = [k \in Calls |-> 0]
    /\ meta = [k \in Calls |-> 0]
    /\ victim = [k \in Calls |-> k]
    /\ saw = [k \in Calls |-> FALSE]
    /\ child = [k \in Calls |-> "none"]
    /\ sent = {}

Exchange(k) ==
    \/ Start(k) \/ Metadata(k)
    \/ PrepareCurrent(k) \/ PrepareFresh(k) \/ PrepareRefused(k)
    \/ Authenticate(k) \/ MakeReady(k) \/ BeginDispatch(k)
    \/ StartResponse(k) \/ RejectBody(k) \/ ServerPing(k)
    \/ Finish(k) \/ Settle(k) \/ Complete(k)
    \/ CustodyLost(k) \/ GiveUp(k)
Cancellation(k) ==
    \/ MarkMessage(k) \/ (\E j \in Calls : MarkAbort(k, j)) \/ ReadVictim(k) \/ CancelVictim(k)
    \/ CompleteLocal(k) \/ CloseContext(k)
Control(k) ==
    \/ ChildPrepare(k) \/ ChildDispatch(k)
    \/ ChildSkipped(k) \/ ChildAcknowledged(k) \/ ChildFailed(k)

Next ==
    \/ \E k \in Calls : Exchange(k) \/ Cancellation(k) \/ Control(k) \/ RevokeOperation(k)
    \/ RevokePublish \/ RevokeContexts \/ Expire \/ ChangeCustody

Interrupts_Own(k) == tok[k]

\* What a call waits on besides its answer: the tokens of the session, of its
\* operation and, in an exchange, of its context.
Interrupts(k) == rv # "no" \/ tok[k] \/ (pc[k] \in InExchange /\ CtxOf(k).token)
Interrupted(k) == Interrupts(k) /\ GiveUp(k)

Spec == Init /\ [][Next]_vars

\* A task whose token fires is polled again, and code between two awaits runs
\* on.  Nothing is assumed of the server, the store, the agent or of time.
Fairness ==
    /\ \A k \in Calls : /\ WF_vars(Interrupted(k))
                        /\ WF_vars(ReadVictim(k) \/ CancelVictim(k))
                        /\ WF_vars(RevokeOperation(k))
    /\ WF_vars(RevokeContexts)
FairSpec == Spec /\ Fairness

-----------------------------------------------------------------------------
(* Properties.                                                             *)

Records == [kind : {"request", "cancel", "delete"}, ctx : 1..MaxContexts,
            subject : Calls, by : Calls]

TypeOK ==
    /\ Len(ctxs) <= MaxContexts
    /\ \A i \in 1..Cur :
         /\ ctxs[i].st \in {"initializing", "awaiting", "ready"} \cup Dead
         /\ Pending(ctxs[i]) \subseteq Calls /\ ctxs[i].next \in 1..(MaxSerial + 1)
    /\ lease \in 0..2 /\ rv \in {"no", "operations", "contexts", "done"}
    /\ todo \subseteq Calls /\ sent \subseteq Records
    /\ st \in [Calls -> {"none", "open", "ready", "dispatching", "completed", "unknown",
                          "stopped"}]
    /\ at \in [Calls -> 0..Len(ctxs)] /\ victim \in [Calls -> Calls]

\* A tool call reaches the server only over a context whose Initialize and
\* Initialized were both completed by their own operations (context.rs,
\* Context::begin and complete), whatever was cancelled, dropped, expired or
\* replaced between.
CallsAfterHandshake ==
    \A x \in sent : x.kind = "request" /\ Method[x.subject] = "call" =>
        \A m \in Handshake : \E j \in Calls :
            Method[j] = m /\ at[j] = x.ctx /\ st[j] = "completed"

\* The context and the operation of a handshake advance together
\* (pipeline.rs, Guard::complete; context.rs, abandon): a context is in the
\* middle of a handshake only while a running call owns it, it has passed one
\* only if that call is reported completed, and a call that is not leaves no
\* half-open context.
HandshakePublished ==
    \A i \in 1..Cur :
        LET by(m) == {j \in Calls : Method[j] = m /\ at[j] = i}
            done(m) == \E j \in by(m) : st[j] = "completed"
        IN /\ ctxs[i].st = "initializing" =>
                 \E j \in by("initialize") : pc[j] \in InExchange /\ st[j] # "completed"
           /\ ctxs[i].st \in {"awaiting", "ready"} => done("initialize")
           /\ ctxs[i].st \notin Dead => (ctxs[i].st = "ready" <=> done("initialized"))

\* The server is told of a cancellation at most once, only of a request that
\* was sent to it over that context, never of a handshake, and never of one
\* that the agent sees completed (context.rs, cancel_serial; cancellation.rs,
\* where the status is read after the mark and before the token).
CancelledOnce ==
    \A x \in sent : x.kind = "cancel" =>
        /\ \A y \in sent : y.kind = "cancel" /\ y.subject = x.subject => y = x
        /\ \E y \in sent : y.kind = "request" /\ y.subject = x.subject /\ y.ctx = x.ctx
        /\ Method[x.subject] \notin Handshake
        /\ st[x.subject] = "unknown"

\* While a DELETE is under way its context is the last of the resource and
\* closed: no new conversation starts before the old one is settled.  Another
\* DELETE neither repeats it nor frees the resource (cleanup.rs, Closing).
CloseBarrier ==
    /\ \A k \in Calls : pc[k] = "cleaning" => at[k] = Cur /\ CtxOf(k).closing
    /\ \A i \in 1..Cur : ctxs[i].closing => ctxs[i].st = "closed"
    /\ \A x, y \in sent : x.kind = "delete" /\ y.kind = "delete" /\ x.ctx = y.ctx => x = y

\* When revoke has returned, no context is alive and none is created later
\* (lib.rs, revoke; remote_mcp.rs, commit_authority in prepare_remote).
RevokedContextsDead ==
    rv = "done" => \A i \in 1..Cur : ctxs[i].st \in Dead /\ ctxs[i].token

\* A revocation is never held up by a server that does not answer: revoke
\* returns, and every call and control child of the session ends (control.rs
\* and pipeline.rs, the tokens their selects watch).
RevokeDrains ==
    rv # "no" ~> rv = "done" /\ \A k \in Calls : ~Running(k) /\ child[k] = "none"
=============================================================================
