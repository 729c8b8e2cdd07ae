# Formal verification of agent-auth-proxy

TLA+ models of the parts of agent-auth-proxy whose correctness depends on the
order in which threads, tasks, timers and callers act; TLC runs that check
them on small instances; and theorems, checked by TLAPS, that hold for every
value of the constants. `PROJECT.json` maps every definition to the lines it
models, and lists runs, mutants, hazards, findings and theorems. Each module is
translated from the Rust source. Source paths below are relative to
`src/crates/`.

## 1. The system

The proxy holds credentials outside an agent and performs authorised requests
on its behalf. A daemon owns one *generation*: a configuration, a broker built
from it and the attachments (Unix sockets) of sessions and observers. Agents
reach a session through its socket; operators create and revoke sessions,
reload and stop the daemon through another; observers read redacted records
from a bounded recorder.

### Components, their state and operations

| Component | State | Operations | Model |
|---|---|---|---|
| Broker, sessions: `aap-engine/lib.rs` | closed flag, weak session map, per session: revoked flag, token, expiry, tracked operations, permits | create_session, revoke, close_admission, close, check, commit_authority, drop | `Pipeline`; the walks over streams, login contexts and MCP contexts in `Stream`, `Vault`, `RemoteMcp` |
| HTTP operations: `aap-engine/pipeline.rs`, `approval.rs` | operation status and token, the guard of a call, approval reservation | execute, track, dispatch, begin_dispatch, complete, fail, cancel | `Pipeline`, abstractly `Lifecycle` |
| TCP streams: `aap-engine/tcp` | status, cause, flow, socket, permits, watchdog | admit, reserve, approve, connect, install, poll, finish, abort | `Stream` |
| TCP relay: `aap-transport/tcp/relay.rs`, `aap-engine/tcp/observation.rs` | two copy buffers, deadlines, timer, outcome | poll, step, gate, close | `Relay` |
| Recorder: `aap-observe` | record table, a queue per consumer, totals, identities, subscriptions | record_batch_with, read, acknowledge, subscribe, close, set_available | `Recorder` |
| Daemon host: `aap-daemon/runtime` | generation, attachment maps, last reload, retirement job | create, revoke, status, reload, retire, shutdown | `Reload` |
| Credential store: `aap-store-sqlite` | connection, generation, file identity, native jobs, files on disk | lock, unlock, put, delete, metadata, resolve, revalidate, rotate_key, backup | `Store`; its lease check also in `Pipeline` |
| Vault and website login: `aap-engine/vault.rs`, `website.rs` | issuances, login contexts, attempts, cookies | get_login, prepare/revalidate binding, exchange, auth_status, logout | `Vault` |
| Remote MCP: `aap-engine/remote_mcp`, `aap-mcp-upstream` | contexts, pending requests, bindings | begin, response, complete, abandon, control, cancel, cleanup | `RemoteMcp` |
| Stream framing: `aap-http/stream`, `aap-client/stream`, `aap-types/stream` | frame sequence, partial frames, terminal | opening, frames both ways, terminal | `Framing` |
| Ingress, transport drivers, stdio bridge | connection and work permits, driver tasks, pending calls | accept, classify, join, cancel | not yet |
| Policy, providers, auth transforms, config, wire types | none | pure checks, byte transforms, file I/O | their verdicts are choices in the models |

### Interactions

- A session socket calls `execute`, `open_stream`, `cancel`, `status`; each call
  is a task that may be dropped at any await.
- Operators call revoke and reload on their own threads. Both reach sessions
  through flags and tokens, and operations through the per-session lock.
- The broker's tasks share with revoking threads: the admission lock
  (`host.sessions`), the operations lock of a session, the state lock of an
  operation, the session's and the operation's token.
- A reload hands the old broker and the old attachments to a detached job; the
  host, the job and the status request share the host mutex and a watch channel.
- A website exchange, an MCP exchange and a DELETE share the context they run
  over with every other call of the session; a context is checked again after
  each await, and killed by logout, expiry, revocation or a changed item.
- Every store call becomes a native job on the blocking pool, which outlives its
  caller and holds the one connection.
- The agent's and the daemon's ends of a framed stream each run an automaton
  over the frames they see, one socket apart.
- HTTP exchanges and relays write to the recorder through a flow; a required
  record that cannot be stored fails the operation.

### What is hard, and what correct means

| Part | Hard behaviour | Correct means |
|---|---|---|
| Pipeline | revocation races the commitment of a dispatch; retries of a request_id; dropped futures; store changes around an approval | one handoff per operation, a status that never denies it, no commitment without authority, permits conserved, revoked work converges |
| Stream | five actors may end a stream; `finish` sets the token before it has the lock; nobody may be polling | the dial is reported truthfully, every end releases everything, deadlines act without the owner |
| Relay | partial writes, half-close at the exact limit, gate refusals, time passing inside I/O | nothing unobserved is forwarded, limits exact, an orderly end means drained, one busy direction does not shield a stuck one |
| Recorder | claims of many consumers on one record; eviction; refusal after counters moved; lost replies; restart | no silent loss, required records stay, budgets and totals exact, back-pressure clears |
| Reload | prepared reload against shutdown; status against job updates; hung close or tasks; operator gone | no authority outlives its attachment, one retirement at a time, honest and monotone reports, every reload answered |
| Remote MCP | handshake, calls, pings, cancellations and DELETE of one context interleave; each may be dropped, expire or be revoked between two locks | contexts and operations tell the same story, the server hears of a cancellation once, no call before its handshake, a closing generation keeps the next one out |
| Vault | a context is logged out, revoked, expired or superseded in the store while an exchange holds its cookies | a dead context holds nothing and is given nothing back, the status follows the cookies, a stale lease is never sent |
| Store | rotation takes several fallible steps on the only file; the process may die in any; restored files hold old versions | nothing committed is lost, no retired lease is accepted again, a half-rotated file is not served |
| Framing | frames are cut anywhere; the terminal may overtake the bookkeeping of the END that caused it; both ends block on a full socket | neither end accuses the other, bytes in order, Completed means all of it, every stream ends |

The hazards behind these rows are listed, each at its line, in `PROJECT.json`.

## 2. Modules

```
Lifecycle <--refined by-- Pipeline -.(lease)..- Store     - StoreProofs
                             |       \.........- Vault     - VaultProofs
                      PipelineProofs  \........- RemoteMcp - RemoteMcpProofs

Framing ..(the engine).. Stream ..(a poll).. Relay
   |                       |                   |
   |                  StreamProofs             |
   +------------- BytePathProofs --------------+

Recorder - RecorderProofs                    Reload - ReloadProofs
```

Solid lines are EXTENDS or INSTANCE; `BytePathProofs` extends both of its modules,
which is why the specification of `Relay` is called `RelaySpec`. Dotted ones are
shared interfaces: what one module models in full, the other takes as the choice
the first one allows.

`MC*.tla` give the small instances. Suffixed definitions such as
`MayPublish_NoRecheck` stand before the definition they are variants of; each
is a plausible bug that the mutation check puts in its place to see that the
property finds it. They are used nowhere else.

### Lifecycle

The promise of the broker about one operation, without locks, tokens or tasks:
authority is granted once and ended once; an operation is admitted, and refused
without effect or committed under authority; only a committed one is handed
over, once; it completes under authority or its outcome is unknown.

### Pipeline

One variable per field (`revoked`, `token`, `st`, `opTok`, `dispatched`,
`active`, ...), a program counter per call (`pc`) and per operator thread
(`tpc`). A call's steps are those of `execute_inner` and `dispatch`: `Execute`,
`Track`, `Open`, `Validate`, `ResolveName`, `Metadata`, `Gate`/`Approved`,
`Acquire`, `Revalidate`, `Resolve`, `Recheck`, `MakeReady`, `BeginDispatch`,
`Send`, `Respond`, `CompleteCheck`, `CompleteCommit`, with `SelectCancelled`,
`GiveUp`, `Abandon`, `GuardDrop` and `Fail` as ways out. An operator's are
`RevokeCall` ... `RevokeReturn` and `CloseStart` ... `CloseReturn`. What the
code does under the admission lock is one step. The operations lock and, for
`complete`, the state lock are held across steps, because the code holds them
across others' steps.

Abstractions: checks that read only immutable data are merged with the next
step and may fail (`Deny`, `Fallible`); the bytes of an operation are one unit;
a lease is a number that the store changes. Revoke's walk over `items` is here,
over `streams` in `Stream`.

### Stream

The owner of an attachment (`pc`), the watchdog (`watch`), calls of `finish`
between their token and their lock (`fin`), a revoking thread per session, the
agent's cancel and the host's abort. `socket`, `capacity`, `attached` say who
owns what. A poll of the relay forwards a unit or ends for some cause; what
happens inside is `Relay`. The four permits of a connection are taken one after
the other without an await and given back together on failure, so they are one
step. `Actors` chooses the outside actors of an instance.

### Relay

Each direction of `Duplex` with its counters; a poll is a loop of steps, each
of which checks, does one I/O call and decides afterwards, and the clock or the
token may change inside the call. The gate (`observation.rs`) is asked before a
chunk is written and may refuse with any cause, also `OrderlyEnd`. Bytes are
counted; redaction is not modelled.

### Recorder

`Record` is the whole of `Flow::record_batch_with` and
`Recorder::record_batch_with`: numbering, selection per subscriber, planning of
local and global evictions, refusal, the caller's commit and its undo. `Read`,
`Acknowledge`, `Subscribe`, `CloseAdmission`, `Close`, `SetAvailable` and
`Restart` are the others. A queue of increasing identities is the set of its
(delivery, source) pairs. A page is any nonempty prefix the byte limit may
allow; a consumer follows its own cursor, and a reply may be lost. Timestamps,
serialization and exhaustion of the 64-bit identities are left out.

### Reload

A section under the host mutex is one action; `StatusRead`/`StatusReply` are
two because the handler reads the job's progress and then the clock while the
job runs. `Begin` ... `Answer` are `Control::reload` with its awaits, at which
the operator may disconnect. `CloseRetired` ... `Finish` are the job, with
`Update`/`Mirror` the two halves of `Reporter::update`. `Terminate`,
`CloseActive`, `WaitRetirement` are the end of `serve`.

Abstractions: a revision names the broker and the job it brings; a refused
request is a stuttering step; taking the gate is merged with the first locked
section; session and attachment share one expiry; tasks of dropped attachments
are aborted and no longer followed; a panic of the job, and poisoned locks, are
left out; the model stops when `serve` returns.

### RemoteMcp

The contexts of one session and one resource (`ctxs`, the last one current), and
the calls of the agent with their operation state, token and program counter. An
exchange goes through preparation, `begin`, the transport, the response and
`complete`, or leaves by `GiveUp`; a cancellation, by an MCP message or by the
local cancel call, reads its victim's status, cancels it and dispatches a control
child; a DELETE closes a context and waits for its exchanges; pings of the server
are answered by control children too. One action is what happens between two
awaits or lock releases. Denied, Failed and Cancelled are one state here,
`stopped`; `Pipeline` tells them apart. JSON, SSE and headers are the decoder's
verdict. Bounds of the model: `MaxRunning` calls at once, `Pings` calls whose
answer holds a ping, `MaxSerial`.

### Store

The file by inode, the name in the directory, the one connection, and jobs: a job
takes a permit, then the mutex, checks the file's identity and does its work; its
caller may leave at any time. A version is the next fresh number. `rotate_key`
is step by step: detach the connection, export a copy under the recovery key,
synchronise it, rekey, verify and attach again; any step may fail and the process may die between two
steps or within the rekey, which leaves a file no key opens. `Restore` puts a copy
in place of the vault. It is offline maintenance, so no job holds the state then.
One SQLCipher statement is external.

### Vault

Website logins of one session and one item: issuances under request ids, the
binding each prepares and publishes, page, login and fetch exchanges, auth_status,
logout, revocation, and a store that rotates or locks the item. Cookies are there
or not; a jar stands for the cookies of a login that succeeded, and what a server
does to them later is not modelled. Attempt windows count; their ten minutes do
not pass within a behaviour. Bounds of the model: `MaxLease`, `MaxRunning`.

### Framing

One stream from the agent's application to the engine. The wire carries pieces
(part of a header, the piece completing it, pieces of payload), so every partial
frame occurs. Both ends keep `Sequence` and a decoder; `cl` is the agent's
attachment, `sv` the daemon's, `eng` the engine's side, whose upstream echoes and
ends as it likes. `C_Stop` and `S_Deadline` stand for whatever ends a side from
outside, deadlines included. PENDING, which the daemon never writes, is left out.

## 3. Runs

Constants are the smallest in which each race has all its participants; the
proofs remove the bounds where there is a theorem (section 5).

| Run | Instance | Shows |
|---|---|---|
| `pipeline_retry` | one operation that needs approval, two calls with its request_id, an operator thread, agent cancel, three states of the credential | `ImplementsLifecycle`, `RevokeSettles`, `CloseReachesAll`, `CredentialAsApproved`, `PermitsConserved`, and `RevocationConverges`: every operation of a revoked session ends |
| `stream_race` | one approved stream, all five outside actors, retries | what an end may claim (`DialReported`, `OutcomeCoherent`, `RevokeEndsStreams`); `DeadlineReaps`, `PermitsReturn` |
| `stream_order` | one stream, retirement | a violation, see section 6 |
| `relay_duplex` | limits 3 and 1, chunks of 2, two rounds, three instants | observation first, meaning of an orderly end, I/O only in time, deadlines |
| `recorder_delivery` | a required and a best-effort flow, owner and a subscriber, table of three records, outages, a restart | `RequiredKept`, `NoSilentLoss`, `IdentitiesDense` |
| `reload_host` | a session, an observer over it, one caller, two revisions | `DetachedPowerless`, `LiveWorkOwned`, `ReportHonest`, `ReloadAnswered` |
| `reload_flag` | one caller, two revisions | a violation, see section 6 |
| `remote_cancel` | initialize, initialized, a call, a cancellation message, a local cancel; one context, three in flight, expiry, revocation | `HandshakePublished`, `CancelledOnce`, `RevokedContextsDead`, `RevokeDrains` |
| `remote_close` | two initializes, initialized, a call, two DELETEs; two contexts, the item replaced or locked | `CallsAfterHandshake`, `CloseBarrier` |
| `store_rotation` | any four of nine jobs, two permits, keys for the vault, the rotation and the recovery copy, crash, restore | `RetiredLeasesRefused`, `NothingLost`, `GenerationPerKey` |
| `vault_login` | two issuances, page, login, fetch, auth_status, logout, two in flight; two leases; one login per session and two per host | `DeadContextsEmpty`, `StatusFollowsJar`, `RevokeReachesAll`, `StaleLeaseNeverSent`, `IssuancesEnd` |
| `framing_stream` | 0, 3 or 4 bytes against limits of 3, frames of at most 2, a socket of two pieces, a backlog of one | `NoFalseAlarm`, `BytesInOrder`, `CompletedMeansAll`, `StreamEnds` |

Why the bounds are enough. Two calls of one request_id, or a call and a thread,
are the smallest number that compete; a third meets the same lock, permit or
gate, and the proofs cover any number. A
retirement needs two revisions. A relay limit of three with chunks of two has a
full, a partial and an exact last chunk; a limit of one is exhausted by its first
byte. Three table entries with updates of one or two records reach eviction for a
subscriber, for the whole table and refusal. A cancellation has a requester, a
victim and a control child; a superseded MCP context needs a second one. Four
store calls are a write, what replaces its lease, what brings the store back and
the use of the old lease. An application that sends nothing, exactly the limit or
one byte more meets all three ends of a direction, and a socket of two pieces
cannot hold a frame. Where a bound cuts off behaviour (`MaxLease`, `MaxUnits`,
`MaxTime`, `MaxIds`, `MaxEpoch`, `MaxRevision`, `MaxRunning`, `MaxCalls`,
`MaxFresh`) it is a guard of one action. The symmetries of `remote_close` and
`store_rotation` exchange calls with the same arguments that no property names,
in runs without temporal properties. Deadlock is not checked: sessions, calls,
streams, identities and revisions are finite in a model, and the system may rest
when nobody calls it.

### Fairness

Nothing is assumed of resolvers, stores, approvers, peers, readers, operators,
listener tasks or `Broker::close` on the blocking pool. Assumed are only:

- `Pipeline`: a thread inside revoke or close goes on; a task is polled again
  when one of the tokens it selects on is set, and goes on where it needs nobody.
- `Stream`: a revoking thread, a pending `finish` and the watchdog go on;
  for `PermitsReturn` the owner polls its future once it is woken.
- `Relay`: a relay that is awake, or whose timer is due, is polled.
- `Reload`: timers fire, the job is polled, threads inside a call go on, and one
  that waits for the host mutex gets it (strong fairness of `Mirror` and
  `WaitRetirement`, since others take the mutex again and again).

- `RemoteMcp`: a task whose session's, operation's or context's token is set is
  polled; a cancellation goes on to its victim; a revoking thread goes on.
  Nothing of the server, the store, the agent or of time.
- `Vault`: the task of an issuance is polled again when it can go on; each of its
  awaits has a time limit. Nothing of exchanges, the store or revoke.
- `Framing`: both ends poll both directions in turn, the application and the
  upstream read, and the engine aborts a stream whose attachment failed.

Tokio's scheduler and the operating system's threads provide these: a woken task
is polled, a due timer wakes its task, and no lock here is held across an await.

## 4. Mutation

Each property of each passing run has one or more mutants of mapped definitions
that it finds under the run's own configuration: a dropped recheck, an off-by-one
in a permit, a state overwritten, a claim not removed, a lock not taken, a copy
not synchronised, a token not waited for. They show that the properties depend on
the code, not on the shape of the model.

## 5. Proofs

All theorems hold for any sets of sessions, operations, calls, streams, jobs,
attachments and consumers and any limits that satisfy the named assumptions of the
modules (`ConstantsAssumption`, `StreamAssumption`, `RelayAssumption`,
`RecorderAssumption`, `ReloadAssumption`, `RemoteAssumption`, `StoreAssumption`,
`VaultAssumption`, `FramingAssumption`: types, positivity, finiteness), which TLC
also evaluates.

**PipelineProofs**: `TypeCorrect`, `HandedOverOnce`, `StatusTruthful`,
`TerminalStaysTerminal`, `EffectsAuthorised`, `RevocationSettles`,
`CloseIsComplete`, `ApprovedCredentialSent`, `PermitsExact`,
`PipelineImplementsLifecycle`. `AtMostOnce` alone is not inductive: it needs that
an operation belongs to one call (`Ownership`), that the guard's flag and the
shared state agree (`Agreement`), and that the transport is reached from a
committed operation (`Handoff`). `RevokeSettles` needs `Walk`: a walking thread
has retired the session first, and every operation that is still `Dispatching`
is still before it. This works because a dispatch commits under authority.
`CloseReachesAll` needs `Closing`: a session is before, in the hand of or behind
the closing thread, because creation looks at `closed` again when it publishes.
`CredentialAsApproved` needs `Approval`: a lease is current during one interval
only, so one that still matches after the approval was current when it was
granted. `PermitsConserved` needs `Budget`: a permit is held only between the
steps that take and return it, a running call keeps its session referenced, and
a session's own count is what its destructor gives back to the host. For the
refinement, every step changes the abstract authority or the phase of one
operation, never both.

**StreamProofs**: `TypeCorrect`, `DialsReported`, `RevocationEndsStreams`,
`OutcomesCohere`, `SlotsStayExact`. Each stream is `Sound`: an untracked one has
nothing (`Fresh`), the task's place fits the state (`Placed`), socket and permits
have one owner, the task before the installation and the state after it (`Kept`),
and the end is one story (`Story`, `Ending`). `Walk` says of a revoking thread
that what it has passed has ended or is ending by its own `finish`, the token of
which is set before the lock is had. `Exact` counts the pools. Every step of a
stream has an `Effect` on that stream alone, so the pools move by what this one
stream took or gave back.

**VaultProofs**: `TypeCorrect`, `DeadHoldNothing`, `StatusIsTrue`,
`RevokeComplete`, `StaleNeverSent`, `IssuedOnce`, `ExchangesExclude`,
`DeadStaysDead`. The argument follows the cookies. An exchange and the permit of
its context name each other (`Permit`), so one call at most has taken them, and
what it will give back fits the status it will write (`Carried`). Issuances are
tracked one per request (`Tracking`), which makes a revocation that walks over
them complete (`Passed`); leases only grow (`Leases`).

**StoreProofs**: `TypeCorrect`, `RetiredStayRetired`, `RetiredRefused`,
`CommittedSurvives`, `OneKeyPerGeneration`. The mutex makes its holder the only
job that has detached the connection (`Mutex`, `Connected`). Versions and
generations are drawn once (`Drawn`), so a retired lease of an older generation
never matches again and one of this generation names a version that is gone
(`Gone`). The file holds what was committed, and no rekey begins before a
synchronised copy holds the same (`Stages`, `Keys`, `Saved`).

**RemoteMcpProofs**: `TypeCorrect`, `HandshakesPublished`, `CallsFollowHandshake`,
`ToldOnce`, `BarrierHolds`, `RevokedStayDead`. A pending exchange belongs to a
running call of that context (`Linked`), a live context waits for at most one part
of its handshake (`Sound`), and the phase is backed by a completed operation
(`Shaken`). An exchange whose cancellation mark was won is doomed: it cannot
complete any more, so the request the server is told of is never one that the
agent sees completed (`Claimed`, `Told_once`). `Deletes` gives the DELETE of a
context to the one call that found it native.

**BytePathProofs**, Framing: `FlowAlways`, `FramingTypes`, `NoPeerAccused`,
`DeliveredInOrder`, `CompletedIsComplete`. None of the three properties is
inductive, since each depends on pieces that were written long before they are
decoded. What a reader knows of a direction is its `Cursor`: its half of the
`Sequence`, the frame under way in the decoder, and the terminal. `Step` is what
one piece may legally do to a cursor, and a `Chain` is a sequence of pieces each
of which takes such a step. `Flow` says of each direction that the socket's pieces
are a chain from the reader's cursor to some middle one, and the writer's
remaining output a chain from there to the cursor of what the writer has
committed. A read takes the first step of the first chain, a write moves a step
from the second to the first, and a new frame extends the second; that it is a
legal extension is what `check_header` of the writer's own `Sequence` decided. A
reader therefore never sees a piece it must refuse. `AgentBooks` and
`DaemonBooks` say that counted, queued and delivered bytes are consecutive runs
of the same numbers, `Reports` what the engine's terminal claims of its side, and
`Verdicts` that the agent's result is completed only when that terminal is.
`Opens` is the opening: what neither side has begun before the upgrade and OPENED.

**BytePathProofs**, Relay: `RelayTypes`, `WithinLimits`, `ObservedBeforeForwarded`,
`OrderlyIsDrained`, `OutcomeIsFinal`, `SocketsOnlyInTime`. The invariant has five parts: the books
of a direction (what is admitted is forwarded or in the buffer), where in a step
a buffer may be full, what the gate has seen, how far an end has come, and which
instants are behind the deadlines.

**RecorderProofs**: `ClaimsAgree`, `RequiredStays`, `LossIsReported`,
`IdentitiesStayDense`. Table and queues agree because identities in use lie below
the counters (`Spent`) and a queue names a source once (`SingleEntry`). Sums of
sizes stay opaque: only that an eviction never picks a required record matters
here. Identities are dense because each counter is the size of a set of places in
the log (`Sequenced`, `OwnerNumbered`, `Ranked`): an update extends the log, and
the set grows by as many places as the update has events of that stream, or in
that scope. A free slot has used no identity and enrols at the log's end.

**ReloadProofs**: `AuthorityEndsWithAttachment`, `MapsAreCurrent`,
`ShutdownStaysFinal`, `OneLiveRetirement`, `ShutdownReportsHonestly`,
`ReportsAreHonest`, `ReportsOnlyAdvance`. `Authority` carries that the maps are
current, because revoke and prune call the installed broker, which refuses
sessions of another. `Ownership` carries that the gate's holder has emptied the
retirement slot and that a job is complete exactly when it has joined
everything. `Sound` says of a job that its count is exact and that every task it
does not count has ended; `Reported` that whatever was reported, or read to be
reported, its job has since only gone on, and that a job found incomplete cannot
end while the mutex is held.

Only model-checked: all liveness (`RevocationConverges`, `DeadlineReaps`,
`PermitsReturn`, `EndsAtDeadline`, `ReloadAnswered`, `RevokeDrains`,
`IssuancesEnd`, `StreamEnds`), which is beyond this prover. Every safety property
that a passing run checks is also a theorem.

Only proved, and in no run, because the theorem says more than an instance would:
`HandedOverOnce`, `StatusTruthful` and `EffectsAuthorised` of `Pipeline` (the
refinement that `pipeline_retry` checks contains them), `TerminalStaysTerminal`;
`WithinLimits` and `OutcomeIsFinal` of `Relay`; `ClaimsAgree` of `Recorder`;
`MapsAreCurrent`, `ShutdownStaysFinal`, `ShutdownReportsHonestly` and
`ReportsOnlyAdvance` of `Reload`; `IssuedOnce`, `ExchangesExclude` and
`DeadStaysDead` of `Vault`; `RetiredStayRetired` of `Store`; `SlotsStayExact` of
`Stream`; and the types, which
are parts of the inductive invariants.

## 6. Findings

- `stream_order`: a TCP stream may be published as `Completed` after its session
  was retired. `TcpRelay::poll` looks at the session before it takes the state
  lock and the end is published without another look, while `plan/lifecycle.md`
  asks for one ordering point of completion and revocation.
- `reload_flag`: `docs/daemon.md` says the deadline flag of a reload remains true
  once it is reported. A status request that read the progress just before its
  completion and the clock just after the deadline reports it; the completing
  update, which looked at the clock before the deadline, then removes it.

Both windows are a few instructions long; neither loses or grants authority.

## 7. Not modelled

Byte transforms (redaction, placeholder substitution, cookie parsing, JSON, SSE,
TLS, HTTP parsing), file and socket checks of `aap-config`, certificate
identities, start-up and demo code: data handling or I/O without an order of steps
to check. The policy's, the providers' and the decoders' verdicts are choices of
the models. The opaque cursors of the vault's search are a read-only listing.
Durability of one SQLCipher statement and scheduling inside Tokio are external.

Not yet modelled, though they have an order of steps: the permits of the session
ingress (`aap-http`), the ownership of upstream driver tasks (`aap-transport`),
the pending calls of the stdio bridge (`aap-mcp`), and the stream slots of the
engine's exchange observation. Clocks other than the relay's are single events
(`Expire`, a deadline), and the ten-minute windows of login attempts do not pass.

## 8. Plan

Done: Pipeline with Lifecycle, Stream, Relay, Recorder, Reload, RemoteMcp, Store,
Vault, Framing; proofs of every safety property the passing runs check.
Next, in this order:

1. `Ingress`, `Drivers`, `Bridge`: work permits with exempt control requests,
   join ownership of upstream drivers, pending calls of the stdio loop.
2. Stream slots of the engine's exchange observation over Recorder; address
   classification of the policy as operators against a reference definition.
