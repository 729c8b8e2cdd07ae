------------------------------- MODULE Vault --------------------------------
(***************************************************************************)
(* Website logins of one session and one item (aap-engine/vault.rs and     *)
(* website.rs): issuance of a context, the exchanges that log in and use   *)
(* its cookies, auth_status, logout, revocation, and the store that may    *)
(* rotate or lock the item under all of them.                              *)
(*                                                                         *)
(* A call is one request of the agent, and what it does between two points *)
(* where it awaits or gives a lock back is one action.  Where two awaits   *)
(* follow each other and only the later one's check can still matter, they *)
(* are one action at the time of the later check: leases never come back,  *)
(* and a cancelled context stays cancelled.  The store is what its lease   *)
(* says, module Store has the rest.                                        *)
(***************************************************************************)
EXTENDS Integers, FiniteSets

CONSTANTS
    Calls,        \* requests of the agent
    Kind,         \* what a call asks for
    On,           \* the issuance a call makes, or whose context it names
    MaxContexts,  \* 16 contexts of a session
    HostContexts, \* contexts of all sessions
    MaxTries,     \* 5 logins of a session and an item in ten minutes
    HostTries,    \* 20 logins of all sessions and an item in ten minutes
    MaxLease,     \* bound of the model: leases of the item
    MaxRunning,   \* bound of the model: calls in flight at once
    Actors        \* outside events of an instance

Kinds  == {"issue", "page", "login", "fetch", "status", "logout"}
NoCall == "none"

ASSUME VaultAssumption ==
    /\ NoCall \notin Calls
    /\ Kind \in [Calls -> Kinds]
    /\ DOMAIN On = Calls
    /\ {MaxContexts, HostContexts, MaxTries, HostTries, MaxLease, MaxRunning} \subseteq Nat
    /\ Actors \subseteq {"revoke", "expire", "rotate", "lock", "cancel", "others"}

VARIABLES
    ctx,    \* the binding that an issuing call has prepared or published; its
            \* jar stands for the cookies of a login that succeeded
    track,  \* Operations.issuances: the call that issues for a request id
    iss,    \* the state of the Issuance of an issuing call
    busy,   \* Binding.exchange: the call that holds the permit of a context
    lease,  \* the lease the store holds for the item
    locked, \* the store is locked or out of reach
    tries,  \* Vault.attempts of the item
    host,   \* Host.login_attempts of the item
    rv,     \* how far Broker::revoke has come
    pc,     \* where the task of a call stands
    stop,   \* Operation.cancelled of a website call
    at,     \* the context of a call
    prev,   \* Exchange.final_state
    pend,   \* the jar and CSRF token that an exchange has taken
    stale   \* the context's lease was no longer current when the call began

callVars == <<pc, stop, at, prev, pend, stale>>
vars == <<ctx, track, iss, busy, lease, locked, tries, host, rv, callVars>>

Becomes(f, k, v) == [f EXCEPT ![k] = v]

Requests == {On[k] : k \in Calls}
Issuers  == {k \in Calls : Kind[k] = "issue"}
Web      == {"page", "login", "fetch"}
NoPend   == [jar |-> FALSE, csrf |-> FALSE]
NoBinding ==
    [pub |-> FALSE, dead |-> FALSE, old |-> FALSE, status |-> "unauthenticated",
     values |-> FALSE, jar |-> FALSE, csrf |-> FALSE, lease |-> 0]

Statuses == {"unauthenticated", "authenticating", "authenticated", "expired", "revoked"}

-----------------------------------------------------------------------------
(* Binding.                                                                *)

Published == {c \in Issuers : ctx[c].pub}

\* Binding::invalidate, under the state lock of the context.
invalidate(b, s) ==
    [b EXCEPT !.dead = TRUE, !.status = s, !.values = FALSE, !.jar = FALSE, !.csrf = FALSE]

\* Binding::check with what it leaves behind.
Alive(b)   == ~b.dead /\ ~b.old
checked(b) == IF b.old /\ b.status # "revoked" THEN invalidate(b, "expired") ELSE b

InvalidateAll_Idle ==
    [c \in Issuers |-> IF ctx[c].pub /\ busy[c] = NoCall THEN invalidate(ctx[c], "revoked")
                       ELSE ctx[c]]

\* invalidate_item and revoke: every published context, under the vault lock.
InvalidateAll == [c \in Issuers |-> IF ctx[c].pub THEN invalidate(ctx[c], "revoked") ELSE ctx[c]]

\* Session::check, and commit_authority, which holds it with the commit.
Check == rv = "no"

-----------------------------------------------------------------------------
(* revalidate_binding, at the time of the store's answer.                  *)

Revalidates_Locked(c) == Check /\ Alive(ctx[c]) /\ ~locked

Revalidates(c) == Check /\ Alive(ctx[c]) /\ ~locked /\ lease = ctx[c].lease

\* What a revalidation that fails has done to the contexts.
Refusal(c) ==
    IF Check /\ Alive(ctx[c]) THEN InvalidateAll ELSE Becomes(ctx, c, checked(ctx[c]))

-----------------------------------------------------------------------------
(* get_login.                                                              *)

Idle(k) ==
    /\ pc[k] = "idle"
    /\ Cardinality({j \in Calls : pc[j] \notin {"idle", "done"}}) < MaxRunning

End(k) == pc' = Becomes(pc, k, "done") /\ at' = Becomes(at, k, NoCall)

\* The tracked issuance decides, under the operations lock, whether this
\* call is the one that issues.
Fresh(r) == track[r] = NoCall

\* The context that an issuance has led to.
Issued(r) == IF track[r] # NoCall /\ iss[track[r]] = "completed" THEN track[r] ELSE NoCall

get_login(k) ==
    LET r == On[k]
    IN /\ Kind[k] = "issue" /\ Idle(k) /\ Check
       /\ IF Fresh(r)
            THEN /\ track' = Becomes(track, r, k)
                 /\ iss' = Becomes(iss, k, "received")
                 /\ pc' = Becomes(pc, k, "metadata")
                 /\ UNCHANGED at
            ELSE /\ IF Issued(r) = NoCall
                      THEN End(k)
                      ELSE pc' = Becomes(pc, k, "bound") /\ at' = Becomes(at, k, Issued(r))
                 /\ UNCHANGED <<track, iss>>
       /\ UNCHANGED <<ctx, busy, lease, locked, tries, host, rv, stop, prev, pend, stale>>

\* prepare_binding: a host permit, and the lease in the store's metadata.
Permits == HostContexts - Cardinality({c \in Issuers : ctx[c] # NoBinding})

Metadata(k) ==
    /\ pc[k] = "metadata" /\ ~locked /\ Permits > 0
    /\ ctx' = Becomes(ctx, k, [NoBinding EXCEPT !.values = TRUE, !.lease = lease])
    /\ pc' = Becomes(pc, k, "confirm")
    /\ UNCHANGED <<track, iss, busy, lease, locked, tries, host, rv, stop, at, prev, pend, stale>>

Confirm(k) ==
    /\ pc[k] = "confirm" /\ ~locked /\ lease = ctx[k].lease /\ Check
    /\ pc' = Becomes(pc, k, "publish")
    /\ UNCHANGED <<ctx, track, iss, busy, lease, locked, tries, host, rv, stop, at, prev, pend, stale>>

\* Under the issuance's lock, the vault's and the admission lock.
MayPublish(k) ==
    /\ iss[k] = "received" /\ ~ctx[k].old
    /\ Cardinality(Published) < MaxContexts
    /\ Check

Publish(k) ==
    /\ pc[k] = "publish" /\ MayPublish(k)
    /\ ctx' = [ctx EXCEPT ![k].pub = TRUE]
    /\ iss' = Becomes(iss, k, "completed")
    /\ pc' = Becomes(pc, k, "bound")
    /\ at' = Becomes(at, k, k)
    /\ UNCHANGED <<track, busy, lease, locked, tries, host, rv, stop, prev, pend, stale>>

IssueFails_Dropped(k) ==
    /\ pc[k] \in {"metadata", "confirm", "publish"}
    /\ ctx' = Becomes(ctx, k, NoBinding)
    /\ End(k)
    /\ UNCHANGED <<track, iss, busy, lease, locked, tries, host, rv, stop, prev, pend, stale>>

\* Issuance::cancel, and the verdict of an issuance that failed.
Stopped(i) == IF i = "received" THEN "stopped" ELSE i

\* A refusal, a limit, the store, the ten seconds, a cancellation or the
\* caller's departure.
IssueFails(k) ==
    /\ \/ pc[k] \in {"metadata", "confirm"}
       \/ pc[k] = "publish" /\ ~MayPublish(k)
    /\ iss' = Becomes(iss, k, Stopped(iss[k]))
    /\ ctx' = Becomes(ctx, k, NoBinding)
    /\ End(k)
    /\ UNCHANGED <<track, busy, lease, locked, tries, host, rv, stop, prev, pend, stale>>

\* The published binding is revalidated before its placeholders go out.
LoginResult(k) ==
    /\ pc[k] = "bound"
    /\ ctx' = IF Revalidates(at[k]) THEN ctx ELSE Refusal(at[k])
    /\ End(k)
    /\ UNCHANGED <<track, iss, busy, lease, locked, tries, host, rv, stop, prev, pend, stale>>

-----------------------------------------------------------------------------
(* auth_status and logout.                                                 *)

Named(k) == Issued(On[k])

auth_status(k) ==
    /\ Kind[k] = "status" /\ Idle(k) /\ Check /\ Named(k) # NoCall
    /\ ctx' = IF Revalidates(Named(k)) THEN ctx ELSE Refusal(Named(k))
    /\ End(k)
    /\ UNCHANGED <<track, iss, busy, lease, locked, tries, host, rv, stop, prev, pend, stale>>

logout(k) ==
    /\ Kind[k] = "logout" /\ Idle(k) /\ Check /\ Named(k) # NoCall
    /\ ctx' = Becomes(ctx, Named(k), invalidate(ctx[Named(k)], "revoked"))
    /\ End(k)
    /\ UNCHANGED <<track, iss, busy, lease, locked, tries, host, rv, stop, prev, pend, stale>>

-----------------------------------------------------------------------------
(* dispatch_website.                                                       *)

\* Binding.exchange has one permit.
Free(c) == busy[c] = NoCall

\* What the state of the context must hold for the kind of request.
Parses(b, kind) ==
    CASE kind = "page"  -> TRUE
      [] kind = "login" -> b.values /\ b.csrf
      [] kind = "fetch" -> b.status = "authenticated"

dispatch_website(k) ==
    LET c == Named(k)
    IN /\ Kind[k] \in Web /\ Idle(k) /\ Check /\ c # NoCall
       /\ Alive(ctx[c]) /\ Free(c) /\ Parses(ctx[c], Kind[k])
       /\ busy' = Becomes(busy, c, k)
       /\ at' = Becomes(at, k, c)
       /\ prev' = Becomes(prev, k, ctx[c].status)
       /\ stale' = Becomes(stale, k, lease # ctx[c].lease)
       /\ pc' = Becomes(pc, k, IF Kind[k] = "login" THEN "mark" ELSE "admitted")
       /\ UNCHANGED <<ctx, track, iss, lease, locked, tries, host, rv, stop, pend>>

\* The status of a login is written without another look at the context.
MarkAuthenticating(k) ==
    /\ pc[k] = "mark"
    /\ ctx' = [ctx EXCEPT ![at[k]].status = "authenticating"]
    /\ pc' = Becomes(pc, k, "admitted")
    /\ UNCHANGED <<track, iss, busy, lease, locked, tries, host, rv, stop, at, prev, pend, stale>>

\* website_exchange: addresses, approval and two revalidations; then, under
\* the state lock, the private state moves from the context to the exchange.
TakeState(k) ==
    /\ pc[k] = "admitted" /\ Revalidates(at[k])
    /\ pend' = Becomes(pend, k, [jar |-> ctx[at[k]].jar, csrf |-> ctx[at[k]].csrf])
    /\ ctx' = [ctx EXCEPT ![at[k]].jar = FALSE, ![at[k]].csrf = FALSE]
    /\ pc' = Becomes(pc, k, IF Kind[k] = "login" THEN "resolve" ELSE "seal")
    /\ UNCHANGED <<track, iss, busy, lease, locked, tries, host, rv, stop, at, prev, stale>>

\* login_attempt counts the try against both limits before the store is
\* asked for the credential; resolve answers only for the binding's lease.
login_attempt(k) ==
    /\ pc[k] = "resolve"
    /\ tries < MaxTries /\ host < HostTries
    /\ tries' = tries + 1 /\ host' = host + 1
    /\ pc' = Becomes(pc, k, "credential")
    /\ UNCHANGED <<ctx, track, iss, busy, lease, locked, rv, stop, at, prev, pend, stale>>

ResolveCredential(k) ==
    /\ pc[k] = "credential" /\ Check /\ ~locked /\ lease = ctx[at[k]].lease
    /\ pc' = Becomes(pc, k, "seal")
    /\ UNCHANGED <<ctx, track, iss, busy, lease, locked, tries, host, rv, stop, at, prev, pend, stale>>

\* Placeholders still there, the request recorded, and the last revalidation.
Seal(k) ==
    /\ pc[k] = "seal" /\ ctx[at[k]].values /\ Revalidates(at[k])
    /\ pc' = Becomes(pc, k, "ready")
    /\ UNCHANGED <<ctx, track, iss, busy, lease, locked, tries, host, rv, stop, at, prev, pend, stale>>

\* begin_dispatch: the request goes to the transport.
begin_dispatch(k) ==
    /\ pc[k] = "ready" /\ Check /\ ~stop[k]
    /\ pc' = Becomes(pc, k, "waiting")
    /\ UNCHANGED <<ctx, track, iss, busy, lease, locked, tries, host, rv, stop, at, prev, pend, stale>>

\* What the response makes of the private state and of the final status.
Captured_Kept(k, ok) ==
    CASE Kind[k] = "page" /\ ok -> [jar |-> pend[k].jar, csrf |-> TRUE, final |-> prev[k]]
      [] Kind[k] = "login" /\ ok -> [jar |-> TRUE, csrf |-> pend[k].csrf, final |-> "authenticated"]
      [] Kind[k] = "fetch" /\ ok -> [jar |-> pend[k].jar, csrf |-> pend[k].csrf, final |-> prev[k]]
      [] OTHER -> [jar |-> FALSE, csrf |-> FALSE, final |-> prev[k]]

Captured(k, ok) ==
    CASE Kind[k] = "page" /\ ok -> [jar |-> pend[k].jar, csrf |-> TRUE, final |-> prev[k]]
      [] Kind[k] = "login" /\ ok -> [jar |-> TRUE, csrf |-> pend[k].csrf, final |-> "authenticated"]
      [] Kind[k] = "fetch" /\ ok -> [jar |-> pend[k].jar, csrf |-> pend[k].csrf, final |-> prev[k]]
      [] OTHER -> [jar |-> FALSE, csrf |-> FALSE, final |-> "unauthenticated"]

\* The whole response is there and revalidated; ok is the success rule of a
\* login, or a status other than 401 and 403.
Capture(k, ok) ==
    /\ pc[k] = "waiting" /\ Revalidates(at[k]) /\ ctx[at[k]].values
    /\ LET p == Captured(k, ok)
       IN /\ pend' = Becomes(pend, k, [jar |-> p.jar, csrf |-> p.csrf])
          /\ prev' = Becomes(prev, k, p.final)
    /\ pc' = Becomes(pc, k, "deliver")
    /\ UNCHANGED <<ctx, track, iss, busy, lease, locked, tries, host, rv, stop, at, stale>>

\* The checks before delivery and before completion.
Deliver(k) ==
    /\ pc[k] = "deliver" /\ Revalidates(at[k])
    /\ pc' = Becomes(pc, k, "settle")
    /\ UNCHANGED <<ctx, track, iss, busy, lease, locked, tries, host, rv, stop, at, prev, pend, stale>>

MayComplete_Operation(k) == Check /\ ~stop[k]

\* Guard::complete, under the operation's, the context's and the admission
\* lock.
MayComplete(k) == Check /\ ~stop[k] /\ Alive(ctx[at[k]])

complete(k) ==
    /\ pc[k] = "settle" /\ MayComplete(k)
    /\ ctx' = [ctx EXCEPT ![at[k]].jar = pend[k].jar, ![at[k]].csrf = pend[k].csrf,
                          ![at[k]].status = prev[k]]
    /\ pend' = Becomes(pend, k, NoPend)
    /\ pc' = Becomes(pc, k, "drop")
    /\ UNCHANGED <<track, iss, busy, lease, locked, tries, host, rv, stop, at, prev, stale>>

Reset(k) ==
    /\ busy' = Becomes(busy, at[k], IF busy[at[k]] = k THEN NoCall ELSE busy[at[k]])
    /\ stop' = Becomes(stop, k, FALSE)
    /\ prev' = Becomes(prev, k, "unauthenticated")
    /\ pend' = Becomes(pend, k, NoPend)
    /\ stale' = Becomes(stale, k, FALSE)
    /\ End(k)

\* The body is dropped after completion, and with it the exchange permit.
DropBody(k) ==
    /\ pc[k] = "drop"
    /\ Reset(k)
    /\ UNCHANGED <<ctx, track, iss, lease, locked, tries, host, rv>>

Exchanging == {"mark", "admitted", "resolve", "credential", "seal", "ready", "waiting",
               "deliver", "settle"}

\* Guard::fail: an error or a refused revalidation, a limit, the deadline, a
\* cancellation or the client's departure.  The context is of no more use.
fail(k) ==
    /\ pc[k] \in Exchanging \ {"mark"}
    /\ \E after \in {ctx, Refusal(at[k])} :
          /\ after = Refusal(at[k]) =>
                pc[k] \in {"admitted", "seal", "waiting", "deliver"} /\ ~Revalidates(at[k])
          /\ ctx' = Becomes(after, at[k], invalidate(after[at[k]], "revoked"))
    /\ Reset(k)
    /\ UNCHANGED <<track, iss, lease, locked, tries, host, rv>>

-----------------------------------------------------------------------------
(* Broker::revoke: the flag under the admission lock, then the operations, *)
(* the issuances and the contexts, each under their own lock.              *)

RevokeFlag ==
    /\ "revoke" \in Actors /\ rv = "no"
    /\ rv' = "flag"
    /\ UNCHANGED <<ctx, track, iss, busy, lease, locked, tries, host, callVars>>

RevokeOperations ==
    /\ rv = "flag"
    /\ rv' = "operations"
    /\ stop' = [k \in Calls |-> stop[k] \/ pc[k] \in Exchanging]
    /\ UNCHANGED <<ctx, track, iss, busy, lease, locked, tries, host, pc, at, prev, pend, stale>>

RevokeIssuances ==
    /\ rv = "operations"
    /\ rv' = "issuances"
    /\ iss' = [k \in Issuers |-> IF track[On[k]] = k THEN Stopped(iss[k]) ELSE iss[k]]
    /\ UNCHANGED <<ctx, track, busy, lease, locked, tries, host, callVars>>

RevokeContexts ==
    /\ rv = "issuances"
    /\ rv' = "done"
    /\ ctx' = InvalidateAll
    /\ UNCHANGED <<track, iss, busy, lease, locked, tries, host, callVars>>

-----------------------------------------------------------------------------
(* The agent cancels, time passes, the store changes, other sessions log   *)
(* in.                                                                     *)

CancelOperation(k) ==
    /\ "cancel" \in Actors /\ Check /\ pc[k] \in Exchanging /\ ~stop[k]
    /\ stop' = Becomes(stop, k, TRUE)
    /\ UNCHANGED <<ctx, track, iss, busy, lease, locked, tries, host, rv, pc, at, prev, pend, stale>>

CancelIssuance(r) ==
    /\ "cancel" \in Actors /\ Check /\ track[r] # NoCall
    /\ iss' = Becomes(iss, track[r], Stopped(iss[track[r]]))
    /\ UNCHANGED <<ctx, track, busy, lease, locked, tries, host, rv, callVars>>

Expire(c) ==
    /\ "expire" \in Actors /\ ctx[c] # NoBinding /\ ~ctx[c].old
    /\ ctx' = [ctx EXCEPT ![c].old = TRUE]
    /\ UNCHANGED <<track, iss, busy, lease, locked, tries, host, rv, callVars>>

StoreChanges ==
    /\ \/ "rotate" \in Actors /\ ~locked /\ lease < MaxLease
          /\ lease' = lease + 1 /\ UNCHANGED locked
       \/ "lock" \in Actors /\ ~locked
          /\ locked' = TRUE /\ UNCHANGED lease
       \/ locked /\ lease < MaxLease
          /\ locked' = FALSE /\ lease' = lease + 1
    /\ UNCHANGED <<ctx, track, iss, busy, tries, host, rv, callVars>>

OthersTry ==
    /\ "others" \in Actors /\ host < HostTries
    /\ host' = host + 1
    /\ UNCHANGED <<ctx, track, iss, busy, lease, locked, tries, rv, callVars>>

-----------------------------------------------------------------------------
(* The specification.                                                      *)

Init ==
    /\ ctx = [c \in Issuers |-> NoBinding]
    /\ track = [r \in Requests |-> NoCall]
    /\ iss = [k \in Issuers |-> "none"]
    /\ busy = [c \in Issuers |-> NoCall]
    /\ lease = 1 /\ locked = FALSE
    /\ tries = 0 /\ host = 0 /\ rv = "no"
    /\ pc = [k \in Calls |-> "idle"]
    /\ stop = [k \in Calls |-> FALSE]
    /\ at = [k \in Calls |-> NoCall]
    /\ prev = [k \in Calls |-> "unauthenticated"]
    /\ pend = [k \in Calls |-> NoPend]
    /\ stale = [k \in Calls |-> FALSE]

IssueStep(k) ==
    Metadata(k) \/ Confirm(k) \/ Publish(k) \/ IssueFails(k) \/ LoginResult(k)

WebStep(k) ==
    \/ MarkAuthenticating(k) \/ TakeState(k) \/ login_attempt(k) \/ ResolveCredential(k)
    \/ Seal(k) \/ begin_dispatch(k) \/ Deliver(k) \/ complete(k) \/ DropBody(k) \/ fail(k)
    \/ \E ok \in BOOLEAN : Capture(k, ok)

RevokeStep == RevokeOperations \/ RevokeIssuances \/ RevokeContexts

Next ==
    \/ \E k \in Calls :
          \/ get_login(k) \/ IssueStep(k)
          \/ auth_status(k) \/ logout(k)
          \/ dispatch_website(k) \/ WebStep(k)
          \/ CancelOperation(k)
    \/ RevokeFlag \/ RevokeStep
    \/ \E r \in Requests : CancelIssuance(r)
    \/ \E c \in Issuers : Expire(c)
    \/ StoreChanges \/ OthersTry

Spec == Init /\ [][Next]_vars

\* The task of an issuance is polled again when it can go on: each of its
\* awaits has a time limit.  Nothing is assumed of exchanges or of revoke.
FairSpec == Spec /\ \A k \in Calls : WF_vars(IssueStep(k))

-----------------------------------------------------------------------------
(* Properties.                                                             *)

Bindings == [pub: BOOLEAN, dead: BOOLEAN, old: BOOLEAN, status: Statuses,
             values: BOOLEAN, jar: BOOLEAN, csrf: BOOLEAN, lease: Nat]
PCs == {"idle", "metadata", "confirm", "publish", "bound", "drop", "done"} \cup Exchanging

TypeOK ==
    /\ ctx \in [Issuers -> Bindings]
    /\ track \in [Requests -> Issuers \cup {NoCall}]
    /\ iss \in [Issuers -> {"none", "received", "completed", "stopped"}]
    /\ busy \in [Issuers -> Calls \cup {NoCall}]
    /\ lease \in Nat /\ locked \in BOOLEAN /\ tries \in Nat /\ host \in Nat
    /\ rv \in {"no", "flag", "operations", "issuances", "done"}
    /\ pc \in [Calls -> PCs]
    /\ stop \in [Calls -> BOOLEAN] /\ stale \in [Calls -> BOOLEAN]
    /\ at \in [Calls -> Issuers \cup {NoCall}] /\ prev \in [Calls -> Statuses]
    /\ pend \in [Calls -> [jar: BOOLEAN, csrf: BOOLEAN]]

\* A context that was cancelled (logged out, revoked, expired, or whose item
\* changed in the store) holds no placeholder, cookie or CSRF token, and no
\* exchange that was under way gives them back to it.
DeadContextsEmpty ==
    \A c \in Issuers : ctx[c].dead => ~ctx[c].values /\ ~ctx[c].jar /\ ~ctx[c].csrf

\* A context that is Authenticated while no exchange holds its state has the
\* cookies of a login that succeeded, and one with these cookies says so.
StatusFollowsJar ==
    \A c \in Published :
       ~ctx[c].dead /\ busy[c] = NoCall =>
          (ctx[c].status = "authenticated" <=> ctx[c].jar)

\* When revoke has returned, no context of the session is usable, no
\* issuance is open, and none completes later.
RevokeReachesAll ==
    rv = "done" =>
       /\ \A c \in Published : ctx[c].dead
       /\ \A k \in Issuers : iss[k] # "received"

Outbound == {"waiting", "deliver", "settle", "drop"}

\* An exchange whose context was bound to an older lease when it began never
\* reaches the transport: each revalidation on the way asks the store again.
StaleLeaseNeverSent == \A k \in Calls : pc[k] \in Outbound => ~stale[k]

\* Every issuance ends, whatever becomes of its caller, the store or the
\* session.
IssuancesEnd == \A k \in Issuers : iss[k] = "received" ~> iss[k] # "received"
=============================================================================
