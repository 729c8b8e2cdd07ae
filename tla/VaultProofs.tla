---------------------------- MODULE VaultProofs -----------------------------
(***************************************************************************)
(* Proofs about Vault: whatever the number of calls and contexts, and      *)
(* wherever a revocation, a logout, the clock or the store comes between   *)
(* the steps of an exchange, a dead context stays dead and empty, and the  *)
(* status it reports is the one its cookies justify.                       *)
(*                                                                         *)
(* The argument follows the cookies.  An exchange and the permit of its    *)
(* context name each other (Permit), so exactly one call may have taken    *)
(* them; while it has, what it will write back agrees with the status it   *)
(* will write (Carried).  The issuances are tracked one per request        *)
(* (Tracking), which is what makes a revocation that walks over them       *)
(* complete (Passed), and leases only grow (Leases).                       *)
(***************************************************************************)
EXTENDS Vault, TLAPS

-----------------------------------------------------------------------------
(* The inductive invariant *)

Issuing == {"metadata", "confirm", "publish"}
InWeb   == Exchanging \cup {"drop"}
Holding == {"resolve", "credential", "seal", "ready", "waiting", "deliver", "settle"}

\* A task that issues is the one its request tracks, and has published
\* nothing; a context is published exactly when its issuance is complete.
Tracking ==
    /\ \A k \in Calls : pc[k] \in Issuing => k \in Issuers /\ track[On[k]] = k /\ ~ctx[k].pub
    /\ \A k \in Calls : pc[k] = "bound" => at[k] \in Published
    /\ \A k \in Issuers :
         /\ iss[k] # "none" => track[On[k]] = k
         /\ ctx[k].pub <=> iss[k] = "completed"
         /\ ~ctx[k].pub => ~ctx[k].dead /\ ~ctx[k].jar /\ ctx[k].status = "unauthenticated"

\* An exchange and the permit of its context name each other.
Permit ==
    /\ \A k \in Calls : pc[k] \in InWeb => at[k] \in Published /\ busy[at[k]] = k
    /\ \A c \in Issuers : busy[c] # NoCall => pc[busy[c]] \in InWeb /\ at[busy[c]] = c

\* Where the cookies of a login are while an exchange runs: still in the
\* context, with the exchange, or back again.
Carried ==
    \A k \in Calls :
       LET b == ctx[at[k]]
       IN /\ pc[k] \in {"mark", "admitted"} /\ ~b.dead => (prev[k] = "authenticated" <=> b.jar)
          /\ pc[k] \in Holding => (prev[k] = "authenticated" <=> pend[k].jar)
          /\ pc[k] = "drop" /\ ~b.dead => (b.status = "authenticated" <=> b.jar)

\* Leases only grow, so one that was stale stays stale.
Leases ==
    /\ \A c \in Issuers : ctx[c].lease <= lease
    /\ \A k \in Calls : pc[k] \in InWeb /\ stale[k] => ctx[at[k]].lease < lease
    /\ \A k \in Calls : pc[k] = "ready" => ~stale[k]

\* No issuance is open once the revoking thread has passed them.
Passed == rv \in {"issuances", "done"} => \A k \in Issuers : iss[k] # "received"

Inv ==
    /\ TypeOK /\ Tracking /\ Permit /\ Carried /\ Leases /\ Passed
    /\ DeadContextsEmpty /\ StatusFollowsJar /\ RevokeReachesAll /\ StaleLeaseNeverSent

-----------------------------------------------------------------------------
(* Operators *)

\* What a step that only invalidates does to the contexts.
Fades(after) ==
    /\ after \in [Issuers -> Bindings]
    /\ \A c \in Issuers :
         \/ after[c] = ctx[c]
         \/ ctx[c].pub /\ \E s \in {"revoked", "expired"} : after[c] = invalidate(ctx[c], s)

\* Binding::invalidate keeps the type of a binding.
LEMMA InvalidateTypes ==
    ASSUME NEW b \in Bindings, NEW s \in Statuses
    PROVE  /\ invalidate(b, s) \in Bindings
           /\ invalidate(b, s).dead /\ ~invalidate(b, s).values
           /\ ~invalidate(b, s).jar /\ ~invalidate(b, s).csrf
           /\ invalidate(b, s).status = s
           /\ invalidate(b, s).pub = b.pub /\ invalidate(b, s).old = b.old
           /\ invalidate(b, s).lease = b.lease
BY DEF invalidate, Bindings, Statuses

\* invalidate_item touches published contexts only.
LEMMA InvalidateAllFades ==
    ASSUME TypeOK
    PROVE  Fades(InvalidateAll)
<1>1. "revoked" \in Statuses
  BY DEF Statuses
<1> QED
  BY <1>1, InvalidateTypes DEF TypeOK, Fades, InvalidateAll

\* A refused revalidation invalidates this context or all, and no more.
LEMMA RefusalFades ==
    ASSUME TypeOK, NEW c \in Published
    PROVE  Fades(Refusal(c))
<1>1. "expired" \in Statuses
  BY DEF Statuses
<1>2. CASE Check /\ Alive(ctx[c])
  BY <1>2, InvalidateAllFades DEF Refusal
<1>3. CASE ~(Check /\ Alive(ctx[c]))
  <2>1. Refusal(c) = [ctx EXCEPT ![c] = checked(ctx[c])]
    BY <1>3 DEF Refusal, Becomes
  <2>2. c \in Issuers /\ ctx[c].pub /\ ctx[c] \in Bindings
    BY DEF Published, TypeOK
  <2>3. checked(ctx[c]) = ctx[c] \/ checked(ctx[c]) = invalidate(ctx[c], "expired")
    BY DEF checked
  <2> QED
    BY <1>1, <2>1, <2>2, <2>3, InvalidateTypes DEF TypeOK, Fades
<1> QED
  BY <1>2, <1>3

\* Writing a field of a binding keeps its type and its other fields.
LEMMA BindingWrites ==
    ASSUME NEW b \in Bindings, NEW s \in Statuses, NEW x \in BOOLEAN, NEW y \in BOOLEAN
    PROVE  /\ [b EXCEPT !.pub = TRUE] \in Bindings
           /\ [b EXCEPT !.old = TRUE] \in Bindings
           /\ [b EXCEPT !.status = s] \in Bindings
           /\ [b EXCEPT !.jar = x] \in Bindings
           /\ [b EXCEPT !.csrf = y] \in Bindings
BY DEF Bindings

\* What remains of a context that a step may have invalidated.
LEMMA FadedFields ==
    ASSUME TypeOK, NEW after, Fades(after), NEW c \in Issuers
    PROVE  /\ after[c].pub = ctx[c].pub /\ after[c].lease = ctx[c].lease
           /\ ~ctx[c].pub => after[c] = ctx[c]
           /\ \/ after[c] = ctx[c]
              \/ after[c].dead /\ ~after[c].values /\ ~after[c].jar /\ ~after[c].csrf
<1>1. {"revoked", "expired"} \subseteq Statuses /\ ctx[c] \in Bindings
  BY DEF Statuses, TypeOK
<1> QED
  BY <1>1, InvalidateTypes DEF Fades

\* The context that a call names by its request has been published.
LEMMA NamedPublished ==
    ASSUME Inv, NEW k \in Calls
    PROVE  /\ On[k] \in Requests /\ track[On[k]] \in Issuers \cup {NoCall}
           /\ Issued(On[k]) # NoCall => Issued(On[k]) \in Published
           /\ NoCall \notin Issuers
<1>1. On[k] \in Requests
  BY DEF Requests
<1> QED
  BY <1>1, VaultAssumption DEF Inv, TypeOK, Tracking, Published, Issued, Issuers

\* Writing a field of a context keeps the contexts' type.
LEMMA ContextWrites ==
    ASSUME NEW f \in [Issuers -> Bindings], NEW c \in Issuers,
           NEW s \in Statuses, NEW x \in BOOLEAN
    PROVE  /\ [f EXCEPT ![c].pub = TRUE] \in [Issuers -> Bindings]
           /\ [f EXCEPT ![c].old = TRUE] \in [Issuers -> Bindings]
           /\ [f EXCEPT ![c].status = s] \in [Issuers -> Bindings]
           /\ [f EXCEPT ![c].jar = x] \in [Issuers -> Bindings]
           /\ [f EXCEPT ![c].csrf = x] \in [Issuers -> Bindings]
<1>1. f[c] \in Bindings
  OBVIOUS
<1>2. /\ [f[c] EXCEPT !.pub = TRUE] \in Bindings
      /\ [f[c] EXCEPT !.old = TRUE] \in Bindings
      /\ [f[c] EXCEPT !.status = s] \in Bindings
      /\ [f[c] EXCEPT !.jar = x] \in Bindings
      /\ [f[c] EXCEPT !.csrf = x] \in Bindings
  BY <1>1, BindingWrites
<1> QED
  BY <1>2

-----------------------------------------------------------------------------
(* Steps *)

\* FadedFields, for a step.
ContextsFaded ==
    /\ ctx' \in [Issuers -> Bindings]
    /\ \A c \in Issuers :
         /\ ctx'[c].pub = ctx[c].pub /\ ctx'[c].lease = ctx[c].lease
         /\ ~ctx[c].pub => ctx'[c] = ctx[c]
         /\ \/ ctx'[c] = ctx[c]
            \/ ctx'[c].dead /\ ~ctx'[c].values /\ ~ctx'[c].jar /\ ~ctx'[c].csrf

\* The issuance of a context.
LEMMA IssueKeeps ==
    ASSUME Inv, NEW k \in Calls, get_login(k) \/ IssueStep(k)
    PROVE  Inv'
<1> USE VaultAssumption DEF Inv, callVars
<1>1. ASSUME get_login(k) PROVE Inv'
  <2>g. /\ k \in Issuers /\ On[k] \in Requests /\ NoCall \notin Issuers
        /\ Issued(On[k]) # NoCall => Issued(On[k]) \in Published
    BY <1>1, NamedPublished DEF get_login, Issuers
  <2>h. \/ /\ track[On[k]] = NoCall /\ iss[k] = "none"
           /\ track' = [track EXCEPT ![On[k]] = k] /\ iss' = [iss EXCEPT ![k] = "received"]
           /\ pc' = [pc EXCEPT ![k] = "metadata"] /\ at' = at
        \/ /\ UNCHANGED <<track, iss>>
           /\ \/ pc' = [pc EXCEPT ![k] = "done"] /\ at' = [at EXCEPT ![k] = NoCall]
              \/ pc' = [pc EXCEPT ![k] = "bound"] /\ Issued(On[k]) # NoCall
                 /\ at' = [at EXCEPT ![k] = Issued(On[k])]
    BY <1>1, <2>g DEF get_login, Fresh, End, Becomes, Tracking, Issuers, TypeOK
  <2>i. /\ Check /\ pc[k] = "idle"
        /\ UNCHANGED <<ctx, busy, lease, locked, tries, host, rv, stop, prev, pend, stale>>
    BY <1>1 DEF get_login, Idle
  <2>j. Issued(On[k]) # NoCall => Issued(On[k]) \in Issuers
    BY <2>g DEF Published
  <2>r. Issuers \subseteq Calls /\ \A j \in Calls : On[j] \in Requests
    BY DEF Issuers, Requests
  <2>1. TypeOK'
    <3>1. CASE pc' = [pc EXCEPT ![k] = "metadata"]
      BY <2>g, <2>h, <2>i, <2>j, <3>1 DEF TypeOK, PCs, Exchanging
    <3>2. CASE pc' = [pc EXCEPT ![k] = "done"]
      BY <2>g, <2>h, <2>i, <2>j, <3>2 DEF TypeOK, PCs, Exchanging
    <3>3. CASE pc' = [pc EXCEPT ![k] = "bound"]
      BY <2>g, <2>h, <2>i, <2>j, <3>3 DEF TypeOK, PCs, Exchanging
    <3> QED
      BY <2>h, <3>1, <3>2, <3>3
  <2>2. Tracking' /\ Permit'
    <3>1. CASE pc' = [pc EXCEPT ![k] = "metadata"]
      BY <2>g, <2>h, <2>i, <2>j, <2>r, <3>1 DEF TypeOK, Tracking, Permit, PCs, Exchanging, Issuing, InWeb, Published
    <3>2. CASE pc' = [pc EXCEPT ![k] = "done"]
      BY <2>g, <2>h, <2>i, <2>j, <3>2 DEF TypeOK, Tracking, Permit, PCs, Exchanging, Issuing, InWeb, Published
    <3>3. CASE pc' = [pc EXCEPT ![k] = "bound"]
      BY <2>g, <2>h, <2>i, <2>j, <3>3 DEF TypeOK, Tracking, Permit, PCs, Exchanging, Issuing, InWeb, Published
    <3> QED
      BY <2>h, <3>1, <3>2, <3>3
  <2>3. Carried' /\ StatusFollowsJar' /\ DeadContextsEmpty'
    BY <2>g, <2>h, <2>i, <2>j DEF Check, TypeOK, Tracking, Permit, Carried,
       StatusFollowsJar, DeadContextsEmpty, PCs, Exchanging, InWeb, Holding, Published
  <2>4. Leases' /\ StaleLeaseNeverSent'
    BY <2>g, <2>h, <2>i, <2>j DEF Check, TypeOK, Tracking, Permit, Leases,
       StaleLeaseNeverSent, PCs, Exchanging, InWeb, Outbound, Published
  <2>5. Passed' /\ RevokeReachesAll'
    BY <2>g, <2>h, <2>i, <2>j DEF Check, TypeOK, Tracking, Passed,
       RevokeReachesAll, Published
  <2> QED
    BY <2>1, <2>2, <2>3, <2>4, <2>5
<1>2. ASSUME Metadata(k) PROVE Inv'
  <2>1. TypeOK'
    BY <1>2 DEF Metadata, Becomes, NoBinding, Bindings, Statuses, Issuing, TypeOK, PCs,
       Exchanging
  <2>2. Tracking' /\ Permit'
    BY <1>2 DEF Metadata, Becomes, NoBinding, Bindings, Statuses, Issuing, TypeOK, Tracking,
       Permit, PCs, Exchanging, InWeb, Published
  <2>3. Carried' /\ StatusFollowsJar' /\ DeadContextsEmpty'
    BY <1>2 DEF Metadata, Becomes, NoBinding, Bindings, Statuses, Issuing, TypeOK, Tracking,
       Permit, Carried, StatusFollowsJar, DeadContextsEmpty, PCs, Exchanging, InWeb,
       Holding, Published
  <2>4. Leases' /\ StaleLeaseNeverSent'
    BY <1>2 DEF Metadata, Becomes, NoBinding, Bindings, Statuses, Issuing, TypeOK, Tracking,
       Permit, Leases, StaleLeaseNeverSent, PCs, Exchanging, InWeb, Outbound, Published
  <2>5. Passed' /\ RevokeReachesAll'
    BY <1>2 DEF Metadata, Becomes, NoBinding, Bindings, Statuses, Issuing, TypeOK, Tracking,
       Passed, RevokeReachesAll, Published
  <2> QED
    BY <2>1, <2>2, <2>3, <2>4, <2>5
<1>3. ASSUME Confirm(k) PROVE Inv'
  BY <1>3 DEF Confirm, Becomes, TypeOK, Tracking, Permit, Carried, Leases, Passed,
     DeadContextsEmpty, StatusFollowsJar, RevokeReachesAll, StaleLeaseNeverSent, PCs,
     Exchanging, Issuing, InWeb, Holding, Outbound, Published
<1>4. ASSUME Publish(k) PROVE Inv'
  <2>a. k \in Issuers /\ ctx[k] \in Bindings /\ "revoked" \in Statuses
    BY <1>4 DEF TypeOK, Tracking, Issuing, Publish, Statuses
  <2>1. TypeOK'
    BY <1>4, <2>a, BindingWrites DEF Publish, Becomes, MayPublish, Check, TypeOK, PCs,
       Exchanging, Issuing
  <2>2. Tracking' /\ Permit'
    BY <1>4 DEF Publish, Becomes, MayPublish, Check, TypeOK, Tracking, Permit, PCs,
       Exchanging, Issuing, InWeb, Published
  <2>3. Carried' /\ StatusFollowsJar' /\ DeadContextsEmpty'
    BY <1>4 DEF Publish, Becomes, MayPublish, Check, TypeOK, Tracking, Permit, Carried,
       StatusFollowsJar, DeadContextsEmpty, PCs, Exchanging, InWeb, Holding, Published
  <2>4. Leases' /\ StaleLeaseNeverSent'
    BY <1>4 DEF Publish, Becomes, MayPublish, Check, TypeOK, Tracking, Permit, Leases,
       StaleLeaseNeverSent, PCs, Exchanging, InWeb, Outbound, Published
  <2>5. Passed' /\ RevokeReachesAll'
    BY <1>4 DEF Publish, Becomes, MayPublish, Check, TypeOK, Tracking, Passed,
       RevokeReachesAll, Published
  <2> QED
    BY <2>1, <2>2, <2>3, <2>4, <2>5
<1>5. ASSUME IssueFails(k) PROVE Inv'
  <2>1. TypeOK'
    BY <1>5 DEF IssueFails, Becomes, Stopped, End, NoBinding, Bindings, Statuses,
       MayPublish, TypeOK, PCs, Exchanging
  <2>2. Tracking' /\ Permit'
    BY <1>5 DEF IssueFails, Becomes, Stopped, End, NoBinding, Bindings, Statuses,
       MayPublish, TypeOK, Tracking, Permit, PCs, Exchanging, Issuing, InWeb, Published
  <2>3. Carried' /\ StatusFollowsJar' /\ DeadContextsEmpty'
    BY <1>5 DEF IssueFails, Becomes, Stopped, End, NoBinding, Bindings, Statuses,
       MayPublish, TypeOK, Tracking, Permit, Carried, StatusFollowsJar, DeadContextsEmpty,
       PCs, Exchanging, InWeb, Holding, Published, Issuing
  <2>4. Leases' /\ StaleLeaseNeverSent'
    BY <1>5 DEF IssueFails, Becomes, Stopped, End, NoBinding, Bindings, Statuses,
       MayPublish, TypeOK, Tracking, Permit, Leases, StaleLeaseNeverSent, PCs, Exchanging,
       InWeb, Outbound, Published, Issuing
  <2>5. Passed' /\ RevokeReachesAll'
    BY <1>5 DEF IssueFails, Becomes, Stopped, End, NoBinding, Bindings, Statuses,
       MayPublish, TypeOK, Tracking, Passed, RevokeReachesAll, Published
  <2> QED
    BY <2>1, <2>2, <2>3, <2>4, <2>5
<1>6. ASSUME LoginResult(k) PROVE Inv'
  <2>f. Fades(ctx')
    BY <1>6, RefusalFades DEF TypeOK, Tracking, LoginResult, Fades
  <2>t. ContextsFaded
    BY <2>f, FadedFields DEF ContextsFaded, Fades
  <2>1. TypeOK'
    BY <1>6, <2>t DEF LoginResult, Becomes, End, Check, TypeOK, PCs, Exchanging,
       ContextsFaded
  <2>2. Tracking' /\ Permit'
    BY <1>6, <2>t DEF LoginResult, Becomes, End, Check, TypeOK, Tracking, Permit, PCs,
       Exchanging, Issuing, InWeb, Published, ContextsFaded
  <2>3. Carried' /\ StatusFollowsJar' /\ DeadContextsEmpty'
    BY <1>6, <2>t DEF LoginResult, Becomes, End, Check, TypeOK, Tracking, Permit, Carried,
       StatusFollowsJar, DeadContextsEmpty, PCs, Exchanging, InWeb, Holding, Published,
       ContextsFaded
  <2>4. Leases' /\ StaleLeaseNeverSent'
    BY <1>6, <2>t DEF LoginResult, Becomes, End, Check, TypeOK, Tracking, Permit, Leases,
       StaleLeaseNeverSent, PCs, Exchanging, InWeb, Outbound, Published, ContextsFaded
  <2>5. Passed' /\ RevokeReachesAll'
    BY <1>6, <2>t DEF LoginResult, Becomes, End, Check, TypeOK, Tracking, Passed,
       RevokeReachesAll, Published, ContextsFaded
  <2> QED
    BY <2>1, <2>2, <2>3, <2>4, <2>5
<1> QED
  BY <1>1, <1>2, <1>3, <1>4, <1>5, <1>6 DEF IssueStep

\* The exchanges of a context.
LEMMA ExchangeKeeps ==
    ASSUME Inv, NEW k \in Calls, dispatch_website(k) \/ WebStep(k)
    PROVE  Inv'
<1> USE VaultAssumption DEF Inv, callVars
<1>1. ASSUME dispatch_website(k) PROVE Inv'
  <2>g. Named(k) \in Published /\ Named(k) \in Issuers /\ NoCall \notin Issuers
    BY <1>1, NamedPublished DEF dispatch_website, Named, Published
  <2>h. /\ pc[k] = "idle" /\ busy[Named(k)] = NoCall
        /\ pc' = [pc EXCEPT ![k] = IF Kind[k] = "login" THEN "mark" ELSE "admitted"]
        /\ busy' = [busy EXCEPT ![Named(k)] = k] /\ at' = [at EXCEPT ![k] = Named(k)]
        /\ UNCHANGED <<ctx, track, iss, lease, locked, tries, host, rv, stop, pend>>
    BY <1>1 DEF dispatch_website, Idle, Free, Becomes
  <2>1. TypeOK'
    BY <1>1, <2>g DEF dispatch_website, Becomes, Free, Alive, Idle, TypeOK, PCs, Exchanging,
       Bindings
  <2>2. Tracking' /\ Permit'
    <3>1. Tracking'
      BY <2>g, <2>h DEF TypeOK, Tracking, Issuing, Published
    <3>2. Permit'
      BY <2>g, <2>h DEF TypeOK, Permit, InWeb, Exchanging, Published
    <3> QED
      BY <3>1, <3>2
  <2>3. Carried' /\ StatusFollowsJar' /\ DeadContextsEmpty'
    BY <1>1, <2>g DEF dispatch_website, Becomes, Free, Alive, Idle, TypeOK, Tracking,
       Permit, Carried, StatusFollowsJar, DeadContextsEmpty, PCs, Exchanging, InWeb,
       Holding, Published
  <2>4. Leases' /\ StaleLeaseNeverSent'
    <3>1. ctx[Named(k)].lease \in Nat /\ ctx[Named(k)].lease <= lease /\ lease \in Nat
      BY <2>g DEF TypeOK, Bindings, Leases
    <3>2. stale' = [stale EXCEPT ![k] = lease # ctx[Named(k)].lease]
      BY <1>1 DEF dispatch_website, Becomes
    <3>3. Leases'
      <4>1. ASSUME NEW j \in Calls, pc'[j] \in InWeb, stale'[j] PROVE ctx[at'[j]].lease < lease
        <5>1. CASE j = k
          <6>1. stale'[k] = (lease # ctx[Named(k)].lease) /\ at'[k] = Named(k)
            BY <2>h, <3>2 DEF TypeOK
          <6>2. lease # ctx[Named(k)].lease
            BY <4>1, <5>1, <6>1
          <6> QED
            BY <3>1, <5>1, <6>1, <6>2
        <5>2. CASE j # k
          BY <2>h, <3>2, <4>1, <5>2 DEF TypeOK, Leases
        <5> QED
          BY <5>1, <5>2
      <4> QED
        BY <2>h, <3>2, <4>1 DEF TypeOK, Leases
    <3>4. StaleLeaseNeverSent'
      BY <2>h, <3>2 DEF TypeOK, StaleLeaseNeverSent, Outbound
    <3> QED
      BY <3>3, <3>4
  <2>5. Passed' /\ RevokeReachesAll'
    BY <1>1, <2>g DEF dispatch_website, Becomes, Free, Alive, Idle, TypeOK, Tracking,
       Passed, RevokeReachesAll, Published
  <2> QED
    BY <2>1, <2>2, <2>3, <2>4, <2>5
<1>2. ASSUME MarkAuthenticating(k) PROVE Inv'
  <2>a. at[k] \in Issuers /\ ctx \in [Issuers -> Bindings]
    BY <1>2 DEF TypeOK, Permit, InWeb, Exchanging, Published, MarkAuthenticating
  <2>b. ctx' \in [Issuers -> Bindings]
    BY <1>2, <2>a, ContextWrites DEF MarkAuthenticating, Statuses
  <2>1. TypeOK'
    BY <1>2, <2>b DEF MarkAuthenticating, Becomes, TypeOK, PCs, Exchanging
  <2>2. Tracking' /\ Permit'
    BY <1>2 DEF MarkAuthenticating, Becomes, TypeOK, Tracking, Permit, PCs, Exchanging,
       Issuing, InWeb, Published
  <2>3. Carried' /\ StatusFollowsJar' /\ DeadContextsEmpty'
    BY <1>2 DEF MarkAuthenticating, Becomes, TypeOK, Tracking, Permit, Carried,
       StatusFollowsJar, DeadContextsEmpty, PCs, Exchanging, InWeb, Holding, Published
  <2>4. Leases' /\ StaleLeaseNeverSent'
    BY <1>2 DEF MarkAuthenticating, Becomes, TypeOK, Tracking, Permit, Leases,
       StaleLeaseNeverSent, PCs, Exchanging, InWeb, Outbound, Published
  <2>5. Passed' /\ RevokeReachesAll'
    BY <1>2 DEF MarkAuthenticating, Becomes, TypeOK, Tracking, Passed, RevokeReachesAll,
       Published
  <2> QED
    BY <2>1, <2>2, <2>3, <2>4, <2>5
<1>3. ASSUME TakeState(k) PROVE Inv'
  <2>a. at[k] \in Issuers /\ ctx \in [Issuers -> Bindings]
    BY <1>3 DEF TypeOK, Permit, InWeb, Exchanging, Published, TakeState
  <2>b. ctx' \in [Issuers -> Bindings]
    <3>1. [ctx EXCEPT ![at[k]].jar = FALSE] \in [Issuers -> Bindings]
      BY <2>a, ContextWrites DEF Statuses
    <3> QED
      BY <1>3, <2>a, <3>1, ContextWrites DEF TakeState, Statuses
  <2>1. TypeOK'
    BY <1>3, <2>b DEF TakeState, Becomes, Revalidates, Alive, TypeOK, PCs, Exchanging,
       Bindings
  <2>2. Tracking' /\ Permit'
    BY <1>3 DEF TakeState, Becomes, Revalidates, Alive, TypeOK, Tracking, Permit, PCs,
       Exchanging, Issuing, InWeb, Published
  <2>3. Carried' /\ StatusFollowsJar' /\ DeadContextsEmpty'
    BY <1>3 DEF TakeState, Becomes, Revalidates, Alive, TypeOK, Tracking, Permit, Carried,
       StatusFollowsJar, DeadContextsEmpty, PCs, Exchanging, InWeb, Holding, Published
  <2>4. Leases' /\ StaleLeaseNeverSent'
    BY <1>3 DEF TakeState, Becomes, Revalidates, Alive, TypeOK, Tracking, Permit, Leases,
       StaleLeaseNeverSent, PCs, Exchanging, InWeb, Outbound, Published
  <2>5. Passed' /\ RevokeReachesAll'
    BY <1>3 DEF TakeState, Becomes, Revalidates, Alive, TypeOK, Tracking, Passed,
       RevokeReachesAll, Published
  <2> QED
    BY <2>1, <2>2, <2>3, <2>4, <2>5
<1>4. ASSUME login_attempt(k) PROVE Inv'
  BY <1>4 DEF login_attempt, Becomes, TypeOK, Tracking, Permit, Carried, Leases, Passed,
     DeadContextsEmpty, StatusFollowsJar, RevokeReachesAll, StaleLeaseNeverSent, PCs,
     Exchanging, Issuing, InWeb, Holding, Outbound, Published
<1>5. ASSUME ResolveCredential(k) PROVE Inv'
  BY <1>5 DEF ResolveCredential, Becomes, TypeOK, Tracking, Permit, Carried, Leases, Passed,
     DeadContextsEmpty, StatusFollowsJar, RevokeReachesAll, StaleLeaseNeverSent, PCs,
     Exchanging, Issuing, InWeb, Holding, Outbound, Published
<1>6. ASSUME Seal(k) PROVE Inv'
  BY <1>6 DEF Seal, Becomes, Revalidates, TypeOK, Tracking, Permit, Carried, Leases, Passed,
     DeadContextsEmpty, StatusFollowsJar, RevokeReachesAll, StaleLeaseNeverSent, PCs,
     Exchanging, Issuing, InWeb, Holding, Outbound, Published
<1>7. ASSUME begin_dispatch(k) PROVE Inv'
  BY <1>7 DEF begin_dispatch, Becomes, TypeOK, Tracking, Permit, Carried, Leases, Passed,
     DeadContextsEmpty, StatusFollowsJar, RevokeReachesAll, StaleLeaseNeverSent, PCs,
     Exchanging, Issuing, InWeb, Holding, Outbound, Published
<1>8. ASSUME Deliver(k) PROVE Inv'
  BY <1>8 DEF Deliver, Becomes, TypeOK, Tracking, Permit, Carried, Leases, Passed,
     DeadContextsEmpty, StatusFollowsJar, RevokeReachesAll, StaleLeaseNeverSent, PCs,
     Exchanging, Issuing, InWeb, Holding, Outbound, Published
<1>9. ASSUME complete(k) PROVE Inv'
  <2>a. at[k] \in Issuers /\ ctx \in [Issuers -> Bindings]
    BY <1>9 DEF TypeOK, Permit, InWeb, Exchanging, Published, complete
  <2>b. ctx' \in [Issuers -> Bindings]
    <3>1. pend[k].jar \in BOOLEAN /\ pend[k].csrf \in BOOLEAN /\ prev[k] \in Statuses
      BY DEF TypeOK
    <3>2. [ctx EXCEPT ![at[k]].jar = pend[k].jar] \in [Issuers -> Bindings]
      BY <2>a, <3>1, ContextWrites
    <3>3. [ctx EXCEPT ![at[k]].jar = pend[k].jar, ![at[k]].csrf = pend[k].csrf]
             \in [Issuers -> Bindings]
      BY <2>a, <3>1, <3>2, ContextWrites
    <3> QED
      BY <1>9, <2>a, <3>1, <3>3, ContextWrites DEF complete
  <2>1. TypeOK'
    BY <1>9, <2>b DEF complete, Becomes, MayComplete, Check, Alive, NoPend, TypeOK, PCs,
       Exchanging
  <2>2. Tracking' /\ Permit'
    BY <1>9 DEF complete, Becomes, MayComplete, Check, Alive, NoPend, TypeOK, Tracking,
       Permit, PCs, Exchanging, Issuing, InWeb, Published
  <2>3. Carried' /\ StatusFollowsJar' /\ DeadContextsEmpty'
    BY <1>9 DEF complete, Becomes, MayComplete, Check, Alive, NoPend, TypeOK, Tracking,
       Permit, Carried, StatusFollowsJar, DeadContextsEmpty, PCs, Exchanging, InWeb,
       Holding, Published
  <2>4. Leases' /\ StaleLeaseNeverSent'
    BY <1>9 DEF complete, Becomes, MayComplete, Check, Alive, NoPend, TypeOK, Tracking,
       Permit, Leases, StaleLeaseNeverSent, PCs, Exchanging, InWeb, Outbound, Published
  <2>5. Passed' /\ RevokeReachesAll'
    BY <1>9 DEF complete, Becomes, MayComplete, Check, Alive, NoPend, TypeOK, Tracking,
       Passed, RevokeReachesAll, Published
  <2> QED
    BY <2>1, <2>2, <2>3, <2>4, <2>5
<1>10. ASSUME DropBody(k) PROVE Inv'
  <2>1. TypeOK'
    BY <1>10 DEF DropBody, Becomes, Reset, End, NoPend, Statuses, Issuers, TypeOK, PCs,
       Exchanging
  <2>2. Tracking' /\ Permit'
    BY <1>10 DEF DropBody, Becomes, Reset, End, NoPend, Statuses, Issuers, TypeOK, Tracking,
       Permit, PCs, Exchanging, Issuing, InWeb, Published
  <2>3. Carried' /\ StatusFollowsJar' /\ DeadContextsEmpty'
    BY <1>10 DEF DropBody, Becomes, Reset, End, NoPend, Statuses, Issuers, TypeOK, Tracking,
       Permit, Carried, StatusFollowsJar, DeadContextsEmpty, PCs, Exchanging, InWeb,
       Holding, Published
  <2>4. Leases' /\ StaleLeaseNeverSent'
    BY <1>10 DEF DropBody, Becomes, Reset, End, NoPend, Statuses, Issuers, TypeOK, Tracking,
       Permit, Leases, StaleLeaseNeverSent, PCs, Exchanging, InWeb, Outbound, Published
  <2>5. Passed' /\ RevokeReachesAll'
    BY <1>10 DEF DropBody, Becomes, Reset, End, NoPend, Statuses, Issuers, TypeOK, Tracking,
       Passed, RevokeReachesAll, Published
  <2> QED
    BY <2>1, <2>2, <2>3, <2>4, <2>5
<1>11. ASSUME fail(k) PROVE Inv'
  <2>a. at[k] \in Published /\ at[k] \in Issuers
    BY <1>11 DEF fail, Permit, InWeb, Published
  <2>b. PICK after : /\ Fades(after)
                     /\ ctx' = [after EXCEPT ![at[k]] = invalidate(after[at[k]], "revoked")]
    BY <1>11, <2>a, RefusalFades DEF fail, Becomes, Fades, TypeOK
  <2>c. after[at[k]] \in Bindings /\ "revoked" \in Statuses
    BY <2>a, <2>b DEF Fades, Statuses
  <2>t. ContextsFaded /\ ctx'[at[k]].dead
    BY <2>a, <2>b, <2>c, FadedFields, InvalidateTypes DEF ContextsFaded, Fades, Published
  <2>1. TypeOK'
    BY <1>11, <2>t DEF fail, Becomes, Reset, End, NoPend, Statuses, Check, Issuers, TypeOK,
       PCs, Exchanging, ContextsFaded
  <2>2. Tracking' /\ Permit'
    BY <1>11, <2>t DEF fail, Becomes, Reset, End, NoPend, Statuses, Check, Issuers, TypeOK,
       Tracking, Permit, PCs, Exchanging, Issuing, InWeb, Published, ContextsFaded
  <2>3. Carried' /\ StatusFollowsJar' /\ DeadContextsEmpty'
    BY <1>11, <2>t DEF fail, Becomes, Reset, End, NoPend, Statuses, Check, Issuers, TypeOK,
       Tracking, Permit, Carried, StatusFollowsJar, DeadContextsEmpty, PCs, Exchanging,
       InWeb, Holding, Published, ContextsFaded
  <2>4. Leases' /\ StaleLeaseNeverSent'
    BY <1>11, <2>t DEF fail, Becomes, Reset, End, NoPend, Statuses, Check, Issuers, TypeOK,
       Tracking, Permit, Leases, StaleLeaseNeverSent, PCs, Exchanging, InWeb, Outbound,
       Published, ContextsFaded
  <2>5. Passed' /\ RevokeReachesAll'
    BY <1>11, <2>t DEF fail, Becomes, Reset, End, NoPend, Statuses, Check, Issuers, TypeOK,
       Tracking, Passed, RevokeReachesAll, Published, ContextsFaded
  <2> QED
    BY <2>1, <2>2, <2>3, <2>4, <2>5
<1>12. ASSUME NEW ok \in BOOLEAN, Capture(k, ok) PROVE Inv'
  <2>1. TypeOK'
    BY <1>12 DEF Capture, Becomes, Captured, Statuses, TypeOK, PCs, Exchanging
  <2>2. Tracking' /\ Permit'
    BY <1>12 DEF Capture, Becomes, Captured, Statuses, TypeOK, Tracking, Permit, PCs,
       Exchanging, Issuing, InWeb, Published
  <2>3. Carried' /\ StatusFollowsJar' /\ DeadContextsEmpty'
    BY <1>12 DEF Capture, Becomes, Captured, Statuses, TypeOK, Tracking, Permit, Carried,
       StatusFollowsJar, DeadContextsEmpty, PCs, Exchanging, InWeb, Holding, Published
  <2>4. Leases' /\ StaleLeaseNeverSent'
    BY <1>12 DEF Capture, Becomes, Captured, Statuses, TypeOK, Tracking, Permit, Leases,
       StaleLeaseNeverSent, PCs, Exchanging, InWeb, Outbound, Published
  <2>5. Passed' /\ RevokeReachesAll'
    BY <1>12 DEF Capture, Becomes, Captured, Statuses, TypeOK, Tracking, Passed,
       RevokeReachesAll, Published
  <2> QED
    BY <2>1, <2>2, <2>3, <2>4, <2>5
<1> QED
  BY <1>1, <1>2, <1>3, <1>4, <1>5, <1>6, <1>7, <1>8, <1>9, <1>10, <1>11, <1>12 DEF WebStep

\* Status, logout, and all that happens around the calls.
LEMMA OutsideKeeps ==
    ASSUME Inv, Next
    PROVE  Inv'
<1> USE VaultAssumption DEF Inv, callVars
<1>1. ASSUME NEW k \in Calls, auth_status(k) PROVE Inv'
  <2>f. Fades(ctx')
    BY <1>1, RefusalFades, NamedPublished DEF TypeOK, Named, auth_status, Fades
  <2>t. ContextsFaded
    BY <2>f, FadedFields DEF ContextsFaded, Fades
  <2>1. TypeOK'
    BY <1>1, <2>t DEF auth_status, Becomes, End, Check, Idle, TypeOK, PCs, Exchanging,
       ContextsFaded
  <2>2. Tracking' /\ Permit'
    BY <1>1, <2>t DEF auth_status, Becomes, End, Check, Idle, TypeOK, Tracking, Permit, PCs,
       Exchanging, Issuing, InWeb, Published, ContextsFaded
  <2>3. Carried' /\ StatusFollowsJar' /\ DeadContextsEmpty'
    BY <1>1, <2>t DEF auth_status, Becomes, End, Check, Idle, TypeOK, Tracking, Permit,
       Carried, StatusFollowsJar, DeadContextsEmpty, PCs, Exchanging, InWeb, Holding,
       Published, ContextsFaded
  <2>4. Leases' /\ StaleLeaseNeverSent'
    BY <1>1, <2>t DEF auth_status, Becomes, End, Check, Idle, TypeOK, Tracking, Permit,
       Leases, StaleLeaseNeverSent, PCs, Exchanging, InWeb, Outbound, Published,
       ContextsFaded
  <2>5. Passed' /\ RevokeReachesAll'
    BY <1>1, <2>t DEF auth_status, Becomes, End, Check, Idle, TypeOK, Tracking, Passed,
       RevokeReachesAll, Published, ContextsFaded
  <2> QED
    BY <2>1, <2>2, <2>3, <2>4, <2>5
<1>2. ASSUME NEW k \in Calls, logout(k) PROVE Inv'
  <2>f. Fades(ctx')
    BY <1>2, InvalidateTypes, NamedPublished DEF TypeOK, Named, logout, Fades, Published, Statuses, Becomes
  <2>t. ContextsFaded
    BY <2>f, FadedFields DEF ContextsFaded, Fades
  <2>1. TypeOK'
    BY <1>2, <2>t DEF logout, Becomes, End, Check, Idle, TypeOK, PCs, Exchanging,
       ContextsFaded
  <2>2. Tracking' /\ Permit'
    BY <1>2, <2>t DEF logout, Becomes, End, Check, Idle, TypeOK, Tracking, Permit, PCs,
       Exchanging, Issuing, InWeb, Published, ContextsFaded
  <2>3. Carried' /\ StatusFollowsJar' /\ DeadContextsEmpty'
    BY <1>2, <2>t DEF logout, Becomes, End, Check, Idle, TypeOK, Tracking, Permit, Carried,
       StatusFollowsJar, DeadContextsEmpty, PCs, Exchanging, InWeb, Holding, Published,
       ContextsFaded
  <2>4. Leases' /\ StaleLeaseNeverSent'
    BY <1>2, <2>t DEF logout, Becomes, End, Check, Idle, TypeOK, Tracking, Permit, Leases,
       StaleLeaseNeverSent, PCs, Exchanging, InWeb, Outbound, Published, ContextsFaded
  <2>5. Passed' /\ RevokeReachesAll'
    BY <1>2, <2>t DEF logout, Becomes, End, Check, Idle, TypeOK, Tracking, Passed,
       RevokeReachesAll, Published, ContextsFaded
  <2> QED
    BY <2>1, <2>2, <2>3, <2>4, <2>5
<1>3. ASSUME NEW k \in Calls, CancelOperation(k) PROVE Inv'
  BY <1>3 DEF CancelOperation, Becomes, TypeOK, Tracking, Permit, Carried, Leases, Passed,
     DeadContextsEmpty, StatusFollowsJar, RevokeReachesAll, StaleLeaseNeverSent, PCs,
     Exchanging, Issuing, InWeb, Holding, Outbound, Published
<1>4. ASSUME RevokeFlag PROVE Inv'
  BY <1>4 DEF RevokeFlag, Check, TypeOK, Tracking, Permit, Carried, Leases, Passed,
     DeadContextsEmpty, StatusFollowsJar, RevokeReachesAll, StaleLeaseNeverSent, PCs,
     Exchanging, Issuing, InWeb, Holding, Outbound, Published
<1>5. ASSUME RevokeOperations PROVE Inv'
  BY <1>5 DEF RevokeOperations, Check, TypeOK, Tracking, Permit, Carried, Leases, Passed,
     DeadContextsEmpty, StatusFollowsJar, RevokeReachesAll, StaleLeaseNeverSent, PCs,
     Exchanging, Issuing, InWeb, Holding, Outbound, Published
<1>6. ASSUME RevokeIssuances PROVE Inv'
  <2>1. TypeOK'
    BY <1>6 DEF RevokeIssuances, Stopped, Issuers, TypeOK, PCs, Exchanging
  <2>2. Tracking' /\ Permit'
    BY <1>6 DEF RevokeIssuances, Stopped, Issuers, TypeOK, Tracking, Permit, PCs,
       Exchanging, Issuing, InWeb, Published
  <2>3. Carried' /\ StatusFollowsJar' /\ DeadContextsEmpty'
    BY <1>6 DEF RevokeIssuances, Stopped, Issuers, TypeOK, Tracking, Permit, Carried,
       StatusFollowsJar, DeadContextsEmpty, PCs, Exchanging, InWeb, Holding, Published
  <2>4. Leases' /\ StaleLeaseNeverSent'
    BY <1>6 DEF RevokeIssuances, Stopped, Issuers, TypeOK, Tracking, Permit, Leases,
       StaleLeaseNeverSent, PCs, Exchanging, InWeb, Outbound, Published
  <2>5. Passed' /\ RevokeReachesAll'
    BY <1>6 DEF RevokeIssuances, Stopped, Issuers, TypeOK, Tracking, Passed,
       RevokeReachesAll, Published
  <2> QED
    BY <2>1, <2>2, <2>3, <2>4, <2>5
<1>7. ASSUME RevokeContexts PROVE Inv'
  <2>f. Fades(ctx')
    BY <1>7, InvalidateAllFades DEF RevokeContexts
  <2>t. ContextsFaded
    BY <2>f, FadedFields DEF ContextsFaded, Fades
  <2>d. \A c \in Published : ctx'[c].dead
    BY <1>7, InvalidateTypes DEF RevokeContexts, InvalidateAll, TypeOK, Statuses, Published
  <2>1. TypeOK'
    BY <1>7, <2>t DEF RevokeContexts, TypeOK, PCs, Exchanging, ContextsFaded
  <2>2. Tracking' /\ Permit'
    BY <1>7, <2>t DEF RevokeContexts, TypeOK, Tracking, Permit, PCs, Exchanging, Issuing,
       InWeb, Published, ContextsFaded
  <2>3. Carried' /\ StatusFollowsJar' /\ DeadContextsEmpty'
    BY <1>7, <2>t DEF RevokeContexts, TypeOK, Tracking, Permit, Carried, StatusFollowsJar,
       DeadContextsEmpty, PCs, Exchanging, InWeb, Holding, Published, ContextsFaded
  <2>4. Leases' /\ StaleLeaseNeverSent'
    BY <1>7, <2>t DEF RevokeContexts, TypeOK, Tracking, Permit, Leases, StaleLeaseNeverSent,
       PCs, Exchanging, InWeb, Outbound, Published, ContextsFaded
  <2>5. Passed' /\ RevokeReachesAll'
    BY <1>7, <2>t, <2>d DEF RevokeContexts, TypeOK, Tracking, Passed, RevokeReachesAll,
       Published, ContextsFaded
  <2> QED
    BY <2>1, <2>2, <2>3, <2>4, <2>5
<1>8. ASSUME NEW r \in Requests, CancelIssuance(r) PROVE Inv'
  <2>1. TypeOK'
    BY <1>8 DEF CancelIssuance, Becomes, Stopped, Check, TypeOK, PCs, Exchanging
  <2>2. Tracking' /\ Permit'
    BY <1>8 DEF CancelIssuance, Becomes, Stopped, Check, TypeOK, Tracking, Permit, PCs,
       Exchanging, Issuing, InWeb, Published
  <2>3. Carried' /\ StatusFollowsJar' /\ DeadContextsEmpty'
    BY <1>8 DEF CancelIssuance, Becomes, Stopped, Check, TypeOK, Tracking, Permit, Carried,
       StatusFollowsJar, DeadContextsEmpty, PCs, Exchanging, InWeb, Holding, Published
  <2>4. Leases' /\ StaleLeaseNeverSent'
    BY <1>8 DEF CancelIssuance, Becomes, Stopped, Check, TypeOK, Tracking, Permit, Leases,
       StaleLeaseNeverSent, PCs, Exchanging, InWeb, Outbound, Published
  <2>5. Passed' /\ RevokeReachesAll'
    BY <1>8 DEF CancelIssuance, Becomes, Stopped, Check, TypeOK, Tracking, Passed,
       RevokeReachesAll, Published
  <2> QED
    BY <2>1, <2>2, <2>3, <2>4, <2>5
<1>9. ASSUME NEW c \in Issuers, Expire(c) PROVE Inv'
  <2>b. ctx' \in [Issuers -> Bindings]
    BY <1>9, ContextWrites DEF Expire, Statuses, TypeOK
  <2>1. TypeOK'
    BY <1>9, <2>b DEF Expire, TypeOK, PCs, Exchanging
  <2>2. Tracking' /\ Permit'
    BY <1>9 DEF Expire, TypeOK, Tracking, Permit, PCs, Exchanging, Issuing, InWeb, Published
  <2>3. Carried' /\ StatusFollowsJar' /\ DeadContextsEmpty'
    BY <1>9 DEF Expire, TypeOK, Tracking, Permit, Carried, StatusFollowsJar,
       DeadContextsEmpty, PCs, Exchanging, InWeb, Holding, Published
  <2>4. Leases' /\ StaleLeaseNeverSent'
    BY <1>9 DEF Expire, TypeOK, Tracking, Permit, Leases, StaleLeaseNeverSent, PCs,
       Exchanging, InWeb, Outbound, Published
  <2>5. Passed' /\ RevokeReachesAll'
    BY <1>9 DEF Expire, TypeOK, Tracking, Passed, RevokeReachesAll, Published
  <2> QED
    BY <2>1, <2>2, <2>3, <2>4, <2>5
<1>10. ASSUME StoreChanges PROVE Inv'
  <2>s. /\ lease' \in Nat /\ lease <= lease' /\ locked' \in BOOLEAN
        /\ UNCHANGED <<ctx, track, iss, busy, tries, host, rv, callVars>>
    <3>1. lease \in Nat /\ locked \in BOOLEAN
      BY DEF TypeOK
    <3>2. lease' = lease + 1 \/ lease' = lease
      BY <1>10 DEF StoreChanges
    <3>3. locked' = locked \/ locked' = TRUE \/ locked' = FALSE
      BY <1>10 DEF StoreChanges
    <3>4. lease' \in Nat /\ lease <= lease'
      BY <3>1, <3>2
    <3>5. locked' \in BOOLEAN
      BY <3>1, <3>3
    <3> QED
      BY <1>10, <3>4, <3>5 DEF StoreChanges
  <2>1. TypeOK'
    BY <2>s DEF TypeOK, PCs, Exchanging
  <2>2. Tracking' /\ Permit'
    BY <2>s DEF TypeOK, Tracking, Permit, PCs, Exchanging, Issuing,
       InWeb, Published
  <2>3. Carried' /\ StatusFollowsJar' /\ DeadContextsEmpty'
    BY <2>s DEF TypeOK, Tracking, Permit, Carried, StatusFollowsJar,
       DeadContextsEmpty, PCs, Exchanging, InWeb, Holding, Published
  <2>4. Leases' /\ StaleLeaseNeverSent'
    BY <2>s DEF TypeOK, Tracking, Permit, Leases, StaleLeaseNeverSent,
       PCs, Exchanging, InWeb, Outbound, Published, Bindings
  <2>5. Passed' /\ RevokeReachesAll'
    BY <2>s DEF TypeOK, Tracking, Passed, RevokeReachesAll, Published
  <2> QED
    BY <2>1, <2>2, <2>3, <2>4, <2>5
<1>11. ASSUME OthersTry PROVE Inv'
  BY <1>11 DEF OthersTry, Check, TypeOK, Tracking, Permit, Carried, Leases, Passed,
     DeadContextsEmpty, StatusFollowsJar, RevokeReachesAll, StaleLeaseNeverSent, PCs,
     Exchanging, Issuing, InWeb, Holding, Outbound, Published
<1> QED
  BY IssueKeeps, ExchangeKeeps, <1>1, <1>2, <1>3, <1>4, <1>5, <1>6, <1>7, <1>8, <1>9, <1>10, <1>11 DEF Next, RevokeStep

\* The invariant holds initially and every step keeps it.
LEMMA InvInductive ==
    /\ Init => Inv
    /\ Inv /\ [Next]_vars => Inv'
<1>1. Init => Inv
  <2> SUFFICES ASSUME Init PROVE Inv
    OBVIOUS
  <2>1. NoBinding \in Bindings /\ NoPend \in [jar: BOOLEAN, csrf: BOOLEAN]
    BY DEF NoBinding, Bindings, Statuses, NoPend
  <2>2. TypeOK
    BY <2>1 DEF Init, TypeOK, PCs, Statuses
  <2> QED
    BY <2>2, VaultAssumption DEF Inv, Init, Tracking, Permit, Carried, Leases, Passed,
       DeadContextsEmpty, StatusFollowsJar, RevokeReachesAll, StaleLeaseNeverSent, Published,
       NoBinding, Issuing, InWeb, Exchanging, Holding, Outbound, Issuers
<1>2. ASSUME Inv, UNCHANGED vars PROVE Inv'
  BY <1>2 DEF vars, callVars, Inv, TypeOK, Tracking, Permit, Carried, Leases, Passed,
     DeadContextsEmpty, StatusFollowsJar, RevokeReachesAll, StaleLeaseNeverSent, Published
<1> QED
  BY <1>1, <1>2, OutsideKeeps

\* The inductive invariant holds of every state that the calls, the revoking
\* thread, the clock and the store reach.
THEOREM InvHolds == Spec => []Inv
BY InvInductive, PTL DEF Spec

-----------------------------------------------------------------------------
(* Theorems *)

\* Every variable keeps its type.
THEOREM TypeCorrect == Spec => []TypeOK
BY InvHolds, PTL DEF Inv

\* No exchange gives private state back to a context that was invalidated
\* while it ran: Guard::complete looks at the context under its lock.
THEOREM DeadHoldNothing == Spec => []DeadContextsEmpty
BY InvHolds, PTL DEF Inv

\* The status a context reports and the cookies it holds agree whenever no
\* exchange has them.
THEOREM StatusIsTrue == Spec => []StatusFollowsJar
BY InvHolds, PTL DEF Inv

\* Broker::revoke, taking three locks one after the other, reaches every
\* context and every issuance of the session.
THEOREM RevokeComplete == Spec => []RevokeReachesAll
BY InvHolds, PTL DEF Inv

\* No exchange of a context whose lease was already gone is dispatched.
THEOREM StaleNeverSent == Spec => []StaleLeaseNeverSent
BY InvHolds, PTL DEF Inv

\* However many calls of get_login name one request, at most one of them
\* has published a context.
OneContextPerRequest ==
    \A c, d \in Published : On[c] = On[d] => c = d

\* Operations.issuances tracks one issuance per request.
THEOREM IssuedOnce == Spec => []OneContextPerRequest
<1>1. Inv => OneContextPerRequest
  BY DEF Inv, Tracking, OneContextPerRequest, Published
<1> QED
  BY <1>1, InvHolds, PTL

\* No two website exchanges of a context run at once: its permit is held from
\* admission until the body is dropped.
OneExchangePerContext ==
    \A j, k \in Calls : pc[j] \in InWeb /\ pc[k] \in InWeb /\ at[j] = at[k] => j = k

\* Binding.exchange excludes.
THEOREM ExchangesExclude == Spec => []OneExchangePerContext
<1>1. Inv => OneExchangePerContext
  BY DEF Inv, Permit, OneExchangePerContext
<1> QED
  BY <1>1, InvHolds, PTL

\* A context that was invalidated is never usable again, and none is
\* unpublished.  The model relies on it where it merges two checks into one.
InvalidationIsFinal ==
    [][\A c \in Published : ctx'[c].pub /\ (ctx[c].dead => ctx'[c].dead)]_vars

\* Every step, of any call, leaves a dead context dead.
THEOREM DeadStaysDead == Spec => InvalidationIsFinal
<1> DEFINE Final == \A c \in Published : ctx'[c].pub /\ (ctx[c].dead => ctx'[c].dead)
<1>1. ASSUME Inv, Next PROVE Final
  <2> USE <1>1, VaultAssumption DEF Inv, callVars
  <2>1. ASSUME UNCHANGED ctx PROVE Final
    BY <2>1 DEF Published
  <2>2. ASSUME Fades(ctx') PROVE Final
    BY <2>2, FadedFields DEF Published
  <2>3. ASSUME NEW k \in Calls, get_login(k) \/ IssueStep(k) PROVE Final
    <3>1. ASSUME Metadata(k) \/ IssueFails(k) PROVE Final
      BY <3>1 DEF Metadata, IssueFails, Becomes, Tracking, Issuing, TypeOK, Published
    <3>2. ASSUME Publish(k) PROVE Final
      BY <3>2 DEF Publish, Tracking, Issuing, TypeOK, Published, Bindings
    <3>3. ASSUME LoginResult(k) PROVE Final
      BY <2>1, <2>2, <3>3, RefusalFades DEF LoginResult, Tracking
    <3> QED
      BY <2>1, <2>3, <3>1, <3>2, <3>3 DEF get_login, IssueStep, Confirm
  <2>4. ASSUME NEW k \in Calls, dispatch_website(k) \/ WebStep(k) PROVE Final
    <3>1. ASSUME MarkAuthenticating(k) \/ TakeState(k) \/ complete(k) PROVE Final
      <4>1. at[k] \in Issuers /\ ctx \in [Issuers -> Bindings]
        BY <3>1 DEF MarkAuthenticating, TakeState, complete, TypeOK, Permit, InWeb, Exchanging,
           Published
      <4>2. \A c \in Issuers : ctx'[c].pub = ctx[c].pub /\ ctx'[c].dead = ctx[c].dead
        <5>1. CASE MarkAuthenticating(k)
          BY <4>1, <5>1 DEF MarkAuthenticating, Bindings
        <5>2. CASE TakeState(k)
          BY <4>1, <5>2 DEF TakeState, Bindings
        <5>3. CASE complete(k)
          BY <4>1, <5>3 DEF complete, Bindings
        <5> QED
          BY <3>1, <5>1, <5>2, <5>3
      <4> QED
        BY <4>2 DEF Published
    <3>2. ASSUME fail(k) PROVE Final
      <4>1. at[k] \in Published /\ at[k] \in Issuers
        BY <3>2 DEF fail, Permit, InWeb, Published
      <4>2. PICK after : /\ Fades(after)
                         /\ ctx' = [after EXCEPT ![at[k]] = invalidate(after[at[k]], "revoked")]
        BY <3>2, <4>1, RefusalFades DEF fail, Becomes, Fades, TypeOK
      <4>3. after[at[k]] \in Bindings /\ "revoked" \in Statuses
        BY <4>1, <4>2 DEF Fades, Statuses
      <4> QED
        BY <4>1, <4>2, <4>3, FadedFields, InvalidateTypes DEF Fades, Published
    <3> QED
      BY <2>1, <2>4, <3>1, <3>2 DEF dispatch_website, WebStep, login_attempt, ResolveCredential,
         Seal, begin_dispatch, Deliver, DropBody, Capture
  <2>5. ASSUME NEW k \in Calls, auth_status(k) \/ logout(k) PROVE Final
    <3>1. Named(k) \in Published
      BY <2>5, NamedPublished DEF auth_status, logout, Named
    <3>2. Fades(ctx')
      <4>1. CASE auth_status(k)
        BY <3>1, <4>1, RefusalFades DEF auth_status, Fades, TypeOK
      <4>2. CASE logout(k)
        BY <3>1, <4>2, InvalidateTypes DEF logout, Fades, Published, Statuses, Becomes, TypeOK
      <4> QED
        BY <2>5, <4>1, <4>2
    <3> QED
      BY <2>2, <3>2
  <2>6. ASSUME RevokeContexts PROVE Final
    BY <2>2, <2>6, InvalidateAllFades DEF RevokeContexts
  <2>7. ASSUME NEW c \in Issuers, Expire(c) PROVE Final
    BY <2>7 DEF Expire, TypeOK, Published, Bindings
  <2> QED
    BY <2>1, <2>3, <2>4, <2>5, <2>6, <2>7 DEF Next, CancelOperation, RevokeFlag, RevokeStep,
       RevokeOperations, RevokeIssuances, CancelIssuance, StoreChanges, OthersTry
<1>2. ASSUME UNCHANGED vars PROVE Final
  BY <1>2 DEF vars, Published
<1>3. Inv /\ [Next]_vars => [Final]_vars
  BY <1>1, <1>2
<1> QED
  BY <1>3, InvHolds, PTL DEF Spec, InvalidationIsFinal
=============================================================================
