------------------------------ MODULE Recorder ------------------------------
(***************************************************************************)
(* The bounded recorder of aap-observe: flows that number and record their *)
(* updates (flow.rs), the record table with one retention queue per        *)
(* consumer (recorder.rs), and scoped subscriptions (subscription.rs).     *)
(*                                                                         *)
(* Every operation runs under the recorder's lock, and a flow holds its    *)
(* own lock around it, so an operation is one step; only closing a         *)
(* subscription takes two.  The consumers are the owner channel and the    *)
(* subscriber slots.  A VecDeque of increasing identities is the set of    *)
(* its <<delivery id, source id>> pairs; the owner's two are equal.        *)
(***************************************************************************)
EXTENDS Integers, Sequences, FiniteSets, FiniteSetsExt

CONSTANTS
    Owner,          \* the owner channel
    Slots,          \* subscriber slots, 16 in the code
    Flows, Sessions, SessionOf, RequiredFlows,
    Streams,        \* the directional views a flow numbers
    Classes, Size,  \* metadata or content, and its serialized size
    Updates,        \* batches of emissions
    Grants,         \* a scope and a quota that may be subscribed
    MaxEvents, MaxBytes, SessionBytes,
    MaxIds, MaxEpoch, Readers, Outages \* bounds: identities, restarts,
                    \* who reads, whether availability changes

Consumers == Slots \cup {Owner}
Emissions == [stream : Streams, class : Classes]
Scopes == [sessions : SUBSET Sessions, streams : SUBSET Streams,
           classes : SUBSET Classes]
Quotas == [events : Nat \ {0}, bytes : Nat \ {0}]

NoScope == [sessions |-> {}, streams |-> {}, classes |-> {}]
NoQuota == [events |-> 1, bytes |-> 1]

ASSUME RecorderAssumption ==
    /\ Slots \subseteq Nat /\ Owner \notin Slots
    /\ SessionOf \in [Flows -> Sessions] /\ RequiredFlows \subseteq Flows
    /\ Size \in [Classes -> Nat \ {0}]
    /\ Updates \subseteq Seq(Emissions)
    /\ Grants \subseteq [scope : Scopes, quota : Quotas]
    /\ MaxEvents \in Nat \ {0} /\ MaxBytes \in Nat \ {0}
    /\ SessionBytes \in Nat \ {0}
    /\ MaxIds \in Nat /\ MaxEpoch \in Nat /\ Readers \subseteq Consumers
    /\ Outages \in BOOLEAN

VARIABLES
    epoch, available,
    next,        \* the next identity of each consumer; the owner's is State.next
    queue,       \* retained deliveries of each consumer
    records,     \* the stored records by source id, with their claims
    bytes, sessionBytes, queueBytes,  \* the three running totals
    sub, scope, quota, issued,        \* the subscriber slots
    sequences,   \* Flow's next sequence number per stream
    held, cursor,\* a consumer's last cursor (held: the epoch of the owner's)
    got, gaps,   \* history: what a consumer received, and was told is missing
    owed,        \* history: unacknowledged deliveries of required updates
    log, since   \* history: the event of each source id; where a scope begins

totals == <<bytes, sessionBytes, queueBytes>>
slotVars == <<sub, scope, quota, since>>
readerVars == <<held, cursor, got, gaps>>
vars == <<epoch, available, next, queue, records, totals, slotVars, issued,
          sequences, readerVars, owed, log>>

-----------------------------------------------------------------------------
(* Queues *)

Ids(Q) == {q[1] : q \in Q}
Sources(Q) == {q[2] : q \in Q}
Volume(S) == MapThenSumSet(LAMBDA s : records[s].bytes, S)
OfSession(S, x) == {s \in S : SessionOf[records[s].flow] = x}

Live == {i \in Slots : sub[i] # "free"}

\* Scope::permits
Permits(i, f, e) ==
    /\ SessionOf[f] \in scope[i].sessions
    /\ e.stream \in scope[i].streams
    /\ e.class \in scope[i].classes

-----------------------------------------------------------------------------
(* Preflight of an update u of flow f: identities, then evictions *)

Positions(u) == 1..Len(u)
Weight(u, K) == MapThenSumSet(LAMBDA k : Size[u[k].class], K)

Selected(c, f, u) ==
    IF c = Owner THEN Positions(u)
    ELSE {k \in Positions(u) : c \in Live /\ Permits(c, f, u[k])}

Source(k) == next[Owner] + k - 1
Delivery(c, f, u, k) == next[c] + Cardinality({j \in Selected(c, f, u) : j < k})
Deliveries(c, f, u) ==
    {<<Delivery(c, f, u, k), Source(k)>> : k \in Selected(c, f, u)}

\* The event as Flow numbers it.
Event(f, u, k) ==
    [flow |-> f, stream |-> u[k].stream, class |-> u[k].class,
     seq |-> sequences[f][u[k].stream]
             + Cardinality({j \in 1..(k - 1) : u[j].stream = u[k].stream})]

\* Does the update fit in queue i once the entries before cut are gone?
Room(i, f, u, cut) ==
    LET old == {q \in queue[i] : q[1] < cut} IN
    /\ Cardinality(queue[i] \ old) + Cardinality(Selected(i, f, u)) <= quota[i].events
    /\ queueBytes[i] - Volume(Sources(old)) + Weight(u, Selected(i, f, u)) <= quota[i].bytes

\* The oldest entries of queue i, as many as make room.
LocalDrop(i, f, u) ==
    LET cuts == {cut \in 0..next[i] : Room(i, f, u, cut)} IN
    {q \in queue[i] : Selected(i, f, u) # {} /\ \A cut \in cuts : q[1] < cut}

Accepts_Evicting(i, f, u) ==
    /\ Cardinality(Selected(i, f, u)) <= quota[i].events
    /\ Weight(u, Selected(i, f, u)) <= quota[i].bytes

\* Required records are not evicted, and a required update evicts nothing.
Accepts(i, f, u) ==
    /\ Cardinality(Selected(i, f, u)) <= quota[i].events
    /\ Weight(u, Selected(i, f, u)) <= quota[i].bytes
    /\ \A q \in LocalDrop(i, f, u) : f \notin RequiredFlows /\ ~records[q[2]].required

\* Global and per-session budgets, once the records before cut are gone too.
Fits(f, u, orphans, cut) ==
    LET gone == orphans \cup {s \in DOMAIN records : s < cut} IN
    /\ bytes - Volume(gone) + Weight(u, Positions(u)) <= MaxBytes
    /\ Cardinality(DOMAIN records \ gone) + Len(u) <= MaxEvents
    /\ \A x \in Sessions :
         sessionBytes[x] - Volume(OfSession(gone, x))
           + (IF SessionOf[f] = x THEN Weight(u, Positions(u)) ELSE 0) <= SessionBytes

\* The plan of record_batch_with: who takes the update, what each queue and
\* the table give up for it, and whether it returns through unavailable().
Plan(f, u) ==
    LET takers == {Owner} \cup {i \in Live : Accepts(i, f, u)}
        drop == [c \in Consumers |->
                   IF c \in takers \ {Owner} THEN LocalDrop(c, f, u) ELSE {}]
        \* nobody claims these once the local drops are made
        orphans == {s \in DOMAIN records :
                      \A c \in records[s].claims : s \in Sources(drop[c])}
        cuts == {cut \in 0..next[Owner] : Fits(f, u, orphans, cut)}
        forced == {s \in DOMAIN records \ orphans : \A cut \in cuts : s < cut}
    IN  [takers |-> takers, drop |-> drop, evicted |-> orphans \cup forced,
         unavailable |->
            \/ ~available
            \/ Len(u) > MaxEvents \/ Weight(u, Positions(u)) > MaxBytes
            \/ f \in RequiredFlows /\ Live \ takers # {}
            \/ \E s \in forced : f \in RequiredFlows \/ records[s].required
            \/ cuts = {}]

-----------------------------------------------------------------------------
(* Recording *)

Bounded(u) == Len(u) > 0 /\ next[Owner] + Len(u) <= MaxIds + 1

\* The identities an update consumes, whether or not it is retained.
Advance(f, u) ==
    /\ next' = [c \in Consumers |-> next[c] + Cardinality(Selected(c, f, u))]
    /\ sequences' = [sequences EXCEPT ![f] =
            [x \in Streams |-> @[x] + Cardinality({k \in Positions(u) : u[k].stream = x})]]
    /\ log' = log \o [k \in Positions(u) |-> Event(f, u, k)]

\* A required update is refused, a best-effort one is lost and its caller
\* commits: either way the identities stay consumed.
Lose(f, u, plan) ==
    /\ plan.unavailable
    /\ Advance(f, u)
    /\ UNCHANGED <<epoch, available, queue, records, totals, slotVars, issued,
                   readerVars, owed>>

Reject_SourceOnly(f, u, plan) ==
    /\ f \in RequiredFlows => ~plan.unavailable
    /\ next' = [c \in Consumers |->
                  IF c = Owner THEN next[c] ELSE next[c] + Cardinality(Selected(c, f, u))]
    /\ UNCHANGED <<epoch, available, queue, records, totals, slotVars, issued,
                   sequences, readerVars, owed, log>>

\* The caller's commit fails: source, delivery and sequence counters return
\* to what they were, and nothing has been evicted.
Reject(f, u, plan) ==
    /\ f \in RequiredFlows => ~plan.unavailable
    /\ UNCHANGED vars

Stored(f, u, plan, k) ==
    [flow |-> f, bytes |-> Size[u[k].class], required |-> f \in RequiredFlows,
     claims |-> {c \in plan.takers : k \in Selected(c, f, u)}]

Kept(c, plan) == {q \in queue[c] \ plan.drop[c] : q[2] \notin plan.evicted}

\* State::release of the local drops, State::remove of the global ones, and
\* the new records.
Table(f, u, plan) ==
    LET kept == DOMAIN records \ plan.evicted IN
    records' = [s \in kept \cup {Source(k) : k \in Positions(u)} |->
                  IF s \in kept
                  THEN [records[s] EXCEPT !.claims =
                          {c \in @ : s \notin Sources(plan.drop[c])}]
                  ELSE Stored(f, u, plan, s - next[Owner] + 1)]

Totals(f, u, plan) ==
    /\ bytes' = bytes - Volume(plan.evicted) + Weight(u, Positions(u))
    /\ sessionBytes' = [x \in Sessions |->
            sessionBytes[x] - Volume(OfSession(plan.evicted, x))
              + (IF SessionOf[f] = x THEN Weight(u, Positions(u)) ELSE 0)]
    /\ queueBytes' = [i \in Slots |->
            queueBytes[i] - Volume(Sources(queue[i] \ Kept(i, plan)))
              + (IF i \in plan.takers THEN Weight(u, Selected(i, f, u)) ELSE 0)]

Publish(f, u, plan) ==
    /\ ~plan.unavailable
    /\ Advance(f, u)
    /\ Table(f, u, plan)
    /\ Totals(f, u, plan)
    /\ queue' = [c \in Consumers |->
            Kept(c, plan) \cup (IF c \in plan.takers THEN Deliveries(c, f, u) ELSE {})]
    /\ owed' = [c \in Consumers |->
            owed[c] \cup (IF f \in RequiredFlows THEN Ids(Deliveries(c, f, u)) ELSE {})]
    /\ UNCHANGED <<epoch, available, slotVars, issued, readerVars>>

\* Recorder::record_batch_with, called from Flow::record_batch_with
Record(f, u) ==
    /\ Bounded(u)
    /\ LET plan == Plan(f, u) IN
       Lose(f, u, plan) \/ Reject(f, u, plan) \/ Publish(f, u, plan)

SetAvailable ==
    /\ Outages
    /\ available' = ~available
    /\ UNCHANGED <<epoch, next, queue, records, totals, slotVars, issued,
                   sequences, readerVars, owed, log>>

-----------------------------------------------------------------------------
(* Reading and acknowledging *)

After_AnyEpoch(c) == cursor[c]

\* A cursor of an earlier daemon is not a position in this one.
After(c) == IF c = Owner /\ held # epoch THEN 0 ELSE cursor[c]

\* The first identity a page shows: the oldest retained, or nothing yet.
IsFirst(c, first) ==
    LET pending == {d \in Ids(queue[c]) : d > After(c)} IN
    /\ pending = {} => first = next[c]
    /\ pending # {} => first \in pending /\ \A d \in pending : first <= d

\* A page is a contiguous run; its length is up to the caller's limits.
IsPage(c, first, last) ==
    /\ IsFirst(c, first)
    /\ first..last \subseteq Ids(queue[c])
    /\ last < first => first = next[c] /\ last = first - 1

\* The reply reaches the consumer, or is lost on the way.
Read(c, first, last, arrives) ==
    /\ c # Owner => sub[c] = "open"
    /\ IsPage(c, first, last)
    /\ issued' = [i \in Slots |->
            IF i = c /\ last > issued[i] THEN last ELSE issued[i]]
    /\ IF arrives
       THEN /\ cursor' = [cursor EXCEPT ![c] = last]
            /\ held' = IF c = Owner THEN epoch ELSE held
            /\ got' = [got EXCEPT ![c] = @ \cup
                         {q \in queue[c] : q[1] \in first..last}]
            /\ gaps' = [gaps EXCEPT ![c] = @ \cup (After(c) + 1)..(first - 1)]
       ELSE UNCHANGED readerVars
    /\ UNCHANGED <<epoch, available, next, queue, records, totals, slotVars,
                   sequences, owed, log>>

\* State::release of a consumer's entries, and State::discard of the records
\* nobody claims any more.
Release(c, Q) ==
    LET gone == {s \in Sources(Q) : records[s].claims \subseteq {c}} IN
    /\ queue' = [queue EXCEPT ![c] = @ \ Q]
    /\ records' = [s \in DOMAIN records \ gone |->
            [records[s] EXCEPT !.claims = IF s \in Sources(Q) THEN @ \ {c} ELSE @]]
    /\ queueBytes' = [i \in Slots |->
            IF i = c THEN queueBytes[i] - Volume(Sources(Q)) ELSE queueBytes[i]]
    /\ bytes' = bytes - Volume(gone)
    /\ sessionBytes' = [x \in Sessions |->
            sessionBytes[x] - Volume(OfSession(gone, x))]

\* The owner may acknowledge any identity that exists, a subscriber only what
\* was issued to it.
Acknowledge(c, after) ==
    /\ IF c = Owner THEN held = epoch /\ after < next[Owner]
                    ELSE sub[c] = "open" /\ after <= issued[c]
    /\ Release(c, {q \in queue[c] : q[1] <= after})
    /\ owed' = [owed EXCEPT ![c] = {d \in @ : d > after}]
    /\ UNCHANGED <<epoch, available, next, slotVars, issued, sequences,
                   readerVars, log>>

-----------------------------------------------------------------------------
(* Subscriptions and restarts *)

\* Enrolment is forward-only, in the first free slot.
Subscribe(i, grant) ==
    /\ sub[i] = "free" /\ \A j \in Slots : j < i => sub[j] # "free"
    /\ grant.quota.events <= MaxEvents /\ grant.quota.bytes <= MaxBytes
    /\ sub' = [sub EXCEPT ![i] = "open"]
    /\ scope' = [scope EXCEPT ![i] = grant.scope]
    /\ quota' = [quota EXCEPT ![i] = grant.quota]
    /\ since' = [since EXCEPT ![i] = next[Owner]]
    /\ UNCHANGED <<epoch, available, next, queue, records, totals, issued,
                   sequences, readerVars, owed, log>>

\* Without the lock; also the first half of close().
CloseAdmission(i) ==
    /\ sub[i] = "open"
    /\ sub' = [sub EXCEPT ![i] = "closing"]
    /\ UNCHANGED <<epoch, available, next, queue, records, totals, scope, quota,
                   since, issued, sequences, readerVars, owed, log>>

\* The slot is None again, and so is the history of its consumer.
Vacate(i) ==
    /\ sub' = [sub EXCEPT ![i] = "free"]
    /\ scope' = [scope EXCEPT ![i] = NoScope]
    /\ quota' = [quota EXCEPT ![i] = NoQuota]
    /\ since' = [since EXCEPT ![i] = 1]
    /\ next' = [next EXCEPT ![i] = 1]
    /\ issued' = [issued EXCEPT ![i] = 0]
    /\ cursor' = [cursor EXCEPT ![i] = 0]
    /\ got' = [got EXCEPT ![i] = {}]
    /\ gaps' = [gaps EXCEPT ![i] = {}]
    /\ owed' = [owed EXCEPT ![i] = {}]

Close(i) ==
    /\ sub[i] = "closing"
    /\ Vacate(i)
    /\ Release(i, queue[i])
    /\ UNCHANGED <<epoch, available, sequences, held, log>>

\* Recorder::new
Init ==
    /\ epoch = 1 /\ held = 1 /\ available = TRUE
    /\ next = [c \in Consumers |-> 1]
    /\ queue = [c \in Consumers |-> {}]
    /\ records = [s \in {} |-> 0]
    /\ bytes = 0
    /\ sessionBytes = [x \in Sessions |-> 0]
    /\ queueBytes = [i \in Slots |-> 0]
    /\ sub = [i \in Slots |-> "free"]
    /\ scope = [i \in Slots |-> NoScope]
    /\ quota = [i \in Slots |-> NoQuota]
    /\ since = [i \in Slots |-> 1]
    /\ issued = [i \in Slots |-> 0]
    /\ sequences = [f \in Flows |-> [x \in Streams |-> 0]]
    /\ got = [c \in Consumers |-> {}]
    /\ gaps = [c \in Consumers |-> {}]
    /\ owed = [c \in Consumers |-> {}]
    /\ log = <<>>
    /\ cursor = [c \in Consumers |-> 0]

\* A new daemon has a new recorder; the owner's collector keeps its cursor.
Restart ==
    /\ epoch < MaxEpoch
    /\ epoch' = epoch + 1
    /\ available' = TRUE
    /\ next' = [c \in Consumers |-> 1]
    /\ queue' = [c \in Consumers |-> {}]
    /\ records' = [s \in {} |-> 0]
    /\ bytes' = 0
    /\ sessionBytes' = [x \in Sessions |-> 0]
    /\ queueBytes' = [i \in Slots |-> 0]
    /\ sub' = [i \in Slots |-> "free"]
    /\ scope' = [i \in Slots |-> NoScope]
    /\ quota' = [i \in Slots |-> NoQuota]
    /\ since' = [i \in Slots |-> 1]
    /\ issued' = [i \in Slots |-> 0]
    /\ sequences' = [f \in Flows |-> [x \in Streams |-> 0]]
    /\ got' = [c \in Consumers |-> {}]
    /\ gaps' = [c \in Consumers |-> {}]
    /\ owed' = [c \in Consumers |-> {}]
    /\ log' = <<>>
    /\ cursor' = [c \in Consumers |-> IF c = Owner THEN cursor[c] ELSE 0]
    /\ UNCHANGED held

Next ==
    \/ \E f \in Flows, u \in Updates : Record(f, u)
    \/ SetAvailable
    \/ \E c \in Readers : \E first \in Ids(queue[c]) \cup {next[c]} :
          \E last \in (first - 1)..(next[c] - 1), arrives \in BOOLEAN :
             Read(c, first, last, arrives)
    \/ \E c \in Consumers, after \in 0..MaxIds : Acknowledge(c, after)
    \/ \E i \in Slots, grant \in Grants : Subscribe(i, grant)
    \/ \E i \in Slots : CloseAdmission(i) \/ Close(i)
    \/ Restart

Spec == Init /\ [][Next]_vars
-----------------------------------------------------------------------------
(* Properties *)

\* The table's claims and the consumers' queues say the same, no queue names
\* a record that is gone, and no record is kept that nobody claims
\* (State::release, remove, discard and the publication agree).
ClaimsCoherent ==
    /\ \A s \in DOMAIN records :
         /\ records[s].claims # {}
         /\ \A c \in Consumers : c \in records[s].claims <=> s \in Sources(queue[c])
    /\ \A c \in Consumers : Sources(queue[c]) \subseteq DOMAIN records

\* A required update whose caller was allowed to commit stays in the queue of
\* every consumer it was selected for until that consumer acknowledges it or
\* closes, whatever is recorded, evicted, acknowledged or closed meanwhile.
RequiredKept == \A c \in Consumers : owed[c] \subseteq Ids(queue[c])

Following(c) == c = Owner => held = epoch

\* A consumer that follows its cursor accounts for every identity up to it,
\* each exactly once: received, or reported in a gap.  What was reported
\* missing is not still queued for it, and an earlier daemon's cursor skips
\* nothing of this one.
NoSilentLoss ==
    \A c \in Consumers : Following(c) =>
        /\ Ids(got[c]) \cup gaps[c] = 1..cursor[c]
        /\ Ids(got[c]) \cap gaps[c] = {}
        /\ gaps[c] \cap Ids(queue[c]) = {}

Rank(i, s) ==
    Cardinality({t \in since[i]..s : Permits(i, log[t].flow, log[t])})

\* Identities are never reused, skipped or given to an event outside the
\* scope: a source id counts the events recorded or lost, a delivery id the
\* ones of them the scope permits since enrolment, a sequence number the ones
\* of its flow's stream.  A rejected commit leaves no trace in any of them.
IdentitiesDense ==
    /\ next[Owner] = Len(log) + 1
    /\ \A q \in queue[Owner] \cup got[Owner] : Following(Owner) => q[1] = q[2]
    /\ \A i \in Live :
         /\ next[i] = Rank(i, Len(log)) + 1
         /\ \A q \in queue[i] \cup got[i] :
              /\ q[1] = Rank(i, q[2])
              /\ Permits(i, log[q[2]].flow, log[q[2]])
    /\ \A t \in 1..Len(log) :
         log[t].seq = Cardinality({r \in 1..(t - 1) :
                         log[r].flow = log[t].flow /\ log[r].stream = log[t].stream})
=============================================================================
