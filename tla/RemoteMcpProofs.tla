-------------------------- MODULE RemoteMcpProofs ---------------------------
(***************************************************************************)
(* Proofs about RemoteMcp: its types and the five safety properties that   *)
(* its runs check, for any calls, methods, bounds and outside events.      *)
(*                                                                         *)
(* The properties speak of three things: which handshakes are done, which  *)
(* mark was won by whom, and which DELETE is under way.  None is inductive *)
(* alone.  Inv adds that a pending exchange belongs to a running call of   *)
(* that context (Linked), that a live context waits for at most one part   *)
(* of its handshake (Sound), where a call may stand (Places, Statuses),    *)
(* and, for cancellations, that an exchange whose mark was won is doomed:  *)
(* it can no longer complete, so the request that the server is told of is *)
(* never one that the agent sees completed (Claimed, Told_once).           *)
(*                                                                         *)
(* The proof is in three layers.  The operators on one context either only *)
(* end things (Keeps) or are begin and complete.  A step of the session    *)
(* that only ends things (AllKeep) leaves the parts of Inv about contexts, *)
(* handshakes, DELETEs and messages standing (the lemmas named ...Stays,   *)
(* PlainKeeps, RoutineKeeps).  Every action is then one lemma.             *)
(***************************************************************************)
EXTENDS RemoteMcp, TLAPS

-----------------------------------------------------------------------------
(* The inductive invariant *)

Marks    == [cancelled: BOOLEAN, started: BOOLEAN]
Pends    == UNION {[S -> Marks] : S \in SUBSET Calls}
Contexts ==
    [st: {"initializing", "awaiting", "ready"} \cup Dead, fault: BOOLEAN, native: BOOLEAN,
     token: BOOLEAN, closing: BOOLEAN, expired: BOOLEAN, lease: 0..2,
     next: 1..(MaxSerial + 1), pend: Pends]
States   == {"none", "open", "ready", "dispatching", "completed", "unknown", "stopped"}
PCs      == {"idle", "validated", "metadata", "marked", "read", "notifying", "cleaning",
             "local", "ended"} \cup InExchange

\* TypeOK, with the contexts and the tasks in full.
Types ==
    /\ ctxs \in Seq(Contexts) /\ Len(ctxs) <= MaxContexts
    /\ lease \in 0..2 /\ rv \in {"no", "operations", "contexts", "done"}
    /\ todo \subseteq Calls /\ sent \subseteq Records
    /\ pc \in [Calls -> PCs] /\ st \in [Calls -> States] /\ tok \in [Calls -> BOOLEAN]
    /\ at \in [Calls -> 0..Len(ctxs)] /\ meta \in [Calls -> 0..2]
    /\ victim \in [Calls -> Calls] /\ saw \in [Calls -> BOOLEAN]
    /\ child \in [Calls -> {"none", "new", "ready", "sent"}]

Initializers(c) == {j \in Pending(c) : Method[j] = "initialize"}
Notifiers(c)    == {j \in Pending(c) : Method[j] = "initialized"}

\* A context in itself: a dead one holds nothing, and the phase of a live one
\* is that of the one handshake exchange it waits for.
Sound(c) ==
    /\ c.st \in Dead => Pending(c) = {} /\ ~c.native
    /\ c.closing => c.st = "closed"
    /\ c.st = "initializing" => Initializers(c) # {}
    /\ Initializers(c) # {} => c.st = "initializing"
    /\ Notifiers(c) # {} => c.st = "awaiting"
    /\ \A i, j \in Pending(c) : Method[i] = Method[j] /\ Method[i] \in Handshake => i = j

\* Every pending exchange is one of a running call, of this context.
Linked ==
    /\ \A i \in 1..Cur : Sound(ctxs[i])
    /\ \A i \in 1..Cur : \A j \in Pending(ctxs[i]) : at[j] = i /\ pc[j] \in InExchange

\* Where a call may stand, by its method, its context and its status.
Places ==
    \A k \in Calls :
       /\ pc[k] \in {"idle", "validated", "metadata"} => at[k] = 0
       /\ pc[k] = "metadata" => IsExchange(k)
       /\ pc[k] \in InExchange => IsExchange(k) /\ at[k] # 0
       /\ pc[k] \in {"marked", "read", "notifying"} => Method[k] \in {"cancel", "abort"}
       /\ pc[k] = "cleaning" => Method[k] = "delete"
       /\ pc[k] = "local" => Method[k] \in {"cancel", "delete"}
       /\ child[k] # "none" =>
            pc[k] = IF Method[k] \in {"cancel", "abort"} THEN "notifying"
                    ELSE IF Method[k] = "delete" THEN "cleaning" ELSE "pinging"
       /\ victim[k] # k => pc[k] \in {"marked", "read", "notifying"}

Statuses ==
    /\ \A k \in Calls :
         /\ pc[k] = "idle" => st[k] = "none"
         /\ st[k] = "none" => pc[k] = "idle" \/ Method[k] = "abort"
         /\ st[k] = "completed" => pc[k] = "ended"
         /\ st[k] = "dispatching" => pc[k] \in Transmitted
         /\ pc[k] \in {"marked", "read"} => st[victim[k]] # "none"
    /\ \A k \in todo : st[k] # "none"

\* Some operation has completed this part of the handshake of context i.
Done(m, i) == \E j \in Calls : Method[j] = m /\ at[j] = i /\ st[j] = "completed"

Shaken ==
    /\ \A i \in 1..Cur :
         /\ ctxs[i].st \in {"awaiting", "ready"} => Done("initialize", i)
         /\ ctxs[i].st \notin Dead => (ctxs[i].st = "ready" <=> Done("initialized", i))
    /\ \A k \in Calls : pc[k] \in InExchange /\ Method[k] = "call" =>
         Done("initialize", at[k]) /\ Done("initialized", at[k])
    /\ CallsAfterHandshake

\* The DELETE of a context belongs to the one call that found it native.
Deletes ==
    /\ \A k \in Calls : pc[k] = "cleaning" => at[k] = Cur /\ at[k] # 0 /\ ctxs[at[k]].closing
    /\ \A k \in Calls : Method[k] = "delete" /\ at[k] # 0 => ctxs[at[k]].st = "closed"
    /\ \A j, k \in Calls :
         Method[j] = "delete" /\ Method[k] = "delete" /\ at[j] = at[k] /\ at[j] # 0 => j = k
    /\ \A x \in sent : x.kind = "delete" =>
         Method[x.by] = "delete" /\ x.ctx = at[x.by] /\ x.subject = x.by

\* A call that has won the mark of its victim, and may tell the server.
Claims(k) == pc[k] \in {"marked", "read", "notifying"} /\ at[k] # 0

Request(j, i) == [kind |-> "request", ctx |-> i, subject |-> j, by |-> j]

\* An exchange that can no longer complete, because its mark was won.
Doomed(j) ==
    /\ IsExchange(j) /\ at[j] # 0 /\ st[j] # "completed"
    /\ j \in Pending(ctxs[at[j]]) => ctxs[at[j]].pend[j].cancelled

Claimed ==
    /\ \A k \in Calls : Claims(k) =>
         /\ Doomed(victim[k]) /\ at[victim[k]] = at[k] /\ Method[victim[k]] \notin Handshake
         /\ pc[k] = "read" /\ saw[k] =>
              Request(victim[k], at[k]) \in sent /\ st[victim[k]] \in {"dispatching", "unknown"}
         /\ pc[k] = "notifying" =>
              Request(victim[k], at[k]) \in sent /\ st[victim[k]] = "unknown"
    /\ \A j, k \in Calls : Claims(j) /\ Claims(k) /\ victim[j] = victim[k] => j = k
    /\ \A k \in Calls : pc[k] = "notifying" => at[k] # 0
    /\ \A k \in Calls : st[k] = "dispatching" => Request(k, at[k]) \in sent

Told_once ==
    /\ \A x \in sent : x.kind = "cancel" =>
         /\ x.ctx = at[x.by] /\ Method[x.by] \in {"cancel", "abort"}
         /\ \/ pc[x.by] \in {"local", "ended"}
            \/ pc[x.by] = "notifying" /\ child[x.by] = "sent" /\ victim[x.by] = x.subject
         /\ Doomed(x.subject) /\ Request(x.subject, x.ctx) \in sent
         /\ Method[x.subject] \notin Handshake /\ st[x.subject] = "unknown"
    /\ \A x \in sent, k \in Calls :
         x.kind = "cancel" /\ Claims(k) /\ victim[k] = x.subject => x.by = k
    /\ \A x, y \in sent :
         x.kind = "cancel" /\ y.kind = "cancel" /\ x.subject = y.subject => x = y

Inv ==
    /\ Types /\ Linked /\ Places /\ Statuses /\ Shaken
    /\ Deletes /\ Claimed /\ Told_once /\ RevokedContextsDead

-----------------------------------------------------------------------------
(* One context *)

\* What a pending map is.
LEMMA PendFacts ==
    ASSUME NEW p \in Pends
    PROVE  DOMAIN p \subseteq Calls /\ \A j \in DOMAIN p : p[j] \in Marks
BY DEF Pends

\* A function from some calls to marks is a pending map.
LEMMA PendMade ==
    ASSUME NEW S, S \subseteq Calls, NEW p \in [S -> Marks]
    PROVE  p \in Pends /\ DOMAIN p = S
BY DEF Pends

\* A step that only ends things: the context stands where it stood or is dead,
\* and no mark, token or closure is taken back.
Keeps(c, d) ==
    /\ d \in Contexts /\ Sound(d)
    /\ d.st = c.st \/ d.st \in Dead
    /\ c.st = "closed" => d.st = "closed"
    /\ c.token => d.token
    /\ Pending(d) \subseteq Pending(c)
    /\ \A j \in Pending(d) : c.pend[j].cancelled => d.pend[j].cancelled

Steady(c, d) == Keeps(c, d) /\ d.closing = c.closing

\* A sound context keeps itself.
LEMMA KeepsItself ==
    ASSUME NEW c \in Contexts, Sound(c)
    PROVE  Steady(c, c)
BY DEF Steady, Keeps

\* To end things twice is to end things.
LEMMA KeepsOn ==
    ASSUME NEW c, NEW d, NEW e, Keeps(c, d), Keeps(d, e)
    PROVE  Keeps(c, e)
BY DEF Keeps, Dead

\* The same, with the closing flag left alone.
LEMMA SteadyOn ==
    ASSUME NEW c, NEW d, NEW e, Steady(c, d), Steady(d, e)
    PROVE  Steady(c, e)
BY KeepsOn DEF Steady

\* Context::invalidate and what is built on it.
LEMMA invalidateKeeps ==
    ASSUME NEW c \in Contexts, Sound(c)
    PROVE  Steady(c, invalidate(c)) /\ invalidate(c).st \in Dead
<1>1. NoPending \in Pends /\ DOMAIN NoPending = {}
  <2>1. NoPending \in [{} -> Marks] /\ DOMAIN NoPending = {}
    BY DEF NoPending
  <2> QED
    BY <2>1, PendMade
<1>2. /\ invalidate(c) \in Contexts
      /\ invalidate(c).st = IF c.st = "closed" THEN "closed" ELSE "invalid"
      /\ invalidate(c).native = FALSE /\ invalidate(c).pend = NoPending
      /\ invalidate(c).token = c.token /\ invalidate(c).closing = c.closing
  BY <1>1 DEF invalidate, Contexts, Dead
<1> HIDE DEF invalidate
<1>3. Pending(invalidate(c)) = {}
  BY <1>1, <1>2 DEF Pending
<1>4. Sound(invalidate(c))
  BY <1>2, <1>3 DEF Sound, Initializers, Notifiers, Dead
<1> QED
  BY <1>2, <1>3, <1>4 DEF Steady, Keeps, Dead

\* A token may be set on any context.
LEMMA TokenKeeps ==
    ASSUME NEW c \in Contexts, Sound(c)
    PROVE  LET d == [c EXCEPT !.token = TRUE]
           IN Steady(c, d) /\ d.st = c.st /\ d.token /\ d.pend = c.pend
<1> DEFINE d == [c EXCEPT !.token = TRUE]
<1>1. /\ d \in Contexts /\ d.st = c.st /\ d.token /\ d.pend = c.pend /\ d.closing = c.closing
      /\ d.native = c.native
  BY DEF Contexts
<1> HIDE DEF d
<1>2. Sound(d)
  BY <1>1 DEF Sound, Initializers, Notifiers, Pending
<1>3. Steady(c, d)
  BY <1>1, <1>2 DEF Steady, Keeps, Pending
<1> QED
  BY <1>1, <1>3 DEF d

\* Binding::invalidate: the context is dead and its token set.
LEMMA RetiredKeeps ==
    ASSUME NEW c \in Contexts, Sound(c)
    PROVE  Steady(c, Retired(c)) /\ Retired(c).st \in Dead /\ Retired(c).token
<1>1. invalidate(c) \in Contexts /\ Sound(invalidate(c))
  BY invalidateKeeps DEF Steady, Keeps
<1> QED
  BY <1>1, invalidateKeeps, TokenKeeps, SteadyOn DEF Retired

\* Context::expire.
LEMMA AgedKeeps ==
    ASSUME NEW c \in Contexts, Sound(c)
    PROVE  Steady(c, Aged(c))
BY invalidateKeeps, KeepsItself DEF Aged

\* Binding::check.
LEMMA CheckedKeeps ==
    ASSUME NEW c \in Contexts, Sound(c)
    PROVE  Steady(c, Checked(c))
BY RetiredKeeps, KeepsItself DEF Checked

\* A dead context is made known.
LEMMA ToldKeeps ==
    ASSUME NEW c \in Contexts, Sound(c)
    PROVE  Steady(c, Told(c)) /\ Pending(Told(c)) \subseteq Pending(c)
<1>1. Aged(c) \in Contexts /\ Sound(Aged(c)) /\ Steady(c, Aged(c))
  BY AgedKeeps DEF Steady, Keeps
<1>2. Steady(c, Told(c))
  BY <1>1, TokenKeeps, SteadyOn, KeepsItself DEF Told
<1> QED
  BY <1>2 DEF Steady, Keeps

\* A context without one of its exchanges.
LEMMA WithoutTypes ==
    ASSUME NEW c \in Contexts, NEW k
    PROVE  /\ Without(c, k) \in Pends /\ DOMAIN Without(c, k) = Pending(c) \ {k}
           /\ \A j \in Pending(c) \ {k} : Without(c, k)[j] = c.pend[j]
<1>1. c.pend \in Pends
  BY DEF Contexts
<1>2. Pending(c) \ {k} \subseteq Calls /\ \A j \in Pending(c) : c.pend[j] \in Marks
  BY <1>1, PendFacts DEF Pending
<1>3. Without(c, k) \in [Pending(c) \ {k} -> Marks]
  BY <1>2 DEF Without
<1> QED
  BY <1>2, <1>3, PendMade DEF Without

\* Context::abandon: the exchange is gone, and with a handshake the context.
LEMMA abandonKeeps ==
    ASSUME NEW c \in Contexts, Sound(c), NEW k
    PROVE  Steady(c, abandon(c, k)) /\ k \notin Pending(abandon(c, k))
<1>1. CASE k \notin Pending(c)
  BY <1>1, KeepsItself DEF abandon
<1>2. CASE k \in Pending(c) /\ Method[k] \in Handshake
  <2>1. invalidate(c).st \in Dead /\ Sound(invalidate(c))
    BY invalidateKeeps DEF Steady, Keeps
  <2>2. k \notin Pending(invalidate(c))
    BY <2>1 DEF Sound
  <2> QED
    BY <1>2, <2>2, invalidateKeeps DEF abandon
<1>3. CASE k \in Pending(c) /\ Method[k] \notin Handshake
  <2> DEFINE d == [c EXCEPT !.pend = Without(c, k)]
  <2>1. abandon(c, k) = d
    BY <1>3 DEF abandon
  <2>2. /\ d \in Contexts /\ d.st = c.st /\ d.pend = Without(c, k) /\ d.native = c.native
        /\ d.token = c.token /\ d.closing = c.closing
    BY WithoutTypes DEF Contexts
  <2> HIDE DEF d
  <2>3. Pending(d) = Pending(c) \ {k} /\ \A j \in Pending(d) : d.pend[j] = c.pend[j]
    BY <2>2, WithoutTypes DEF Pending
  <2>4. Initializers(d) = Initializers(c) /\ Notifiers(d) = Notifiers(c)
    BY <1>3, <2>3 DEF Initializers, Notifiers, Handshake
  <2>5. Sound(d)
    BY <2>2, <2>3, <2>4 DEF Sound
  <2> QED
    BY <2>1, <2>2, <2>3, <2>5 DEF Steady, Keeps
<1> QED
  BY <1>1, <1>2, <1>3

\* Rewriting the marks of one pending exchange.
Remarked(c, k, m) == [c EXCEPT !.pend = [c.pend EXCEPT ![k] = m]]

\* It keeps the context.
LEMMA MarkWrites ==
    ASSUME NEW c \in Contexts, Sound(c), NEW k \in Pending(c), NEW m \in Marks,
           c.pend[k].cancelled => m.cancelled
    PROVE  /\ Steady(c, Remarked(c, k, m)) /\ Remarked(c, k, m).st = c.st
           /\ Remarked(c, k, m).pend[k] = m
<1> DEFINE d == Remarked(c, k, m)
<1>1. c.pend \in Pends
  BY DEF Contexts
<1>2. Pending(c) \subseteq Calls /\ c.pend \in [Pending(c) -> Marks]
  BY <1>1, PendFacts DEF Pending, Pends
<1> DEFINE p == [c.pend EXCEPT ![k] = m]
<1>3. p \in [Pending(c) -> Marks]
  BY <1>2
<1>4. p \in Pends /\ DOMAIN p = Pending(c)
  BY <1>2, <1>3, PendMade
<1>5. /\ p[k] = m /\ \A j \in Pending(c) : j # k => p[j] = c.pend[j]
  BY <1>2
<1> HIDE DEF p
<1>6. /\ d \in Contexts /\ d.st = c.st /\ d.pend = p /\ d.native = c.native
      /\ d.token = c.token /\ d.closing = c.closing
  BY <1>4 DEF Contexts, Remarked, p
<1> HIDE DEF d
<1>7. Pending(d) = Pending(c) /\ Initializers(d) = Initializers(c) /\ Notifiers(d) = Notifiers(c)
  BY <1>4, <1>6 DEF Pending, Initializers, Notifiers
<1>8. Sound(d)
  BY <1>6, <1>7 DEF Sound
<1> QED
  BY <1>5, <1>6, <1>7, <1>8 DEF Steady, Keeps, d

\* Context::start_response.
LEMMA start_responseKeeps ==
    ASSUME NEW c \in Contexts, Sound(c), NEW k \in Pending(c)
    PROVE  Steady(c, start_response(c, k))
<1>1. c.pend[k] \in Marks
  BY PendFacts DEF Contexts, Pending
<1> DEFINE m == [c.pend[k] EXCEPT !.started = TRUE]
<1>2. m \in Marks /\ m.cancelled = c.pend[k].cancelled
  BY <1>1 DEF Marks
<1>3. start_response(c, k) = Remarked(c, k, m)
  BY DEF start_response, Remarked, Contexts
<1> HIDE DEF m
<1> QED
  BY <1>2, <1>3, MarkWrites

\* Context::cancel_serial: the first mark is there afterwards.
LEMMA MarkedKeeps ==
    ASSUME NEW c \in Contexts, Sound(c), NEW k
    PROVE  /\ Steady(c, Marked(c, k)) /\ Marked(c, k).st = c.st
           /\ FirstMark(c, k) => Marked(c, k).pend[k].cancelled
<1>1. CASE k \in Pending(c) /\ Id[k] # NoId
  <2>1. c.pend[k] \in Marks
    BY <1>1, PendFacts DEF Contexts, Pending
  <2> DEFINE m == [c.pend[k] EXCEPT !.cancelled = TRUE]
  <2>2. m \in Marks /\ m.cancelled
    BY <2>1 DEF Marks
  <2>3. Marked(c, k) = Remarked(c, k, m)
    BY <1>1 DEF Marked, Remarked, Contexts
  <2> HIDE DEF m
  <2> QED
    BY <1>1, <2>2, <2>3, MarkWrites
<1>2. CASE ~(k \in Pending(c) /\ Id[k] # NoId)
  BY <1>2, KeepsItself DEF Marked, FirstMark
<1> QED
  BY <1>1, <1>2

\* Context::cancel_operation.
LEMMA cancel_operationKeeps ==
    ASSUME NEW c \in Contexts, Sound(c), NEW k
    PROVE  /\ Steady(c, cancel_operation(c, k))
           /\ FirstMark(c, k) /\ Method[k] \notin Handshake =>
                cancel_operation(c, k) = Marked(c, k)
BY invalidateKeeps, MarkedKeeps DEF cancel_operation

\* Context::close, and the closing flag of a context that is closed.
LEMMA closeKeeps ==
    ASSUME NEW c \in Contexts, Sound(c)
    PROVE  Steady(c, close(c)) /\ close(c).st = "closed"
<1>1. Retired(c) \in Contexts /\ Sound(Retired(c)) /\ Steady(c, Retired(c)) /\ Retired(c).st \in Dead
  BY RetiredKeeps DEF Steady, Keeps
<1> DEFINE e == Retired(c)
           d == [e EXCEPT !.st = "closed"]
<1> HIDE DEF e
<1>2. e \in Contexts
  BY <1>1 DEF e
<1>3. /\ d \in Contexts /\ d.st = "closed" /\ d.pend = e.pend /\ d.native = e.native
      /\ d.token = e.token /\ d.closing = e.closing
  BY <1>2 DEF Contexts, Dead
<1> HIDE DEF d
<1>4. Pending(d) = {} /\ ~d.native
  BY <1>1, <1>3 DEF Sound, Pending, e
<1>5. Sound(d)
  BY <1>3, <1>4 DEF Sound, Initializers, Notifiers, Dead
<1>6. Steady(e, d)
  BY <1>3, <1>4, <1>5 DEF Steady, Keeps, Dead
<1>7. close(c) = d
  BY DEF close, d, e
<1> QED
  BY <1>1, <1>3, <1>6, <1>7, SteadyOn DEF e

\* The closing flag may be cleared, and set on a closed context.
LEMMA ClosingWrites ==
    ASSUME NEW c \in Contexts, Sound(c), NEW b \in BOOLEAN, b => c.st = "closed", NEW d,
           d = [c EXCEPT !.closing = b]
    PROVE  Keeps(c, d) /\ d.closing = b /\ d.st = c.st
<1>1. /\ d \in Contexts /\ d.st = c.st /\ d.pend = c.pend /\ d.native = c.native
      /\ d.token = c.token /\ d.closing = b
  BY DEF Contexts
<1>2. Sound(d)
  BY <1>1 DEF Sound, Initializers, Notifiers, Pending
<1> QED
  BY <1>1, <1>2 DEF Keeps, Pending

\* Context::begin, on a context that admits k.
LEMMA beginAdmits ==
    ASSUME NEW c \in Contexts, Sound(c), NEW k \in Calls, k \notin Pending(c), c.st \notin Dead,
           Admits(c, k), IsExchange(k)
    PROVE  /\ begin(c, k) \in Contexts /\ Sound(begin(c, k))
           /\ begin(c, k).st = c.st /\ begin(c, k).token = c.token
           /\ begin(c, k).closing = c.closing
           /\ Pending(begin(c, k)) = Pending(c) \cup {k}
           /\ \A j \in Pending(c) : begin(c, k).pend[j] = c.pend[j]
           /\ Method[k] # "initialize"
           /\ Method[k] = "call" => c.st = "ready"
<1>1. c.pend \in Pends /\ c.next \in 1..(MaxSerial + 1) /\ c.next <= MaxSerial
  BY DEF Contexts, Admits
<1>2. Pending(c) \subseteq Calls /\ \A j \in Pending(c) : c.pend[j] \in Marks
  BY <1>1, PendFacts DEF Pending
<1> DEFINE p == [j \in Pending(c) \cup {k} |->
                   IF j = k THEN [cancelled |-> FALSE, started |-> FALSE] ELSE c.pend[j]]
<1>3. p \in [Pending(c) \cup {k} -> Marks]
  BY <1>2 DEF Marks
<1>4. p \in Pends /\ DOMAIN p = Pending(c) \cup {k} /\ \A j \in Pending(c) : p[j] = c.pend[j]
  BY <1>2, <1>3, PendMade
<1>5. Method[k] # "initialize"
  BY DEF Admits, InState, Contexts, Dead
<1>6. begin(c, k) = [c EXCEPT !.next = c.next + 1, !.pend = p]
  BY <1>5 DEF begin, Contexts
<1>7. c.next + 1 \in 1..(MaxSerial + 1)
  BY <1>1, RemoteAssumption
<1> HIDE DEF p
<1> DEFINE d == begin(c, k)
<1>8. /\ d \in Contexts /\ d.st = c.st /\ d.pend = p /\ d.native = c.native
      /\ d.token = c.token /\ d.closing = c.closing
  BY <1>4, <1>6, <1>7 DEF Contexts
<1> HIDE DEF d
<1>9. Pending(d) = Pending(c) \cup {k} /\ Initializers(d) = Initializers(c)
  BY <1>4, <1>5, <1>8 DEF Pending, Initializers
<1>10. Sound(d)
  <2>1. Method[k] = "initialized" => c.st = "awaiting" /\ Notifiers(c) = {}
    BY DEF Admits, InState, Notifiers
  <2>2. Notifiers(d) # {} => d.st = "awaiting"
    BY <1>8, <1>9, <2>1 DEF Sound, Notifiers
  <2>3. \A i, j \in Pending(d) : Method[i] = Method[j] /\ Method[i] \in Handshake => i = j
    BY <1>5, <1>9, <2>1 DEF Sound, Notifiers, Handshake
  <2> QED
    BY <1>8, <1>9, <2>2, <2>3 DEF Sound
<1>11. Method[k] = "call" => c.st = "ready"
  BY DEF Admits, InState
<1> QED
  BY <1>4, <1>5, <1>8, <1>9, <1>10, <1>11 DEF d

\* A new context begins with the Initialize it was made for.
LEMMA beginFresh ==
    ASSUME NEW k \in Calls, Method[k] = "initialize", NEW l \in 0..2
    PROVE  LET d == begin(NewContext(l), k)
           IN /\ d \in Contexts /\ Sound(d) /\ d.st = "initializing"
              /\ Pending(d) = {k} /\ ~d.token /\ ~d.closing
<1> DEFINE d == begin(NewContext(l), k)
           p == [j \in {k} |-> [cancelled |-> FALSE, started |-> FALSE]]
<1>1. DOMAIN NoPending = {}
  BY DEF NoPending
<1>2. p \in Pends /\ DOMAIN p = {k}
  <2>1. p \in [{k} -> Marks]
    BY DEF Marks
  <2> QED
    BY <2>1, PendMade
<1>3. /\ d.st = "initializing" /\ d.next = 2 /\ d.pend = p
      /\ d = [NewContext(l) EXCEPT !.st = "initializing", !.next = 2, !.pend = p]
  <2> DEFINE n == NewContext(l)
             q == [j \in Pending(n) \cup {k} |->
                     IF j = k THEN [cancelled |-> FALSE, started |-> FALSE] ELSE n.pend[j]]
  <2>1. Pending(n) = {} /\ n.next = 1
    BY <1>1 DEF NewContext, Pending
  <2>2. q = p
    BY <2>1
  <2>3. d = [n EXCEPT !.st = "initializing", !.next = n.next + 1, !.pend = q]
    BY DEF begin, NewContext
  <2> HIDE DEF n, p, q, d
  <2>4. d = [n EXCEPT !.st = "initializing", !.next = 2, !.pend = p]
    BY <2>1, <2>2, <2>3
  <2> QED
    BY <2>4 DEF NewContext, n
<1>4. 2 \in 1..(MaxSerial + 1)
  BY RemoteAssumption
<1> HIDE DEF p
<1>5. d \in Contexts /\ ~d.token /\ ~d.closing
  BY <1>2, <1>3, <1>4 DEF Contexts, NewContext
<1> HIDE DEF d
<1>6. Pending(d) = {k}
  BY <1>2, <1>3 DEF Pending
<1>7. Sound(d)
  BY <1>3, <1>5, <1>6 DEF Sound, Initializers, Notifiers, Dead
<1> QED
  BY <1>3, <1>5, <1>6, <1>7 DEF d

\* Context::complete of a valid exchange: the phase moves on, or the context
\* ends, and no other exchange is touched.
LEMMA completeMoves ==
    ASSUME NEW c \in Contexts, Sound(c), NEW k \in Pending(c), c.st \notin Dead, IsExchange(k),
           NEW r \in {"error", "stateless", "session"}
    PROVE  /\ complete(c, k, r) \in Contexts /\ Sound(complete(c, k, r))
           /\ Pending(complete(c, k, r)) \subseteq Pending(c) \ {k}
           /\ \A j \in Pending(complete(c, k, r)) : complete(c, k, r).pend[j] = c.pend[j]
           /\ complete(c, k, r).closing = c.closing
           /\ c.token => complete(c, k, r).token
           /\ \/ complete(c, k, r).st \in Dead /\ Method[k] # "initialized"
              \/ /\ Method[k] = "initialize" /\ c.st = "initializing"
                 /\ complete(c, k, r).st = "awaiting"
              \/ /\ Method[k] = "initialized" /\ c.st = "awaiting"
                 /\ complete(c, k, r).st = "ready"
              \/ Method[k] \notin Handshake /\ complete(c, k, r).st = c.st
<1> DEFINE d == [c EXCEPT !.pend = Without(c, k)]
<1>1. /\ d \in Contexts /\ d.st = c.st /\ d.pend = Without(c, k) /\ d.native = c.native
      /\ d.token = c.token /\ d.closing = c.closing
  BY WithoutTypes DEF Contexts
<1> HIDE DEF d
<1>2. Pending(d) = Pending(c) \ {k} /\ \A j \in Pending(d) : d.pend[j] = c.pend[j]
  <2>1. DOMAIN Without(c, k) = Pending(c) \ {k}
        /\ \A j \in Pending(c) \ {k} : Without(c, k)[j] = c.pend[j]
    BY WithoutTypes
  <2> QED
    BY <1>1, <2>1 DEF Pending
<1>3. /\ Method[k] = "initialize" => c.st = "initializing" /\ Initializers(d) = {}
      /\ Method[k] = "initialized" => c.st = "awaiting" /\ Notifiers(d) = {}
  BY <1>2 DEF Sound, Initializers, Notifiers, Handshake
<1>4. ~d.closing
  BY <1>1 DEF Sound, Dead
<1>5. CASE Method[k] = "initialize" /\ r = "error"
  <2>1. complete(c, k, r) = invalidate(d)
    BY <1>5 DEF complete, d
  <2>2. NoPending \in Pends /\ DOMAIN NoPending = {}
    <3>1. NoPending \in [{} -> Marks] /\ DOMAIN NoPending = {}
      BY DEF NoPending
    <3> QED
      BY <3>1, PendMade
  <2> DEFINE e == invalidate(d)
  <2>3. /\ e \in Contexts /\ e.st \in Dead /\ e.native = FALSE /\ e.pend = NoPending
        /\ e.token = d.token /\ e.closing = d.closing
    BY <1>1, <2>2 DEF invalidate, Contexts, Dead
  <2> HIDE DEF e
  <2>4. Pending(e) = {}
    BY <2>2, <2>3 DEF Pending
  <2>5. Sound(e)
    BY <1>4, <2>3, <2>4 DEF Sound, Initializers, Notifiers, Dead
  <2> QED
    BY <1>1, <1>5, <2>1, <2>3, <2>4, <2>5 DEF e
<1>6. CASE Method[k] = "initialize" /\ r # "error"
  <2> DEFINE e == [d EXCEPT !.st = "awaiting", !.native = (r = "session")]
  <2>1. complete(c, k, r) = e
    BY <1>6 DEF complete, d
  <2>2. /\ e \in Contexts /\ e.st = "awaiting" /\ e.pend = d.pend
        /\ e.token = d.token /\ e.closing = d.closing
    BY <1>1 DEF Contexts
  <2> HIDE DEF e
  <2>3. Pending(e) = Pending(d) /\ Initializers(e) = {}
    BY <1>3, <1>6, <2>2 DEF Pending, Initializers
  <2>4. Notifiers(e) = {} /\ \A i, j \in Pending(e) : Method[i] = Method[j] /\ Method[i] \in Handshake => i = j
    BY <1>2, <1>3, <1>6, <2>3 DEF Sound, Notifiers
  <2>5. Sound(e)
    BY <1>4, <2>2, <2>3, <2>4 DEF Sound, Dead
  <2> QED
    BY <1>1, <1>2, <1>3, <1>6, <2>1, <2>2, <2>3, <2>5
<1>7. CASE Method[k] = "initialized"
  <2> DEFINE e == [d EXCEPT !.st = "ready"]
  <2>1. complete(c, k, r) = e
    BY <1>7 DEF complete, d
  <2>2. /\ e \in Contexts /\ e.st = "ready" /\ e.pend = d.pend /\ e.native = d.native
        /\ e.token = d.token /\ e.closing = d.closing
    BY <1>1 DEF Contexts
  <2> HIDE DEF e
  <2>3. Pending(e) = Pending(d) /\ Notifiers(e) = {}
    BY <1>3, <1>7, <2>2 DEF Pending, Notifiers
  <2>4. Initializers(e) = {} /\ \A i, j \in Pending(e) : Method[i] = Method[j] /\ Method[i] \in Handshake => i = j
    BY <1>2, <1>3, <1>7, <2>3 DEF Sound, Initializers
  <2>5. Sound(e)
    BY <1>4, <2>2, <2>3, <2>4 DEF Sound, Dead
  <2> QED
    BY <1>1, <1>2, <1>3, <1>7, <2>1, <2>2, <2>3, <2>5
<1>8. CASE Method[k] \notin Handshake
  <2>1. complete(c, k, r) = d
    BY <1>8 DEF complete, d, Handshake
  <2>2. Initializers(d) = Initializers(c) /\ Notifiers(d) = Notifiers(c)
    BY <1>2, <1>8 DEF Initializers, Notifiers, Handshake
  <2>3. Sound(d)
    BY <1>1, <1>2, <2>2 DEF Sound
  <2> QED
    BY <1>1, <1>2, <1>8, <2>1, <2>3
<1> QED
  BY <1>5, <1>6, <1>7, <1>8 DEF Handshake

-----------------------------------------------------------------------------
(* The contexts of the session *)

\* All contexts, after a step that only ends things.
AllKeep(cs) ==
    /\ cs \in Seq(Contexts) /\ Len(cs) = Len(ctxs)
    /\ \A i \in 1..Cur : Keeps(ctxs[i], cs[i])

\* The same, with the closing flags left alone.
AllSteady(cs) ==
    /\ cs \in Seq(Contexts) /\ Len(cs) = Len(ctxs)
    /\ \A i \in 1..Cur : Steady(ctxs[i], cs[i])

\* What the invariant says of each context.
LEMMA ContextFacts ==
    ASSUME Types, Linked
    PROVE  /\ ctxs \in Seq(Contexts) /\ Cur \in Nat /\ Cur = Len(ctxs)
           /\ \A i \in 1..Cur : ctxs[i] \in Contexts /\ Sound(ctxs[i])
BY DEF Types, Linked, Cur

\* Contexts left alone.
LEMMA SteadySame ==
    ASSUME Types, Linked
    PROVE  AllSteady(ctxs)
BY ContextFacts, KeepsItself DEF AllSteady, Cur

\* One context that only ends things, the others left alone.
LEMMA SteadyAt ==
    ASSUME Types, Linked, NEW i \in 1..Cur, NEW d, Steady(ctxs[i], d)
    PROVE  AllSteady([ctxs EXCEPT ![i] = d])
<1>1. d \in Contexts
  BY DEF Steady, Keeps
<1>2. \A n \in 1..Cur : Steady(ctxs[n], ctxs[n])
  BY SteadySame DEF AllSteady
<1> QED
  BY <1>1, <1>2, ContextFacts DEF AllSteady, Cur

\* All contexts retired.
LEMMA SteadyRetired ==
    ASSUME Types, Linked
    PROVE  /\ AllSteady([i \in 1..Cur |-> Retired(ctxs[i])])
           /\ \A i \in 1..Cur : Retired(ctxs[i]).st \in Dead /\ Retired(ctxs[i]).token
<1>1. \A i \in 1..Cur : Steady(ctxs[i], Retired(ctxs[i])) /\ Retired(ctxs[i]).st \in Dead
                        /\ Retired(ctxs[i]).token /\ Retired(ctxs[i]) \in Contexts
  BY ContextFacts, RetiredKeeps DEF Steady, Keeps
<1> QED
  BY <1>1, ContextFacts DEF AllSteady, Cur

\* What Guard::fail leaves of the contexts: k is pending in none of them, and
\* the barrier of a DELETE that fails is gone.
LEMMA ReleasedKeeps ==
    ASSUME Types, Linked, Places, NEW k \in Calls, NEW cs, AllSteady(cs)
    PROVE  /\ AllKeep(Released(cs, k))
           /\ \A i \in 1..Cur : k \notin Pending(Released(cs, k)[i])
           /\ \A i \in 1..Cur :
                ~(pc[k] = "cleaning" /\ i = at[k]) =>
                   Released(cs, k)[i].closing = ctxs[i].closing
<1> DEFINE ds == Released(cs, k)
<1>0. /\ Len(cs) = Cur /\ Cur \in Nat /\ at[k] \in 0..Cur
      /\ \A i \in 1..Cur : cs[i] \in Contexts /\ Sound(cs[i]) /\ Steady(ctxs[i], cs[i])
  <2>1. Len(cs) = Cur /\ Cur \in Nat /\ at[k] \in 0..Cur
    BY DEF AllSteady, Types, Cur
  <2>2. \A i \in 1..Cur : Steady(ctxs[i], cs[i])
    BY DEF AllSteady
  <2> QED
    BY <2>1, <2>2 DEF Steady, Keeps
<1>1. \A i \in 1..Cur : k \in Pending(cs[i]) => at[k] = i /\ IsExchange(k)
  BY <1>0 DEF Steady, Keeps, Linked, Places
<1>2. CASE at[k] = 0 \/ (~IsExchange(k) /\ ~(Method[k] = "delete" /\ pc[k] = "cleaning"))
  <2>1. ds = cs
    BY <1>2 DEF Released
  <2> QED
    BY <1>0, <1>1, <1>2, <2>1 DEF AllSteady, AllKeep, Steady
<1>3. CASE at[k] # 0 /\ IsExchange(k)
  <2> DEFINE c == cs[at[k]]
             d == Told(abandon(c, k))
  <2>1. c \in Contexts /\ Sound(c) /\ Steady(ctxs[at[k]], c)
    BY <1>0, <1>3
  <2>2. Steady(c, abandon(c, k)) /\ k \notin Pending(abandon(c, k))
    BY <2>1, abandonKeeps
  <2>3. Steady(abandon(c, k), d) /\ Pending(d) \subseteq Pending(abandon(c, k))
    BY <2>2, ToldKeeps DEF Steady, Keeps
  <2>4. Steady(ctxs[at[k]], d) /\ k \notin Pending(d) /\ d \in Contexts
    <3>1. Steady(c, d)
      BY <2>2, <2>3, SteadyOn
    <3>2. Steady(ctxs[at[k]], d)
      BY <2>1, <3>1, SteadyOn
    <3> QED
      BY <2>2, <2>3, <3>2 DEF Steady, Keeps
  <2>5. ds = [cs EXCEPT ![at[k]] = d]
    BY <1>3 DEF Released
  <2> HIDE DEF ds, d, c
  <2>6. /\ ds \in Seq(Contexts) /\ Len(ds) = Cur
        /\ \A i \in 1..Cur : ds[i] = IF i = at[k] THEN d ELSE cs[i]
    BY <1>0, <1>3, <2>4, <2>5 DEF AllSteady
  <2>7. \A i \in 1..Cur : Steady(ctxs[i], ds[i]) /\ k \notin Pending(ds[i])
    BY <1>0, <1>1, <2>4, <2>6
  <2> QED
    BY <2>6, <2>7 DEF AllKeep, Steady, Cur, ds
<1>4. CASE at[k] # 0 /\ ~IsExchange(k) /\ Method[k] = "delete" /\ pc[k] = "cleaning"
  <2> DEFINE c == cs[at[k]]
             d == [c EXCEPT !.closing = FALSE]
  <2>1. c \in Contexts /\ Sound(c) /\ Steady(ctxs[at[k]], c)
    BY <1>0, <1>4
  <2>2. Keeps(c, d)
    <3>1. d = [c EXCEPT !.closing = FALSE]
      OBVIOUS
    <3> HIDE DEF d, c
    <3>2. FALSE \in BOOLEAN /\ (FALSE => c.st = "closed")
      OBVIOUS
    <3> QED
      BY <2>1, <3>1, <3>2, ClosingWrites
  <2>3. Keeps(ctxs[at[k]], d) /\ d \in Contexts /\ Pending(d) \subseteq Pending(c)
    BY <2>1, <2>2, KeepsOn DEF Steady, Keeps
  <2>4. ds = [cs EXCEPT ![at[k]] = d]
    BY <1>4 DEF Released
  <2> HIDE DEF ds, d, c
  <2>5. /\ ds \in Seq(Contexts) /\ Len(ds) = Cur
        /\ \A i \in 1..Cur : ds[i] = IF i = at[k] THEN d ELSE cs[i]
    BY <1>0, <1>4, <2>3, <2>4 DEF AllSteady
  <2>6. \A i \in 1..Cur : Keeps(ctxs[i], ds[i]) /\ (i # at[k] => ds[i].closing = ctxs[i].closing)
    BY <1>0, <2>3, <2>5 DEF Steady
  <2>7. \A i \in 1..Cur : k \notin Pending(ds[i])
    BY <1>0, <1>1, <1>4, <2>3, <2>5 DEF c
  <2> QED
    BY <1>4, <2>5, <2>6, <2>7 DEF AllKeep, Cur, ds
<1> QED
  BY <1>2, <1>3, <1>4

-----------------------------------------------------------------------------
(* What steps have in common *)

\* No step takes back a context, a message or an end.
Extends ==
    /\ sent \subseteq sent'
    /\ \A j \in Calls :
         /\ at[j] # 0 => at'[j] = at[j]
         /\ terminal(st[j]) => st'[j] = st[j]
         /\ st[j] = "dispatching" => st'[j] \in {"dispatching", "unknown", "completed"}
         /\ Doomed(j) => st'[j] # "completed"

\* Nor a mark.
MarksStay ==
    \A i \in 1..Cur : \A j \in Pending(ctxs'[i]) : at[j] # 0 =>
        j \in Pending(ctxs[i]) /\ (ctxs[i].pend[j].cancelled => ctxs'[i].pend[j].cancelled)

\* A step that only ends things keeps the marks.
LEMMA KeepsMarks ==
    ASSUME AllKeep(ctxs')
    PROVE  MarksStay
BY DEF AllKeep, Keeps, MarksStay

\* No context comes back, or is made.
StatesStay ==
    /\ Cur' = Cur
    /\ \A i \in 1..Cur : ctxs'[i].st = ctxs[i].st \/ ctxs'[i].st \in Dead
    /\ \A i \in 1..Cur : ctxs[i].st = "closed" => ctxs'[i].st = "closed"

\* A step that only ends things brings no context back.
LEMMA KeepsStates ==
    ASSUME AllKeep(ctxs')
    PROVE  StatesStay
BY DEF AllKeep, Keeps, StatesStay, Cur

\* An exchange whose mark was won stays doomed.
LEMMA DoomedStays ==
    ASSUME Types, Extends, MarksStay, NEW j \in Calls, Doomed(j)
    PROVE  Doomed(j)'
<1>1. at[j] \in 1..Cur /\ at'[j] = at[j] /\ at[j] # 0
  BY DEF Types, Extends, Doomed, Cur
<1>2. j \in Pending(ctxs'[at[j]]) => ctxs'[at[j]].pend[j].cancelled
  BY <1>1 DEF MarksStay, Doomed
<1>3. st'[j] # "completed" /\ IsExchange(j)
  BY DEF Extends, Doomed
<1> QED
  BY <1>1, <1>2, <1>3 DEF Doomed, Pending, IsExchange

\* Pending exchanges stay linked where only some of them end.
LEMMA LinkedStays ==
    ASSUME Types, Linked, AllKeep(ctxs'),
           \A i \in 1..Cur : \A j \in Pending(ctxs'[i]) : at'[j] = at[j] /\ pc'[j] \in InExchange
    PROVE  Linked'
<1>1. Len(ctxs') = Cur /\ \A i \in 1..Cur : Sound(ctxs'[i]) /\ Pending(ctxs'[i]) \subseteq Pending(ctxs[i])
  BY DEF AllKeep, Keeps, Cur
<1>2. \A i \in 1..Cur : \A j \in Pending(ctxs'[i]) : at'[j] = i /\ pc'[j] \in InExchange
  BY <1>1 DEF Linked
<1>3. \A i \in 1..Cur : Sound(ctxs[i])'
  BY <1>1 DEF Sound, Initializers, Notifiers, Pending
<1> QED
  BY <1>1, <1>2, <1>3 DEF Linked, Cur, Pending, InExchange

\* Which handshakes are done, where no operation of a handshake completes.
HandshakesStay ==
    \A j \in Calls : Method[j] \in Handshake /\ st'[j] = "completed" =>
        st[j] = "completed" /\ at'[j] = at[j]

\* Done is then as it was.
LEMMA DoneStays ==
    ASSUME Extends, HandshakesStay, NEW m \in Handshake, NEW i \in Nat, i # 0
    PROVE  Done(m, i)' <=> Done(m, i)
<1>1. \A j \in Calls : Method[j] = m /\ st[j] = "completed" => st'[j] = "completed"
  BY DEF Extends, terminal
<1>2. ASSUME Done(m, i) PROVE Done(m, i)'
  BY <1>1, <1>2 DEF Done, Extends
<1>3. ASSUME Done(m, i)' PROVE Done(m, i)
  <2>1. PICK j \in Calls : Method[j] = m /\ at'[j] = i /\ st'[j] = "completed"
    BY <1>3 DEF Done
  <2>2. st[j] = "completed" /\ at[j] = i
    BY <2>1 DEF HandshakesStay
  <2> QED
    BY <2>1, <2>2 DEF Done
<1> QED
  BY <1>2, <1>3

\* The handshakes stay behind what depends on them.
LEMMA ShakenStays ==
    ASSUME Types, Shaken, StatesStay, Extends, HandshakesStay, Types',
           \A k \in Calls : pc'[k] \in InExchange /\ Method[k] = "call" =>
              \/ pc[k] \in InExchange /\ at[k] # 0
              \/ at'[k] \in 1..Cur /\ ctxs[at'[k]].st = "ready",
           \A x \in sent' : x.kind = "request" => x \in sent \/
              (x.subject \in Calls /\ pc[x.subject] \in InExchange /\ x.ctx = at[x.subject])
    PROVE  Shaken'
<1>0. Cur \in Nat /\ at \in [Calls -> 0..Cur] /\ Cur' = Cur
  BY DEF Types, StatesStay, Cur
<1>1. \A m \in Handshake : \A i \in Nat : i # 0 => (Done(m, i)' <=> Done(m, i))
  BY DoneStays
<1>2. "initialize" \in Handshake /\ "initialized" \in Handshake
  BY DEF Handshake
<1>a. \A i \in 1..Cur : ctxs'[i].st = ctxs[i].st \/ ctxs'[i].st \in Dead
  BY DEF StatesStay
<1>3. \A i \in 1..Cur' :
         /\ ctxs'[i].st \in {"awaiting", "ready"} => Done("initialize", i)'
         /\ ctxs'[i].st \notin Dead => (ctxs'[i].st = "ready" <=> Done("initialized", i)')
  <2> SUFFICES ASSUME NEW i \in 1..Cur
               PROVE  /\ ctxs'[i].st \in {"awaiting", "ready"} => Done("initialize", i)'
                      /\ ctxs'[i].st \notin Dead =>
                           (ctxs'[i].st = "ready" <=> Done("initialized", i)')
    BY <1>0
  <2>1. ctxs'[i].st = ctxs[i].st \/ ctxs'[i].st \in Dead
    BY <1>a
  <2>2. /\ Done("initialize", i)' <=> Done("initialize", i)
        /\ Done("initialized", i)' <=> Done("initialized", i)
    BY <1>0, <1>1, <1>2
  <2>3. /\ ctxs[i].st \in {"awaiting", "ready"} => Done("initialize", i)
        /\ ctxs[i].st \notin Dead => (ctxs[i].st = "ready" <=> Done("initialized", i))
    BY DEF Shaken
  <2> QED
    BY <2>1, <2>2, <2>3 DEF Dead
<1>4. \A k \in Calls : pc[k] \in InExchange /\ Method[k] = "call" /\ at[k] # 0 =>
         /\ at'[k] = at[k]
         /\ Done("initialize", at[k])' /\ Done("initialized", at[k])'
  BY <1>0, <1>1, <1>2 DEF Shaken, Extends
<1>5. \A k \in Calls : pc'[k] \in InExchange /\ Method[k] = "call" =>
         Done("initialize", at[k])' /\ Done("initialized", at[k])'
  <2> SUFFICES ASSUME NEW k \in Calls, at'[k] \in 1..Cur, ctxs[at'[k]].st = "ready"
               PROVE  Done("initialize", at[k])' /\ Done("initialized", at[k])'
    BY <1>4
  <2>1. Done("initialize", at'[k]) /\ Done("initialized", at'[k])
    BY DEF Shaken, Dead
  <2>2. PICK i \in 1..Cur : i = at'[k]
    OBVIOUS
  <2>3. Done("initialize", i)' /\ Done("initialized", i)'
    BY <1>0, <1>1, <1>2, <2>1, <2>2
  <2> QED
    BY <2>2, <2>3
<1>6. CallsAfterHandshake'
  <2> SUFFICES ASSUME NEW x \in sent', x.kind = "request", Method[x.subject] = "call",
                      NEW m \in Handshake
               PROVE  Done(m, x.ctx)'
    BY DEF CallsAfterHandshake, Done
  <2>1. x.ctx \in Nat /\ x.ctx # 0
    BY RemoteAssumption DEF Types, Records
  <2>2. CASE x \in sent
    <3>1. Done(m, x.ctx)
      BY <2>2 DEF Shaken, CallsAfterHandshake, Done
    <3> QED
      BY <1>1, <2>1, <3>1
  <2>3. CASE x.subject \in Calls /\ pc[x.subject] \in InExchange /\ x.ctx = at[x.subject]
    <3>1. Done(m, x.ctx)
      BY <2>3 DEF Shaken, Handshake
    <3> QED
      BY <1>1, <2>1, <3>1
  <2> QED
    BY <2>2, <2>3
<1> QED
  BY <1>3, <1>5, <1>6 DEF Shaken, InExchange, Transmitted, Decoding, Dead

\* The DELETEs under way keep their contexts.
LEMMA DeletesStay ==
    ASSUME Types, Deletes, StatesStay, Extends,
           \A k \in Calls : Method[k] = "delete" => at'[k] = at[k],
           \A k \in Calls : pc'[k] = "cleaning" => pc[k] = "cleaning" /\ ctxs'[at[k]].closing,
           \A x \in sent' : x.kind = "delete" => x \in sent \/
              (Method[x.by] = "delete" /\ x.ctx = at[x.by] /\ x.subject = x.by),
           \A x \in sent' : x.by \in Calls
    PROVE  Deletes'
<1>0. Cur \in Nat /\ Cur' = Cur /\ at \in [Calls -> 0..Cur]
  BY DEF Types, StatesStay, Cur
<1>1. \A k \in Calls : pc'[k] = "cleaning" => at'[k] = Cur' /\ at'[k] # 0 /\ ctxs'[at'[k]].closing
  BY <1>0 DEF Deletes, Extends
<1>2. \A k \in Calls : Method[k] = "delete" /\ at'[k] # 0 => ctxs'[at'[k]].st = "closed"
  <2>1. \A k \in Calls : Method[k] = "delete" /\ at[k] # 0 =>
           at[k] \in 1..Cur /\ ctxs[at[k]].st = "closed"
    BY <1>0 DEF Deletes
  <2>2. \A i \in 1..Cur : ctxs[i].st = "closed" => ctxs'[i].st = "closed"
    BY DEF StatesStay
  <2> QED
    BY <2>1, <2>2
<1>3. \A j, k \in Calls :
         Method[j] = "delete" /\ Method[k] = "delete" /\ at'[j] = at'[k] /\ at'[j] # 0 => j = k
  BY DEF Deletes
<1>4. \A x \in sent' : x.kind = "delete" =>
         Method[x.by] = "delete" /\ x.ctx = at'[x.by] /\ x.subject = x.by
  BY DEF Deletes
<1> QED
  BY <1>1, <1>2, <1>3, <1>4 DEF Deletes

\* A revoked session stays without a live context.
LEMMA RevokedStays ==
    ASSUME Types, AllKeep(ctxs'), rv' = "done" => rv = "done", RevokedContextsDead
    PROVE  RevokedContextsDead'
<1>1. Cur' = Cur
  BY DEF AllKeep, Cur
<1>2. \A i \in 1..Cur : rv = "done" => ctxs'[i].st \in Dead /\ ctxs'[i].token
  BY DEF RevokedContextsDead, AllKeep, Keeps, Dead
<1> QED
  BY <1>1, <1>2 DEF RevokedContextsDead, Dead

\* A claim stays with the call that won it, and what it found stays true.
LEMMA ClaimStays ==
    ASSUME Types, Claimed, Extends, MarksStay, NEW k \in Calls, Claims(k),
           victim'[k] = victim[k], pc'[k] = pc[k], saw'[k] = saw[k]
    PROVE  /\ Doomed(victim[k])' /\ at'[victim[k]] = at'[k] /\ Method[victim[k]] \notin Handshake
           /\ pc'[k] = "read" /\ saw'[k] =>
                Request(victim[k], at[k])' \in sent' /\ st'[victim[k]] \in {"dispatching", "unknown"}
           /\ pc'[k] = "notifying" =>
                Request(victim[k], at[k])' \in sent' /\ st'[victim[k]] = "unknown"
<1> DEFINE j == victim[k]
<1>0. j \in Calls /\ at[k] # 0
  BY DEF Types, Claims
<1>1. Doomed(j) /\ at[j] = at[k] /\ Method[j] \notin Handshake
  BY DEF Claimed
<1>2. at'[j] = at[k] /\ at'[k] = at[k]
  BY <1>0, <1>1 DEF Extends
<1>3. Doomed(j)'
  <2>1. \A i \in Calls : Doomed(i) => Doomed(i)'
    BY DoomedStays
  <2> QED
    BY <1>0, <1>1, <2>1 DEF Doomed
<1>4. st'[j] # "completed"
  BY <1>0, <1>1 DEF Extends
<1>5. pc'[k] = "read" /\ saw'[k] =>
         Request(j, at[k]) \in sent' /\ st'[j] \in {"dispatching", "unknown"}
  <2> SUFFICES ASSUME pc[k] = "read", saw[k]
               PROVE  Request(j, at[k]) \in sent' /\ st'[j] \in {"dispatching", "unknown"}
    OBVIOUS
  <2>1. Request(j, at[k]) \in sent /\ st[j] \in {"dispatching", "unknown"}
    BY DEF Claimed
  <2> QED
    BY <1>0, <1>4, <2>1 DEF Extends, terminal
<1>6. pc'[k] = "notifying" => Request(j, at[k]) \in sent' /\ st'[j] = "unknown"
  <2> SUFFICES ASSUME pc[k] = "notifying"
               PROVE  Request(j, at[k]) \in sent' /\ st'[j] = "unknown"
    OBVIOUS
  <2>1. Request(j, at[k]) \in sent /\ st[j] = "unknown"
    BY DEF Claimed
  <2> QED
    BY <1>0, <2>1 DEF Extends, terminal
<1>7. Request(j, at[k])' = Request(j, at[k])
  BY <1>2 DEF Request
<1> QED
  BY <1>1, <1>2, <1>3, <1>5, <1>6, <1>7

\* A step that makes no claim.
NoNewClaim ==
    \A k \in Calls : Claims(k)' =>
        Claims(k) /\ victim'[k] = victim[k] /\ pc'[k] = pc[k] /\ saw'[k] = saw[k]

\* What a step that dispatches a request records.
Dispatched ==
    \A k \in Calls : st'[k] = "dispatching" =>
        /\ at'[k] = at[k]
        /\ st[k] = "dispatching" \/ Request(k, at[k]) \in sent'

\* The claims stay where none is made.
LEMMA ClaimedStays ==
    ASSUME Types, Claimed, Extends, MarksStay, NoNewClaim, Dispatched,
           \A k \in Calls : pc'[k] = "notifying" => pc[k] = "notifying"
    PROVE  Claimed'
<1>1. \A k \in Calls : Claims(k)' =>
         /\ Doomed(victim[k])' /\ at'[victim'[k]] = at'[k] /\ Method[victim'[k]] \notin Handshake
         /\ pc'[k] = "read" /\ saw'[k] =>
              Request(victim[k], at[k])' \in sent' /\ st'[victim'[k]] \in {"dispatching", "unknown"}
         /\ pc'[k] = "notifying" =>
              Request(victim[k], at[k])' \in sent' /\ st'[victim'[k]] = "unknown"
  BY ClaimStays DEF NoNewClaim
<1>2. \A j, k \in Calls : Claims(j)' /\ Claims(k)' /\ victim'[j] = victim'[k] => j = k
  BY DEF NoNewClaim, Claimed
<1>3. \A k \in Calls : pc'[k] = "notifying" => at'[k] # 0
  BY DEF Claimed, Extends
<1>4. \A k \in Calls : st'[k] = "dispatching" => Request(k, at[k])' \in sent'
  BY DEF Dispatched, Claimed, Request, Extends
<1> QED
  BY <1>1, <1>2, <1>3, <1>4 DEF Claimed, Claims

\* What the server was told stays true: a new claim is of an exchange that was
\* not doomed, and a call that has told the server is done or keeps its child.
LEMMA ToldStays ==
    ASSUME Types, Told_once, Extends, MarksStay,
           \A x \in sent' : x.kind = "cancel" => x \in sent,
           \A k \in Calls : pc[k] \in {"local", "ended"} => pc'[k] \in {"local", "ended"},
           \A k \in Calls : pc[k] = "notifying" /\ child[k] = "sent" =>
              \/ pc'[k] \in {"local", "ended"}
              \/ pc'[k] = "notifying" /\ child'[k] = "sent" /\ victim'[k] = victim[k],
           \A k \in Calls : Method[k] \in {"cancel", "abort"} /\ pc[k] \in {"local", "ended", "notifying"} =>
              at'[k] = at[k],
           \A k \in Calls : Claims(k)' =>
              (Claims(k) /\ victim'[k] = victim[k]) \/ ~Doomed(victim'[k])
    PROVE  Told_once'
<1>0. \A x \in sent : x.subject \in Calls /\ x.by \in Calls
  BY DEF Types, Records
<1>1. ASSUME NEW x \in sent', x.kind = "cancel"
      PROVE  /\ x.ctx = at'[x.by] /\ Method[x.by] \in {"cancel", "abort"}
             /\ \/ pc'[x.by] \in {"local", "ended"}
                \/ pc'[x.by] = "notifying" /\ child'[x.by] = "sent" /\ victim'[x.by] = x.subject
             /\ Doomed(x.subject)' /\ Request(x.subject, x.ctx) \in sent'
             /\ Method[x.subject] \notin Handshake /\ st'[x.subject] = "unknown"
  <2>1. x \in sent /\ x.subject \in Calls /\ x.by \in Calls
    BY <1>0, <1>1
  <2>2. /\ x.ctx = at[x.by] /\ Method[x.by] \in {"cancel", "abort"}
        /\ \/ pc[x.by] \in {"local", "ended"}
           \/ pc[x.by] = "notifying" /\ child[x.by] = "sent" /\ victim[x.by] = x.subject
        /\ Doomed(x.subject) /\ Request(x.subject, x.ctx) \in sent
        /\ Method[x.subject] \notin Handshake /\ st[x.subject] = "unknown"
    BY <1>1, <2>1 DEF Told_once
  <2>3. Doomed(x.subject)'
    BY <2>1, <2>2, DoomedStays
  <2>4. at'[x.by] = at[x.by]
    BY <2>1, <2>2
  <2>5. Request(x.subject, x.ctx) \in sent' /\ st'[x.subject] = "unknown"
    BY <2>1, <2>2 DEF Extends, terminal
  <2>6. \/ pc'[x.by] \in {"local", "ended"}
        \/ pc'[x.by] = "notifying" /\ child'[x.by] = "sent" /\ victim'[x.by] = x.subject
    BY <2>1, <2>2
  <2> QED
    BY <2>2, <2>3, <2>4, <2>5, <2>6
<1>2. \A x \in sent', k \in Calls :
         x.kind = "cancel" /\ Claims(k)' /\ victim'[k] = x.subject => x.by = k
  BY DEF Told_once
<1>3. \A x, y \in sent' :
         x.kind = "cancel" /\ y.kind = "cancel" /\ x.subject = y.subject => x = y
  BY DEF Told_once
<1> QED
  BY <1>1, <1>2, <1>3 DEF Told_once, Request, Claims

\* A step that completes no handshake, begins no exchange or DELETE, and tells
\* the server of no cancellation.
Plain ==
    /\ AllKeep(ctxs') /\ Extends /\ HandshakesStay
    /\ rv' = "done" => rv = "done"
    /\ \A x \in sent' :
         /\ x.kind = "request" => x \in sent \/
              (x.subject \in Calls /\ pc[x.subject] \in InExchange /\ x.ctx = at[x.subject])
         /\ x.kind = "delete" => x \in sent \/
              (Method[x.by] = "delete" /\ x.ctx = at[x.by] /\ x.subject = x.by)
         /\ x.kind = "cancel" => x \in sent
    /\ \A k \in Calls :
         /\ \/ at'[k] = at[k]
            \/ Method[k] \in {"cancel", "abort"} /\ pc[k] \notin {"local", "ended", "notifying"}
         /\ pc'[k] \in InExchange => pc[k] \in InExchange
         /\ pc'[k] = "cleaning" => pc[k] = "cleaning" /\ ctxs'[at[k]].closing
         /\ pc[k] \in {"local", "ended"} => pc'[k] \in {"local", "ended"}
         /\ pc[k] = "notifying" /\ child[k] = "sent" =>
              \/ pc'[k] \in {"local", "ended"}
              \/ pc'[k] = "notifying" /\ child'[k] = "sent" /\ victim'[k] = victim[k]
         /\ \A i \in 1..Cur : k \in Pending(ctxs'[i]) => pc'[k] \in InExchange
         /\ Claims(k)' => (Claims(k) /\ victim'[k] = victim[k]) \/ ~Doomed(victim'[k])

\* One that also claims no mark.
Routine ==
    /\ Plain /\ NoNewClaim /\ Dispatched
    /\ \A k \in Calls : pc'[k] = "notifying" => pc[k] = "notifying"

\* A plain step keeps the invariant, given the parts about the calls and the
\* claims.
LEMMA PlainKeeps ==
    ASSUME Inv, Types', Places', Statuses', Claimed', Plain
    PROVE  Inv'
<1>0. /\ Types /\ Linked /\ Places /\ Statuses /\ Shaken /\ Deletes /\ Claimed /\ Told_once
      /\ RevokedContextsDead
  BY DEF Inv
<1>1. MarksStay
  BY KeepsMarks DEF Plain
<1>2. Linked'
  <2>1. \A i \in 1..Cur : \A j \in Pending(ctxs'[i]) : j \in Calls /\ at[j] = i
    <3>1. \A i \in 1..Cur : ctxs'[i].pend \in Pends
      BY DEF Plain, AllKeep, Keeps, Contexts
    <3> QED
      BY <1>0, <3>1, PendFacts DEF Pending, Plain, AllKeep, Keeps, Linked
  <2>2. \A i \in 1..Cur : \A j \in Pending(ctxs'[i]) : at'[j] = at[j] /\ pc'[j] \in InExchange
    BY <2>1 DEF Plain, Extends
  <2> QED
    BY <1>0, <2>2, LinkedStays DEF Plain
<1>3. Shaken'
  BY <1>0, ShakenStays, KeepsStates DEF Plain, Places
<1>4. Deletes'
  <2>1. \A x \in sent' : x.by \in Calls
    BY DEF Types, Records
  <2> QED
    BY <1>0, <2>1, DeletesStay, KeepsStates DEF Plain
<1>5. Told_once'
  BY <1>0, <1>1, ToldStays DEF Plain
<1>6. RevokedContextsDead'
  BY <1>0, RevokedStays DEF Plain
<1> QED
  BY <1>2, <1>3, <1>4, <1>5, <1>6 DEF Inv

\* So does a routine step.
LEMMA RoutineKeeps ==
    ASSUME Inv, Types', Places', Statuses', Routine
    PROVE  Inv'
<1>1. MarksStay
  BY KeepsMarks DEF Routine, Plain
<1>2. Claimed'
  BY <1>1, ClaimedStays DEF Inv, Routine, Plain
<1> QED
  BY <1>2, PlainKeeps DEF Routine

\* A step that leaves the contexts alone.
LEMMA ContextsAlone ==
    ASSUME Inv, ctxs' = ctxs
    PROVE  /\ AllKeep(ctxs') /\ Cur' = Cur
           /\ \A i \in 1..Cur : \A j \in Pending(ctxs'[i]) :
                j \in Calls /\ at[j] = i /\ pc[j] \in InExchange
<1>1. AllSteady(ctxs)
  BY SteadySame DEF Inv
<1>2. AllKeep(ctxs')
  BY <1>1 DEF AllSteady, AllKeep, Steady
<1>3. \A i \in 1..Cur : ctxs[i].pend \in Pends
  BY ContextFacts DEF Inv, Contexts
<1> QED
  BY <1>2, <1>3, PendFacts DEF Inv, Linked, Pending, Cur

\* A call is tracked.
LEMMA StartKeeps ==
    ASSUME Inv, NEW k \in Calls, Start(k)
    PROVE  Inv'
<1>0. Types /\ Places /\ Statuses
  BY DEF Inv
<1>1. Types'
  BY <1>0 DEF Types, PCs, States, InExchange, Transmitted, Decoding, Start, Becomes, Room
<1>2. Places'
  BY <1>0 DEF Places, Types, InExchange, Transmitted, Decoding, IsExchange, Start, Becomes, Room
<1>3. Statuses'
  BY <1>0 DEF Statuses, Types, Places, InExchange, Transmitted, Decoding, Start, Becomes, Room
<1>4. Routine
  <2>1. /\ AllKeep(ctxs') /\ Cur' = Cur
        /\ \A i \in 1..Cur : \A j \in Pending(ctxs'[i]) :
             j \in Calls /\ at[j] = i /\ pc[j] \in InExchange
    BY ContextsAlone DEF Start
  <2>2. Extends /\ Dispatched
    <3>1. \A j \in Calls : st'[j] = "completed" => st[j] = "completed" \/ ~IsExchange(j)
      BY <1>0 DEF Types, Places, IsExchange, Start, Becomes, Room
    <3>2. \A j \in Calls : st[j] # st'[j] => st[j] # "dispatching" /\ ~terminal(st[j])
      BY <1>0 DEF Types, Statuses, InExchange, Transmitted, Decoding, Start, Becomes, Room, terminal
    <3>3. UNCHANGED <<at, sent>>
      BY DEF Start
    <3>4. Dispatched
      BY <1>0 DEF Dispatched, Types, Start, Becomes, Room
    <3> QED
      BY <3>1, <3>2, <3>3, <3>4 DEF Extends, Doomed
  <2>3. HandshakesStay
    BY <1>0 DEF HandshakesStay, Handshake, Types, Places, Start, Becomes, Room
  <2>4. NoNewClaim
    BY <1>0 DEF NoNewClaim, Claims, Types, InExchange, Transmitted, Decoding, Start, Becomes, Room
  <2>5. \A j \in Calls : pc'[j] = "cleaning" => pc[j] = "cleaning" /\ ctxs'[at[j]].closing
    BY <1>0 DEF Inv, Deletes, Types, Start, Becomes, Room
  <2>6. \A j \in Calls : pc[j] \in InExchange => pc'[j] \in InExchange
    BY <1>0 DEF Places, Types, InExchange, Transmitted, Decoding, Start, Becomes, Room
  <2>7. \A j \in Calls : pc'[j] \in InExchange => pc[j] \in InExchange
    BY <1>0 DEF Types, InExchange, Transmitted, Decoding, Start, Becomes, Room
  <2> QED
    BY <1>0, <2>1, <2>2, <2>3, <2>4, <2>5, <2>6, <2>7 DEF Routine, Plain, NoNewClaim, Types, Places, Decoding, Start, Becomes, Room
<1> QED
  BY <1>1, <1>2, <1>3, <1>4, RoutineKeeps

\* The credential of an exchange is taken.
LEMMA AuthenticateKeeps ==
    ASSUME Inv, NEW k \in Calls, Authenticate(k)
    PROVE  Inv'
<1>0. Types /\ Places /\ Statuses
  BY DEF Inv
<1>1. Types'
  BY <1>0 DEF Types, PCs, States, InExchange, Transmitted, Decoding, Authenticate, Becomes
<1>2. Places'
  BY <1>0 DEF Places, Types, InExchange, Transmitted, Decoding, IsExchange, Authenticate, Becomes
<1>3. Statuses'
  BY <1>0 DEF Statuses, Types, Places, InExchange, Transmitted, Decoding, Authenticate, Becomes
<1>4. Routine
  <2>1. /\ AllKeep(ctxs') /\ Cur' = Cur
        /\ \A i \in 1..Cur : \A j \in Pending(ctxs'[i]) :
             j \in Calls /\ at[j] = i /\ pc[j] \in InExchange
    BY ContextsAlone DEF Authenticate
  <2>2. Extends /\ Dispatched
    <3>1. \A j \in Calls : st'[j] = "completed" => st[j] = "completed" \/ ~IsExchange(j)
      BY <1>0 DEF Types, Places, IsExchange, Authenticate, Becomes
    <3>2. \A j \in Calls : st[j] # st'[j] => st[j] # "dispatching" /\ ~terminal(st[j])
      BY <1>0 DEF Types, Statuses, InExchange, Transmitted, Decoding, Authenticate, Becomes, terminal
    <3>3. UNCHANGED <<at, sent>>
      BY DEF Authenticate
    <3>4. Dispatched
      BY <1>0 DEF Dispatched, Types, Authenticate, Becomes
    <3> QED
      BY <3>1, <3>2, <3>3, <3>4 DEF Extends, Doomed
  <2>3. HandshakesStay
    BY <1>0 DEF HandshakesStay, Handshake, Types, Places, Authenticate, Becomes
  <2>4. NoNewClaim
    BY <1>0 DEF NoNewClaim, Claims, Types, InExchange, Transmitted, Decoding, Authenticate, Becomes
  <2>5. \A j \in Calls : pc'[j] = "cleaning" => pc[j] = "cleaning" /\ ctxs'[at[j]].closing
    BY <1>0 DEF Inv, Deletes, Types, Authenticate, Becomes
  <2>6. \A j \in Calls : pc[j] \in InExchange => pc'[j] \in InExchange
    BY <1>0 DEF Places, Types, InExchange, Transmitted, Decoding, Authenticate, Becomes
  <2>7. \A j \in Calls : pc'[j] \in InExchange => pc[j] \in InExchange
    BY <1>0 DEF Types, InExchange, Transmitted, Decoding, Authenticate, Becomes
  <2> QED
    BY <1>0, <2>1, <2>2, <2>3, <2>4, <2>5, <2>6, <2>7 DEF Routine, Plain, NoNewClaim, Types, Places, Decoding, Authenticate, Becomes
<1> QED
  BY <1>1, <1>2, <1>3, <1>4, RoutineKeeps

\* An exchange is ready.
LEMMA MakeReadyKeeps ==
    ASSUME Inv, NEW k \in Calls, MakeReady(k)
    PROVE  Inv'
<1>0. Types /\ Places /\ Statuses
  BY DEF Inv
<1>1. Types'
  BY <1>0 DEF Types, PCs, States, InExchange, Transmitted, Decoding, MakeReady, Becomes, terminal
<1>2. Places'
  BY <1>0 DEF Places, Types, InExchange, Transmitted, Decoding, IsExchange, MakeReady, Becomes, terminal
<1>3. Statuses'
  BY <1>0 DEF Statuses, Types, Places, InExchange, Transmitted, Decoding, MakeReady, Becomes, terminal
<1>4. Routine
  <2>1. /\ AllKeep(ctxs') /\ Cur' = Cur
        /\ \A i \in 1..Cur : \A j \in Pending(ctxs'[i]) :
             j \in Calls /\ at[j] = i /\ pc[j] \in InExchange
    BY ContextsAlone DEF MakeReady
  <2>2. Extends /\ Dispatched
    <3>1. \A j \in Calls : st'[j] = "completed" => st[j] = "completed" \/ ~IsExchange(j)
      BY <1>0 DEF Types, Places, IsExchange, MakeReady, Becomes, terminal
    <3>2. \A j \in Calls : st[j] # st'[j] => st[j] # "dispatching" /\ ~terminal(st[j])
      BY <1>0 DEF Types, Statuses, InExchange, Transmitted, Decoding, MakeReady, Becomes, terminal
    <3>3. UNCHANGED <<at, sent>>
      BY DEF MakeReady
    <3>4. Dispatched
      BY <1>0 DEF Dispatched, Types, MakeReady, Becomes, terminal
    <3> QED
      BY <3>1, <3>2, <3>3, <3>4 DEF Extends, Doomed
  <2>3. HandshakesStay
    BY <1>0 DEF HandshakesStay, Handshake, Types, Places, MakeReady, Becomes, terminal
  <2>4. NoNewClaim
    BY <1>0 DEF NoNewClaim, Claims, Types, InExchange, Transmitted, Decoding, MakeReady, Becomes, terminal
  <2>5. \A j \in Calls : pc'[j] = "cleaning" => pc[j] = "cleaning" /\ ctxs'[at[j]].closing
    BY <1>0 DEF Inv, Deletes, Types, MakeReady, Becomes, terminal
  <2>6. \A j \in Calls : pc[j] \in InExchange => pc'[j] \in InExchange
    BY <1>0 DEF Places, Types, InExchange, Transmitted, Decoding, MakeReady, Becomes, terminal
  <2>7. \A j \in Calls : pc'[j] \in InExchange => pc[j] \in InExchange
    BY <1>0 DEF Types, InExchange, Transmitted, Decoding, MakeReady, Becomes, terminal
  <2> QED
    BY <1>0, <2>1, <2>2, <2>3, <2>4, <2>5, <2>6, <2>7 DEF Routine, Plain, NoNewClaim, Types, Places, Decoding, MakeReady, Becomes, terminal
<1> QED
  BY <1>1, <1>2, <1>3, <1>4, RoutineKeeps

\* A ping of the server is answered by a child.
LEMMA ServerPingKeeps ==
    ASSUME Inv, NEW k \in Calls, ServerPing(k)
    PROVE  Inv'
<1>0. Types /\ Places /\ Statuses
  BY DEF Inv
<1>1. Types'
  BY <1>0 DEF Types, PCs, States, InExchange, Transmitted, Decoding, ServerPing, Becomes, Spawn
<1>2. Places'
  BY <1>0 DEF Places, Types, InExchange, Transmitted, Decoding, IsExchange, ServerPing, Becomes, Spawn
<1>3. Statuses'
  BY <1>0 DEF Statuses, Types, Places, InExchange, Transmitted, Decoding, ServerPing, Becomes, Spawn
<1>4. Routine
  <2>1. /\ AllKeep(ctxs') /\ Cur' = Cur
        /\ \A i \in 1..Cur : \A j \in Pending(ctxs'[i]) :
             j \in Calls /\ at[j] = i /\ pc[j] \in InExchange
    BY ContextsAlone DEF ServerPing
  <2>2. Extends /\ Dispatched
    <3>1. \A j \in Calls : st'[j] = "completed" => st[j] = "completed" \/ ~IsExchange(j)
      BY <1>0 DEF Types, Places, IsExchange, ServerPing, Becomes, Spawn
    <3>2. \A j \in Calls : st[j] # st'[j] => st[j] # "dispatching" /\ ~terminal(st[j])
      BY <1>0 DEF Types, Statuses, InExchange, Transmitted, Decoding, ServerPing, Becomes, Spawn, terminal
    <3>3. UNCHANGED <<at, sent>>
      BY DEF ServerPing
    <3>4. Dispatched
      BY <1>0 DEF Dispatched, Types, ServerPing, Becomes, Spawn
    <3> QED
      BY <3>1, <3>2, <3>3, <3>4 DEF Extends, Doomed
  <2>3. HandshakesStay
    BY <1>0 DEF HandshakesStay, Handshake, Types, Places, ServerPing, Becomes, Spawn
  <2>4. NoNewClaim
    BY <1>0 DEF NoNewClaim, Claims, Types, InExchange, Transmitted, Decoding, ServerPing, Becomes, Spawn
  <2>5. \A j \in Calls : pc'[j] = "cleaning" => pc[j] = "cleaning" /\ ctxs'[at[j]].closing
    BY <1>0 DEF Inv, Deletes, Types, ServerPing, Becomes, Spawn
  <2>6. \A j \in Calls : pc[j] \in InExchange => pc'[j] \in InExchange
    BY <1>0 DEF Places, Types, InExchange, Transmitted, Decoding, ServerPing, Becomes, Spawn
  <2>7. \A j \in Calls : pc'[j] \in InExchange => pc[j] \in InExchange
    BY <1>0 DEF Types, InExchange, Transmitted, Decoding, ServerPing, Becomes, Spawn
  <2> QED
    BY <1>0, <2>1, <2>2, <2>3, <2>4, <2>5, <2>6, <2>7 DEF Routine, Plain, NoNewClaim, Types, Places, Decoding, ServerPing, Becomes, Spawn
<1> QED
  BY <1>1, <1>2, <1>3, <1>4, RoutineKeeps

\* An answer is decoded.
LEMMA FinishKeeps ==
    ASSUME Inv, NEW k \in Calls, Finish(k)
    PROVE  Inv'
<1>0. Types /\ Places /\ Statuses
  BY DEF Inv
<1>1. Types'
  BY <1>0 DEF Types, PCs, States, InExchange, Transmitted, Decoding, Finish, Becomes, terminal
<1>2. Places'
  BY <1>0 DEF Places, Types, InExchange, Transmitted, Decoding, IsExchange, Finish, Becomes, terminal
<1>3. Statuses'
  BY <1>0 DEF Statuses, Types, Places, InExchange, Transmitted, Decoding, Finish, Becomes, terminal
<1>4. Routine
  <2>1. /\ AllKeep(ctxs') /\ Cur' = Cur
        /\ \A i \in 1..Cur : \A j \in Pending(ctxs'[i]) :
             j \in Calls /\ at[j] = i /\ pc[j] \in InExchange
    BY ContextsAlone DEF Finish
  <2>2. Extends /\ Dispatched
    <3>1. \A j \in Calls : st'[j] = "completed" => st[j] = "completed" \/ ~IsExchange(j)
      BY <1>0 DEF Types, Places, IsExchange, Finish, Becomes, terminal
    <3>2. \A j \in Calls : st[j] # st'[j] => st[j] # "dispatching" /\ ~terminal(st[j])
      BY <1>0 DEF Types, Statuses, InExchange, Transmitted, Decoding, Finish, Becomes, terminal
    <3>3. UNCHANGED <<at, sent>>
      BY DEF Finish
    <3>4. Dispatched
      BY <1>0 DEF Dispatched, Types, Finish, Becomes, terminal
    <3> QED
      BY <3>1, <3>2, <3>3, <3>4 DEF Extends, Doomed
  <2>3. HandshakesStay
    BY <1>0 DEF HandshakesStay, Handshake, Types, Places, Finish, Becomes, terminal
  <2>4. NoNewClaim
    BY <1>0 DEF NoNewClaim, Claims, Types, InExchange, Transmitted, Decoding, Finish, Becomes, terminal
  <2>5. \A j \in Calls : pc'[j] = "cleaning" => pc[j] = "cleaning" /\ ctxs'[at[j]].closing
    BY <1>0 DEF Inv, Deletes, Types, Finish, Becomes, terminal
  <2>6. \A j \in Calls : pc[j] \in InExchange => pc'[j] \in InExchange
    BY <1>0 DEF Places, Types, InExchange, Transmitted, Decoding, Finish, Becomes, terminal
  <2>7. \A j \in Calls : pc'[j] \in InExchange => pc[j] \in InExchange
    BY <1>0 DEF Types, InExchange, Transmitted, Decoding, Finish, Becomes, terminal
  <2> QED
    BY <1>0, <2>1, <2>2, <2>3, <2>4, <2>5, <2>6, <2>7 DEF Routine, Plain, NoNewClaim, Types, Places, Decoding, Finish, Becomes, terminal
<1> QED
  BY <1>1, <1>2, <1>3, <1>4, RoutineKeeps

\* An answer is settled.
LEMMA SettleKeeps ==
    ASSUME Inv, NEW k \in Calls, Settle(k)
    PROVE  Inv'
<1>0. Types /\ Places /\ Statuses
  BY DEF Inv
<1>1. Types'
  BY <1>0 DEF Types, PCs, States, InExchange, Transmitted, Decoding, Settle, Becomes
<1>2. Places'
  BY <1>0 DEF Places, Types, InExchange, Transmitted, Decoding, IsExchange, Settle, Becomes
<1>3. Statuses'
  BY <1>0 DEF Statuses, Types, Places, InExchange, Transmitted, Decoding, Settle, Becomes
<1>4. Routine
  <2>1. /\ AllKeep(ctxs') /\ Cur' = Cur
        /\ \A i \in 1..Cur : \A j \in Pending(ctxs'[i]) :
             j \in Calls /\ at[j] = i /\ pc[j] \in InExchange
    BY ContextsAlone DEF Settle
  <2>2. Extends /\ Dispatched
    <3>1. \A j \in Calls : st'[j] = "completed" => st[j] = "completed" \/ ~IsExchange(j)
      BY <1>0 DEF Types, Places, IsExchange, Settle, Becomes
    <3>2. \A j \in Calls : st[j] # st'[j] => st[j] # "dispatching" /\ ~terminal(st[j])
      BY <1>0 DEF Types, Statuses, InExchange, Transmitted, Decoding, Settle, Becomes, terminal
    <3>3. UNCHANGED <<at, sent>>
      BY DEF Settle
    <3>4. Dispatched
      BY <1>0 DEF Dispatched, Types, Settle, Becomes
    <3> QED
      BY <3>1, <3>2, <3>3, <3>4 DEF Extends, Doomed
  <2>3. HandshakesStay
    BY <1>0 DEF HandshakesStay, Handshake, Types, Places, Settle, Becomes
  <2>4. NoNewClaim
    BY <1>0 DEF NoNewClaim, Claims, Types, InExchange, Transmitted, Decoding, Settle, Becomes
  <2>5. \A j \in Calls : pc'[j] = "cleaning" => pc[j] = "cleaning" /\ ctxs'[at[j]].closing
    BY <1>0 DEF Inv, Deletes, Types, Settle, Becomes
  <2>6. \A j \in Calls : pc[j] \in InExchange => pc'[j] \in InExchange
    BY <1>0 DEF Places, Types, InExchange, Transmitted, Decoding, Settle, Becomes
  <2>7. \A j \in Calls : pc'[j] \in InExchange => pc[j] \in InExchange
    BY <1>0 DEF Types, InExchange, Transmitted, Decoding, Settle, Becomes
  <2> QED
    BY <1>0, <2>1, <2>2, <2>3, <2>4, <2>5, <2>6, <2>7 DEF Routine, Plain, NoNewClaim, Types, Places, Decoding, Settle, Becomes
<1> QED
  BY <1>1, <1>2, <1>3, <1>4, RoutineKeeps

\* A call without an exchange of its own completes.
LEMMA CompleteLocalKeeps ==
    ASSUME Inv, NEW k \in Calls, CompleteLocal(k)
    PROVE  Inv'
<1>0. Types /\ Places /\ Statuses
  BY DEF Inv
<1>1. Types'
  BY <1>0 DEF Types, PCs, States, InExchange, Transmitted, Decoding, CompleteLocal, Becomes, MayCommit, terminal
<1>2. Places'
  BY <1>0 DEF Places, Types, InExchange, Transmitted, Decoding, IsExchange, CompleteLocal, Becomes, MayCommit, terminal
<1>3. Statuses'
  BY <1>0 DEF Statuses, Types, Places, InExchange, Transmitted, Decoding, CompleteLocal, Becomes, MayCommit, terminal
<1>4. Routine
  <2>1. /\ AllKeep(ctxs') /\ Cur' = Cur
        /\ \A i \in 1..Cur : \A j \in Pending(ctxs'[i]) :
             j \in Calls /\ at[j] = i /\ pc[j] \in InExchange
    BY ContextsAlone DEF CompleteLocal
  <2>2. Extends /\ Dispatched
    <3>1. \A j \in Calls : st'[j] = "completed" => st[j] = "completed" \/ ~IsExchange(j)
      BY <1>0 DEF Types, Places, IsExchange, CompleteLocal, Becomes, MayCommit, terminal
    <3>2. \A j \in Calls : st[j] # st'[j] => st[j] # "dispatching" /\ ~terminal(st[j])
      BY <1>0 DEF Types, Statuses, InExchange, Transmitted, Decoding, CompleteLocal, Becomes, MayCommit, terminal
    <3>3. UNCHANGED <<at, sent>>
      BY DEF CompleteLocal
    <3>4. Dispatched
      BY <1>0 DEF Dispatched, Types, CompleteLocal, Becomes, MayCommit, terminal
    <3> QED
      BY <3>1, <3>2, <3>3, <3>4 DEF Extends, Doomed
  <2>3. HandshakesStay
    BY <1>0 DEF HandshakesStay, Handshake, Types, Places, CompleteLocal, Becomes, MayCommit, terminal
  <2>4. NoNewClaim
    BY <1>0 DEF NoNewClaim, Claims, Types, InExchange, Transmitted, Decoding, CompleteLocal, Becomes, MayCommit, terminal
  <2>5. \A j \in Calls : pc'[j] = "cleaning" => pc[j] = "cleaning" /\ ctxs'[at[j]].closing
    BY <1>0 DEF Inv, Deletes, Types, CompleteLocal, Becomes, MayCommit, terminal
  <2>6. \A j \in Calls : pc[j] \in InExchange => pc'[j] \in InExchange
    BY <1>0 DEF Places, Types, InExchange, Transmitted, Decoding, CompleteLocal, Becomes, MayCommit, terminal
  <2>7. \A j \in Calls : pc'[j] \in InExchange => pc[j] \in InExchange
    BY <1>0 DEF Types, InExchange, Transmitted, Decoding, CompleteLocal, Becomes, MayCommit, terminal
  <2> QED
    BY <1>0, <2>1, <2>2, <2>3, <2>4, <2>5, <2>6, <2>7 DEF Routine, Plain, NoNewClaim, Types, Places, Decoding, CompleteLocal, Becomes, MayCommit, terminal
<1> QED
  BY <1>1, <1>2, <1>3, <1>4, RoutineKeeps

\* A control child is made ready.
LEMMA ChildPrepareKeeps ==
    ASSUME Inv, NEW k \in Calls, ChildPrepare(k)
    PROVE  Inv'
<1>0. Types /\ Places /\ Statuses
  BY DEF Inv
<1>1. Types'
  BY <1>0 DEF Types, PCs, States, InExchange, Transmitted, Decoding, ChildPrepare, Becomes
<1>2. Places'
  BY <1>0 DEF Places, Types, InExchange, Transmitted, Decoding, IsExchange, ChildPrepare, Becomes
<1>3. Statuses'
  BY <1>0 DEF Statuses, Types, Places, InExchange, Transmitted, Decoding, ChildPrepare, Becomes
<1>4. Routine
  <2>1. /\ AllKeep(ctxs') /\ Cur' = Cur
        /\ \A i \in 1..Cur : \A j \in Pending(ctxs'[i]) :
             j \in Calls /\ at[j] = i /\ pc[j] \in InExchange
    BY ContextsAlone DEF ChildPrepare
  <2>2. Extends /\ Dispatched
    <3>1. \A j \in Calls : st'[j] = "completed" => st[j] = "completed" \/ ~IsExchange(j)
      BY <1>0 DEF Types, Places, IsExchange, ChildPrepare, Becomes
    <3>2. \A j \in Calls : st[j] # st'[j] => st[j] # "dispatching" /\ ~terminal(st[j])
      BY <1>0 DEF Types, Statuses, InExchange, Transmitted, Decoding, ChildPrepare, Becomes, terminal
    <3>3. UNCHANGED <<at, sent>>
      BY DEF ChildPrepare
    <3>4. Dispatched
      BY <1>0 DEF Dispatched, Types, ChildPrepare, Becomes
    <3> QED
      BY <3>1, <3>2, <3>3, <3>4 DEF Extends, Doomed
  <2>3. HandshakesStay
    BY <1>0 DEF HandshakesStay, Handshake, Types, Places, ChildPrepare, Becomes
  <2>4. NoNewClaim
    BY <1>0 DEF NoNewClaim, Claims, Types, InExchange, Transmitted, Decoding, ChildPrepare, Becomes
  <2>5. \A j \in Calls : pc'[j] = "cleaning" => pc[j] = "cleaning" /\ ctxs'[at[j]].closing
    BY <1>0 DEF Inv, Deletes, Types, ChildPrepare, Becomes
  <2>6. \A j \in Calls : pc[j] \in InExchange => pc'[j] \in InExchange
    BY <1>0 DEF Places, Types, InExchange, Transmitted, Decoding, ChildPrepare, Becomes
  <2>7. \A j \in Calls : pc'[j] \in InExchange => pc[j] \in InExchange
    BY <1>0 DEF Types, InExchange, Transmitted, Decoding, ChildPrepare, Becomes
  <2> QED
    BY <1>0, <2>1, <2>2, <2>3, <2>4, <2>5, <2>6, <2>7 DEF Routine, Plain, NoNewClaim, Types, Places, Decoding, ChildPrepare, Becomes
<1> QED
  BY <1>1, <1>2, <1>3, <1>4, RoutineKeeps

\* Guard::fail, wherever a running call stands.
LEMMA FailKeeps ==
    ASSUME Inv, NEW k \in Calls, Running(k), NEW cs, AllSteady(cs), Fail(k, cs)
    PROVE  Inv'
<1>0. Types /\ Linked /\ Places /\ Statuses /\ Deletes
  BY DEF Inv
<1>1. /\ AllKeep(ctxs')
      /\ \A i \in 1..Cur : k \notin Pending(ctxs'[i])
      /\ \A i \in 1..Cur :
           ~(pc[k] = "cleaning" /\ i = at[k]) => ctxs'[i].closing = ctxs[i].closing
  BY <1>0, ReleasedKeeps DEF Fail
<1>2. Cur' = Cur /\ ctxs' \in Seq(Contexts) /\ Len(ctxs') = Len(ctxs)
  BY <1>1 DEF AllKeep, Cur
<1>3. Types'
  BY <1>0, <1>2 DEF Types, PCs, States, Fail, Becomes
<1>4. Places'
  BY <1>0 DEF Places, Types, InExchange, Transmitted, Decoding, IsExchange, Fail, Becomes
<1>5. st[k] # "none" \/ Method[k] = "abort"
  BY <1>0 DEF Statuses, Running
<1>6. /\ st'[k] = st[k] \/ st'[k] \in {"unknown", "stopped"}
      /\ terminal(st[k]) => st'[k] = st[k]
      /\ st[k] = "dispatching" => st'[k] \in {"dispatching", "unknown"}
      /\ st'[k] = "dispatching" => st[k] = "dispatching"
      /\ st'[k] = "none" => st[k] = "none" /\ Method[k] = "abort"
      /\ \A j \in Calls : j # k => st'[j] = st[j]
  BY <1>0, <1>5 DEF Types, Statuses, Fail, Becomes, terminal
<1>7. /\ pc'[k] = "ended" /\ child'[k] = "none" /\ victim'[k] = k /\ saw'[k] = FALSE
      /\ \A j \in Calls : j # k => /\ pc'[j] = pc[j] /\ child'[j] = child[j]
                                   /\ victim'[j] = victim[j] /\ saw'[j] = saw[j]
      /\ UNCHANGED <<lease, rv, todo, at, sent>>
  BY <1>0 DEF Types, Fail, Becomes
<1>8. st'[k] # "dispatching"
  <2>1. st[k] = "dispatching" => Method[k] # "abort"
    BY <1>0 DEF Statuses, Places, InExchange, IsExchange
  <2> QED
    BY <1>0, <2>1 DEF Types, Fail, Becomes, terminal
<1>9. Statuses'
  <2>1. \A j \in Calls : /\ pc'[j] = "idle" => st'[j] = "none"
                         /\ st'[j] = "none" => pc'[j] = "idle" \/ Method[j] = "abort"
                         /\ st'[j] = "completed" => pc'[j] = "ended"
                         /\ st'[j] = "dispatching" => pc'[j] \in Transmitted
    BY <1>0, <1>6, <1>7, <1>8 DEF Statuses
  <2>2. \A j \in Calls : st[j] # "none" => st'[j] # "none"
    BY <1>6
  <2>3. \A j \in Calls : pc'[j] \in {"marked", "read"} => st'[victim'[j]] # "none"
    BY <1>0, <1>7, <2>2 DEF Statuses, Types
  <2>4. \A j \in todo' : st'[j] # "none"
    BY <1>0, <1>7, <2>2 DEF Statuses, Types
  <2> QED
    BY <2>1, <2>3, <2>4 DEF Statuses, Transmitted, Decoding
<1>10. Routine
  <2>1. Extends
    BY <1>6, <1>7 DEF Extends, Doomed
  <2>2. HandshakesStay /\ NoNewClaim /\ Dispatched
    BY <1>6, <1>7 DEF HandshakesStay, NoNewClaim, Claims, Dispatched
  <2>3. \A j \in Calls : pc'[j] = "cleaning" => pc[j] = "cleaning" /\ ctxs'[at[j]].closing
    <3> SUFFICES ASSUME NEW j \in Calls, pc'[j] = "cleaning"
                 PROVE  pc[j] = "cleaning" /\ ctxs'[at[j]].closing
      OBVIOUS
    <3>1. j # k /\ pc[j] = "cleaning"
      BY <1>7
    <3>2. at[j] \in 1..Cur /\ ctxs[at[j]].closing
      BY <1>0, <3>1 DEF Deletes, Types, Cur
    <3>3. ~(pc[k] = "cleaning" /\ at[j] = at[k])
      BY <1>0, <3>1, <3>2 DEF Deletes, Places
    <3> QED
      BY <1>1, <3>1, <3>2, <3>3
  <2>4. \A j \in Calls : \A i \in 1..Cur : j \in Pending(ctxs'[i]) => pc'[j] \in InExchange
    BY <1>0, <1>1, <1>7 DEF Linked, AllKeep, Keeps
  <2>5. \A j \in Calls : pc'[j] \in InExchange => pc[j] \in InExchange
    BY <1>7 DEF InExchange, Transmitted, Decoding
  <2> QED
    BY <1>1, <1>7, <2>1, <2>2, <2>3, <2>4, <2>5 DEF Routine, Plain, NoNewClaim
<1> QED
  BY <1>3, <1>4, <1>9, <1>10, RoutineKeeps

\* The end of a control child: its caller goes on.
LEMMA ResumeKeeps ==
    ASSUME Inv, NEW k \in Calls, child[k] # "none", NEW cs, AllSteady(cs), Resume(k, cs)
    PROVE  Inv'
<1>0. Types /\ Linked /\ Places /\ Statuses /\ Deletes
  BY DEF Inv
<1>a. /\ ChildKind(k) = "cancel" => pc[k] = "notifying" /\ Method[k] \in {"cancel", "abort"}
      /\ ChildKind(k) = "delete" => pc[k] = "cleaning" /\ Method[k] = "delete" /\ at[k] # 0
      /\ ChildKind(k) = "ping" => pc[k] = "pinging" /\ IsExchange(k) /\ at[k] # 0
      /\ ChildKind(k) \in {"cancel", "delete", "ping"}
  BY <1>0 DEF ChildKind, Places, Deletes, InExchange, Transmitted
<1>1. /\ AllKeep(ctxs')
      /\ \A i \in 1..Cur :
           ~(pc[k] = "cleaning" /\ i = at[k]) => ctxs'[i].closing = ctxs[i].closing
  <2>1. CASE ChildKind(k) = "delete"
    <3>1. ctxs' = Released(cs, k)
      BY <1>a, <2>1 DEF Resume, Released, IsExchange
    <3> QED
      BY <1>0, <3>1, ReleasedKeeps
  <2>2. CASE ChildKind(k) # "delete"
    BY <2>2 DEF Resume, AllSteady, AllKeep, Steady
  <2> QED
    BY <2>1, <2>2
<1>2. Cur' = Cur /\ ctxs' \in Seq(Contexts) /\ Len(ctxs') = Len(ctxs)
  BY <1>1 DEF AllKeep, Cur
<1>3. /\ pc'[k] = IF ChildKind(k) = "ping" THEN "decoding"
                  ELSE IF ChildKind(k) = "delete" \/ Method[k] = "cancel" THEN "local" ELSE "ended"
      /\ child'[k] = "none" /\ victim'[k] = k
      /\ \A j \in Calls : j # k => /\ pc'[j] = pc[j] /\ child'[j] = child[j]
                                   /\ victim'[j] = victim[j]
      /\ UNCHANGED <<lease, rv, todo, st, tok, at, meta, saw, sent>>
  BY <1>0 DEF Types, Resume, Becomes, AfterCancel
<1>4. Types'
  BY <1>0, <1>2 DEF Types, PCs, InExchange, Transmitted, Decoding, Resume, Becomes, AfterCancel
<1>5. Places'
  BY <1>0, <1>3, <1>a DEF Places, InExchange, Transmitted, Decoding, IsExchange
<1>6. Statuses'
  BY <1>0, <1>3, <1>a DEF Statuses, InExchange, Transmitted, Decoding, Types
<1>7. Routine
  <2>1. Extends
    BY <1>3 DEF Extends, Doomed, terminal
  <2>2. HandshakesStay /\ NoNewClaim /\ Dispatched
    BY <1>3, <1>a DEF HandshakesStay, NoNewClaim, Claims, Dispatched
  <2>3. \A j \in Calls : pc'[j] = "cleaning" => pc[j] = "cleaning" /\ ctxs'[at[j]].closing
    <3> SUFFICES ASSUME NEW j \in Calls, pc'[j] = "cleaning"
                 PROVE  pc[j] = "cleaning" /\ ctxs'[at[j]].closing
      OBVIOUS
    <3>1. j # k /\ pc[j] = "cleaning"
      BY <1>3
    <3>2. at[j] \in 1..Cur /\ ctxs[at[j]].closing
      BY <1>0, <3>1 DEF Deletes, Types, Cur
    <3>3. ~(pc[k] = "cleaning" /\ at[j] = at[k])
      BY <1>0, <3>1, <3>2 DEF Deletes, Places
    <3> QED
      BY <1>1, <3>1, <3>2, <3>3
  <2>4. \A j \in Calls : \A i \in 1..Cur : j \in Pending(ctxs'[i]) => pc'[j] \in InExchange
    <3>1. \A j \in Calls : \A i \in 1..Cur : j \in Pending(ctxs'[i]) => pc[j] \in InExchange
      BY <1>0, <1>1 DEF Linked, AllKeep, Keeps
    <3> QED
      BY <1>3, <1>a, <3>1 DEF InExchange, Transmitted, Decoding
  <2>5. \A j \in Calls : pc'[j] \in InExchange => pc[j] \in InExchange
    BY <1>3, <1>a DEF InExchange, Transmitted, Decoding
  <2>6. pc[k] \notin {"local", "ended"} /\ (pc[k] = "notifying" => pc'[k] \in {"local", "ended"})
    BY <1>3, <1>a
  <2>7. \A j \in Calls : pc'[j] = "notifying" => pc[j] = "notifying"
    BY <1>3
  <2> QED
    BY <1>1, <1>3, <2>1, <2>2, <2>3, <2>4, <2>5, <2>6, <2>7 DEF Routine, Plain, NoNewClaim
<1> QED
  BY <1>4, <1>5, <1>6, <1>7, RoutineKeeps

\* Where a call fails, and what the code has done to the contexts by then.
LEMMA MetadataKeeps ==
    ASSUME Inv, NEW k \in Calls, Metadata(k)
    PROVE  Inv'
<1>0. Types /\ Linked /\ Places /\ Statuses
  BY DEF Inv
<1>1. CASE lease = 0
  <2>1. Fail(k, [i \in 1..Cur |-> Retired(ctxs[i])]) /\ Running(k)
    BY <1>1 DEF Metadata, Running
  <2> QED
    BY <1>0, <2>1, SteadyRetired, FailKeeps
<1>2. CASE lease # 0
  <2> DEFINE Read == /\ Becomes(meta, k, lease) /\ Becomes(pc, k, "metadata")
                     /\ UNCHANGED <<ctxs, lease, rv, todo, st, tok, at, victim, saw, child, sent>>
  <2>0. pc[k] = "validated" /\ IsExchange(k) /\ Read
    BY <1>2 DEF Metadata
  <2>1. Types'
    BY <1>0, <2>0 DEF Types, PCs, Becomes
  <2>2. Places'
    BY <1>0, <2>0 DEF Places, Types, InExchange, Transmitted, Decoding, IsExchange, Becomes
  <2>3. Statuses'
    BY <1>0, <2>0 DEF Statuses, Types, Transmitted, Decoding, Becomes
  <2>4. Routine
    <3>1. /\ AllKeep(ctxs') /\ Cur' = Cur
          /\ \A i \in 1..Cur : \A j \in Pending(ctxs'[i]) :
               j \in Calls /\ at[j] = i /\ pc[j] \in InExchange
      BY <2>0, ContextsAlone
    <3>2. Extends
      BY <2>0 DEF Extends, Doomed, terminal
    <3>3. HandshakesStay /\ NoNewClaim /\ Dispatched
      BY <1>0, <2>0 DEF HandshakesStay, NoNewClaim, Claims, Dispatched, Types, Becomes
    <3>4. \A j \in Calls : pc'[j] = "cleaning" => pc[j] = "cleaning" /\ ctxs'[at[j]].closing
      BY <1>0, <2>0 DEF Inv, Deletes, Types, Becomes
    <3>5. \A j \in Calls : pc[j] \in InExchange => pc'[j] \in InExchange
      BY <1>0, <2>0 DEF Types, InExchange, Transmitted, Decoding, Becomes
    <3> QED
      BY <1>0, <2>0, <3>1, <3>2, <3>3, <3>4, <3>5
         DEF Routine, Plain, NoNewClaim, Types, InExchange, Transmitted, Decoding, Becomes
  <2> QED
    BY <2>1, <2>2, <2>3, <2>4, RoutineKeeps
<1> QED
  BY <1>1, <1>2 DEF Metadata

\* The current context, as prepare_remote leaves it.
LEMMA CurrentKeeps ==
    ASSUME Inv, NEW k \in Calls
    PROVE  /\ AllSteady(Current(k)) /\ Len(Current(k)) = Cur
           /\ CurrentLives(k) => Cur \in 1..Cur /\ Current(k) = ctxs /\ Alive(ctxs[Cur])
<1>0. Types /\ Linked /\ Cur \in Nat
  BY DEF Inv, Types, Cur
<1>1. CASE Cur = 0
  BY <1>0, <1>1, SteadySame DEF Current, CurrentLives, Cur
<1>2. CASE Cur > 0
  <2> DEFINE c == ctxs[Cur]
             d == IF c.lease # meta[k] THEN Retired(c) ELSE Checked(c)
  <2>1. c \in Contexts /\ Sound(c) /\ Cur \in 1..Cur
    BY <1>0, <1>2, ContextFacts
  <2>2. Steady(c, d)
    BY <2>1, RetiredKeeps, CheckedKeeps
  <2>3. Current(k) = [ctxs EXCEPT ![Cur] = d]
    BY <1>2 DEF Current
  <2>4. Alive(d) => d = c
    <3>1. ~Alive(Retired(c))
      BY <2>1, RetiredKeeps DEF Alive
    <3> QED
      BY <3>1 DEF Checked
  <2> HIDE DEF d
  <2>5. AllSteady(Current(k)) /\ Len(Current(k)) = Cur
    BY <1>0, <2>1, <2>2, <2>3, SteadyAt DEF AllSteady, Cur
  <2>6. CurrentLives(k) => Current(k) = ctxs /\ Alive(ctxs[Cur])
    <3>1. Current(k)[Cur] = d
      BY <1>0, <2>1, <2>3 DEF Types, Cur
    <3>2. d = c => [ctxs EXCEPT ![Cur] = d] = ctxs
      BY <1>0, <2>1 DEF Types, Cur
    <3> QED
      BY <2>3, <2>4, <3>1, <3>2 DEF CurrentLives
  <2> QED
    BY <2>1, <2>5, <2>6
<1> QED
  BY <1>0, <1>1, <1>2

\* A call that is refused.
LEMMA PrepareRefusedKeeps ==
    ASSUME Inv, NEW k \in Calls, PrepareRefused(k)
    PROVE  Inv'
<1>1. Running(k) /\ (Fail(k, ctxs) \/ Fail(k, Current(k)))
  BY DEF PrepareRefused, Running
<1>2. AllSteady(ctxs) /\ AllSteady(Current(k))
  BY SteadySame, CurrentKeeps DEF Inv
<1> QED
  BY <1>1, <1>2, FailKeeps

\* One context is retired or invalidated.
LEMMA OneEnds ==
    ASSUME Inv, NEW k \in Calls, at[k] # 0
    PROVE  /\ at[k] \in 1..Cur /\ ctxs[at[k]] \in Contexts /\ Sound(ctxs[at[k]])
           /\ AllSteady([ctxs EXCEPT ![at[k]] = Retired(@)])
           /\ AllSteady([ctxs EXCEPT ![at[k]] = invalidate(@)])
<1>1. Types /\ Linked /\ at[k] \in 1..Cur
  BY DEF Inv, Types, Cur
<1>2. ctxs[at[k]] \in Contexts /\ Sound(ctxs[at[k]])
  BY <1>1, ContextFacts
<1>3. /\ AllSteady([ctxs EXCEPT ![at[k]] = Retired(ctxs[at[k]])])
      /\ AllSteady([ctxs EXCEPT ![at[k]] = invalidate(ctxs[at[k]])])
  BY <1>1, <1>2, RetiredKeeps, invalidateKeeps, SteadyAt
<1> QED
  BY <1>1, <1>2, <1>3

\* The headers of an answer.
LEMMA StartResponseKeeps ==
    ASSUME Inv, NEW k \in Calls, StartResponse(k)
    PROVE  Inv'
<1>0. Types /\ Linked /\ Places /\ Statuses /\ Deletes
  BY DEF Inv
<1>1. pc[k] = "sent" /\ at[k] # 0 /\ k \in Pending(ctxs[at[k]])
  BY <1>0 DEF StartResponse, Places, InExchange, Transmitted, Valid, CtxOf
<1>2. CASE Fail(k, [ctxs EXCEPT ![at[k]] = invalidate(@)])
  BY <1>1, <1>2, OneEnds, FailKeeps DEF Running
<1> DEFINE Admitted ==
      /\ ctxs' = [ctxs EXCEPT ![at[k]] = start_response(@, k)]
      /\ Becomes(pc, k, "responding")
      /\ UNCHANGED <<lease, rv, todo, st, tok, at, meta, victim, saw, child, sent>>
<1>3. CASE Admitted
  <2>1. AllSteady(ctxs')
    <3>1. at[k] \in 1..Cur /\ Steady(ctxs[at[k]], start_response(ctxs[at[k]], k))
      BY <1>1, OneEnds, start_responseKeeps
    <3>2. ctxs' = [ctxs EXCEPT ![at[k]] = start_response(ctxs[at[k]], k)]
      BY <1>3
    <3> QED
      BY <1>0, <3>1, <3>2, SteadyAt
  <2>2. AllKeep(ctxs') /\ \A i \in 1..Cur : ctxs'[i].closing = ctxs[i].closing
    BY <2>1 DEF AllSteady, AllKeep, Steady
  <2>3. Types'
    BY <1>0, <1>3, <2>2 DEF AllKeep, Types, PCs, InExchange, Transmitted, Decoding, Becomes
  <2>4. Places'
    BY <1>0, <1>1, <1>3 DEF Places, Types, InExchange, Transmitted, Decoding, IsExchange, Becomes
  <2>5. Statuses'
    BY <1>0, <1>1, <1>3 DEF Statuses, Types, Transmitted, Decoding, Becomes
  <2>6. Routine
    <3>1. UNCHANGED <<rv, st, at, sent, saw, victim, child>>
      BY <1>3
    <3>2. Extends /\ HandshakesStay /\ Dispatched
      BY <3>1 DEF Extends, Doomed, terminal, HandshakesStay, Dispatched
    <3>3. NoNewClaim
      BY <1>0, <1>3 DEF NoNewClaim, Claims, Types, Becomes
    <3>4. \A j \in Calls : pc'[j] = IF j = k THEN "responding" ELSE pc[j]
      BY <1>0, <1>3 DEF Types, Becomes
    <3>5. \A j \in Calls : pc'[j] = "cleaning" => pc[j] = "cleaning" /\ ctxs'[at[j]].closing
      <4>1. \A j \in Calls : pc[j] = "cleaning" => at[j] \in 1..Cur /\ ctxs[at[j]].closing
        BY <1>0 DEF Deletes, Types, Cur
      <4> QED
        BY <2>2, <3>4, <4>1
    <3>6. \A j \in Calls : \A i \in 1..Cur : j \in Pending(ctxs'[i]) => pc[j] \in InExchange
      BY <1>0, <2>2 DEF Linked, AllKeep, Keeps
    <3> QED
      BY <1>1, <2>2, <3>1, <3>2, <3>3, <3>4, <3>5, <3>6 DEF Routine, Plain, NoNewClaim, InExchange, Transmitted, Decoding
  <2> QED
    BY <2>3, <2>4, <2>5, <2>6, RoutineKeeps
<1> QED
  BY <1>2, <1>3 DEF StartResponse

\* A body that is refused, custody that is gone, and every other end.
LEMMA EndsKeep ==
    ASSUME Inv, NEW k \in Calls, RejectBody(k) \/ CustodyLost(k) \/ GiveUp(k)
    PROVE  Inv'
<1>1. CASE RejectBody(k) \/ CustodyLost(k)
  <2>1. pc[k] \in InExchange /\ Running(k)
    BY <1>1 DEF RejectBody, CustodyLost, InExchange, Transmitted, Decoding, Running
  <2>2. at[k] # 0
    BY <2>1 DEF Inv, Places
  <2>3. Fail(k, [ctxs EXCEPT ![at[k]] = Retired(@)])
    BY <1>1 DEF RejectBody, CustodyLost
  <2> QED
    BY <2>1, <2>2, <2>3, OneEnds, FailKeeps
<1>2. CASE GiveUp(k)
  <2>1. AllSteady(ctxs)
    BY SteadySame DEF Inv
  <2> QED
    BY <1>2, <2>1, FailKeeps DEF GiveUp
<1> QED
  BY <1>1, <1>2

\* The end of a control child.
LEMMA ChildEndsKeep ==
    ASSUME Inv, NEW k \in Calls, ChildSkipped(k) \/ ChildAcknowledged(k) \/ ChildFailed(k)
    PROVE  Inv'
<1>0. child[k] # "none"
  BY DEF ChildSkipped, ChildAcknowledged, ChildFailed
<1>1. at[k] # 0 /\ Running(k)
  BY <1>0 DEF Inv, Places, Deletes, Claimed, InExchange, Transmitted, Running
<1>2. AllSteady(ctxs)
  BY SteadySame DEF Inv
<1>3. CASE ChildSkipped(k) \/ ChildAcknowledged(k)
  BY <1>0, <1>2, <1>3, ResumeKeeps DEF ChildSkipped, ChildAcknowledged
<1>4. CASE ChildFailed(k)
  <2>1. PICK cs \in ChildFailures(k) :
           IF ChildKind(k) = "ping" THEN Fail(k, cs) ELSE Resume(k, cs)
    BY <1>4 DEF ChildFailed
  <2>2. AllSteady(cs)
    <3>1. cs = ctxs \/ cs = [ctxs EXCEPT ![at[k]] = Retired(@)]
      BY <2>1 DEF ChildFailures
    <3> QED
      BY <1>1, <1>2, <3>1, OneEnds
  <2> QED
    BY <1>0, <1>1, <2>1, <2>2, FailKeeps, ResumeKeeps
<1> QED
  BY <1>3, <1>4

\* A request is handed to the transport.
LEMMA BeginDispatchKeeps ==
    ASSUME Inv, NEW k \in Calls, BeginDispatch(k)
    PROVE  Inv'
<1>0. Types /\ Places /\ Statuses /\ Deletes
  BY DEF Inv
<1>1. /\ pc[k] = "ready" /\ st[k] = "ready" /\ at[k] \in 1..Cur /\ at[k] \in 1..MaxContexts
      /\ sent' = sent \cup {Request(k, at[k])}
      /\ \A j \in Calls : pc'[j] = (IF j = k THEN "sent" ELSE pc[j])
                          /\ st'[j] = (IF j = k THEN "dispatching" ELSE st[j])
      /\ UNCHANGED <<ctxs, lease, rv, todo, tok, at, meta, victim, saw, child>>
  BY <1>0, RemoteAssumption DEF BeginDispatch, Becomes, Types, Places, InExchange, Request, Cur
<1>2. Types'
  <2>1. Request(k, at[k]) \in Records
    BY <1>1 DEF Request, Records
  <2> QED
    BY <1>0, <1>1, <2>1 DEF Types, PCs, States, InExchange, Transmitted, BeginDispatch, Becomes
<1>3. Places'
  BY <1>0, <1>1 DEF Places, InExchange, Transmitted, Decoding
<1>4. Statuses'
  BY <1>0, <1>1 DEF Statuses, Types, Transmitted, Decoding
<1>5. Routine
  <2>1. /\ AllKeep(ctxs') /\ Cur' = Cur
        /\ \A i \in 1..Cur : \A j \in Pending(ctxs'[i]) :
             j \in Calls /\ at[j] = i /\ pc[j] \in InExchange
    BY <1>1, ContextsAlone
  <2>2. Extends /\ HandshakesStay
    BY <1>1 DEF Extends, Doomed, terminal, HandshakesStay
  <2>3. NoNewClaim
    BY <1>1 DEF NoNewClaim, Claims
  <2>4. Dispatched
    BY <1>1 DEF Dispatched
  <2>5. \A j \in Calls : pc'[j] = "cleaning" => pc[j] = "cleaning" /\ ctxs'[at[j]].closing
    BY <1>0, <1>1 DEF Deletes
  <2>6. \A x \in sent' : x \in sent \/ x = Request(k, at[k])
    BY <1>1
  <2>7. /\ Request(k, at[k]).kind = "request" /\ Request(k, at[k]).subject = k
        /\ Request(k, at[k]).ctx = at[k]
    BY DEF Request
  <2> QED
    BY <1>1, <2>1, <2>2, <2>3, <2>4, <2>5, <2>6, <2>7 DEF Routine, Plain, NoNewClaim, InExchange, Transmitted, Decoding
<1> QED
  BY <1>2, <1>3, <1>4, <1>5, RoutineKeeps

\* A control message is handed to the transport.
LEMMA ChildDispatchKeeps ==
    ASSUME Inv, NEW k \in Calls, ChildDispatch(k)
    PROVE  Inv'
<1>0. /\ Types /\ Linked /\ Places /\ Statuses /\ Shaken /\ Deletes /\ Claimed /\ Told_once
      /\ RevokedContextsDead
  BY DEF Inv
<1> DEFINE r == [kind |-> ChildKind(k), ctx |-> at[k], by |-> k, subject |-> victim[k]]
<1>1. /\ child[k] = "ready"
      /\ sent' = IF ChildKind(k) = "ping" THEN sent ELSE sent \cup {r}
      /\ \A j \in Calls : child'[j] = IF j = k THEN "sent" ELSE child[j]
      /\ UNCHANGED <<ctxs, lease, rv, todo, pc, st, tok, at, meta, victim, saw>>
  BY <1>0 DEF ChildDispatch, Becomes, Types
<1>2. /\ ChildKind(k) = "cancel" => pc[k] = "notifying" /\ Method[k] \in {"cancel", "abort"}
      /\ ChildKind(k) = "delete" => pc[k] = "cleaning" /\ Method[k] = "delete"
      /\ ChildKind(k) \in {"cancel", "delete", "ping"}
      /\ at[k] # 0
  BY <1>0, <1>1 DEF ChildKind, Places, Deletes, Claimed, InExchange, Transmitted
<1>3. r.kind = ChildKind(k) /\ r.ctx = at[k] /\ r.by = k /\ r.subject = victim[k]
  OBVIOUS
<1>4. at[k] \in 1..MaxContexts /\ at[k] \in 1..Cur /\ victim[k] \in Calls
  BY <1>0, <1>2, RemoteAssumption DEF Types, Cur
<1>5. Types'
  <2>1. ChildKind(k) # "ping" => r \in Records
    BY <1>2, <1>4 DEF Records
  <2>2. sent' \subseteq Records
    BY <1>0, <1>1, <2>1 DEF Types
  <2>3. child' \in [Calls -> {"none", "new", "ready", "sent"}]
    BY <1>0 DEF Types, ChildDispatch, Becomes
  <2> QED
    BY <1>0, <1>1, <2>2, <2>3 DEF Types
<1>6. Places'
  BY <1>0, <1>1 DEF Places
<1>7. Statuses'
  BY <1>0, <1>1 DEF Statuses
<1>8. /\ AllKeep(ctxs') /\ Cur' = Cur
      /\ \A i \in 1..Cur : \A j \in Pending(ctxs'[i]) :
           j \in Calls /\ at[j] = i /\ pc[j] \in InExchange
  BY <1>1, ContextsAlone
<1> HIDE DEF r
<1>9. \A x \in sent' : x \in sent \/ (x = r /\ ChildKind(k) # "ping")
  BY <1>1
<1>10. Extends /\ HandshakesStay /\ NoNewClaim /\ Dispatched
  BY <1>1 DEF Extends, Doomed, terminal, HandshakesStay, NoNewClaim, Claims, Dispatched
<1>11. CASE ChildKind(k) # "cancel"
  <2>1. Routine
    <3>1. \A j \in Calls : pc'[j] = "cleaning" => pc[j] = "cleaning" /\ ctxs'[at[j]].closing
      BY <1>0, <1>1 DEF Deletes
    <3>2. ChildKind(k) = "delete" => r.subject = k
      BY <1>0, <1>2, <1>3 DEF Places
    <3>3. \A x \in sent' :
             /\ x.kind = "request" => x \in sent
             /\ x.kind = "delete" => x \in sent \/
                  (Method[x.by] = "delete" /\ x.ctx = at[x.by] /\ x.subject = x.by)
             /\ x.kind = "cancel" => x \in sent
      BY <1>2, <1>3, <1>9, <1>11, <3>2
    <3> QED
      BY <1>1, <1>8, <1>10, <3>1, <3>3 DEF Routine, Plain, NoNewClaim
  <2> QED
    BY <1>5, <1>6, <1>7, <2>1, RoutineKeeps
<1>12. CASE ChildKind(k) = "cancel"
  <2>0. MarksStay /\ pc[k] = "notifying" /\ Method[k] \in {"cancel", "abort"} /\ Claims(k)
    BY <1>2, <1>8, <1>12, KeepsMarks DEF Claims
  <2>1. Linked'
    BY <1>0, <1>1, <1>8, LinkedStays
  <2>2. Shaken'
    <3>1. \A x \in sent' : x.kind = "request" => x \in sent
      BY <1>3, <1>9, <1>12
    <3> QED
      BY <1>0, <1>1, <1>5, <1>8, <1>10, <3>1, ShakenStays, KeepsStates DEF Places
  <2>3. Deletes'
    <3>1. \A x \in sent' : x.kind = "delete" => x \in sent
      BY <1>3, <1>9, <1>12
    <3>2. \A x \in sent' : x.by \in Calls
      BY <1>5 DEF Types, Records
    <3>3. \A j \in Calls : pc'[j] = "cleaning" => pc[j] = "cleaning" /\ ctxs'[at[j]].closing
      BY <1>0, <1>1 DEF Deletes
    <3> QED
      BY <1>0, <1>1, <1>8, <1>10, <3>1, <3>2, <3>3, DeletesStay, KeepsStates
  <2>4. Claimed'
    BY <1>0, <1>1, <1>10, <2>0, ClaimedStays
  <2>5. RevokedContextsDead'
    BY <1>0, <1>1, <1>8, RevokedStays
  <2>6. Told_once'
    <3>1. /\ Doomed(victim[k])' /\ Request(victim[k], at[k]) \in sent'
          /\ Method[victim[k]] \notin Handshake /\ st[victim[k]] = "unknown"
      <4>1. /\ Doomed(victim[k]) /\ Request(victim[k], at[k]) \in sent
            /\ Method[victim[k]] \notin Handshake /\ st[victim[k]] = "unknown"
        BY <1>0, <2>0 DEF Claimed
      <4>2. Doomed(victim[k])'
        BY <1>1, <4>1 DEF Doomed
      <4> QED
        BY <1>1, <4>1, <4>2
    <3>2. ASSUME NEW x \in sent, x.kind = "cancel"
          PROVE  /\ x.ctx = at[x.by] /\ Method[x.by] \in {"cancel", "abort"}
                 /\ \/ pc[x.by] \in {"local", "ended"}
                    \/ pc[x.by] = "notifying" /\ child'[x.by] = "sent" /\ victim[x.by] = x.subject
                 /\ Doomed(x.subject)' /\ Request(x.subject, x.ctx) \in sent'
                 /\ Method[x.subject] \notin Handshake /\ st[x.subject] = "unknown"
      <4>1. x.by \in Calls /\ x.subject \in Calls
        BY <1>0 DEF Types, Records
      <4>2. /\ x.ctx = at[x.by] /\ Method[x.by] \in {"cancel", "abort"}
            /\ \/ pc[x.by] \in {"local", "ended"}
               \/ pc[x.by] = "notifying" /\ child[x.by] = "sent" /\ victim[x.by] = x.subject
            /\ Doomed(x.subject) /\ Request(x.subject, x.ctx) \in sent
            /\ Method[x.subject] \notin Handshake /\ st[x.subject] = "unknown"
        BY <1>0, <3>2 DEF Told_once
      <4>3. Doomed(x.subject)'
        BY <1>1, <4>2 DEF Doomed
      <4> QED
        BY <1>1, <4>1, <4>2, <4>3
    <3>3. \A x \in sent : x.kind = "cancel" => x.subject # victim[k]
      <4> SUFFICES ASSUME NEW x \in sent, x.kind = "cancel", x.subject = victim[k]
                   PROVE  FALSE
        OBVIOUS
      <4>1. x.by = k
        BY <1>0, <2>0 DEF Told_once
      <4>2. child[k] = "sent"
        BY <1>0, <2>0, <4>1 DEF Told_once
      <4> QED
        BY <1>1, <4>2
    <3>4. \A x \in sent' : x.kind = "cancel" =>
            /\ x.ctx = at'[x.by] /\ Method[x.by] \in {"cancel", "abort"}
            /\ \/ pc'[x.by] \in {"local", "ended"}
               \/ pc'[x.by] = "notifying" /\ child'[x.by] = "sent" /\ victim'[x.by] = x.subject
            /\ Doomed(x.subject)' /\ Request(x.subject, x.ctx) \in sent'
            /\ Method[x.subject] \notin Handshake /\ st'[x.subject] = "unknown"
      <4> SUFFICES ASSUME NEW x \in sent', x.kind = "cancel"
                   PROVE
            /\ x.ctx = at'[x.by] /\ Method[x.by] \in {"cancel", "abort"}
            /\ \/ pc'[x.by] \in {"local", "ended"}
               \/ pc'[x.by] = "notifying" /\ child'[x.by] = "sent" /\ victim'[x.by] = x.subject
            /\ Doomed(x.subject)' /\ Request(x.subject, x.ctx) \in sent'
            /\ Method[x.subject] \notin Handshake /\ st'[x.subject] = "unknown"
        OBVIOUS
      <4>1. CASE x \in sent
        BY <1>1, <3>2, <4>1
      <4>2. CASE x = r
        <5>1. x.by = k /\ x.ctx = at[k] /\ x.subject = victim[k]
          BY <1>3, <4>2
        <5>2. Doomed(x.subject)'
          BY <1>1, <3>1, <5>1 DEF Doomed
        <5> QED
          BY <1>1, <2>0, <3>1, <5>1, <5>2
      <4> QED
        BY <1>9, <4>1, <4>2
    <3>5. \A x \in sent', j \in Calls :
             x.kind = "cancel" /\ Claims(j)' /\ victim'[j] = x.subject => x.by = j
      <4>1. \A j \in Calls : Claims(j)' <=> Claims(j)
        BY <1>1 DEF Claims
      <4>2. \A j \in Calls : Claims(j) /\ victim[j] = victim[k] => j = k
        BY <1>0, <2>0 DEF Claimed
      <4>3. \A x \in sent, j \in Calls : x.kind = "cancel" /\ Claims(j) /\ victim[j] = x.subject => x.by = j
        BY <1>0 DEF Told_once
      <4> QED
        BY <1>1, <1>3, <1>9, <4>1, <4>2, <4>3
    <3>6. \A x, y \in sent' :
             x.kind = "cancel" /\ y.kind = "cancel" /\ x.subject = y.subject => x = y
      BY <1>0, <1>3, <1>9, <3>3 DEF Told_once
    <3> QED
      BY <3>4, <3>5, <3>6 DEF Told_once, Claims, Request
  <2> QED
    BY <1>5, <1>6, <1>7, <2>1, <2>2, <2>3, <2>4, <2>5, <2>6 DEF Inv
<1> QED
  BY <1>11, <1>12

-----------------------------------------------------------------------------
(* The revoking thread, the store and time *)

\* A step that leaves the calls alone and only ends contexts.
LEMMA CallsAlone ==
    ASSUME Inv, AllSteady(ctxs'), UNCHANGED <<callVars, sent>>, lease' \in 0..2,
           rv' \in {"no", "operations", "contexts", "done"}, todo' \subseteq Calls,
           \A k \in todo' : st[k] # "none",
           rv' = "done" => \A i \in 1..Cur : ctxs'[i].st \in Dead /\ ctxs'[i].token
    PROVE  Inv'
<1>0. /\ Types /\ Linked /\ Places /\ Statuses /\ Shaken /\ Deletes /\ Claimed /\ Told_once
  BY DEF Inv
<1>1. /\ AllKeep(ctxs') /\ Cur' = Cur /\ \A i \in 1..Cur : ctxs'[i].closing = ctxs[i].closing
      /\ ctxs' \in Seq(Contexts) /\ Len(ctxs') = Len(ctxs)
  BY DEF AllSteady, AllKeep, Steady, Cur
<1>2. UNCHANGED <<pc, st, tok, at, meta, victim, saw, child, sent>>
  BY DEF callVars
<1>3. Types'
  BY <1>0, <1>1, <1>2 DEF Types
<1>4. Places'
  BY <1>0, <1>2 DEF Places
<1>5. Statuses'
  BY <1>0, <1>2 DEF Statuses
<1>6. Extends /\ HandshakesStay /\ NoNewClaim /\ Dispatched /\ MarksStay
  BY <1>1, <1>2, KeepsMarks
     DEF Extends, Doomed, terminal, HandshakesStay, NoNewClaim, Claims, Dispatched
<1>7. Linked'
  BY <1>0, <1>1, <1>2, LinkedStays DEF Linked, AllKeep, Keeps
<1>8. Shaken'
  BY <1>0, <1>1, <1>2, <1>3, <1>6, ShakenStays, KeepsStates DEF Places
<1>9. Deletes'
  <2>1. \A x \in sent' : x.by \in Calls
    BY <1>3 DEF Types, Records
  <2>2. \A k \in Calls : pc[k] = "cleaning" => at[k] \in 1..Cur /\ ctxs[at[k]].closing
    BY <1>0 DEF Deletes, Types, Cur
  <2>3. \A k \in Calls : pc'[k] = "cleaning" => pc[k] = "cleaning" /\ ctxs'[at[k]].closing
    BY <1>1, <1>2, <2>2
  <2> QED
    BY <1>0, <1>1, <1>2, <1>6, <2>1, <2>3, DeletesStay, KeepsStates
<1>10. Claimed'
  BY <1>0, <1>2, <1>6, ClaimedStays
<1>11. Told_once'
  BY <1>0, <1>2, <1>6, ToldStays DEF NoNewClaim
<1>12. RevokedContextsDead'
  BY <1>1 DEF RevokedContextsDead, Dead
<1> QED
  BY <1>3, <1>4, <1>5, <1>7, <1>8, <1>9, <1>10, <1>11, <1>12 DEF Inv

\* The session is revoked.
LEMMA RevokePublishKeeps ==
    ASSUME Inv, RevokePublish
    PROVE  Inv'
<1>1. AllSteady(ctxs')
  BY SteadySame DEF Inv, RevokePublish
<1> QED
  BY <1>1, CallsAlone DEF RevokePublish, Inv, Types

\* The contexts are retired.
LEMMA RevokeContextsKeeps ==
    ASSUME Inv, RevokeContexts
    PROVE  Inv'
<1>0. Types /\ Linked /\ Statuses
  BY DEF Inv
<1>1. CASE rv = "operations" /\ todo = {} /\ rv' = "contexts" /\ UNCHANGED ctxs
  <2>1. AllSteady(ctxs')
    BY <1>0, <1>1, SteadySame
  <2> QED
    BY <1>0, <1>1, <2>1, CallsAlone DEF RevokeContexts, Types, Statuses
<1>2. CASE rv = "contexts" /\ rv' = "done" /\ ctxs' = [i \in 1..Cur |-> Retired(ctxs[i])]
  <2>1. AllSteady(ctxs') /\ \A i \in 1..Cur : ctxs'[i].st \in Dead /\ ctxs'[i].token
    BY <1>0, <1>2, SteadyRetired
  <2> QED
    BY <1>0, <1>2, <2>1, CallsAlone DEF RevokeContexts, Types, Statuses
<1> QED
  BY <1>1, <1>2 DEF RevokeContexts

\* The current context expires.
LEMMA ExpireKeeps ==
    ASSUME Inv, Expire
    PROVE  Inv'
<1>0. Types /\ Linked /\ Statuses /\ RevokedContextsDead
  BY DEF Inv
<1> DEFINE c == ctxs[Cur]
           d == [c EXCEPT !.expired = TRUE]
<1>1. Cur \in 1..Cur /\ c \in Contexts /\ Sound(c)
  BY <1>0, ContextFacts DEF Expire
<1>2. ctxs' = [ctxs EXCEPT ![Cur] = d]
  BY DEF Expire
<1> HIDE DEF c
<1>3. /\ d \in Contexts /\ d.st = c.st /\ d.pend = c.pend /\ d.native = c.native
      /\ d.token = c.token /\ d.closing = c.closing
  BY <1>1 DEF Contexts
<1> HIDE DEF d
<1>4. Sound(d)
  BY <1>1, <1>3 DEF Sound, Initializers, Notifiers, Pending
<1>5. Steady(c, d)
  BY <1>3, <1>4 DEF Steady, Keeps, Pending
<1>6. AllSteady(ctxs')
  BY <1>0, <1>1, <1>2, <1>5, SteadyAt DEF c
<1>7. rv' = "done" => \A i \in 1..Cur : ctxs'[i].st \in Dead /\ ctxs'[i].token
  BY <1>0, <1>6 DEF Expire, RevokedContextsDead, AllSteady, Steady, Keeps, Dead
<1> QED
  BY <1>0, <1>6, <1>7, CallsAlone DEF Expire, Types, Statuses

\* The item is replaced, or the store locked.
LEMMA ChangeCustodyKeeps ==
    ASSUME Inv, ChangeCustody
    PROVE  Inv'
<1>0. Types /\ Linked /\ Statuses /\ RevokedContextsDead
  BY DEF Inv
<1>1. AllSteady(ctxs')
  BY <1>0, SteadySame DEF ChangeCustody
<1> QED
  BY <1>0, <1>1, CallsAlone DEF ChangeCustody, Types, Statuses, RevokedContextsDead

\* The revoking thread cancels an operation.
LEMMA RevokeOperationKeeps ==
    ASSUME Inv, NEW k \in Calls, RevokeOperation(k)
    PROVE  Inv'
<1>0. Types /\ Places /\ Statuses /\ Deletes
  BY DEF Inv
<1>1. /\ \A j \in Calls : st'[j] = IF j = k THEN Cancelled(st[j]) ELSE st[j]
      /\ todo' = todo \ {k} /\ k \in todo
      /\ UNCHANGED <<ctxs, lease, rv, pc, at, meta, victim, saw, child, sent>>
  BY <1>0 DEF RevokeOperation, Becomes, Types
<1>2. /\ Cancelled(st[k]) \in States /\ st[k] # "none"
      /\ Cancelled(st[k]) \notin {"none", "dispatching"}
      /\ Cancelled(st[k]) = "completed" => st[k] = "completed"
      /\ terminal(st[k]) => Cancelled(st[k]) = st[k]
      /\ st[k] = "dispatching" => Cancelled(st[k]) = "unknown"
  BY <1>0, <1>1 DEF Cancelled, Types, States, terminal, Statuses
<1>3. Types'
  BY <1>0, <1>1, <1>2 DEF Types, RevokeOperation, Becomes
<1>4. Places'
  BY <1>0, <1>1 DEF Places
<1>5. Statuses'
  BY <1>0, <1>1, <1>2 DEF Statuses, Types
<1>6. Routine
  <2>1. /\ AllKeep(ctxs') /\ Cur' = Cur
        /\ \A i \in 1..Cur : \A j \in Pending(ctxs'[i]) :
             j \in Calls /\ at[j] = i /\ pc[j] \in InExchange
    BY <1>1, ContextsAlone
  <2>2. Extends /\ HandshakesStay
    BY <1>1, <1>2 DEF Extends, Doomed, HandshakesStay
  <2>3. NoNewClaim /\ Dispatched
    BY <1>1, <1>2 DEF NoNewClaim, Claims, Dispatched
  <2>4. \A j \in Calls : pc'[j] = "cleaning" => pc[j] = "cleaning" /\ ctxs'[at[j]].closing
    BY <1>0, <1>1 DEF Deletes
  <2> QED
    BY <1>1, <2>1, <2>2, <2>3, <2>4 DEF Routine, Plain, NoNewClaim
<1> QED
  BY <1>3, <1>4, <1>5, <1>6, RoutineKeeps

-----------------------------------------------------------------------------
(* Cancellation *)

\* The status of the victim is read: one that was dispatching has its request
\* on record.
LEMMA ReadVictimKeeps ==
    ASSUME Inv, NEW k \in Calls, ReadVictim(k)
    PROVE  Inv'
<1>0. Types /\ Places /\ Statuses /\ Deletes /\ Claimed
  BY DEF Inv
<1>1. /\ pc[k] = "marked"
      /\ \A j \in Calls : /\ pc'[j] = IF j = k THEN "read" ELSE pc[j]
                          /\ saw'[j] = IF j = k THEN st[victim[k]] = "dispatching" ELSE saw[j]
      /\ UNCHANGED <<ctxs, lease, rv, todo, st, tok, at, meta, victim, child, sent>>
  BY <1>0 DEF ReadVictim, ReadStatus, Becomes, Types
<1>2. Types'
  BY <1>0 DEF ReadVictim, ReadStatus, Becomes, Types, PCs
<1>3. Places'
  BY <1>0, <1>1 DEF Places, InExchange, Transmitted, Decoding
<1>4. Statuses'
  BY <1>0, <1>1 DEF Statuses, Transmitted, Decoding
<1>5. AllKeep(ctxs') /\ \A i \in 1..Cur : \A j \in Pending(ctxs'[i]) : pc[j] \in InExchange
  BY <1>1, ContextsAlone
<1>6. Extends /\ MarksStay /\ HandshakesStay
  BY <1>1, <1>5, KeepsMarks DEF Extends, Doomed, terminal, HandshakesStay
<1>7. Claimed'
  <2>1. \A j \in Calls : Claims(j)' <=> Claims(j)
    BY <1>1 DEF Claims
  <2>2. ASSUME NEW j \in Calls, Claims(j)'
        PROVE  /\ Doomed(victim[j])' /\ at'[victim'[j]] = at'[j] /\ Method[victim'[j]] \notin Handshake
               /\ pc'[j] = "read" /\ saw'[j] =>
                    /\ Request(victim[j], at[j])' \in sent'
                    /\ st'[victim'[j]] \in {"dispatching", "unknown"}
               /\ pc'[j] = "notifying" =>
                    Request(victim[j], at[j])' \in sent' /\ st'[victim'[j]] = "unknown"
    <3>1. CASE j # k
      BY <1>0, <1>1, <1>6, <2>1, <2>2, <3>1, ClaimStays
    <3>2. CASE j = k
      <4>1. Doomed(victim[k]) /\ at[victim[k]] = at[k] /\ Method[victim[k]] \notin Handshake
        BY <1>0, <2>1, <2>2, <3>2 DEF Claimed
      <4>2. Doomed(victim[k])'
        BY <1>1, <4>1 DEF Doomed
      <4>3. st[victim[k]] = "dispatching" => Request(victim[k], at[k])' \in sent'
        BY <1>0, <1>1, <4>1 DEF Claimed, Types, Request
      <4> QED
        BY <1>1, <3>2, <4>1, <4>2, <4>3
    <3> QED
      BY <3>1, <3>2
  <2>3. \A i, j \in Calls : Claims(i)' /\ Claims(j)' /\ victim'[i] = victim'[j] => i = j
    BY <1>0, <1>1, <2>1 DEF Claimed
  <2>4. \A j \in Calls : pc'[j] = "notifying" => at'[j] # 0
    BY <1>0, <1>1 DEF Claimed
  <2>5. \A j \in Calls : st'[j] = "dispatching" => Request(j, at[j])' \in sent'
    BY <1>0, <1>1 DEF Claimed, Request
  <2> QED
    BY <2>2, <2>3, <2>4, <2>5 DEF Claimed, Claims
<1>8. Plain
  <2>1. \A j \in Calls : pc'[j] = "cleaning" => pc[j] = "cleaning" /\ ctxs'[at[j]].closing
    BY <1>0, <1>1 DEF Deletes
  <2>2. \A j \in Calls : pc'[j] \in InExchange <=> pc[j] \in InExchange
    BY <1>1 DEF InExchange, Transmitted, Decoding
  <2>3. \A j \in Calls : Claims(j)' => Claims(j)
    BY <1>1 DEF Claims
  <2> QED
    BY <1>1, <1>5, <1>6, <2>1, <2>2, <2>3 DEF Plain
<1> QED
  BY <1>2, <1>3, <1>4, <1>7, <1>8, PlainKeeps

\* The victim's token: a claim that saw it dispatching leaves it unknown.
LEMMA CancelVictimKeeps ==
    ASSUME Inv, NEW k \in Calls, CancelVictim(k)
    PROVE  Inv'
<1>0. Types /\ Places /\ Statuses /\ Deletes /\ Claimed
  BY DEF Inv
<1> DEFINE v == victim[k]
           notify == saw[k] /\ at[k] # 0
<1>a. v \in Calls /\ pc[k] = "read" /\ Method[k] \in {"cancel", "abort"} /\ child[k] = "none"
  BY <1>0 DEF Types, CancelVictim, Places
<1>1. /\ \A j \in Calls : st'[j] = IF j = v THEN Cancelled(st[j]) ELSE st[j]
      /\ \A j \in Calls : j # k => /\ pc'[j] = pc[j] /\ saw'[j] = saw[j] /\ child'[j] = child[j]
                                   /\ victim'[j] = victim[j]
      /\ pc'[k] = IF notify THEN "notifying" ELSE IF Method[k] = "cancel" THEN "local" ELSE "ended"
      /\ saw'[k] = FALSE /\ victim'[k] = IF notify THEN v ELSE k
      /\ notify => child'[k] = "new"
      /\ ~notify => child'[k] = child[k]
      /\ UNCHANGED <<ctxs, lease, rv, todo, at, meta, sent>>
  BY <1>0 DEF CancelVictim, Becomes, Types, Spawn, AfterCancel
<1>2. Types'
  BY <1>0, <1>a DEF CancelVictim, Becomes, Types, Spawn, AfterCancel, Cancelled, PCs, States
<1>3. /\ st[v] # "none" /\ Cancelled(st[v]) \notin {"none", "dispatching"}
      /\ Cancelled(st[v]) = "completed" => st[v] = "completed"
      /\ terminal(st[v]) => Cancelled(st[v]) = st[v]
      /\ st[v] = "dispatching" => Cancelled(st[v]) = "unknown"
  BY <1>0, <1>a DEF Cancelled, terminal, Statuses
<1> HIDE DEF v, notify
<1>4. Places'
  BY <1>0, <1>1, <1>a DEF Places, InExchange, Transmitted, Decoding, notify
<1>5. Statuses'
  <2>1. \A j \in Calls : st[j] # "none" => st'[j] # "none"
    BY <1>1, <1>3
  <2>2. \A j \in Calls : /\ pc'[j] = "idle" => st'[j] = "none"
                         /\ st'[j] = "none" => pc'[j] = "idle" \/ Method[j] = "abort"
                         /\ st'[j] = "completed" => pc'[j] = "ended"
                         /\ st'[j] = "dispatching" => pc'[j] \in Transmitted
    BY <1>0, <1>1, <1>3, <1>a DEF Statuses, Transmitted, Decoding
  <2>3. \A j \in Calls : pc'[j] \in {"marked", "read"} => st'[victim'[j]] # "none"
    BY <1>0, <1>1, <2>1 DEF Statuses, Types
  <2>4. \A j \in todo' : st'[j] # "none"
    BY <1>0, <1>1, <2>1 DEF Statuses, Types
  <2> QED
    BY <2>2, <2>3, <2>4 DEF Statuses, Transmitted, Decoding
<1>6. AllKeep(ctxs') /\ \A i \in 1..Cur : \A j \in Pending(ctxs'[i]) : pc[j] \in InExchange
  BY <1>1, ContextsAlone
<1>7. Extends /\ MarksStay /\ HandshakesStay
  BY <1>1, <1>3, <1>6, KeepsMarks DEF Extends, Doomed, HandshakesStay
<1>8. \A j \in Calls : Claims(j)' => Claims(j) /\ victim'[j] = victim[j] /\ (j = k => notify)
  BY <1>1, <1>a DEF Claims, notify, v
<1>9. Claimed'
  <2>1. ASSUME NEW j \in Calls, Claims(j)'
        PROVE  /\ Doomed(victim[j])' /\ at'[victim'[j]] = at'[j] /\ Method[victim'[j]] \notin Handshake
               /\ pc'[j] = "read" /\ saw'[j] =>
                    /\ Request(victim[j], at[j])' \in sent'
                    /\ st'[victim'[j]] \in {"dispatching", "unknown"}
               /\ pc'[j] = "notifying" =>
                    Request(victim[j], at[j])' \in sent' /\ st'[victim'[j]] = "unknown"
    <3>1. CASE j # k
      BY <1>0, <1>1, <1>7, <1>8, <2>1, <3>1, ClaimStays
    <3>2. CASE j = k
      <4>0. notify /\ victim'[k] = v /\ Claims(k)
        BY <1>1, <1>8, <2>1, <3>2
      <4>1. /\ Doomed(v) /\ at[v] = at[k] /\ Method[v] \notin Handshake
            /\ Request(v, at[k]) \in sent /\ st[v] \in {"dispatching", "unknown"}
        BY <1>0, <1>a, <4>0 DEF Claimed, v, notify
      <4>2. Doomed(victim[k])'
        <5>1. \A i \in Calls : Doomed(i) => Doomed(i)'
          BY <1>0, <1>7, DoomedStays
        <5> QED
          BY <1>a, <4>0, <4>1, <5>1 DEF Doomed
      <4>3. Request(victim[k], at[k])' \in sent'
        BY <1>1, <4>0, <4>1 DEF Request
      <4>4. st'[v] = "unknown"
        BY <1>1, <1>3, <1>a, <4>1 DEF terminal
      <4> QED
        BY <1>1, <3>2, <4>0, <4>1, <4>2, <4>3, <4>4
    <3> QED
      BY <3>1, <3>2
  <2>2. \A i, j \in Calls : Claims(i)' /\ Claims(j)' /\ victim'[i] = victim'[j] => i = j
    BY <1>0, <1>8 DEF Claimed
  <2>3. \A j \in Calls : pc'[j] = "notifying" => at'[j] # 0
    BY <1>0, <1>1 DEF Claimed, notify
  <2>4. \A j \in Calls : st'[j] = "dispatching" => Request(j, at[j])' \in sent'
    BY <1>0, <1>1, <1>3 DEF Claimed, Request
  <2> QED
    BY <2>1, <2>2, <2>3, <2>4 DEF Claimed, Claims
<1>10. Plain
  <2>1. \A j \in Calls : pc'[j] = "cleaning" => pc[j] = "cleaning" /\ ctxs'[at[j]].closing
    BY <1>0, <1>1 DEF Deletes
  <2>2. \A j \in Calls : pc'[j] \in InExchange <=> pc[j] \in InExchange
    BY <1>1, <1>a DEF InExchange, Transmitted, Decoding
  <2> QED
    BY <1>1, <1>6, <1>7, <1>8, <1>a, <2>1, <2>2 DEF Plain
<1> QED
  BY <1>2, <1>4, <1>5, <1>9, <1>10, PlainKeeps

\* The first mark of an exchange: it was not doomed and now is.
LEMMA FirstMarkDooms ==
    ASSUME Inv, Cur > 0, NEW j, NEW c, c = Aged(ctxs[Cur]), FirstMark(c, j), Method[j] \notin Handshake,
           ctxs' = [ctxs EXCEPT ![Cur] = Told(Marked(c, j))], at'[j] = at[j], st'[j] = st[j]
    PROVE  /\ j \in Calls /\ at[j] = Cur /\ pc[j] \in InExchange /\ st[j] # "none"
           /\ ~Doomed(j) /\ Doomed(j)'
<1>0. Types /\ Linked /\ Places /\ Statuses
  BY DEF Inv
<1>1. Cur \in 1..Cur /\ ctxs[Cur] \in Contexts /\ Sound(ctxs[Cur])
  BY <1>0, ContextFacts
<1>2. Steady(ctxs[Cur], c) /\ c \in Contexts /\ Sound(c)
  BY <1>1, AgedKeeps DEF Steady, Keeps
<1>3. j \in Pending(c) /\ Id[j] # NoId /\ ~c.pend[j].cancelled
  BY DEF FirstMark
<1>4. j \in Pending(ctxs[Cur]) /\ ~ctxs[Cur].pend[j].cancelled
  BY <1>2, <1>3 DEF Steady, Keeps
<1>5. j \in Calls
  BY <1>2, <1>3, PendFacts DEF Contexts, Pending
<1>6. at[j] = Cur /\ pc[j] \in InExchange
  BY <1>0, <1>1, <1>4 DEF Linked
<1>7. IsExchange(j) /\ st[j] # "none" /\ st[j] # "completed"
  <2>1. IsExchange(j)
    BY <1>0, <1>5, <1>6 DEF Places
  <2> QED
    BY <1>0, <1>5, <1>6, <2>1 DEF Statuses, InExchange, Transmitted, Decoding, IsExchange
<1>8. ~Doomed(j)
  BY <1>4, <1>6 DEF Doomed
<1> DEFINE d == Marked(c, j)
           e == Told(d)
<1>9. /\ Steady(c, d) /\ d \in Contexts /\ Sound(d) /\ d.pend[j].cancelled
  BY <1>2, MarkedKeeps DEF Steady, Keeps
<1>10. Steady(d, e)
  BY <1>9, ToldKeeps
<1>11. j \in Pending(e) => e.pend[j].cancelled
  BY <1>9, <1>10 DEF Steady, Keeps
<1> HIDE DEF d, e
<1>12. ctxs'[Cur] = e
  BY <1>0, <1>1 DEF Types, Cur, d, e
<1>13. Doomed(j)'
  BY <1>6, <1>7, <1>11, <1>12, <1>1 DEF Doomed, Pending, IsExchange
<1> QED
  BY <1>5, <1>6, <1>7, <1>8, <1>13

\* A mark on the current context ends at most exchanges of it.
LEMMA CurrentMarkKeeps ==
    ASSUME Inv, Cur > 0, NEW d, Steady(Aged(ctxs[Cur]), d),
           ctxs' = [ctxs EXCEPT ![Cur] = Told(d)]
    PROVE  AllSteady(ctxs')
<1>0. Types /\ Linked
  BY DEF Inv
<1>1. Cur \in 1..Cur /\ ctxs[Cur] \in Contexts /\ Sound(ctxs[Cur])
  BY <1>0, ContextFacts
<1>2. Steady(ctxs[Cur], Aged(ctxs[Cur]))
  BY <1>1, AgedKeeps
<1>3. d \in Contexts /\ Sound(d)
  BY DEF Steady, Keeps
<1>4. Steady(d, Told(d))
  BY <1>3, ToldKeeps
<1>5. Steady(ctxs[Cur], d)
  BY <1>2, SteadyOn
<1>6. Steady(ctxs[Cur], Told(d))
  BY <1>4, <1>5, SteadyOn
<1> QED
  BY <1>0, <1>1, <1>6, SteadyAt

\* A cancellation begins: only its own call moves, and it claims its victim
\* only if it won the mark.
Marking(k) ==
    /\ pc[k] \in {"idle", "validated"} /\ Method[k] \in {"cancel", "abort"}
    /\ pc'[k] = "marked" \/ (pc'[k] = "local" /\ Method[k] = "cancel" /\ at'[k] = 0 /\ victim'[k] = k)
    /\ victim'[k] \in Calls /\ at'[k] \in 0..Cur
    /\ pc'[k] = "marked" => st[victim'[k]] # "none"
    /\ at'[k] # 0 => /\ ~Doomed(victim'[k]) /\ Doomed(victim[k])'
                     /\ at'[victim'[k]] = at'[k] /\ Method[victim'[k]] \notin Handshake
    /\ \A j \in Calls \ {k} : pc'[j] = pc[j] /\ at'[j] = at[j] /\ victim'[j] = victim[j]
    /\ pc' \in [Calls -> PCs] /\ DOMAIN at' = Calls /\ at' = [j \in Calls |-> at'[j]]
    /\ victim' \in [Calls -> Calls]
    /\ UNCHANGED <<lease, rv, todo, st, tok, meta, saw, child, sent>>
    /\ Method[k] = "abort" <=> pc[k] = "idle"

\* Such a step keeps the invariant.
LEMMA MarkingKeeps ==
    ASSUME Inv, NEW k \in Calls, Marking(k), AllSteady(ctxs')
    PROVE  Inv'
<1>0. Types /\ Linked /\ Places /\ Statuses /\ Deletes /\ Claimed
  BY DEF Inv
<1>1. /\ AllKeep(ctxs') /\ Cur' = Cur /\ \A i \in 1..Cur : ctxs'[i].closing = ctxs[i].closing
      /\ ctxs' \in Seq(Contexts) /\ Len(ctxs') = Len(ctxs)
  BY DEF AllSteady, AllKeep, Steady, Cur
<1>a. at[k] = 0 /\ child[k] = "none" /\ victim[k] = k /\ pc[k] \notin {"marked", "read", "notifying"}
  BY <1>0 DEF Places, Marking
<1>2. Types'
  <2>1. at' \in [Calls -> 0..Cur]
    <3>1. \A j \in Calls : at'[j] \in 0..Cur
      BY <1>0 DEF Marking, Types, Cur
    <3> QED
      BY <3>1 DEF Marking
  <2> QED
    BY <1>0, <1>1, <2>1 DEF Types, Marking, Cur
<1>3. Places'
  BY <1>0, <1>a DEF Places, Marking, InExchange, Transmitted, Decoding
<1>4. Statuses'
  BY <1>0, <1>a DEF Statuses, Marking, Transmitted, Decoding
<1>5. Extends /\ MarksStay /\ HandshakesStay
  <2>1. \A j \in Calls : at[j] # 0 => at'[j] = at[j]
    BY <1>a DEF Marking
  <2>2. Extends /\ MarksStay
    BY <1>1, <2>1, KeepsMarks DEF Extends, Doomed, Marking
  <2>3. HandshakesStay
    BY DEF HandshakesStay, Handshake, Marking
  <2> QED
    BY <2>2, <2>3
<1>6. \A j \in Calls : Claims(j)' =>
         \/ j # k /\ Claims(j) /\ victim'[j] = victim[j] /\ pc'[j] = pc[j] /\ saw'[j] = saw[j]
         \/ j = k /\ pc'[k] = "marked" /\ at'[k] # 0
  BY <1>a DEF Claims, Marking
<1>7. Claimed'
  <2>1. ASSUME NEW j \in Calls, Claims(j)'
        PROVE  /\ Doomed(victim[j])' /\ at'[victim'[j]] = at'[j] /\ Method[victim'[j]] \notin Handshake
               /\ pc'[j] = "read" /\ saw'[j] =>
                    /\ Request(victim[j], at[j])' \in sent'
                    /\ st'[victim'[j]] \in {"dispatching", "unknown"}
               /\ pc'[j] = "notifying" =>
                    Request(victim[j], at[j])' \in sent' /\ st'[victim'[j]] = "unknown"
    <3>1. CASE j # k
      BY <1>0, <1>5, <1>6, <2>1, <3>1, ClaimStays
    <3>2. CASE j = k
      BY <1>6, <2>1, <3>2 DEF Marking
    <3> QED
      BY <3>1, <3>2
  <2>2. \A i, j \in Calls : Claims(i)' /\ Claims(j)' /\ victim'[i] = victim'[j] => i = j
    <3>1. \A i \in Calls : Claims(i) => Doomed(victim[i])
      BY <1>0 DEF Claimed
    <3>2. \A i, j \in Calls : Claims(i) /\ Claims(j) /\ victim[i] = victim[j] => i = j
      BY <1>0 DEF Claimed
    <3>3. at'[k] # 0 => ~Doomed(victim'[k])
      BY DEF Marking
    <3> QED
      BY <1>6, <3>1, <3>2, <3>3
  <2>3. \A j \in Calls : pc'[j] = "notifying" => at'[j] # 0
    BY <1>0 DEF Claimed, Marking
  <2>4. \A j \in Calls : st'[j] = "dispatching" => Request(j, at[j])' \in sent'
    <3>1. \A j \in Calls : st[j] = "dispatching" => at'[j] = at[j] /\ Request(j, at[j]) \in sent
      <4>1. st[k] # "dispatching"
        BY <1>0 DEF Statuses, Marking, Transmitted, Decoding
      <4> QED
        BY <1>0, <4>1 DEF Claimed, Marking
    <3> QED
      BY <3>1 DEF Request, Marking
  <2> QED
    BY <2>1, <2>2, <2>3, <2>4 DEF Claimed, Claims
<1>8. Plain
  <2>1. \A j \in Calls : pc'[j] = "cleaning" => pc[j] = "cleaning" /\ ctxs'[at[j]].closing
    <3>1. \A j \in Calls : pc[j] = "cleaning" => at[j] \in 1..Cur /\ ctxs[at[j]].closing
      BY <1>0 DEF Deletes, Types, Cur
    <3> QED
      BY <1>1, <3>1 DEF Marking
  <2>2. \A j \in Calls : pc'[j] \in InExchange <=> pc[j] \in InExchange
    BY DEF InExchange, Transmitted, Decoding, Marking
  <2>3. \A j \in Calls : \A i \in 1..Cur : j \in Pending(ctxs'[i]) => pc'[j] \in InExchange
    BY <1>0, <1>1, <2>2 DEF Linked, AllKeep, Keeps
  <2>4. \A j \in Calls : Claims(j)' => (Claims(j) /\ victim'[j] = victim[j]) \/ ~Doomed(victim'[j])
    BY <1>6 DEF Marking
  <2>5. \A j \in Calls :
          /\ \/ at'[j] = at[j]
             \/ Method[j] \in {"cancel", "abort"} /\ pc[j] \notin {"local", "ended", "notifying"}
          /\ pc[j] \in {"local", "ended"} => pc'[j] \in {"local", "ended"}
          /\ pc[j] = "notifying" /\ child[j] = "sent" =>
               pc'[j] = "notifying" /\ child'[j] = "sent" /\ victim'[j] = victim[j]
    BY DEF Marking
  <2>6. sent' = sent /\ rv' = rv
    BY DEF Marking
  <2> QED
    BY <1>1, <1>5, <2>1, <2>2, <2>3, <2>4, <2>5, <2>6 DEF Plain
<1> QED
  BY <1>2, <1>3, <1>4, <1>7, <1>8, PlainKeeps

\* A cancellation message marks the exchange it names.
LEMMA MarkMessageKeeps ==
    ASSUME Inv, NEW k \in Calls, MarkMessage(k)
    PROVE  Inv'
<1>0. Types /\ Linked /\ Places /\ Statuses /\ Cur \in Nat
  BY DEF Inv, Types, Cur
<1>a. pc[k] = "validated" /\ Method[k] = "cancel" /\ at[k] = 0 /\ victim[k] = k
      /\ UNCHANGED <<lease, rv, todo, st, tok, meta, saw, child, sent>>
  BY <1>0 DEF MarkMessage, Places
<1> DEFINE c == IF Cur = 0 THEN NewContext(0) ELSE Aged(ctxs[Cur])
           Missed == /\ ctxs' = IF Cur = 0 THEN ctxs ELSE [ctxs EXCEPT ![Cur] = Told(c)]
                     /\ Becomes(pc, k, "local")
                     /\ UNCHANGED <<victim, at>>
           Found(j) == /\ FirstMark(c, j)
                       /\ ctxs' = [ctxs EXCEPT ![Cur] = Told(Marked(c, j))]
                       /\ Becomes(victim, k, j)
                       /\ Becomes(at, k, Cur)
                       /\ Becomes(pc, k, "marked")
<1>1. Missed \/ \E j \in Named(c, k) : Found(j)
  BY DEF MarkMessage
<1>2. CASE Missed
  <2>1. AllSteady(ctxs')
    <3>1. CASE Cur = 0
      BY <1>0, <1>2, <3>1, SteadySame
    <3>2. CASE Cur # 0
      <4>1. ctxs[Cur] \in Contexts /\ Sound(ctxs[Cur]) /\ Cur > 0
        BY <1>0, <3>2, ContextFacts
      <4>2. Aged(ctxs[Cur]) \in Contexts /\ Sound(Aged(ctxs[Cur]))
        BY <4>1, AgedKeeps DEF Steady, Keeps
      <4>3. Steady(Aged(ctxs[Cur]), Aged(ctxs[Cur]))
        BY <4>2, KeepsItself
      <4> QED
        BY <1>2, <3>2, <4>1, <4>3, CurrentMarkKeeps
    <3> QED
      BY <3>1, <3>2
  <2>2. Marking(k)
    BY <1>0, <1>2, <1>a DEF Marking, Becomes, Types, PCs
  <2> QED
    BY <2>1, <2>2, MarkingKeeps
<1>3. ASSUME NEW j \in Named(c, k), Found(j) PROVE Inv'
  <2>1. Cur > 0 /\ c = Aged(ctxs[Cur])
    <3>1. j \in Pending(c)
      BY DEF Named
    <3>2. Pending(NewContext(0)) = {}
      BY DEF Pending, NewContext, NoPending
    <3> QED
      BY <1>0, <3>1, <3>2
  <2>2. ctxs[Cur] \in Contexts /\ Sound(ctxs[Cur])
    BY <1>0, <2>1, ContextFacts
  <2>3. c \in Contexts /\ Sound(c)
    BY <2>1, <2>2, AgedKeeps DEF Steady, Keeps
  <2>4. Steady(c, Marked(c, j))
    BY <2>3, MarkedKeeps
  <2>5. AllSteady(ctxs')
    BY <1>3, <2>1, <2>4, CurrentMarkKeeps
  <2>6. j \in Calls /\ Method[j] \notin Handshake
    <3>1. j \in Calls
      BY <2>3, PendFacts DEF Contexts, Pending, Named
    <3> QED
      BY <1>3, <3>1, RemoteAssumption DEF FirstMark, Named, Handshake
  <2>7. j # k
    <3>1. Id[k] = NoId
      BY <1>a, RemoteAssumption
    <3> QED
      BY <1>3, <3>1 DEF FirstMark
  <2>8. at'[j] = at[j] /\ st'[j] = st[j] /\ at'[k] = Cur /\ victim'[k] = j /\ pc'[k] = "marked"
    BY <1>0, <1>3, <1>a, <2>6, <2>7 DEF Becomes, Types
  <2>9. at[j] = Cur /\ st[j] # "none" /\ ~Doomed(j) /\ Doomed(j)'
    BY <1>3, <2>1, <2>6, <2>8, FirstMarkDooms
  <2>10. Doomed(victim[k])'
    BY <2>8, <2>9 DEF Doomed
  <2>11. Marking(k)
    <3>1. /\ \A i \in Calls \ {k} : pc'[i] = pc[i] /\ at'[i] = at[i] /\ victim'[i] = victim[i]
          /\ pc' \in [Calls -> PCs] /\ DOMAIN at' = Calls /\ at' = [i \in Calls |-> at'[i]]
          /\ victim' \in [Calls -> Calls]
      BY <1>0, <1>3, <2>6 DEF Becomes, Types, PCs
    <3> QED
      BY <1>0, <1>a, <2>6, <2>8, <2>9, <2>10, <3>1 DEF Marking
  <2> QED
    BY <2>5, <2>11, MarkingKeeps
<1> QED
  BY <1>1, <1>2, <1>3

\* The cancel call marks the exchange of the operation it names.
LEMMA MarkAbortKeeps ==
    ASSUME Inv, NEW k \in Calls, NEW j \in Calls, MarkAbort(k, j)
    PROVE  Inv'
<1>0. Types /\ Linked /\ Places /\ Statuses /\ Cur \in Nat
  BY DEF Inv, Types, Cur
<1>a. /\ pc[k] = "idle" /\ Method[k] = "abort" /\ at[k] = 0 /\ victim[k] = k /\ st[k] = "none"
      /\ st[j] # "none" /\ j # k
      /\ UNCHANGED <<lease, rv, todo, st, tok, meta, saw, child, sent>>
  BY <1>0 DEF MarkAbort, Places, Statuses
<1>1. /\ \A i \in Calls \ {k} : pc'[i] = pc[i] /\ victim'[i] = victim[i]
      /\ pc' \in [Calls -> PCs] /\ victim' \in [Calls -> Calls]
      /\ pc'[k] = "marked" /\ victim'[k] = j
  BY <1>0 DEF MarkAbort, Becomes, Types, PCs
<1>2. CASE terminal(st[j]) \/ Cur = 0
  <2>1. UNCHANGED <<ctxs, at>>
    BY <1>2 DEF MarkAbort
  <2>2. AllSteady(ctxs')
    BY <1>0, <2>1, SteadySame
  <2>3. Marking(k)
    BY <1>0, <1>1, <1>a, <2>1 DEF Marking, Types
  <2> QED
    BY <2>2, <2>3, MarkingKeeps
<1>3. CASE ~(terminal(st[j]) \/ Cur = 0)
  <2> DEFINE c == Aged(ctxs[Cur])
             wins == FirstMark(c, j) /\ Method[j] \notin Handshake
  <2>1. /\ ctxs' = [ctxs EXCEPT ![Cur] = Told(cancel_operation(c, j))]
        /\ at' = [at EXCEPT ![k] = IF wins THEN Cur ELSE 0]
    BY <1>3 DEF MarkAbort, Becomes
  <2>2. Cur > 0 /\ ctxs[Cur] \in Contexts /\ Sound(ctxs[Cur])
    BY <1>0, <1>3, ContextFacts
  <2>3. c \in Contexts /\ Sound(c)
    BY <2>2, AgedKeeps DEF Steady, Keeps
  <2>4. Steady(c, cancel_operation(c, j)) /\ (wins => cancel_operation(c, j) = Marked(c, j))
    BY <2>3, cancel_operationKeeps
  <2>5. AllSteady(ctxs')
    BY <2>1, <2>2, <2>4, CurrentMarkKeeps
  <2> HIDE DEF c
  <2>6. /\ \A i \in Calls \ {k} : at'[i] = at[i]
        /\ at'[k] = IF wins THEN Cur ELSE 0
        /\ DOMAIN at' = Calls /\ at' = [i \in Calls |-> at'[i]]
    BY <1>0, <2>1 DEF Types
  <2>7. wins => at[j] = Cur /\ ~Doomed(j) /\ Doomed(j)'
    <3> SUFFICES ASSUME wins PROVE at[j] = Cur /\ ~Doomed(j) /\ Doomed(j)'
      OBVIOUS
    <3>1. ctxs' = [ctxs EXCEPT ![Cur] = Told(Marked(c, j))] /\ at'[j] = at[j] /\ st'[j] = st[j]
      BY <1>a, <2>1, <2>4, <2>6
    <3> QED
      BY <2>2, <3>1, FirstMarkDooms DEF c
  <2>8. wins => Doomed(victim[k])'
    BY <1>1, <2>7 DEF Doomed
  <2> HIDE DEF wins
  <2>9. wins => Method[j] \notin Handshake
    BY DEF wins
  <2>10. Marking(k)
    BY <1>0, <1>1, <1>a, <2>6, <2>7, <2>8, <2>9 DEF Marking
  <2> QED
    BY <2>5, <2>10, MarkingKeeps
<1> QED
  BY <1>2, <1>3

-----------------------------------------------------------------------------
(* DELETE, admission and completion *)

\* The current context is closed; a native one is held until its DELETE ends.
LEMMA CloseContextKeeps ==
    ASSUME Inv, NEW k \in Calls, CloseContext(k)
    PROVE  Inv'
<1>0. /\ Types /\ Linked /\ Places /\ Statuses /\ Shaken /\ Deletes /\ Claimed /\ Told_once
      /\ RevokedContextsDead /\ Cur \in Nat
  BY DEF Inv, Types, Cur
<1>a. /\ pc[k] = "validated" /\ Method[k] = "delete" /\ at[k] = 0 /\ victim[k] = k
      /\ child[k] = "none" /\ st[k] # "completed"
      /\ UNCHANGED <<lease, rv, todo, st, tok, meta, victim, saw, sent>>
  BY <1>0 DEF CloseContext, Places, Statuses
<1> DEFINE c == IF Cur = 0 THEN NewContext(0) ELSE Aged(ctxs[Cur])
           Held == /\ ctxs' = [ctxs EXCEPT ![Cur] = [close(c) EXCEPT !.closing = TRUE]]
                   /\ Becomes(at, k, Cur) /\ Spawn(k) /\ Becomes(pc, k, "cleaning")
           Closed == /\ ctxs' = IF Cur = 0 THEN ctxs ELSE [ctxs EXCEPT ![Cur] = close(c)]
                     /\ Becomes(pc, k, "local") /\ UNCHANGED <<at, child>>
<1>1. (c.native /\ Held) \/ Closed
  BY DEF CloseContext
<1>2. Cur # 0 => /\ Cur \in 1..Cur /\ c \in Contexts /\ Sound(c) /\ Steady(ctxs[Cur], c)
                 /\ Steady(c, close(c)) /\ close(c).st = "closed"
  <2> SUFFICES ASSUME Cur # 0
               PROVE  /\ Cur \in 1..Cur /\ c \in Contexts /\ Sound(c) /\ Steady(ctxs[Cur], c)
                      /\ Steady(c, close(c)) /\ close(c).st = "closed"
    OBVIOUS
  <2>1. ctxs[Cur] \in Contexts /\ Sound(ctxs[Cur]) /\ c = Aged(ctxs[Cur]) /\ Cur \in 1..Cur
    BY <1>0, ContextFacts
  <2>2. Steady(ctxs[Cur], c) /\ c \in Contexts /\ Sound(c)
    BY <2>1, AgedKeeps DEF Steady, Keeps
  <2> QED
    BY <2>1, <2>2, closeKeeps
<1>3. CASE Closed
  <2>1. AllSteady(ctxs')
    <3>1. CASE Cur = 0
      BY <1>0, <1>3, <3>1, SteadySame
    <3>2. CASE Cur # 0
      <4>1. Steady(ctxs[Cur], close(c))
        BY <1>2, <3>2, SteadyOn
      <4> QED
        BY <1>0, <1>2, <1>3, <3>2, <4>1, SteadyAt
    <3> QED
      BY <3>1, <3>2
  <2>2. /\ AllKeep(ctxs') /\ \A i \in 1..Cur : ctxs'[i].closing = ctxs[i].closing
        /\ ctxs' \in Seq(Contexts) /\ Len(ctxs') = Len(ctxs)
    BY <2>1 DEF AllSteady, AllKeep, Steady
  <2>3. /\ \A j \in Calls : pc'[j] = IF j = k THEN "local" ELSE pc[j]
        /\ pc' \in [Calls -> PCs] /\ UNCHANGED <<at, child>>
    BY <1>0, <1>3 DEF Becomes, Types, PCs
  <2>4. Types'
    BY <1>0, <1>a, <2>2, <2>3 DEF Types
  <2>5. Places'
    BY <1>0, <1>a, <2>3 DEF Places, InExchange, Transmitted, Decoding
  <2>6. Statuses'
    BY <1>0, <1>a, <2>3 DEF Statuses, Transmitted, Decoding
  <2>7. Routine
    <3>1. Extends /\ HandshakesStay /\ NoNewClaim /\ Dispatched
      BY <1>a, <2>3 DEF Extends, Doomed, terminal, HandshakesStay, NoNewClaim, Claims, Dispatched
    <3>2. \A j \in Calls : pc[j] = "cleaning" => at[j] \in 1..Cur /\ ctxs[at[j]].closing
      BY <1>0 DEF Deletes, Types, Cur
    <3>3. \A j \in Calls : pc'[j] = "cleaning" => pc[j] = "cleaning" /\ ctxs'[at[j]].closing
      BY <2>2, <2>3, <3>2
    <3>4. \A j \in Calls : pc'[j] \in InExchange <=> pc[j] \in InExchange
      BY <1>a, <2>3 DEF InExchange, Transmitted, Decoding
    <3>5. \A j \in Calls : \A i \in 1..Cur : j \in Pending(ctxs'[i]) => pc'[j] \in InExchange
      BY <1>0, <2>2, <3>4 DEF Linked, AllKeep, Keeps
    <3> QED
      BY <1>a, <2>2, <2>3, <3>1, <3>3, <3>4, <3>5 DEF Routine, Plain, NoNewClaim
  <2> QED
    BY <2>4, <2>5, <2>6, <2>7, RoutineKeeps
<1>4. CASE c.native /\ Held
  <2>1. Cur # 0
    BY <1>4 DEF NewContext
  <2> DEFINE d == close(c)
             e == [d EXCEPT !.closing = TRUE]
  <2>2. d \in Contexts /\ Sound(d) /\ d.st = "closed" /\ Steady(ctxs[Cur], d)
    BY <1>2, <2>1, SteadyOn DEF Steady, Keeps
  <2>3. Keeps(d, e) /\ e.closing = TRUE /\ e.st = "closed"
    <3>1. e = [d EXCEPT !.closing = TRUE]
      OBVIOUS
    <3> HIDE DEF d, e, c
    <3>2. TRUE \in BOOLEAN /\ (TRUE => d.st = "closed")
      BY <2>2
    <3>3. Keeps(d, e) /\ e.closing = TRUE /\ e.st = d.st
      BY <2>2, <3>1, <3>2, ClosingWrites
    <3> QED
      BY <2>2, <3>3
  <2>4. Keeps(ctxs[Cur], e) /\ e \in Contexts
    BY <2>2, <2>3, KeepsOn DEF Steady, Keeps
  <2>5. ctxs' = [ctxs EXCEPT ![Cur] = e]
    BY <1>4
  <2>6. c.st \notin Dead /\ ctxs[Cur].st # "closed" /\ ~ctxs[Cur].closing
    <3>1. c.st \notin Dead
      BY <1>2, <1>4, <2>1 DEF Sound
    <3>2. ctxs[Cur].st # "closed"
      BY <1>2, <2>1, <3>1 DEF Steady, Keeps, Dead
    <3> QED
      BY <1>0, <1>2, <2>1, <3>1, <3>2 DEF Linked, Sound
  <2> HIDE DEF e, d, c
  <2>7. /\ ctxs' \in Seq(Contexts) /\ Len(ctxs') = Cur
        /\ \A i \in 1..Cur : ctxs'[i] = IF i = Cur THEN e ELSE ctxs[i]
    BY <1>0, <1>2, <2>1, <2>4, <2>5 DEF Types, Cur
  <2>8. AllKeep(ctxs')
    <3>1. \A i \in 1..Cur : Keeps(ctxs[i], ctxs[i])
      BY <1>0, SteadySame DEF AllSteady, Steady
    <3> QED
      BY <2>4, <2>7, <3>1 DEF AllKeep, Cur
  <2>9. /\ \A j \in Calls : /\ pc'[j] = IF j = k THEN "cleaning" ELSE pc[j]
                            /\ at'[j] = IF j = k THEN Cur ELSE at[j]
                            /\ child'[j] = IF j = k THEN "new" ELSE child[j]
        /\ pc' \in [Calls -> PCs] /\ at' \in [Calls -> 0..Cur]
        /\ child' \in [Calls -> {"none", "new", "ready", "sent"}]
    BY <1>0, <1>4 DEF Becomes, Spawn, Types, PCs, Cur
  <2>10. Types'
    BY <1>0, <1>a, <2>7, <2>9 DEF Types, Cur
  <2>11. Places'
    BY <1>0, <1>a, <2>9 DEF Places, InExchange, Transmitted, Decoding
  <2>12. Statuses'
    BY <1>0, <1>a, <2>9 DEF Statuses, Transmitted, Decoding
  <2>13. Extends /\ HandshakesStay /\ NoNewClaim /\ Dispatched /\ MarksStay /\ StatesStay
    <3>1. \A j \in Calls : at[j] # 0 => at'[j] = at[j]
      BY <1>a, <2>9
    <3>2. Extends
      BY <1>a, <3>1 DEF Extends, Doomed
    <3>3. HandshakesStay
      BY <1>a, <2>9 DEF HandshakesStay
    <3>4. NoNewClaim
      BY <1>a, <2>9 DEF NoNewClaim, Claims
    <3>5. Dispatched
      <4>1. st[k] # "dispatching"
        BY <1>0, <1>a DEF Statuses, Transmitted, Decoding
      <4> QED
        BY <1>a, <2>9, <4>1 DEF Dispatched
    <3> QED
      BY <2>8, <3>2, <3>3, <3>4, <3>5, KeepsMarks, KeepsStates
  <2>14. Linked'
    <3>1. \A i \in 1..Cur : \A j \in Pending(ctxs'[i]) :
             j \in Calls /\ at[j] = i /\ pc[j] \in InExchange
      <4>1. \A i \in 1..Cur : ctxs'[i].pend \in Pends
        BY <2>8 DEF AllKeep, Keeps, Contexts
      <4> QED
        BY <1>0, <2>8, <4>1, PendFacts DEF Linked, AllKeep, Keeps, Pending
    <3>2. \A i \in 1..Cur : \A j \in Pending(ctxs'[i]) : at'[j] = at[j] /\ pc'[j] \in InExchange
      BY <1>0, <1>a, <2>9, <3>1
    <3> QED
      BY <1>0, <2>8, <3>2, LinkedStays
  <2>15. Shaken'
    BY <1>0, <1>a, <2>9, <2>10, <2>13, ShakenStays DEF Places, InExchange, Transmitted, Decoding
  <2>16. Deletes'
    <3>0. Cur' = Cur
      BY <2>7 DEF Cur
    <3>1. \A j \in Calls : j # k => pc'[j] # "cleaning"
      BY <1>0, <2>6, <2>9 DEF Deletes
    <3>2. \A j \in Calls : pc'[j] = "cleaning" =>
             at'[j] = Cur' /\ at'[j] # 0 /\ ctxs'[at'[j]].closing
      BY <1>2, <2>1, <2>3, <2>7, <2>9, <3>0, <3>1
    <3>3. \A j \in Calls : Method[j] = "delete" /\ at'[j] # 0 => ctxs'[at'[j]].st = "closed"
      <4>1. \A j \in Calls : Method[j] = "delete" /\ at[j] # 0 =>
               at[j] \in 1..Cur /\ ctxs[at[j]].st = "closed"
        BY <1>0 DEF Deletes, Types, Cur
      <4> QED
        BY <1>2, <2>1, <2>3, <2>7, <2>9, <4>1
    <3>4. \A i, j \in Calls :
             Method[i] = "delete" /\ Method[j] = "delete" /\ at'[i] = at'[j] /\ at'[i] # 0 => i = j
      <4>1. \A j \in Calls : j # k /\ Method[j] = "delete" => at[j] # Cur
        BY <1>0, <2>1, <2>6 DEF Deletes
      <4> QED
        BY <1>0, <2>9, <4>1 DEF Deletes
    <3>5. \A x \in sent' : x.kind = "delete" =>
             Method[x.by] = "delete" /\ x.ctx = at'[x.by] /\ x.subject = x.by
      <4>1. \A x \in sent : x.by \in Calls /\ x.ctx # 0
        BY <1>0, RemoteAssumption DEF Types, Records
      <4> QED
        BY <1>0, <1>a, <2>9, <4>1 DEF Deletes
    <3> QED
      BY <3>2, <3>3, <3>4, <3>5 DEF Deletes
  <2>17. Claimed'
    BY <1>0, <2>9, <2>13, ClaimedStays
  <2>18. Told_once'
    BY <1>0, <1>a, <2>9, <2>13, ToldStays DEF NoNewClaim
  <2>19. RevokedContextsDead'
    BY <1>0, <1>a, <2>8, RevokedStays
  <2> QED
    BY <2>10, <2>11, <2>12, <2>14, <2>15, <2>16, <2>17, <2>18, <2>19 DEF Inv
<1> QED
  BY <1>1, <1>3, <1>4

\* A call is admitted by the current context.
LEMMA PrepareCurrentKeeps ==
    ASSUME Inv, NEW k \in Calls, PrepareCurrent(k)
    PROVE  Inv'
<1>0. /\ Types /\ Linked /\ Places /\ Statuses /\ Shaken /\ Deletes /\ Claimed /\ Told_once
      /\ RevokedContextsDead /\ Cur \in Nat
  BY DEF Inv, Types, Cur
<1>a. /\ pc[k] = "metadata" /\ at[k] = 0 /\ IsExchange(k) /\ rv = "no" /\ st[k] # "completed"
      /\ victim[k] = k /\ child[k] = "none"
      /\ UNCHANGED <<lease, rv, todo, st, tok, victim, saw, child, sent>>
  BY <1>0 DEF PrepareCurrent, Places, MayCommit, Check, terminal, IsExchange
<1> DEFINE c == ctxs[Cur]
           d == begin(c, k)
<1>1. Cur \in 1..Cur /\ Alive(c) /\ c \in Contexts /\ Sound(c) /\ c.st \notin Dead /\ Admits(c, k)
  BY <1>0, CurrentKeeps, ContextFacts DEF PrepareCurrent, Alive
<1>2. k \notin Pending(c)
  BY <1>0, <1>1, <1>a DEF Linked
<1>3. /\ d \in Contexts /\ Sound(d) /\ d.st = c.st /\ d.closing = c.closing
      /\ Pending(d) = Pending(c) \cup {k}
      /\ \A j \in Pending(c) : d.pend[j] = c.pend[j]
      /\ Method[k] # "initialize" /\ (Method[k] = "call" => c.st = "ready")
  BY <1>1, <1>2, <1>a, beginAdmits
<1>4. ctxs' = [ctxs EXCEPT ![Cur] = d]
  BY DEF PrepareCurrent
<1> HIDE DEF c, d
<1>5. /\ ctxs' \in Seq(Contexts) /\ Len(ctxs') = Cur /\ Cur' = Cur
      /\ \A i \in 1..Cur : ctxs'[i] = IF i = Cur THEN d ELSE ctxs[i]
  BY <1>0, <1>1, <1>3, <1>4 DEF Types, Cur
<1>6. /\ \A j \in Calls : /\ pc'[j] = IF j = k THEN "admitted" ELSE pc[j]
                          /\ at'[j] = IF j = k THEN Cur ELSE at[j]
      /\ pc' \in [Calls -> PCs] /\ at' \in [Calls -> 0..Cur] /\ meta' \in [Calls -> 0..2]
  BY <1>0, <1>1 DEF PrepareCurrent, Becomes, Types, PCs, InExchange, Cur
<1>7. Types'
  BY <1>0, <1>a, <1>5, <1>6 DEF Types, Cur
<1>8. Places'
  BY <1>0, <1>1, <1>a, <1>6 DEF Places, InExchange, Transmitted, Decoding, IsExchange
<1>9. Statuses'
  BY <1>0, <1>a, <1>6 DEF Statuses, Transmitted, Decoding
<1>10. \A i \in 1..Cur : ctxs'[i].st = ctxs[i].st /\ ctxs'[i].closing = ctxs[i].closing /\ Sound(ctxs'[i])
  BY <1>0, <1>3, <1>5 DEF Linked, c
<1>11. Extends /\ HandshakesStay /\ StatesStay
  <2>1. \A j \in Calls : at[j] # 0 => at'[j] = at[j]
    BY <1>a, <1>6
  <2>2. Extends
    BY <1>a, <2>1 DEF Extends, Doomed
  <2>3. HandshakesStay
    BY <1>a, <1>6 DEF HandshakesStay
  <2>4. StatesStay
    BY <1>5, <1>10 DEF StatesStay
  <2> QED
    BY <2>2, <2>3, <2>4
<1>12. NoNewClaim /\ Dispatched
  <2>1. NoNewClaim
    BY <1>a, <1>6 DEF NoNewClaim, Claims
  <2>2. st[k] # "dispatching"
    BY <1>0, <1>a DEF Statuses, Transmitted, Decoding
  <2> QED
    BY <1>a, <1>6, <2>1, <2>2 DEF Dispatched
<1>13. \A i \in 1..Cur : \A j \in Pending(ctxs'[i]) :
          \/ j = k /\ i = Cur
          \/ j # k /\ j \in Pending(ctxs[i]) /\ ctxs'[i].pend[j] = ctxs[i].pend[j]
  BY <1>0, <1>3, <1>5, <1>a DEF Linked, c
<1>14. MarksStay
  BY <1>13, <1>a DEF MarksStay
<1>15. Linked'
  <2>1. \A i \in 1..Cur : \A j \in Pending(ctxs'[i]) : at'[j] = i /\ pc'[j] \in InExchange
    <3>1. \A i \in 1..Cur : \A j \in Pending(ctxs[i]) : j \in Calls
      <4>1. \A i \in 1..Cur : ctxs[i].pend \in Pends
        BY <1>0, ContextFacts DEF Contexts
      <4> QED
        BY <4>1, PendFacts DEF Pending
    <3>2. "admitted" \in InExchange
      BY DEF InExchange
    <3> QED
      BY <1>0, <1>6, <1>13, <3>1, <3>2 DEF Linked
  <2>2. \A i \in 1..Cur : Sound(ctxs[i])'
    BY <1>10 DEF Sound, Initializers, Notifiers, Pending
  <2> QED
    BY <1>5, <2>1, <2>2 DEF Linked, Pending, InExchange
<1>16. Shaken'
  <2>1. \A j \in Calls : pc'[j] \in InExchange /\ Method[j] = "call" =>
           \/ pc[j] \in InExchange /\ at[j] # 0
           \/ at'[j] \in 1..Cur /\ ctxs[at'[j]].st = "ready"
    BY <1>0, <1>1, <1>3, <1>6 DEF Places, c
  <2> QED
    BY <1>0, <1>7, <1>11, <1>a, <2>1, ShakenStays
<1>17. Deletes'
  <2>1. \A x \in sent' : x.by \in Calls
    BY <1>7 DEF Types, Records
  <2>2. \A j \in Calls : pc[j] = "cleaning" => at[j] \in 1..Cur /\ ctxs[at[j]].closing
    BY <1>0 DEF Deletes, Types, Cur
  <2>3. \A j \in Calls : pc'[j] = "cleaning" => pc[j] = "cleaning" /\ ctxs'[at[j]].closing
    BY <1>6, <1>10, <2>2
  <2>4. \A j \in Calls : Method[j] = "delete" => at'[j] = at[j]
    BY <1>6, <1>a DEF IsExchange
  <2> QED
    BY <1>0, <1>11, <1>a, <2>1, <2>3, <2>4, DeletesStay
<1>18. Claimed'
  BY <1>0, <1>6, <1>11, <1>12, <1>14, ClaimedStays
<1>19. Told_once'
  BY <1>0, <1>a, <1>6, <1>11, <1>12, <1>14, ToldStays DEF NoNewClaim
<1>20. RevokedContextsDead'
  BY <1>a DEF RevokedContextsDead
<1> QED
  BY <1>7, <1>8, <1>9, <1>15, <1>16, <1>17, <1>18, <1>19, <1>20 DEF Inv

\* An Initialize opens a new context behind the one it found dead.
LEMMA PrepareFreshKeeps ==
    ASSUME Inv, NEW k \in Calls, PrepareFresh(k)
    PROVE  Inv'
<1>0. /\ Types /\ Linked /\ Places /\ Statuses /\ Shaken /\ Deletes /\ Claimed /\ Told_once
      /\ RevokedContextsDead /\ Cur \in Nat
  BY DEF Inv, Types, Cur
<1>a. /\ pc[k] = "metadata" /\ at[k] = 0 /\ Method[k] = "initialize" /\ rv = "no"
      /\ st[k] # "completed" /\ victim[k] = k /\ child[k] = "none" /\ Cur < MaxContexts
      /\ UNCHANGED <<lease, rv, todo, st, tok, victim, saw, child, sent>>
  BY <1>0 DEF PrepareFresh, Places, MayCommit, Check, terminal
<1> DEFINE cs == Current(k)
           d == begin(NewContext(meta[k]), k)
           n == Cur + 1
<1>1. cs \in Seq(Contexts) /\ Len(cs) = Cur /\ \A i \in 1..Cur : Steady(ctxs[i], cs[i])
  BY CurrentKeeps DEF AllSteady
<1>2. d \in Contexts /\ Sound(d) /\ d.st = "initializing" /\ Pending(d) = {k} /\ ~d.token /\ ~d.closing
  <2>1. meta[k] \in 0..2
    BY <1>0 DEF Types
  <2> QED
    BY <1>a, <2>1, beginFresh
<1>3. ctxs' = Append(cs, d) /\ at' = [at EXCEPT ![k] = n]
  BY DEF PrepareFresh, Becomes
<1> HIDE DEF cs, d
<1>4. /\ ctxs' \in Seq(Contexts) /\ Len(ctxs') = n /\ Cur' = n /\ n \in Nat /\ n # 0
      /\ \A i \in 1..n : ctxs'[i] = IF i = n THEN d ELSE cs[i]
  BY <1>0, <1>1, <1>2, <1>3 DEF Cur
<1>5. /\ \A j \in Calls : /\ pc'[j] = IF j = k THEN "admitted" ELSE pc[j]
                          /\ at'[j] = IF j = k THEN n ELSE at[j]
      /\ pc' \in [Calls -> PCs] /\ at' \in [Calls -> 0..n] /\ meta' \in [Calls -> 0..2]
  BY <1>0 DEF PrepareFresh, Becomes, Types, PCs, InExchange, Cur
<1>6. Types'
  BY <1>0, <1>a, <1>4, <1>5, RemoteAssumption DEF Types
<1>7. \A i \in 1..Cur : i \in 1..n /\ i # n /\ ctxs'[i] = cs[i] /\ Steady(ctxs[i], ctxs'[i])
  BY <1>0, <1>1, <1>4
<1>b. n \in 1..n /\ ctxs'[n] = d /\ \A i \in 1..n : i = n \/ i \in 1..Cur
  BY <1>0, <1>4
<1>c. \A j \in Calls : at[j] \in 0..Cur /\ at[j] # n
  BY <1>0 DEF Types, Cur
<1> HIDE DEF n
<1>8. Places'
  BY <1>0, <1>4, <1>a, <1>5 DEF Places, InExchange, Transmitted, Decoding, IsExchange
<1>9. Statuses'
  BY <1>0, <1>a, <1>5 DEF Statuses, Transmitted, Decoding
<1>10. \A j \in Calls : at[j] # 0 => at'[j] = at[j]
  BY <1>a, <1>5
<1>11. Extends /\ HandshakesStay /\ NoNewClaim /\ Dispatched
  <2>1. Extends
    BY <1>a, <1>10 DEF Extends, Doomed
  <2>2. HandshakesStay
    BY <1>a, <1>5 DEF HandshakesStay
  <2>3. NoNewClaim
    BY <1>a, <1>5 DEF NoNewClaim, Claims
  <2>4. st[k] # "dispatching"
    BY <1>0, <1>a DEF Statuses, Transmitted, Decoding
  <2>5. Dispatched
    BY <1>a, <1>5, <2>4 DEF Dispatched
  <2> QED
    BY <2>1, <2>2, <2>3, <2>5
<1>12. MarksStay
  BY <1>7 DEF MarksStay, Steady, Keeps
<1>13. Linked'
  <2>1. \A i \in 1..Cur : \A j \in Pending(ctxs'[i]) : j \in Calls /\ at[j] = i /\ pc[j] \in InExchange
    <3>1. \A i \in 1..Cur : ctxs[i].pend \in Pends
      BY <1>0, ContextFacts DEF Contexts
    <3> QED
      BY <1>0, <1>7, <3>1, PendFacts DEF Linked, Steady, Keeps, Pending
  <2>2. \A i \in 1..Cur : \A j \in Pending(ctxs'[i]) : at'[j] = i /\ pc'[j] \in InExchange
    BY <1>0, <1>a, <1>5, <1>10, <2>1 DEF InExchange
  <2>3. \A j \in Pending(ctxs'[n]) : at'[j] = n /\ pc'[j] \in InExchange
    BY <1>2, <1>5, <1>b DEF InExchange
  <2>4. \A i \in 1..n : Sound(ctxs'[i])
    BY <1>2, <1>7, <1>b DEF Steady, Keeps
  <2>5. \A i \in 1..n : Sound(ctxs[i])'
    BY <2>4 DEF Sound, Initializers, Notifiers, Pending
  <2>6. \A i \in 1..n : \A j \in Pending(ctxs'[i]) : at'[j] = i /\ pc'[j] \in InExchange
    BY <1>b, <2>2, <2>3
  <2> QED
    BY <1>4, <2>5, <2>6 DEF Linked, Pending, InExchange
<1>14. Shaken'
  <2>1. \A m \in Handshake : \A i \in Nat : i # 0 => (Done(m, i)' <=> Done(m, i))
    BY <1>11, DoneStays
  <2>2. "initialize" \in Handshake /\ "initialized" \in Handshake
    BY DEF Handshake
  <2>3. ~Done("initialized", n)
    BY <1>c DEF Done
  <2>4. \A i \in 1..Cur' :
           /\ ctxs'[i].st \in {"awaiting", "ready"} => Done("initialize", i)'
           /\ ctxs'[i].st \notin Dead => (ctxs'[i].st = "ready" <=> Done("initialized", i)')
    <3> SUFFICES ASSUME NEW i \in 1..n
                 PROVE  /\ ctxs'[i].st \in {"awaiting", "ready"} => Done("initialize", i)'
                        /\ ctxs'[i].st \notin Dead =>
                             (ctxs'[i].st = "ready" <=> Done("initialized", i)')
      BY <1>4
    <3>1. CASE i = n
      BY <1>2, <1>4, <1>b, <2>1, <2>2, <2>3, <3>1
    <3>2. CASE i \in 1..Cur
      <4>1. ctxs'[i].st = ctxs[i].st \/ ctxs'[i].st \in Dead
        BY <1>7, <3>2 DEF Steady, Keeps
      <4>2. /\ Done("initialize", i)' <=> Done("initialize", i)
            /\ Done("initialized", i)' <=> Done("initialized", i)
        BY <1>0, <2>1, <2>2, <3>2
      <4>3. /\ ctxs[i].st \in {"awaiting", "ready"} => Done("initialize", i)
            /\ ctxs[i].st \notin Dead => (ctxs[i].st = "ready" <=> Done("initialized", i))
        BY <1>0, <3>2 DEF Shaken
      <4> QED
        BY <4>1, <4>2, <4>3 DEF Dead
    <3> QED
      BY <1>b, <3>1, <3>2
  <2>5. \A j \in Calls : pc'[j] \in InExchange /\ Method[j] = "call" =>
           Done("initialize", at[j])' /\ Done("initialized", at[j])'
    <3> SUFFICES ASSUME NEW j \in Calls, pc'[j] \in InExchange, Method[j] = "call"
                 PROVE  Done("initialize", at[j])' /\ Done("initialized", at[j])'
      OBVIOUS
    <3>1. j # k /\ pc[j] \in InExchange
      BY <1>5, <1>a
    <3>2. at[j] \in Nat /\ at[j] # 0 /\ at'[j] = at[j]
      BY <1>0, <1>10, <1>c, <3>1 DEF Places
    <3>3. Done("initialize", at[j]) /\ Done("initialized", at[j])
      BY <1>0, <3>1 DEF Shaken
    <3>4. PICK i \in Nat : i = at[j]
      BY <3>2
    <3>5. Done("initialize", i)' /\ Done("initialized", i)'
      BY <2>1, <2>2, <3>2, <3>3, <3>4
    <3> QED
      BY <3>2, <3>4, <3>5
  <2>6. CallsAfterHandshake'
    <3> SUFFICES ASSUME NEW x \in sent, x.kind = "request", Method[x.subject] = "call",
                        NEW m \in Handshake
                 PROVE  Done(m, x.ctx)'
      BY <1>a DEF CallsAfterHandshake, Done
    <3>1. x.ctx \in Nat /\ x.ctx # 0
      BY <1>0, RemoteAssumption DEF Types, Records
    <3>2. Done(m, x.ctx)
      BY <1>0 DEF Shaken, CallsAfterHandshake, Done
    <3> QED
      BY <2>1, <3>1, <3>2
  <2> QED
    BY <2>4, <2>5, <2>6 DEF Shaken, InExchange, Transmitted, Decoding, Dead
<1>15. Deletes'
  <2>1. \A j \in Calls : pc'[j] # "cleaning"
    <3>1. Cur # 0 => ~ctxs[Cur].closing
      BY <1>0 DEF PrepareFresh, Barrier, Closing
    <3> QED
      BY <1>0, <1>5, <3>1 DEF Deletes
  <2>2. \A j \in Calls : Method[j] = "delete" => at'[j] = at[j]
    BY <1>5, <1>a
  <2>3. \A j \in Calls : Method[j] = "delete" /\ at'[j] # 0 => ctxs'[at'[j]].st = "closed"
    <3>1. \A j \in Calls : Method[j] = "delete" /\ at[j] # 0 =>
             at[j] \in 1..Cur /\ ctxs[at[j]].st = "closed"
      BY <1>0, <1>c DEF Deletes
    <3>2. \A i \in 1..Cur : ctxs[i].st = "closed" => ctxs'[i].st = "closed"
      BY <1>7 DEF Steady, Keeps
    <3> QED
      BY <2>2, <3>1, <3>2
  <2>4. \A i, j \in Calls :
           Method[i] = "delete" /\ Method[j] = "delete" /\ at'[i] = at'[j] /\ at'[i] # 0 => i = j
    BY <1>0, <2>2 DEF Deletes
  <2>5. \A x \in sent' : x.kind = "delete" =>
           Method[x.by] = "delete" /\ x.ctx = at'[x.by] /\ x.subject = x.by
    <3>1. \A x \in sent : x.by \in Calls
      BY <1>0 DEF Types, Records
    <3> QED
      BY <1>0, <1>a, <2>2, <3>1 DEF Deletes
  <2> QED
    BY <2>1, <2>3, <2>4, <2>5 DEF Deletes
<1>16. Claimed'
  BY <1>0, <1>5, <1>11, <1>12, ClaimedStays
<1>17. Told_once'
  BY <1>0, <1>a, <1>5, <1>11, <1>12, ToldStays DEF NoNewClaim
<1>18. RevokedContextsDead'
  BY <1>a DEF RevokedContextsDead
<1> QED
  BY <1>6, <1>8, <1>9, <1>13, <1>14, <1>15, <1>16, <1>17, <1>18 DEF Inv

\* Guard::complete: the operation and the handshake advance together.
LEMMA CompleteKeeps ==
    ASSUME Inv, NEW k \in Calls, Complete(k)
    PROVE  Inv'
<1>0. /\ Types /\ Linked /\ Places /\ Statuses /\ Shaken /\ Deletes /\ Claimed /\ Told_once
      /\ RevokedContextsDead /\ Cur \in Nat
  BY DEF Inv, Types, Cur
<1>a. /\ pc[k] = "settled" /\ IsExchange(k) /\ at[k] \in 1..Cur /\ at[k] # 0 /\ rv = "no"
      /\ st[k] = "dispatching" /\ victim[k] = k /\ child[k] = "none"
      /\ UNCHANGED <<lease, rv, todo, tok, at, meta, victim, saw, child, sent>>
  <2>1. pc[k] = "settled" /\ pc[k] \in InExchange
    BY DEF Complete, InExchange, Transmitted
  <2>2. IsExchange(k) /\ at[k] # 0 /\ victim[k] = k
    BY <1>0, <2>1 DEF Places
  <2>3. child[k] = "none"
    BY <1>0, <2>1 DEF Places
  <2> QED
    BY <1>0, <2>1, <2>2, <2>3 DEF Complete, MayCommit, Check, Types, Cur
<1> DEFINE n == at[k]
           c == ctxs[n]
<1>1. /\ c \in Contexts /\ Sound(c) /\ k \in Pending(c) /\ ~c.pend[k].cancelled /\ c.st \notin Dead
  BY <1>0, <1>a, ContextFacts DEF Complete, Valid, Alive, CtxOf
<1>2. PICK r \in {"error", "stateless", "session"} : ctxs' = [ctxs EXCEPT ![n] = complete(c, k, r)]
  BY DEF Complete
<1> DEFINE d == complete(c, k, r)
<1>3. /\ d \in Contexts /\ Sound(d)
      /\ Pending(d) \subseteq Pending(c) \ {k}
      /\ \A j \in Pending(d) : d.pend[j] = c.pend[j]
      /\ \/ d.st \in Dead /\ Method[k] # "initialized"
         \/ Method[k] = "initialize" /\ c.st = "initializing" /\ d.st = "awaiting"
         \/ Method[k] = "initialized" /\ c.st = "awaiting" /\ d.st = "ready"
         \/ Method[k] \notin Handshake /\ d.st = c.st
  BY <1>1, <1>a, completeMoves
<1>b. d.closing = c.closing
  BY <1>1, <1>a, completeMoves
<1>c. n \in 1..Cur /\ n = at[k]
  BY <1>a
<1> HIDE DEF c, d, n
<1>4. /\ ctxs' \in Seq(Contexts) /\ Len(ctxs') = Cur /\ Cur' = Cur
      /\ \A i \in 1..Cur : ctxs'[i] = IF i = n THEN d ELSE ctxs[i]
  BY <1>0, <1>2, <1>3, <1>c DEF Types, Cur, d
<1>5. /\ \A j \in Calls : /\ pc'[j] = IF j = k THEN "ended" ELSE pc[j]
                          /\ st'[j] = IF j = k THEN "completed" ELSE st[j]
      /\ pc' \in [Calls -> PCs] /\ st' \in [Calls -> States]
  BY <1>0 DEF Complete, Becomes, Types, PCs, States
<1>6. Types'
  BY <1>0, <1>a, <1>4, <1>5 DEF Types, Cur
<1>7. Places'
  BY <1>0, <1>a, <1>5 DEF Places, InExchange, Transmitted, Decoding
<1>8. Statuses'
  <2>1. \A j \in Calls : st[j] # "none" => st'[j] # "none"
    BY <1>5
  <2> QED
    BY <1>0, <1>a, <1>5, <2>1 DEF Statuses, Types, Transmitted, Decoding
<1>9. \A i \in 1..Cur : \A j \in Pending(ctxs'[i]) :
         j # k /\ j \in Pending(ctxs[i]) /\ ctxs'[i].pend[j] = ctxs[i].pend[j]
  BY <1>0, <1>3, <1>4, <1>c DEF Linked, c
<1>10. Extends /\ MarksStay
  <2>1. ~Doomed(k)
    BY <1>1 DEF Doomed, c, n
  <2> QED
    BY <1>5, <1>9, <1>a, <2>1 DEF Extends, Doomed, terminal, MarksStay
<1>11. Linked'
  <2>1. \A i \in 1..Cur : \A j \in Pending(ctxs'[i]) : at'[j] = i /\ pc'[j] \in InExchange
    <3>1. \A i \in 1..Cur : \A j \in Pending(ctxs[i]) : j \in Calls
      <4>1. \A i \in 1..Cur : ctxs[i].pend \in Pends
        BY <1>0, ContextFacts DEF Contexts
      <4> QED
        BY <4>1, PendFacts DEF Pending
    <3> QED
      BY <1>0, <1>a, <1>5, <1>9, <3>1 DEF Linked
  <2>2. \A i \in 1..Cur : Sound(ctxs'[i])
    BY <1>0, <1>3, <1>4 DEF Linked
  <2>3. \A i \in 1..Cur : Sound(ctxs[i])'
    BY <2>2 DEF Sound, Initializers, Notifiers, Pending
  <2> QED
    BY <1>4, <2>1, <2>3 DEF Linked, Pending, InExchange
<1>12. Shaken'
  <2>1. \A m, i : Done(m, i)' <=> Done(m, i) \/ (m = Method[k] /\ i = n)
    <3> TAKE m, i
    <3>1. Done(m, i) => Done(m, i)'
      BY <1>5, <1>a DEF Done
    <3>2. m = Method[k] /\ i = n => Done(m, i)'
      BY <1>5, <1>a, <1>c DEF Done
    <3>3. ASSUME Done(m, i)' PROVE Done(m, i) \/ (m = Method[k] /\ i = n)
      BY <1>5, <1>a, <1>c, <3>3 DEF Done
    <3> QED
      BY <3>1, <3>2, <3>3
  <2>2. \A i \in 1..Cur' :
           /\ ctxs'[i].st \in {"awaiting", "ready"} => Done("initialize", i)'
           /\ ctxs'[i].st \notin Dead => (ctxs'[i].st = "ready" <=> Done("initialized", i)')
    <3> SUFFICES ASSUME NEW i \in 1..Cur
                 PROVE  /\ ctxs'[i].st \in {"awaiting", "ready"} => Done("initialize", i)'
                        /\ ctxs'[i].st \notin Dead =>
                             (ctxs'[i].st = "ready" <=> Done("initialized", i)')
      BY <1>4
    <3>1. /\ ctxs[i].st \in {"awaiting", "ready"} => Done("initialize", i)
          /\ ctxs[i].st \notin Dead => (ctxs[i].st = "ready" <=> Done("initialized", i))
      BY <1>0 DEF Shaken
    <3>2. CASE i # n
      <4>1. ctxs'[i] = ctxs[i]
        BY <1>4, <3>2
      <4> QED
        BY <2>1, <3>1, <3>2, <4>1
    <3>3. CASE i = n
      <4>1. ctxs'[i] = d /\ ctxs[i] = c
        BY <1>4, <3>3 DEF c
      <4>2. CASE d.st \in Dead /\ Method[k] # "initialized"
        BY <4>1, <4>2 DEF Dead
      <4>3. CASE Method[k] = "initialize" /\ c.st = "initializing" /\ d.st = "awaiting"
        BY <1>1, <2>1, <3>1, <3>3, <4>1, <4>3
      <4>4. CASE Method[k] = "initialized" /\ c.st = "awaiting" /\ d.st = "ready"
        BY <2>1, <3>1, <3>3, <4>1, <4>4
      <4>5. CASE Method[k] \notin Handshake /\ d.st = c.st
        BY <2>1, <3>1, <4>1, <4>5 DEF Handshake
      <4> QED
        BY <1>3, <4>2, <4>3, <4>4, <4>5
    <3> QED
      BY <3>2, <3>3
  <2>3. \A j \in Calls : pc'[j] \in InExchange /\ Method[j] = "call" =>
           Done("initialize", at[j])' /\ Done("initialized", at[j])'
    <3> SUFFICES ASSUME NEW j \in Calls, pc'[j] \in InExchange, Method[j] = "call"
                 PROVE  Done("initialize", at[j])' /\ Done("initialized", at[j])'
      OBVIOUS
    <3>1. pc[j] \in InExchange /\ at'[j] = at[j]
      BY <1>5, <1>a DEF InExchange, Transmitted, Decoding
    <3>2. Done("initialize", at[j]) /\ Done("initialized", at[j])
      BY <1>0, <3>1 DEF Shaken
    <3> QED
      BY <2>1, <3>1, <3>2
  <2>4. CallsAfterHandshake'
    <3> SUFFICES ASSUME NEW x \in sent, x.kind = "request", Method[x.subject] = "call",
                        NEW m \in Handshake
                 PROVE  Done(m, x.ctx)'
      BY <1>a DEF CallsAfterHandshake, Done
    <3>1. Done(m, x.ctx)
      BY <1>0 DEF Shaken, CallsAfterHandshake, Done
    <3> QED
      BY <2>1, <3>1
  <2> QED
    BY <2>2, <2>3, <2>4 DEF Shaken, InExchange, Transmitted, Decoding, Dead
<1>13. Deletes'
  <2>1. \A j \in Calls : at[j] # 0 => at[j] \in 1..Cur
    BY <1>0 DEF Types, Cur
  <2>2. \A i \in 1..Cur : /\ ctxs'[i].closing = ctxs[i].closing
                          /\ ctxs[i].st = "closed" => ctxs'[i].st = "closed"
    BY <1>1, <1>4, <1>b DEF c, Dead
  <2>3. \A j \in Calls : pc'[j] = "cleaning" =>
           at'[j] = Cur' /\ at'[j] # 0 /\ ctxs'[at'[j]].closing
    BY <1>0, <1>4, <1>5, <1>a, <2>1, <2>2 DEF Deletes
  <2>4. \A j \in Calls : Method[j] = "delete" /\ at'[j] # 0 => ctxs'[at'[j]].st = "closed"
    BY <1>0, <1>a, <2>1, <2>2 DEF Deletes
  <2> QED
    BY <1>0, <1>a, <2>3, <2>4 DEF Deletes
<1>14. Claimed'
  <2>1. NoNewClaim
    BY <1>5, <1>a DEF NoNewClaim, Claims
  <2>2. Dispatched
    BY <1>5, <1>a DEF Dispatched
  <2> QED
    BY <1>0, <1>5, <1>10, <2>1, <2>2, ClaimedStays
<1>15. Told_once'
  <2>1. NoNewClaim
    BY <1>5, <1>a DEF NoNewClaim, Claims
  <2> QED
    BY <1>0, <1>5, <1>10, <1>a, <2>1, ToldStays DEF NoNewClaim
<1>16. RevokedContextsDead'
  BY <1>a DEF RevokedContextsDead
<1> QED
  BY <1>6, <1>7, <1>8, <1>11, <1>12, <1>13, <1>14, <1>15, <1>16 DEF Inv

-----------------------------------------------------------------------------
(* The theorems *)

\* A session begins without contexts, calls or messages.
LEMMA InitKeeps ==
    ASSUME Init
    PROVE  Inv
<1>1. Types
  BY RemoteAssumption DEF Init, Types, PCs, States
<1>2. Cur = 0
  BY DEF Init, Cur
<1>3. Linked /\ RevokedContextsDead
  BY <1>2 DEF Linked, RevokedContextsDead
<1>4. Places
  BY DEF Init, Places, InExchange, Transmitted, Decoding
<1>5. Statuses
  BY DEF Init, Statuses
<1>6. Shaken
  BY <1>2 DEF Init, Shaken, CallsAfterHandshake, InExchange, Transmitted, Decoding
<1>7. Deletes
  BY DEF Init, Deletes
<1>8. Claimed /\ Told_once
  BY DEF Init, Claimed, Claims, Told_once
<1> QED
  BY <1>1, <1>3, <1>4, <1>5, <1>6, <1>7, <1>8 DEF Inv

\* Every step keeps the invariant: one case per action.
LEMMA StepKeeps ==
    ASSUME Inv, [Next]_vars
    PROVE  Inv'
<1>1. CASE UNCHANGED vars
  BY <1>1 DEF vars, callVars, Inv, Types, Linked, Sound, Initializers, Notifiers, Pending, Cur,
              Places, Statuses, Shaken, Done, CallsAfterHandshake, Deletes, Claimed, Claims, Doomed,
              Request, Told_once, RevokedContextsDead, InExchange, Transmitted, Decoding, IsExchange
<1>2. ASSUME NEW k \in Calls, Exchange(k) PROVE Inv'
  BY <1>2, StartKeeps, MetadataKeeps, PrepareCurrentKeeps, PrepareFreshKeeps, PrepareRefusedKeeps,
     AuthenticateKeeps, MakeReadyKeeps, BeginDispatchKeeps, StartResponseKeeps, ServerPingKeeps,
     FinishKeeps, SettleKeeps, CompleteKeeps, EndsKeep DEF Exchange
<1>3. ASSUME NEW k \in Calls, Cancellation(k) PROVE Inv'
  BY <1>3, MarkMessageKeeps, MarkAbortKeeps, ReadVictimKeeps, CancelVictimKeeps, CompleteLocalKeeps,
     CloseContextKeeps DEF Cancellation
<1>4. ASSUME NEW k \in Calls, Control(k) PROVE Inv'
  BY <1>4, ChildPrepareKeeps, ChildDispatchKeeps, ChildEndsKeep DEF Control
<1>5. ASSUME RevokePublish \/ RevokeContexts \/ Expire \/ ChangeCustody PROVE Inv'
  BY <1>5, RevokePublishKeeps, RevokeContextsKeeps, ExpireKeeps, ChangeCustodyKeeps
<1> QED
  BY <1>1, <1>2, <1>3, <1>4, <1>5, RevokeOperationKeeps DEF Next

\* Inv holds in every reachable state, for any number of calls and contexts.
THEOREM InvHolds == Spec => []Inv
<1>1. Init => Inv
  BY InitKeeps
<1>2. Inv /\ [Next]_vars => Inv'
  BY StepKeeps
<1> QED
  BY <1>1, <1>2, PTL DEF Spec

\* The contexts, the operations and the messages have their types: a session
\* never holds more than its sixteen contexts, and no context hands out a
\* serial beyond its last.
THEOREM TypeCorrect == Spec => []TypeOK
<1>1. Inv => TypeOK
  <2> SUFFICES ASSUME Inv PROVE TypeOK
    OBVIOUS
  <2>1. Types /\ Linked
    BY DEF Inv
  <2>2. \A i \in 1..Cur :
           /\ ctxs[i].st \in {"initializing", "awaiting", "ready"} \cup Dead
           /\ ctxs[i].next \in 1..(MaxSerial + 1) /\ ctxs[i].pend \in Pends
    BY <2>1, ContextFacts DEF Contexts
  <2>3. \A i \in 1..Cur : Pending(ctxs[i]) \subseteq Calls
    BY <2>2, PendFacts DEF Pending
  <2> QED
    BY <2>1, <2>2, <2>3 DEF TypeOK, Types, States
<1> QED
  BY <1>1, InvHolds, PTL

\* HandshakePublished: the phase of a live context is always the one its
\* completed operations published (Guard::complete, Context::abandon).
THEOREM HandshakesPublished == Spec => []HandshakePublished
<1>1. Inv => HandshakePublished
  <2> SUFFICES ASSUME Inv, NEW i \in 1..Cur
               PROVE
                 /\ ctxs[i].st = "initializing" =>
                      \E j \in Calls : /\ Method[j] = "initialize" /\ at[j] = i
                                       /\ pc[j] \in InExchange /\ st[j] # "completed"
                 /\ ctxs[i].st \in {"awaiting", "ready"} => Done("initialize", i)
                 /\ ctxs[i].st \notin Dead => (ctxs[i].st = "ready" <=> Done("initialized", i))
    BY DEF HandshakePublished, Done
  <2>1. Types /\ Linked /\ Statuses /\ Shaken
    BY DEF Inv
  <2>2. ASSUME ctxs[i].st = "initializing"
        PROVE  \E j \in Calls : /\ Method[j] = "initialize" /\ at[j] = i
                                /\ pc[j] \in InExchange /\ st[j] # "completed"
    <3>1. PICK j \in Pending(ctxs[i]) : Method[j] = "initialize"
      BY <2>1, <2>2 DEF Linked, Sound, Initializers
    <3>2. at[j] = i /\ pc[j] \in InExchange
      BY <2>1 DEF Linked
    <3>3. j \in Calls
      <4>1. ctxs[i].pend \in Pends
        BY <2>1, ContextFacts DEF Contexts
      <4> QED
        BY <4>1, PendFacts DEF Pending
    <3>4. st[j] # "completed"
      BY <2>1, <3>2, <3>3 DEF Statuses, InExchange, Transmitted, Decoding
    <3> QED
      BY <3>1, <3>2, <3>3, <3>4
  <2> QED
    BY <2>1, <2>2 DEF Shaken
<1> QED
  BY <1>1, InvHolds, PTL

\* CallsAfterHandshake: no tool call is sent over a context before both parts
\* of its handshake were completed (Context::begin).
THEOREM CallsFollowHandshake == Spec => []CallsAfterHandshake
<1>1. Inv => CallsAfterHandshake
  BY DEF Inv, Shaken
<1> QED
  BY <1>1, InvHolds, PTL

\* CancelledOnce: the server hears of a cancellation at most once, and only of
\* a request it was sent (cancel_serial; cancellation.rs).
THEOREM ToldOnce == Spec => []CancelledOnce
<1>1. Inv => CancelledOnce
  <2> SUFFICES ASSUME Inv, NEW x \in sent, x.kind = "cancel"
               PROVE  /\ \A y \in sent : y.kind = "cancel" /\ y.subject = x.subject => y = x
                      /\ \E y \in sent : y.kind = "request" /\ y.subject = x.subject /\ y.ctx = x.ctx
                      /\ Method[x.subject] \notin Handshake
                      /\ st[x.subject] = "unknown"
    BY DEF CancelledOnce
  <2>1. \A y \in sent : y.kind = "cancel" /\ y.subject = x.subject => y = x
    BY DEF Inv, Told_once
  <2>2. /\ Request(x.subject, x.ctx) \in sent
        /\ Method[x.subject] \notin Handshake /\ st[x.subject] = "unknown"
    BY DEF Inv, Told_once
  <2>3. /\ Request(x.subject, x.ctx).kind = "request" /\ Request(x.subject, x.ctx).subject = x.subject
        /\ Request(x.subject, x.ctx).ctx = x.ctx
    BY DEF Request
  <2> QED
    BY <2>1, <2>2, <2>3
<1> QED
  BY <1>1, InvHolds, PTL

\* CloseBarrier: a DELETE holds its context until it is settled, and the
\* server receives one for a context (cleanup.rs, Closing).
THEOREM BarrierHolds == Spec => []CloseBarrier
<1>1. Inv => CloseBarrier
  <2> SUFFICES ASSUME Inv PROVE CloseBarrier
    OBVIOUS
  <2>1. Types /\ Linked /\ Deletes
    BY DEF Inv
  <2>2. \A k \in Calls : pc[k] = "cleaning" => at[k] = Cur /\ CtxOf(k).closing
    BY <2>1 DEF Deletes, CtxOf
  <2>3. \A i \in 1..Cur : ctxs[i].closing => ctxs[i].st = "closed"
    BY <2>1 DEF Linked, Sound
  <2>4. \A x, y \in sent : x.kind = "delete" /\ y.kind = "delete" /\ x.ctx = y.ctx => x = y
    <3> SUFFICES ASSUME NEW x \in sent, NEW y \in sent, x.kind = "delete", y.kind = "delete",
                        x.ctx = y.ctx
                 PROVE  x = y
      OBVIOUS
    <3>1. x \in Records /\ y \in Records
      BY <2>1 DEF Types
    <3>2. x.by \in Calls /\ y.by \in Calls /\ x.ctx # 0
      BY <3>1, RemoteAssumption DEF Records
    <3>3. x.by = y.by /\ x.subject = y.subject
      BY <2>1, <3>2 DEF Deletes
    <3> QED
      BY <3>1, <3>3 DEF Records
  <2> QED
    BY <2>2, <2>3, <2>4 DEF CloseBarrier
<1> QED
  BY <1>1, InvHolds, PTL

\* RevokedContextsDead: once revoke has returned no context is alive, and none
\* is made later (Broker::revoke; commit_authority in prepare_remote).
THEOREM RevokedStayDead == Spec => []RevokedContextsDead
<1>1. Inv => RevokedContextsDead
  BY DEF Inv
<1> QED
  BY <1>1, InvHolds, PTL
=============================================================================
