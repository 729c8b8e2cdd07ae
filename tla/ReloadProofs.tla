---------------------------- MODULE ReloadProofs ----------------------------
(***************************************************************************)
(* Theorems about Reload, for any attachments, callers and number of       *)
(* revisions: authority ends with its attachment, shutdown is final, and   *)
(* at most one retired generation has live work, which the host owns.      *)
(***************************************************************************)
EXTENDS Reload, TLAPS, FiniteSetTheorems

-----------------------------------------------------------------------------
(* The inductive invariant *)

\* Pending counts are any integers here; Sound says more.
OutcomeTypes ==
    [old : 0..MaxRevision, cleanup : {"Pending", "Complete", "Failed"},
     pending : Int, failed : BOOLEAN, late : BOOLEAN]

Progresses == [outcome : OutcomeTypes, complete : BOOLEAN]

Typing ==
    /\ revision \in Revisions /\ retirement \in 0..MaxRevision
    /\ sessions \subseteq Sessions /\ observers \subseteq Observers
    /\ owner \in [Attachments -> 0..MaxRevision]
    /\ scope \in [Observers -> SUBSET Sessions]
    /\ pc \in [Callers -> {"idle", "joining", "loading", "prepared",
                           "committed", "waiting"}]
    /\ target \in [Callers -> 0..MaxRevision]
    /\ job = [g \in Revisions |-> job[g]]
    /\ progress \in [Revisions -> Progresses]
    /\ unjoined = [g \in Revisions |-> unjoined[g]]

\* No attachment is older than its broker: a new revision finds none.
Aged == \A a \in Attachments : owner[a] <= revision

\* The caller that holds the gate has made room for its own job.
GateHeld ==
    \A c \in Callers :
        /\ pc[c] \in {"joining", "loading", "prepared"} =>
              gate = c /\ retirement = 0
        /\ pc[c] = "prepared" => target[c] \in Revisions
        /\ pc[c] = "committed" =>
              /\ gate = c /\ target[c] \in Revisions
              /\ retirement = target[c] /\ job[target[c]] = "parked"

\* A job says it is complete exactly when it has joined everything.
JobEnds ==
    \A g \in Revisions :
        /\ job[g] \in {"finishing", "done"} =>
              progress[g].complete /\ unjoined[g] = {}
        /\ progress[g].complete => job[g] \in {"finishing", "done"}

\* Authority, without the job.
Authority == Typing /\ Aged /\ AttachmentsCurrent /\ DetachedPowerless

\* Ownership, without the maps.
Ownership == Typing /\ GateHeld /\ JobEnds /\ LiveWorkOwned

\* The work of a retired generation, as its job knows it: the count is
\* exact, every task not counted has ended, and a verdict that the broker is
\* closed means that its sessions are revoked.
Sound(g) ==
    LET o == progress[g].outcome
    IN /\ IsFiniteSet(unjoined[g]) /\ o.pending = Cardinality(unjoined[g])
       /\ o.old < g /\ g <= revision /\ o.old \in closed
       /\ \A a \in retired \ ended : owner[a] = o.old => a \in unjoined[g]
       /\ job[g] \in {"parked", "closing", "closed", "failed"} => o.cleanup = "Pending"
       /\ job[g] = "closed" \/ o.cleanup = "Complete" =>
             \A s \in Sessions : owner[s] = o.old => s \in revoked

Work ==
    /\ retired \subseteq Attachments
    /\ \A a \in retired : owner[a] # 0 /\ owner[a] < revision
    /\ \A g \in Revisions : job[g] # "none" => Sound(g)

\* n says of a retirement no less than o said of it before.
Behind(o, n) ==
    /\ n.old = o.old /\ n.pending <= o.pending
    /\ o.cleanup # "Pending" => n.cleanup = o.cleanup
    /\ o.failed => n.failed

\* Whatever was reported, or was read to be reported, its job has since only
\* gone on; a job found incomplete cannot end while the mutex is held.
Reported ==
    /\ retirement # 0 => job[retirement] # "none"
    /\ \A c \in Callers : pc[c] = "joining" =>
          target[c] \in Revisions /\ job[target[c]] = "done"
    /\ last_reload.outcome \in OutcomeTypes
    /\ last_reload.revision # 0 =>
          /\ last_reload.revision \in Revisions /\ job[last_reload.revision] # "none"
          /\ Behind(last_reload.outcome, progress[last_reload.revision].outcome)
    /\ \A p \in reading :
          /\ retirement # 0 /\ p \in Progresses
          /\ Behind(p.outcome, progress[retirement].outcome)
          /\ ~p.complete => job[retirement] # "done"
          /\ last_reload.revision = retirement => Behind(last_reload.outcome, p.outcome)

\* A step keeps the report or goes on from it.
ReportGrows ==
    last_reload'.revision = last_reload.revision =>
        last_reload' = last_reload \/ Behind(last_reload.outcome, last_reload'.outcome)

\* A step takes every job forward, and ends none.
JobsGrow ==
    \A g \in Revisions :
        /\ Behind(progress[g].outcome, progress'[g].outcome)
        /\ job[g] # "none" => job'[g] # "none"
        /\ job'[g] = "done" <=> job[g] = "done"

-----------------------------------------------------------------------------
(* Constants                                                               *)

LEMMA AttachmentTypes == Sessions \subseteq Attachments /\ Observers \subseteq Attachments
  BY DEF Attachments

LEMMA RevisionTypes == /\ MaxRevision \in Nat /\ Revisions \subseteq 0..MaxRevision
                       /\ Revisions \subseteq Int /\ 0 \notin Revisions /\ 1 \in Revisions
  BY ReloadAssumption DEF Revisions

-----------------------------------------------------------------------------
(* Typing                                                                  *)

LEMMA FreshTypes ==
  ASSUME NEW old \in 0..MaxRevision, NEW n \in Int PROVE Fresh(old, n) \in OutcomeTypes
  BY DEF Fresh, OutcomeTypes

LEMMA JoinedTypes ==
  ASSUME NEW o \in OutcomeTypes, NEW n \in Int, NEW b \in BOOLEAN
  PROVE  [o EXCEPT !.pending = n, !.failed = b] \in OutcomeTypes
  BY DEF OutcomeTypes

LEMMA UpdateTypes ==
  ASSUME progress \in [Revisions -> Progresses], NEW g \in Revisions,
         NEW o \in OutcomeTypes, NEW b \in BOOLEAN, Update(g, o, b)
  PROVE  /\ progress' \in [Revisions -> Progresses]
         /\ progress'[g].complete = b
         /\ progress'[g].outcome = [o EXCEPT !.late = @ \/ g \in late]
         /\ \A h \in Revisions \ {g} : progress'[h] = progress[h]
<1>1. [o EXCEPT !.late = @ \/ g \in late] \in OutcomeTypes
  BY DEF OutcomeTypes
<1> QED
  BY <1>1 DEF Update, Progresses

LEMMA AttachedFinite ==
  ASSUME sessions \subseteq Sessions, observers \subseteq Observers
  PROVE  IsFiniteSet(sessions \cup observers) /\ Attached \in Nat
<1>1. IsFiniteSet(sessions) /\ IsFiniteSet(observers)
  BY ReloadAssumption, FS_Subset
<1>2. IsFiniteSet(sessions \cup observers)
  BY <1>1, FS_Union
<1> QED
  BY <1>2, FS_CardinalityType DEF Attached

LEMMA TypingInit == Init => Typing
<1> SUFFICES ASSUME Init PROVE Typing
  OBVIOUS
<1>1. Fresh(0, 0) \in OutcomeTypes
  BY FreshTypes, RevisionTypes
<1>2. progress \in [Revisions -> Progresses]
  BY <1>1 DEF Init, Progresses
<1>3. /\ job = [g \in Revisions |-> job[g]]
      /\ unjoined = [g \in Revisions |-> unjoined[g]]
  BY DEF Init
<1>4. 0 \in 0..MaxRevision
  BY RevisionTypes
<1> QED
  BY <1>2, <1>3, <1>4, RevisionTypes DEF Init, Typing

LEMMA TypingStep == Typing /\ [Next]_vars => Typing'
<1> SUFFICES ASSUME Typing, [Next]_vars PROVE Typing'
  OBVIOUS
<1> USE RevisionTypes, AttachmentTypes DEF Typing
<1>1. ASSUME NEW new \in {{}} \cup {{s} : s \in Sessions}, Create(new) PROVE Typing'
  BY <1>1 DEF Create, Settle, LiveSessions, LiveObservers, callVars, jobVars
<1>2. ASSUME NEW o \in Observers, NEW over \in SUBSET Sessions, CreateObservation(o, over)
      PROVE Typing'
  BY <1>2 DEF CreateObservation, Settle, LiveSessions, LiveObservers, callVars, jobVars
<1>3. ASSUME NEW s \in Sessions, Revoke(s) PROVE Typing'
  BY <1>3 DEF Revoke, Settle, LiveSessions, LiveObservers, callVars, jobVars
<1>4. ASSUME NEW o \in Observers, RevokeObservation(o) PROVE Typing'
  BY <1>4 DEF RevokeObservation, callVars, jobVars
<1>5. CASE StatusRead
  BY <1>5 DEF StatusRead, Settle, LiveSessions, LiveObservers, callVars, jobVars
<1>6. CASE StatusReply
  BY <1>6 DEF StatusReply, authVars, callVars, jobVars
<1>7. ASSUME NEW c \in Callers, Begin(c) PROVE Typing'
  BY <1>7 DEF Begin, authVars, jobVars
<1>8. ASSUME NEW c \in Callers, JoinPrevious(c) PROVE Typing'
  BY <1>8 DEF JoinPrevious, authVars, jobVars
<1>9. ASSUME NEW c \in Callers, Load(c) PROVE Typing'
  BY <1>9 DEF Load, hostVars, authVars, jobVars
<1>10. ASSUME NEW c \in Callers, Leave(c) PROVE Typing'
  BY <1>10 DEF Leave, hostVars, authVars, jobVars
<1>11. ASSUME NEW c \in Callers, Commit(c) PROVE Typing'
  <2>1. target[c] \in Revisions
    BY <1>11 DEF Commit, MayCommit, Revisions
  <2>2. Fresh(revision, Attached) \in OutcomeTypes
    BY FreshTypes, AttachedFinite
  <2>3. progress' \in [Revisions -> Progresses]
    BY <1>11, <2>1, <2>2 DEF Commit, Progresses
  <2> QED
    BY <1>11, <2>1, <2>3 DEF Commit
<1>12. ASSUME NEW c \in Callers, Start(c) PROVE Typing'
  BY <1>12 DEF Start, hostVars, authVars
<1>13. ASSUME NEW g \in Revisions, Mirror(g) PROVE Typing'
  BY <1>13 DEF Mirror, authVars, callVars
<1>14. ASSUME NEW g \in Revisions, CloseRetired(g) PROVE Typing'
  BY <1>14 DEF CloseRetired, hostVars, callVars
<1>15. ASSUME NEW g \in Revisions, ReportClosed(g) PROVE Typing'
  <2>1. progress[g].outcome \in OutcomeTypes
    BY DEF Progresses
  <2>2. [progress[g].outcome EXCEPT !.cleanup = IF job[g] = "closed" THEN "Complete" ELSE "Failed"]
          \in OutcomeTypes
    BY <2>1 DEF OutcomeTypes
  <2>3. progress' \in [Revisions -> Progresses]
    BY <1>15, <2>2, UpdateTypes DEF ReportClosed
  <2> QED
    BY <1>15, <2>3 DEF ReportClosed, hostVars, authVars, callVars
<1>16. ASSUME NEW g \in Revisions, CancelRetired(g) PROVE Typing'
  BY <1>16 DEF CancelRetired, hostVars, authVars, callVars
<1>17. ASSUME NEW g \in Revisions, NEW a \in Attachments, JoinRetired(g, a) PROVE Typing'
  <2>1. progress[g].outcome \in OutcomeTypes
    BY DEF Progresses
  <2>2. [progress[g].outcome EXCEPT !.pending = @ - 1, !.failed = @ \/ a \in failed]
          \in OutcomeTypes
    <3>1. progress[g].outcome.pending - 1 \in Int
      BY <2>1 DEF OutcomeTypes
    <3>2. (progress[g].outcome.failed \/ a \in failed) \in BOOLEAN
      OBVIOUS
    <3> QED
      BY <2>1, <3>1, <3>2, JoinedTypes
  <2>3. progress' \in [Revisions -> Progresses]
    BY <1>17, <2>2, UpdateTypes DEF JoinRetired
  <2> QED
    BY <1>17, <2>3 DEF JoinRetired, hostVars, callVars
<1>18. ASSUME NEW g \in Revisions, Finish(g) \/ FlagLate(g) PROVE Typing'
  <2>1. progress[g].outcome \in OutcomeTypes
    BY DEF Progresses
  <2>2. Update(g, progress[g].outcome, TRUE) \/ Update(g, progress[g].outcome, FALSE)
    BY <1>18 DEF Finish, FlagLate
  <2>3. progress' \in [Revisions -> Progresses]
    BY <2>1, <2>2, UpdateTypes
  <2> QED
    BY <1>18, <2>3 DEF Finish, FlagLate, hostVars, authVars, callVars
<1>19. ASSUME NEW g \in Revisions, Deadline(g) PROVE Typing'
  BY <1>19 DEF Deadline, hostVars, authVars, callVars
<1>20. ASSUME NEW a \in Attachments, Expire(a) PROVE Typing'
  BY <1>20 DEF Expire, hostVars, authVars, callVars, jobVars
<1>21. ASSUME NEW a \in Attachments, NEW bad \in BOOLEAN, TaskEnd(a, bad) PROVE Typing'
  BY <1>21 DEF TaskEnd, hostVars, callVars, jobVars
<1>22. CASE Terminate
  BY <1>22 DEF Terminate, callVars, jobVars
<1>23. CASE CloseActive
  BY <1>23 DEF CloseActive, hostVars, callVars, jobVars
<1>24. CASE WaitRetirement
  BY <1>24 DEF WaitRetirement, hostVars, authVars, callVars, jobVars
<1>25. CASE UNCHANGED vars
  BY <1>25 DEF vars, hostVars, authVars, callVars, jobVars
<1> QED
  BY <1>1, <1>2, <1>3, <1>4, <1>5, <1>6, <1>7, <1>8, <1>9, <1>10, <1>11,
     <1>12, <1>13, <1>14, <1>15, <1>16, <1>17, <1>18, <1>19, <1>20, <1>21,
     <1>22, <1>23, <1>24, <1>25
  DEF Next, Requests, Reloads, Retirements, JobStep, Tasks, Reject,
      Disconnect, Answer

-----------------------------------------------------------------------------
(* Authority                                                               *)

LEMMA AuthorityInit == Init => Authority
  BY TypingInit, RevisionTypes
  DEF Authority, Init, Aged, AttachmentsCurrent, DetachedPowerless, Usable,
      Attachments

\* What a step that takes no attachment out of the maps, brings none in and
\* gives no authority back has to keep.
LEMMA AuthorityKept ==
  ASSUME Authority, Typing',
         UNCHANGED <<revision, sessions, observers, owner, scope>>,
         closed \subseteq closed', revoked \subseteq revoked',
         expired \subseteq expired', open' \subseteq open
  PROVE  Authority'
  BY DEF Authority, Aged, AttachmentsCurrent, DetachedPowerless, Usable

\* Pruning: an attachment leaves the maps revoked or expired, and takes the
\* observers granted over it along.
LEMMA AuthoritySettled ==
  ASSUME Authority, Typing',
         NEW ss \in SUBSET sessions, NEW taken \in SUBSET sessions,
         NEW newS \in SUBSET Sessions, NEW newO \in SUBSET Observers,
         sessions \ ss \subseteq taken, newS \cap sessions = {}, newO \cap observers = {},
         Settle(ss, observers, taken, newS, newO),
         UNCHANGED <<revision, closed, expired>>,
         \A a \in newS \cup newO : owner'[a] = revision,
         \A a \in Attachments \ (newS \cup newO) : owner'[a] = owner[a],
         \A o \in newO : scope'[o] \subseteq LiveSessions(ss),
         \A o \in Observers \ newO : scope'[o] = scope[o]
  PROVE  Authority'
<1> USE AttachmentTypes DEF Authority, Settle, LiveSessions, LiveObservers
<1>1. Aged'
  <2> SUFFICES ASSUME NEW a \in Attachments PROVE owner'[a] <= revision
    BY DEF Aged
  <2>1. revision \in Int
    BY RevisionTypes DEF Typing
  <2>2. CASE a \in newS \cup newO
    BY <2>1, <2>2
  <2>3. CASE a \notin newS \cup newO
    BY <2>3 DEF Aged
  <2> QED
    BY <2>2, <2>3
<1>2. AttachmentsCurrent'
  <2>1. sessions' \subseteq Sessions /\ observers' \subseteq Observers
    BY DEF Typing
  <2>2. ASSUME NEW a \in sessions' \cup observers' PROVE owner'[a] = revision'
    BY <2>1, <2>2, ReloadAssumption DEF AttachmentsCurrent
  <2>3. ASSUME NEW o \in observers' PROVE scope'[o] \subseteq sessions'
    BY <2>1, <2>3
  <2> QED
    BY <2>2, <2>3 DEF AttachmentsCurrent
<1>3. (\A s \in Sessions : Usable(s) => s \in sessions)'
  <2> SUFFICES ASSUME NEW s \in Sessions, Usable(s)', s \notin sessions' PROVE FALSE
    OBVIOUS
  <2>1. s \notin newS /\ s \notin newO
    BY ReloadAssumption
  <2>2. Usable(s)
    BY <2>1 DEF Usable
  <2>3. s \in sessions /\ owner[s] = revision
    BY <2>2 DEF DetachedPowerless, AttachmentsCurrent
  <2>4. s \in taken \/ s \in ss \ LiveSessions(ss)
    BY <2>3
  <2>5. s \in revoked'
    BY <2>3, <2>4 DEF Revocable
  <2> QED
    BY <2>5 DEF Usable
<1>4. open' \subseteq observers'
  BY DEF DetachedPowerless
<1> QED
  BY <1>1, <1>2, <1>3, <1>4 DEF DetachedPowerless

LEMMA AuthorityStep == Authority /\ [Next]_vars => Authority'
<1> SUFFICES ASSUME Authority, [Next]_vars PROVE Authority'
  OBVIOUS
<1>0. Typing /\ Typing' /\ AttachmentsCurrent
  BY TypingStep DEF Authority
<1> USE <1>0, AuthorityKept, RevisionTypes, AttachmentTypes
<1>1. ASSUME NEW new \in {{}} \cup {{s} : s \in Sessions}, Create(new) PROVE Authority'
  <2>1. new \in SUBSET Sessions /\ new \cap sessions = {}
    BY <1>1 DEF Create, AttachmentsCurrent, Typing
  <2> QED
    BY <1>1, <2>1, AuthoritySettled DEF Create
<1>2. ASSUME NEW o \in Observers, NEW over \in SUBSET Sessions, CreateObservation(o, over)
      PROVE Authority'
  <2>1. o \notin observers
    BY <1>2 DEF CreateObservation, AttachmentsCurrent, Typing
  <2>2. \A a \in {} \cup {o} : owner'[a] = revision
    BY <1>2 DEF CreateObservation, Typing
  <2>3. \A a \in Attachments \ ({} \cup {o}) : owner'[a] = owner[a]
    BY <1>2 DEF CreateObservation, Typing
  <2>4. \A p \in {o} : scope'[p] \subseteq LiveSessions(sessions)
    BY <1>2 DEF CreateObservation, Typing
  <2>5. \A p \in Observers \ {o} : scope'[p] = scope[p]
    BY <1>2 DEF CreateObservation, Typing
  <2> QED
    BY <1>2, <2>1, <2>2, <2>3, <2>4, <2>5, AuthoritySettled DEF CreateObservation
<1>3. ASSUME NEW s \in Sessions, Revoke(s) PROVE Authority'
  <2>1. owner[s] = revision
    BY <1>3 DEF Revoke, AttachmentsCurrent
  <2> QED
    <3>1. /\ sessions \ {s} \in SUBSET sessions /\ {s} \in SUBSET sessions
          /\ sessions \ (sessions \ {s}) \subseteq {s}
          /\ {} \cap sessions = {} /\ {} \cap observers = {}
      BY <1>3 DEF Revoke
    <3>2. /\ Settle(sessions \ {s}, observers, {s}, {}, {})
          /\ UNCHANGED <<revision, closed, expired, owner, scope>>
      BY <1>3, <2>1 DEF Revoke
    <3> QED
      BY <3>1, <3>2, AuthoritySettled
<1>4. ASSUME NEW o \in Observers, RevokeObservation(o) PROVE Authority'
  BY <1>4 DEF RevokeObservation, Authority, Aged, AttachmentsCurrent,
              DetachedPowerless, Usable
<1>5. CASE StatusRead
  BY <1>5, AuthoritySettled DEF StatusRead
<1>6. CASE StatusReply
  BY <1>6 DEF StatusReply, authVars, taskVars
<1>7. ASSUME NEW c \in Callers, Begin(c) \/ JoinPrevious(c) PROVE Authority'
  BY <1>7 DEF Begin, JoinPrevious, authVars, taskVars
<1>8. ASSUME NEW c \in Callers, Load(c) \/ Leave(c) \/ Start(c) PROVE Authority'
  BY <1>8 DEF Load, Leave, Start, hostVars, authVars, taskVars
<1>9. ASSUME NEW c \in Callers, Commit(c) PROVE Authority'
  <2>1. Aged'
    BY <1>9 DEF Commit, MayCommit, Authority, Aged, Typing, Revisions
  <2>2. AttachmentsCurrent'
    BY <1>9 DEF Commit, AttachmentsCurrent
  <2>3. DetachedPowerless'
    BY <1>9 DEF Commit, CloseAdmission, DetachedPowerless, Usable, Authority,
                AttachmentsCurrent, taskVars
  <2> QED
    BY <2>1, <2>2, <2>3 DEF Authority
<1>10. ASSUME NEW g \in Revisions, Mirror(g) PROVE Authority'
  BY <1>10 DEF Mirror, authVars, taskVars
<1>11. ASSUME NEW g \in Revisions, CloseRetired(g) PROVE Authority'
  BY <1>11 DEF CloseRetired, hostVars, taskVars
<1>12. ASSUME NEW g \in Revisions, ReportClosed(g) \/ CancelRetired(g)
      PROVE Authority'
  BY <1>12 DEF ReportClosed, CancelRetired, hostVars, authVars, taskVars
<1>13. ASSUME NEW g \in Revisions, NEW a \in Attachments, JoinRetired(g, a)
      PROVE Authority'
  BY <1>13 DEF JoinRetired, hostVars, taskVars
<1>14. ASSUME NEW g \in Revisions, Finish(g) \/ FlagLate(g) \/ Deadline(g)
      PROVE Authority'
  BY <1>14 DEF Finish, FlagLate, Deadline, hostVars, authVars, taskVars
<1>15. ASSUME NEW a \in Attachments, Expire(a) PROVE Authority'
  BY <1>15 DEF Expire, hostVars, authVars
<1>16. ASSUME NEW a \in Attachments, NEW bad \in BOOLEAN, TaskEnd(a, bad)
      PROVE Authority'
  BY <1>16 DEF TaskEnd, hostVars
<1>17. CASE Terminate
  BY <1>17 DEF Terminate, CloseAdmission, Authority, Aged, AttachmentsCurrent,
               DetachedPowerless, Usable, taskVars
<1>18. CASE CloseActive
  BY <1>18 DEF CloseActive, hostVars
<1>19. CASE WaitRetirement
  BY <1>19 DEF WaitRetirement, hostVars, authVars, taskVars
<1>20. CASE UNCHANGED vars
  BY <1>20 DEF vars, hostVars, authVars, taskVars
<1> QED
  BY <1>1, <1>2, <1>3, <1>4, <1>5, <1>6, <1>7, <1>8, <1>9, <1>10, <1>11,
     <1>12, <1>13, <1>14, <1>15, <1>16, <1>17, <1>18, <1>19, <1>20
  DEF Next, Requests, Reloads, Retirements, JobStep, Tasks, Reject,
      Disconnect, Answer

-----------------------------------------------------------------------------
(* Ownership of retirement jobs                                            *)

LEMMA OwnershipInit == Init => Ownership
  BY TypingInit, RevisionTypes
  DEF Ownership, Init, GateHeld, JobEnds, LiveWorkOwned

\* What a step outside reload and its jobs keeps.
LEMMA OwnershipKept ==
  ASSUME Ownership, Typing',
         UNCHANGED <<retirement, callVars, job, progress, unjoined>>
  PROVE  Ownership'
  BY DEF Ownership, GateHeld, JobEnds, LiveWorkOwned, callVars

\* While a caller holds the gate before its commitment no job is live.
LEMMA GateMeansIdle ==
  ASSUME Ownership, NEW c \in Callers, pc[c] \in {"joining", "loading", "prepared"}
  PROVE  /\ gate = c /\ retirement = 0
         /\ \A g \in Revisions : job[g] \in {"none", "done"}
  BY RevisionTypes DEF Ownership, GateHeld, LiveWorkOwned

LEMMA OwnershipStep == Ownership /\ [Next]_vars => Ownership'
<1> SUFFICES ASSUME Ownership, [Next]_vars PROVE Ownership'
  OBVIOUS
<1>0. Typing /\ Typing' /\ GateHeld /\ JobEnds /\ LiveWorkOwned
  BY TypingStep DEF Ownership
<1> USE <1>0, OwnershipKept, RevisionTypes
<1>1. ASSUME NEW new \in {{}} \cup {{s} : s \in Sessions}, Create(new) PROVE Ownership'
  BY <1>1 DEF Create, jobVars
<1>2. ASSUME NEW o \in Observers, NEW over \in SUBSET Sessions, CreateObservation(o, over)
      PROVE Ownership'
  BY <1>2 DEF CreateObservation, jobVars
<1>3. ASSUME NEW s \in Sessions, Revoke(s) PROVE Ownership'
  BY <1>3 DEF Revoke, jobVars
<1>4. ASSUME NEW o \in Observers, RevokeObservation(o) PROVE Ownership'
  BY <1>4 DEF RevokeObservation, jobVars
<1>5. CASE StatusRead \/ StatusReply
  BY <1>5 DEF StatusRead, StatusReply, jobVars
<1>6. ASSUME NEW c \in Callers, Begin(c) PROVE Ownership'
  <2>1. \A g \in Revisions : job[g] \in {"none", "done"}
    BY <1>6 DEF Begin, IsActive, LiveWorkOwned
  <2>2. \A d \in Callers : pc[d] \in {"idle", "waiting"}
    BY <1>6, ReloadAssumption DEF Begin, GateHeld, Typing
  <2>3. GateHeld'
    BY <1>6, <2>2 DEF Begin, GateHeld, Typing
  <2>4. JobEnds' /\ LiveWorkOwned'
    BY <1>6, <2>1 DEF Begin, JobEnds, LiveWorkOwned, jobVars
  <2> QED
    BY <2>3, <2>4 DEF Ownership
<1>7. ASSUME NEW c \in Callers, JoinPrevious(c) PROVE Ownership'
  <2>1. GateHeld'
    BY <1>7 DEF JoinPrevious, GateHeld, Typing, jobVars
  <2>2. JobEnds' /\ LiveWorkOwned'
    BY <1>7 DEF JoinPrevious, JobEnds, LiveWorkOwned, jobVars
  <2> QED
    BY <2>1, <2>2 DEF Ownership
<1>8. ASSUME NEW c \in Callers, Load(c) PROVE Ownership'
  <2>1. GateHeld'
    BY <1>8 DEF Load, GateHeld, Typing, hostVars, jobVars
  <2>2. JobEnds' /\ LiveWorkOwned'
    BY <1>8 DEF Load, JobEnds, LiveWorkOwned, hostVars, jobVars
  <2> QED
    BY <2>1, <2>2 DEF Ownership
<1>9. ASSUME NEW c \in Callers, Leave(c) PROVE Ownership'
  <2>1. GateHeld'
    BY <1>9 DEF Leave, GateHeld, Typing, hostVars, jobVars
  <2>2. JobEnds' /\ LiveWorkOwned'
    BY <1>9 DEF Leave, JobEnds, LiveWorkOwned, hostVars, jobVars
  <2> QED
    BY <2>1, <2>2 DEF Ownership
<1>10. ASSUME NEW c \in Callers, Commit(c) PROVE Ownership'
  <2>1. /\ gate = c /\ target[c] \in Revisions
        /\ \A g \in Revisions : job[g] \in {"none", "done"}
    BY <1>10, GateMeansIdle DEF Commit, GateHeld
  <2>2. \A d \in Callers \ {c} : pc[d] \in {"idle", "waiting"}
    BY <2>1 DEF GateHeld, Typing
  <2>3. GateHeld'
    BY <1>10, <2>1, <2>2 DEF Commit, GateHeld, Typing
  <2>4. JobEnds'
    BY <1>10, <2>1 DEF Commit, JobEnds, Typing
  <2>5. LiveWorkOwned'
    BY <1>10, <2>1 DEF Commit, LiveWorkOwned, Typing
  <2> QED
    BY <2>3, <2>4, <2>5 DEF Ownership
<1>11. ASSUME NEW c \in Callers, Start(c) PROVE Ownership'
  <2>1. gate = c /\ target[c] \in Revisions /\ retirement = target[c]
        /\ job[target[c]] = "parked"
    BY <1>11 DEF Start, GateHeld
  <2>2. \A d \in Callers \ {c} : pc[d] \in {"idle", "waiting"}
    BY <2>1 DEF GateHeld, Typing
  <2>3. GateHeld'
    BY <1>11, <2>1, <2>2 DEF Start, GateHeld, Typing, hostVars
  <2>4. JobEnds' /\ LiveWorkOwned'
    BY <1>11, <2>1 DEF Start, JobEnds, LiveWorkOwned, Typing, hostVars
  <2> QED
    BY <2>3, <2>4 DEF Ownership
<1>12. ASSUME NEW g \in Revisions, job[g] # "parked",
              UNCHANGED <<retirement, callVars>>,
              job' = [job EXCEPT ![g] = job'[g]],
              job'[g] \notin {"none", "done"} => job[g] \notin {"none", "done"}
       PROVE  GateHeld' /\ LiveWorkOwned'
  BY <1>12 DEF GateHeld, LiveWorkOwned, Typing, callVars
<1>13. ASSUME NEW g \in Revisions, Mirror(g) PROVE Ownership'
  <2>1. JobEnds'
    BY <1>13 DEF Mirror, JobEnds, Typing
  <2>2. GateHeld'
    BY <1>13 DEF Mirror, GateHeld, Typing, callVars
  <2>3. LiveWorkOwned'
    BY <1>13 DEF Mirror, LiveWorkOwned, Typing
  <2> QED
    BY <2>1, <2>2, <2>3 DEF Ownership
<1>14. ASSUME NEW g \in Revisions, CloseRetired(g) PROVE Ownership'
  <2>1. JobEnds'
    BY <1>14 DEF CloseRetired, JobEnds, Typing
  <2>2. GateHeld' /\ LiveWorkOwned'
    BY <1>12, <1>14 DEF CloseRetired, Typing, hostVars
  <2> QED
    BY <2>1, <2>2 DEF Ownership
<1>15. ASSUME NEW g \in Revisions, ReportClosed(g) PROVE Ownership'
  <2>1. JobEnds'
    BY <1>15 DEF ReportClosed, Update, JobEnds, Typing
  <2>2. GateHeld' /\ LiveWorkOwned'
    BY <1>12, <1>15 DEF ReportClosed, Typing, hostVars
  <2> QED
    BY <2>1, <2>2 DEF Ownership
<1>16. ASSUME NEW g \in Revisions, CancelRetired(g) PROVE Ownership'
  <2>1. JobEnds'
    BY <1>16 DEF CancelRetired, JobEnds, Typing
  <2>2. GateHeld' /\ LiveWorkOwned'
    BY <1>12, <1>16 DEF CancelRetired, Typing, hostVars
  <2> QED
    BY <2>1, <2>2 DEF Ownership
<1>17. ASSUME NEW g \in Revisions, NEW a \in Attachments, JoinRetired(g, a)
       PROVE Ownership'
  <2>1. JobEnds'
    BY <1>17 DEF JoinRetired, Update, JobEnds, Typing
  <2>2. GateHeld' /\ LiveWorkOwned'
    BY <1>17 DEF JoinRetired, GateHeld, LiveWorkOwned, hostVars, callVars
  <2> QED
    BY <2>1, <2>2 DEF Ownership
<1>18. ASSUME NEW g \in Revisions, Finish(g) PROVE Ownership'
  <2>1. JobEnds'
    BY <1>18 DEF Finish, Update, JobEnds, Typing
  <2>2. GateHeld' /\ LiveWorkOwned'
    BY <1>12, <1>18 DEF Finish, Typing, hostVars
  <2> QED
    BY <2>1, <2>2 DEF Ownership
<1>19. ASSUME NEW g \in Revisions, FlagLate(g) PROVE Ownership'
  <2>1. JobEnds'
    BY <1>19 DEF FlagLate, Update, JobEnds, Typing
  <2>2. GateHeld' /\ LiveWorkOwned'
    BY <1>19 DEF FlagLate, GateHeld, LiveWorkOwned, hostVars, callVars
  <2> QED
    BY <2>1, <2>2 DEF Ownership
<1>20. ASSUME NEW g \in Revisions, Deadline(g) PROVE Ownership'
  BY <1>20 DEF Deadline, hostVars
<1>21. ASSUME NEW a \in Attachments, Expire(a) PROVE Ownership'
  BY <1>21 DEF Expire, hostVars, jobVars
<1>22. ASSUME NEW a \in Attachments, NEW bad \in BOOLEAN, TaskEnd(a, bad)
       PROVE Ownership'
  BY <1>22 DEF TaskEnd, hostVars, jobVars
<1>23. CASE Terminate \/ CloseActive \/ WaitRetirement
  BY <1>23 DEF Terminate, CloseActive, WaitRetirement, hostVars, jobVars
<1>24. CASE UNCHANGED vars
  BY <1>24 DEF vars, hostVars, jobVars
<1> QED
  BY <1>1, <1>2, <1>3, <1>4, <1>5, <1>6, <1>7, <1>8, <1>9, <1>10, <1>11,
     <1>13, <1>14, <1>15, <1>16, <1>17, <1>18, <1>19, <1>20, <1>21, <1>22,
     <1>23, <1>24
  DEF Next, Requests, Reloads, Retirements, JobStep, Tasks, Reject,
      Disconnect, Answer

-----------------------------------------------------------------------------
(* Shutdown                                                                *)

LEMMA FinalStep == Typing /\ ShutdownIsFinal /\ [Next]_vars => ShutdownIsFinal'
<1> SUFFICES ASSUME Typing, ShutdownIsFinal, [Next]_vars PROVE ShutdownIsFinal'
  OBVIOUS
<1> USE DEF ShutdownIsFinal
<1>1. ASSUME NEW new \in {{}} \cup {{s} : s \in Sessions}, Create(new)
      PROVE ShutdownIsFinal'
  BY <1>1 DEF Create, Settle, LiveSessions, LiveObservers, stopVars
<1>2. ASSUME NEW o \in Observers, NEW over \in SUBSET Sessions, CreateObservation(o, over)
      PROVE ShutdownIsFinal'
  BY <1>2 DEF CreateObservation, LiveSessions, stopVars
<1>3. ASSUME NEW s \in Sessions, Revoke(s) PROVE ShutdownIsFinal'
  BY <1>3 DEF Revoke, stopVars
<1>4. ASSUME NEW o \in Observers, RevokeObservation(o) PROVE ShutdownIsFinal'
  BY <1>4 DEF RevokeObservation, stopVars
<1>5. CASE StatusRead
  BY <1>5 DEF StatusRead, Settle, LiveSessions, LiveObservers, stopVars
<1>6. CASE StatusReply
  BY <1>6 DEF StatusReply, authVars, stopVars
<1>7. ASSUME NEW c \in Callers, Begin(c) \/ JoinPrevious(c) PROVE ShutdownIsFinal'
  BY <1>7 DEF Begin, JoinPrevious, authVars, stopVars
<1>8. ASSUME NEW c \in Callers, Load(c) \/ Leave(c) \/ Start(c)
      PROVE ShutdownIsFinal'
  BY <1>8 DEF Load, Leave, Start, hostVars, authVars, stopVars
<1>9. ASSUME NEW c \in Callers, Commit(c) PROVE ShutdownIsFinal'
  BY <1>9 DEF Commit, MayCommit, stopVars
<1>10. ASSUME UNCHANGED <<serve, revision, closed, sessions, observers>>
       PROVE ShutdownIsFinal'
  BY <1>10
<1>11. ASSUME NEW g \in Revisions, Mirror(g) \/ CloseRetired(g) PROVE ShutdownIsFinal'
  BY <1>10, <1>11 DEF Mirror, CloseRetired, hostVars, authVars, stopVars
<1>18. ASSUME NEW g \in Revisions, ReportClosed(g) \/ CancelRetired(g)
       PROVE ShutdownIsFinal'
  BY <1>10, <1>18 DEF ReportClosed, CancelRetired, hostVars, authVars, stopVars
<1>19. ASSUME NEW g \in Revisions, Finish(g) \/ FlagLate(g) PROVE ShutdownIsFinal'
  BY <1>10, <1>19 DEF Finish, FlagLate, hostVars, authVars, stopVars
<1>20. ASSUME NEW g \in Revisions, Deadline(g) PROVE ShutdownIsFinal'
  BY <1>10, <1>20 DEF Deadline, hostVars, authVars, stopVars
<1>12. ASSUME NEW g \in Revisions, NEW a \in Attachments, JoinRetired(g, a)
       PROVE ShutdownIsFinal'
  BY <1>12 DEF JoinRetired, hostVars, stopVars
<1>13. ASSUME NEW a \in Attachments, NEW bad \in BOOLEAN, Expire(a) \/ TaskEnd(a, bad)
       PROVE ShutdownIsFinal'
  BY <1>13 DEF Expire, TaskEnd, hostVars, authVars, stopVars
<1>14. CASE Terminate
  BY <1>14 DEF Terminate, CloseAdmission
<1>15. CASE CloseActive
  BY <1>15 DEF CloseActive, hostVars
<1>16. CASE WaitRetirement
  BY <1>16 DEF WaitRetirement, hostVars, authVars
<1>17. CASE UNCHANGED vars
  BY <1>17 DEF vars, hostVars, authVars, stopVars
<1> QED
  BY <1>1, <1>2, <1>3, <1>4, <1>5, <1>6, <1>7, <1>8, <1>9, <1>10, <1>11,
     <1>12, <1>13, <1>14, <1>15, <1>16, <1>17, <1>18, <1>19, <1>20
  DEF Next, Requests, Reloads, Retirements, JobStep, Tasks, Reject,
      Disconnect, Answer

\* Only wait_retirement ends serve, and after it nothing happens.
LEMMA OkOnlyAtTheEnd ==
  ASSUME Next, serve' = "ok" PROVE WaitRetirement
<1>1. serve # "ok"
  BY DEF Next
<1> USE <1>1
<1>2. ASSUME Requests PROVE FALSE
  BY <1>2 DEF Requests, Create, CreateObservation, Revoke, RevokeObservation,
              StatusRead, StatusReply, stopVars
<1>3. ASSUME Reloads PROVE FALSE
  BY <1>3 DEF Reloads, Begin, JoinPrevious, Load, Reject, Disconnect, Commit,
              Start, Answer, Leave, stopVars
<1>4. ASSUME Retirements PROVE FALSE
  BY <1>4 DEF Retirements, JobStep, Mirror, CloseRetired, ReportClosed,
              CancelRetired, JoinRetired, Finish, FlagLate, Deadline, stopVars
<1>5. ASSUME Tasks PROVE FALSE
  BY <1>5 DEF Tasks, Expire, TaskEnd, stopVars
<1>6. ASSUME Terminate \/ CloseActive PROVE FALSE
  BY <1>6 DEF Terminate, CloseActive
<1> QED
  BY <1>2, <1>3, <1>4, <1>5, <1>6 DEF Next

LEMMA HonestEnd == Ownership /\ ShutdownHonest /\ [Next]_vars => ShutdownHonest'
<1> SUFFICES ASSUME Ownership, ShutdownHonest, [Next]_vars, serve' = "ok"
             PROVE  \A g \in Revisions : job'[g] # "none" =>
                        progress'[g].complete /\ unjoined'[g] = {}
  BY DEF ShutdownHonest
<1>1. CASE UNCHANGED vars
  BY <1>1 DEF ShutdownHonest, vars, jobVars, stopVars
<1>2. CASE Next
  <2>1. WaitRetirement
    BY <1>2, OkOnlyAtTheEnd
  <2>2. UNCHANGED <<job, progress, unjoined>>
    BY <2>1 DEF WaitRetirement, jobVars
  <2> SUFFICES ASSUME NEW g \in Revisions, job[g] # "none"
               PROVE  progress[g].complete /\ unjoined[g] = {}
    BY <2>2
  <2>3. CASE job[g] = "done"
    BY <2>3 DEF Ownership, JobEnds
  <2>4. CASE job[g] # "done"
    <3>1. retirement = g /\ retirement # 0
      BY <2>4, RevisionTypes DEF Ownership, LiveWorkOwned
    <3>2. PICK o \in Waited(g, TRUE) : serve' = IF clean /\ RetiredWell(o) THEN "ok" ELSE "failed"
      BY <2>1, <3>1 DEF WaitRetirement
    <3>3. RetiredWell(o)
      BY <3>2
    <3>4. o # [progress[g].outcome EXCEPT !.late = TRUE]
      BY <3>3 DEF RetiredWell, Ownership, Typing, Progresses, OutcomeTypes
    <3>5. progress[g].complete
      BY <3>2, <3>3, <3>4 DEF Waited, RetiredWell
    <3> QED
      BY <3>5 DEF Ownership, JobEnds
  <2> QED
    BY <2>3, <2>4
<1> QED
  BY <1>1, <1>2

-----------------------------------------------------------------------------
(* The work of retired generations                                         *)

\* What a step that neither commits nor belongs to a job keeps: attachments
\* are only created under the installed revision.
LEMMA WorkKept ==
  ASSUME Work, Typing, Typing',
         UNCHANGED <<revision, job, progress, unjoined, retired>>,
         closed \subseteq closed', revoked \subseteq revoked', ended \subseteq ended',
         \A a \in Attachments :
            owner'[a] = owner[a] \/ (owner[a] = 0 /\ owner'[a] = revision)
  PROVE  Work'
<1> USE AttachmentTypes
<1>1. \A a \in retired : owner'[a] = owner[a]
  BY DEF Work
<1>2. ASSUME NEW g \in Revisions, job[g] # "none" PROVE Sound(g)'
  <2> DEFINE o == progress[g].outcome
  <2>1. Sound(g) /\ o.old \in Int /\ g \in Int /\ revision \in Int
    BY <1>2, RevisionTypes DEF Work, Typing, Progresses, OutcomeTypes
  <2>2. ASSUME NEW s \in Sessions, owner'[s] = o.old PROVE owner[s] = o.old
    BY <2>1, <2>2 DEF Sound
  <2> QED
    BY <1>1, <2>1, <2>2 DEF Sound, Work
<1> QED
  BY <1>1, <1>2 DEF Work

\* What a step of one job has to show: the other jobs are left alone.
LEMMA WorkOfOne ==
  ASSUME Work, Typing, NEW g \in Revisions, Sound(g)',
         \A h \in Revisions \ {g} : /\ job'[h] = job[h] /\ progress'[h] = progress[h]
                                    /\ unjoined'[h] = unjoined[h],
         revoked \subseteq revoked',
         UNCHANGED <<revision, closed, owner, retired, ended>>
  PROVE  Work'
  BY DEF Work, Sound

LEMMA WorkStep == Authority /\ Ownership /\ Work /\ [Next]_vars => Work'
<1> SUFFICES ASSUME Authority, Ownership, Work, [Next]_vars PROVE Work'
  OBVIOUS
<1>0. Typing /\ Typing' /\ Aged /\ AttachmentsCurrent /\ GateHeld
  BY TypingStep DEF Authority, Ownership
<1> USE <1>0, WorkKept, RevisionTypes, AttachmentTypes
<1>1. ASSUME NEW new \in {{}} \cup {{s} : s \in Sessions}, Create(new) PROVE Work'
  BY <1>1 DEF Create, Settle, jobVars
<1>2. ASSUME NEW o \in Observers, NEW over \in SUBSET Sessions, CreateObservation(o, over)
      PROVE Work'
  <2>1. \A a \in Attachments : owner'[a] = owner[a] \/ (owner[a] = 0 /\ owner'[a] = revision)
    BY <1>2 DEF CreateObservation, Typing
  <2> QED
    BY <1>2, <2>1 DEF CreateObservation, Settle, jobVars
<1>3. ASSUME NEW s \in Sessions, Revoke(s) PROVE Work'
  BY <1>3 DEF Revoke, Settle, jobVars
<1>4. ASSUME NEW o \in Observers, RevokeObservation(o) PROVE Work'
  BY <1>4 DEF RevokeObservation, jobVars
<1>5. CASE StatusRead
  BY <1>5 DEF StatusRead, Settle, jobVars
<1>6. CASE StatusReply
  BY <1>6 DEF StatusReply, authVars, taskVars, jobVars
<1>7. ASSUME NEW c \in Callers, Begin(c) \/ JoinPrevious(c) PROVE Work'
  BY <1>7 DEF Begin, JoinPrevious, authVars, taskVars, jobVars
<1>8. ASSUME NEW c \in Callers, Load(c) \/ Leave(c) PROVE Work'
  BY <1>8 DEF Load, Leave, hostVars, authVars, taskVars, jobVars
<1>9. ASSUME NEW c \in Callers, Commit(c) PROVE Work'
  <2>0. PICK g \in Revisions : g = target[c]
    BY <1>9 DEF Commit, GateHeld
  <2>1. /\ g \in Revisions /\ revision < g /\ revision' = g /\ revision \in Int /\ g \in Int
        /\ UNCHANGED <<owner, ended, revoked>> /\ closed' = closed \cup {revision}
        /\ retired' = retired \cup sessions \cup observers
    BY <1>9, <2>0 DEF Commit, CloseAdmission, MayCommit, Typing, taskVars
  <2>2. \A a \in sessions \cup observers : owner[a] = revision /\ a \in Attachments
    BY DEF AttachmentsCurrent, Typing
  <2>3. \A a \in retired' : owner'[a] # 0 /\ owner'[a] < revision' /\ a \in Attachments
    BY <2>1, <2>2 DEF Work, Typing
  <2>4. ASSUME NEW h \in Revisions, h # g, job'[h] # "none" PROVE Sound(h)'
    <3>1. /\ job'[h] = job[h] /\ progress'[h] = progress[h] /\ unjoined'[h] = unjoined[h]
      BY <1>9, <2>0, <2>4 DEF Commit, Typing
    <3>2. Sound(h) /\ progress[h].outcome.old \in Int /\ h \in Int
      BY <2>4, <3>1 DEF Work, Typing, Progresses, OutcomeTypes
    <3>3. \A a \in sessions \cup observers : owner[a] # progress[h].outcome.old
      BY <2>1, <2>2, <3>2 DEF Sound
    <3> QED
      BY <2>1, <3>1, <3>2, <3>3 DEF Sound
  <2>5. Sound(g)'
    <3>1. /\ progress'[g].outcome = Fresh(revision, Attached) /\ job'[g] = "parked"
          /\ unjoined'[g] = sessions \cup observers
      BY <1>9, <2>0, <2>1 DEF Commit, Typing
    <3>2. /\ IsFiniteSet(unjoined'[g])
          /\ Fresh(revision, Attached).pending = Cardinality(unjoined'[g])
      BY <3>1, AttachedFinite DEF Fresh, Attached, Typing
    <3>3. Fresh(revision, Attached).old = revision /\ Fresh(revision, Attached).cleanup = "Pending"
      BY DEF Fresh
    <3>4. \A a \in retired : owner[a] # revision
      BY <2>1 DEF Work, Typing
    <3>5. \A a \in retired' \ ended' : owner'[a] = revision => a \in unjoined'[g]
      BY <2>1, <3>1, <3>4
    <3>6. progress'[g].outcome.old = revision /\ progress'[g].outcome.cleanup = "Pending"
      BY <3>1, <3>3
    <3>7. progress'[g].outcome.pending = Cardinality(unjoined'[g])
      BY <3>1, <3>2
    <3>8. revision < g /\ g <= revision' /\ revision \in closed'
      BY <2>1
    <3>9. job'[g] # "closed"
      BY <3>1
    <3> QED
      BY <3>2, <3>5, <3>6, <3>7, <3>8, <3>9 DEF Sound
  <2>6. \A h \in Revisions : job'[h] # "none" => Sound(h)'
    BY <2>4, <2>5
  <2>7. retired' \subseteq Attachments
    BY <2>3
  <2> QED
    BY <2>3, <2>6, <2>7 DEF Work
<1>10. ASSUME NEW c \in Callers, Start(c) PROVE Work'
  <2> DEFINE g == target[c]
  <2>1. g \in Revisions /\ job[g] = "parked" /\ job'[g] = "closing"
    BY <1>10 DEF Start, GateHeld, Typing
  <2>2. Sound(g)'
    BY <1>10, <2>1 DEF Start, Work, Sound, hostVars, authVars, taskVars
  <2> QED
    BY <1>10, <2>1, <2>2, WorkOfOne DEF Start, hostVars, authVars, taskVars, Typing
<1>11. ASSUME NEW g \in Revisions, Mirror(g) PROVE Work'
  <2>1. job'[g] = IF job[g] = "finishing" THEN "done" ELSE job[g]
    BY <1>11 DEF Mirror, Typing
  <2>2. \A h \in Revisions \ {g} : job'[h] = job[h]
    BY <1>11 DEF Mirror, Typing
  <2>3. ASSUME job[g] # "none" PROVE Sound(g)'
    BY <1>11, <2>1, <2>3 DEF Mirror, Work, Sound, authVars, taskVars
  <2> QED
    BY <1>11, <2>1, <2>2, <2>3 DEF Mirror, Work, Sound, authVars, taskVars
<1>12. ASSUME NEW g \in Revisions, CloseRetired(g) PROVE Work'
  <2>1. /\ job[g] = "closing" /\ job'[g] \in {"closed", "failed"}
        /\ revoked \subseteq revoked'
    BY <1>12 DEF CloseRetired, Typing
  <2>2. Sound(g)
    BY <2>1 DEF Work
  <2>3. job'[g] = "closed" =>
          \A s \in Sessions : owner[s] = progress[g].outcome.old => s \in revoked'
    BY <1>12 DEF CloseRetired, Typing
  <2>4. UNCHANGED <<revision, closed, owner, ended, retired, progress, unjoined>>
    BY <1>12 DEF CloseRetired, hostVars, taskVars
  <2>5. Sound(g)'
    BY <2>1, <2>2, <2>3, <2>4 DEF Sound
  <2>6. \A h \in Revisions \ {g} : job'[h] = job[h]
    BY <1>12 DEF CloseRetired, Typing
  <2> QED
    BY <2>1, <2>4, <2>5, <2>6, WorkOfOne
<1>13. ASSUME NEW g \in Revisions, ReportClosed(g) PROVE Work'
  <2> DEFINE o == progress[g].outcome
             n == [o EXCEPT !.cleanup = IF job[g] = "closed" THEN "Complete" ELSE "Failed"]
  <2>0. o \in OutcomeTypes
    BY DEF Typing, Progresses
  <2>1. o \in OutcomeTypes /\ n \in OutcomeTypes
    BY <2>0 DEF OutcomeTypes
  <2>2. /\ progress'[g].outcome = [n EXCEPT !.late = @ \/ g \in late]
        /\ \A h \in Revisions \ {g} : progress'[h] = progress[h]
    BY <1>13, <2>1, UpdateTypes DEF ReportClosed, Typing
  <2>3. /\ progress'[g].outcome.old = o.old /\ progress'[g].outcome.pending = o.pending
        /\ progress'[g].outcome.cleanup = IF job[g] = "closed" THEN "Complete" ELSE "Failed"
    BY <2>1, <2>2 DEF OutcomeTypes
  <2>4. /\ job[g] \in {"closed", "failed"} /\ job'[g] = "cancelling"
        /\ \A h \in Revisions \ {g} : job'[h] = job[h]
    BY <1>13 DEF ReportClosed, Typing
  <2>5. UNCHANGED <<revision, closed, owner, ended, retired, revoked, unjoined>>
    BY <1>13 DEF ReportClosed, hostVars, authVars, taskVars
  <2>6. Sound(g)
    BY <2>4 DEF Work
  <2>7. Sound(g)'
    BY <2>3, <2>4, <2>5, <2>6 DEF Sound
  <2> QED
    BY <2>2, <2>4, <2>5, <2>7, WorkOfOne
<1>14. ASSUME NEW g \in Revisions, CancelRetired(g) PROVE Work'
  <2>1. /\ job[g] = "cancelling" /\ job'[g] = "joining"
        /\ \A h \in Revisions \ {g} : job'[h] = job[h]
    BY <1>14 DEF CancelRetired, Typing
  <2>2. UNCHANGED <<revision, closed, owner, ended, retired, revoked, unjoined, progress>>
    BY <1>14 DEF CancelRetired, hostVars, authVars
  <2>3. Sound(g)'
    BY <2>1, <2>2 DEF Work, Sound
  <2> QED
    BY <2>1, <2>2, <2>3, WorkOfOne
<1>15. ASSUME NEW g \in Revisions, NEW a \in Attachments, JoinRetired(g, a) PROVE Work'
  <2> DEFINE o == progress[g].outcome
             n == [o EXCEPT !.pending = @ - 1, !.failed = @ \/ a \in failed]
  <2>1. o \in OutcomeTypes /\ o.pending - 1 \in Int
    BY DEF Typing, Progresses, OutcomeTypes
  <2>2. n \in OutcomeTypes
    <3>1. (o.failed \/ a \in failed) \in BOOLEAN
      OBVIOUS
    <3> QED
      BY <2>1, <3>1, JoinedTypes
  <2>3. /\ progress'[g].outcome = [n EXCEPT !.late = @ \/ g \in late]
        /\ \A h \in Revisions \ {g} : progress'[h] = progress[h]
    BY <1>15, <2>2, UpdateTypes DEF JoinRetired, Typing
  <2>4. /\ progress'[g].outcome.old = o.old /\ progress'[g].outcome.pending = o.pending - 1
        /\ progress'[g].outcome.cleanup = o.cleanup
    BY <2>1, <2>2, <2>3 DEF OutcomeTypes
  <2>5. /\ job[g] = "joining" /\ a \in unjoined[g] /\ a \in ended
        /\ unjoined'[g] = unjoined[g] \ {a}
        /\ \A h \in Revisions \ {g} : unjoined'[h] = unjoined[h]
    BY <1>15 DEF JoinRetired, Joinable, Typing
  <2>6. UNCHANGED <<revision, closed, owner, ended, retired, revoked, job>>
    BY <1>15 DEF JoinRetired, hostVars, taskVars
  <2>7. Sound(g)
    BY <2>5 DEF Work
  <2>8. IsFiniteSet(unjoined'[g]) /\ Cardinality(unjoined'[g]) = Cardinality(unjoined[g]) - 1
    BY <2>5, <2>7, FS_RemoveElement DEF Sound
  <2>9. Sound(g)'
    BY <2>4, <2>5, <2>6, <2>7, <2>8 DEF Sound
  <2> QED
    BY <2>3, <2>5, <2>6, <2>9, WorkOfOne
<1>16. ASSUME NEW g \in Revisions, Finish(g) \/ FlagLate(g) PROVE Work'
  <2> DEFINE o == progress[g].outcome
  <2>1. o \in OutcomeTypes
    BY DEF Typing, Progresses
  <2>2. Update(g, o, TRUE) \/ Update(g, o, FALSE)
    BY <1>16 DEF Finish, FlagLate
  <2>3. /\ progress'[g].outcome = [o EXCEPT !.late = @ \/ g \in late]
        /\ \A h \in Revisions \ {g} : progress'[h] = progress[h]
    BY <2>1, <2>2, UpdateTypes DEF Typing
  <2>4. /\ progress'[g].outcome.old = o.old /\ progress'[g].outcome.pending = o.pending
        /\ progress'[g].outcome.cleanup = o.cleanup
    BY <2>1, <2>3 DEF OutcomeTypes
  <2>5. /\ job[g] \in {"closing", "joining"} /\ job'[g] \in {"finishing", job[g]}
        /\ \A h \in Revisions \ {g} : job'[h] = job[h]
    BY <1>16 DEF Finish, FlagLate, Typing
  <2>6. UNCHANGED <<revision, closed, owner, ended, retired, revoked, unjoined>>
    BY <1>16 DEF Finish, FlagLate, hostVars, authVars, taskVars
  <2>7. Sound(g)'
    BY <2>4, <2>5, <2>6 DEF Work, Sound
  <2> QED
    BY <2>3, <2>5, <2>6, <2>7, WorkOfOne
<1>17. ASSUME NEW g \in Revisions, Deadline(g) PROVE Work'
  BY <1>17 DEF Deadline, hostVars, authVars, taskVars
<1>18. ASSUME NEW a \in Attachments, Expire(a) PROVE Work'
  BY <1>18 DEF Expire, hostVars, authVars, jobVars
<1>19. ASSUME NEW a \in Attachments, NEW bad \in BOOLEAN, TaskEnd(a, bad) PROVE Work'
  BY <1>19 DEF TaskEnd, hostVars, jobVars
<1>20. CASE Terminate
  BY <1>20 DEF Terminate, CloseAdmission, taskVars, jobVars
<1>21. CASE CloseActive
  BY <1>21 DEF CloseActive, hostVars, jobVars
<1>22. CASE WaitRetirement
  BY <1>22 DEF WaitRetirement, hostVars, authVars, taskVars, jobVars
<1>23. CASE UNCHANGED vars
  BY <1>23 DEF vars, hostVars, authVars, taskVars, jobVars
<1> QED
  BY <1>1, <1>2, <1>3, <1>4, <1>5, <1>6, <1>7, <1>8, <1>9, <1>10, <1>11,
     <1>12, <1>13, <1>14, <1>15, <1>16, <1>17, <1>18, <1>19, <1>20, <1>21,
     <1>22, <1>23
  DEF Next, Requests, Reloads, Retirements, JobStep, Tasks, Reject,
      Disconnect, Answer

LEMMA WorkInit == Init => Work
  BY DEF Init, Work

-----------------------------------------------------------------------------
(* Reports                                                                 *)

LEMMA BehindItself == ASSUME NEW o \in OutcomeTypes PROVE Behind(o, o)
  BY DEF Behind, OutcomeTypes

LEMMA BehindFurther ==
  ASSUME NEW o \in OutcomeTypes, NEW n \in OutcomeTypes, NEW m \in OutcomeTypes,
         Behind(o, n), Behind(n, m)
  PROVE  Behind(o, m)
  BY DEF Behind, OutcomeTypes

LEMMA OutcomeOf ==
  ASSUME Typing, NEW g \in Revisions PROVE progress[g].outcome \in OutcomeTypes
  BY DEF Typing, Progresses

LEMMA JobsQuiet == ASSUME Typing, UNCHANGED <<job, progress>> PROVE JobsGrow
  BY OutcomeOf, BehindItself DEF JobsGrow

LEMMA ReportedInit == Init => Reported
<1>1. Fresh(0, 0) \in OutcomeTypes
  BY FreshTypes, RevisionTypes
<1> QED
  BY <1>1 DEF Init, Reported, NoReport, Report

\* What a step has to keep that reports nothing.
LEMMA ReportedKept ==
  ASSUME Reported, Typing, Typing', JobsGrow, UNCHANGED <<last_reload, retirement>>,
         \A p \in reading' : p \in reading,
         \A c \in Callers : pc'[c] = "joining" => pc[c] = "joining" /\ target'[c] = target[c]
  PROVE  Reported' /\ ReportGrows
<1> USE RevisionTypes
<1>1. retirement' # 0 => job'[retirement'] # "none"
  BY DEF Reported, JobsGrow, Typing, Revisions
<1>2. ASSUME NEW c \in Callers, pc'[c] = "joining"
      PROVE target'[c] \in Revisions /\ job'[target'[c]] = "done"
  BY <1>2 DEF Reported, JobsGrow
<1>3. ASSUME last_reload'.revision # 0
      PROVE  /\ last_reload.revision \in Revisions /\ job'[last_reload.revision] # "none"
             /\ last_reload.outcome \in OutcomeTypes
             /\ Behind(last_reload.outcome, progress'[last_reload.revision].outcome)
  <2>1. /\ last_reload.revision \in Revisions /\ last_reload.outcome \in OutcomeTypes
        /\ Behind(last_reload.outcome, progress[last_reload.revision].outcome)
        /\ job[last_reload.revision] # "none"
    BY <1>3 DEF Reported
  <2>2. /\ progress[last_reload.revision].outcome \in OutcomeTypes
        /\ progress'[last_reload.revision].outcome \in OutcomeTypes
    BY <2>1 DEF Typing, Progresses
  <2>3. /\ Behind(progress[last_reload.revision].outcome,
                  progress'[last_reload.revision].outcome)
        /\ job'[last_reload.revision] # "none"
    BY <2>1 DEF JobsGrow
  <2>4. Behind(last_reload.outcome, progress'[last_reload.revision].outcome)
    BY <2>1, <2>2, <2>3, BehindFurther
  <2> QED
    BY <2>1, <2>3, <2>4
<1>4. ASSUME NEW p \in reading'
      PROVE  /\ retirement # 0 /\ p \in Progresses
             /\ Behind(p.outcome, progress'[retirement].outcome)
             /\ ~p.complete => job'[retirement] # "done"
             /\ last_reload.revision = retirement => Behind(last_reload.outcome, p.outcome)
  <2>1. /\ retirement \in Revisions /\ p \in Progresses /\ p.outcome \in OutcomeTypes
        /\ Behind(p.outcome, progress[retirement].outcome)
        /\ ~p.complete => job[retirement] # "done"
        /\ last_reload.revision = retirement => Behind(last_reload.outcome, p.outcome)
    <3>1. /\ retirement # 0 /\ p \in Progresses
          /\ Behind(p.outcome, progress[retirement].outcome)
          /\ ~p.complete => job[retirement] # "done"
          /\ last_reload.revision = retirement => Behind(last_reload.outcome, p.outcome)
      BY DEF Reported
    <3>2. retirement \in Revisions
      BY <3>1 DEF Typing, Revisions
    <3> QED
      BY <3>1, <3>2 DEF Progresses
  <2>2. /\ progress[retirement].outcome \in OutcomeTypes
        /\ progress'[retirement].outcome \in OutcomeTypes
    BY <2>1 DEF Typing, Progresses
  <2> QED
    BY <2>1, <2>2, BehindFurther DEF JobsGrow
<1> QED
  BY <1>1, <1>2, <1>3, <1>4 DEF Reported, ReportGrows

\* A report of a job that says what its progress says.
LEMMA ReportedNow ==
  ASSUME Reported, Typing, Typing', JobsGrow, NEW g \in Revisions, job[g] # "none",
         last_reload' = Report(g, progress[g].outcome), reading' = {},
         retirement' \in {0, retirement},
         \A c \in Callers : pc'[c] = "joining" =>
            \/ pc[c] = "joining" /\ target'[c] = target[c]
            \/ target'[c] \in Revisions /\ job[target'[c]] = "done"
  PROVE  Reported' /\ ReportGrows
<1> USE RevisionTypes
<1>1. retirement' # 0 => job'[retirement'] # "none"
  BY DEF Reported, JobsGrow, Typing, Revisions
<1>2. ASSUME NEW c \in Callers, pc'[c] = "joining"
      PROVE target'[c] \in Revisions /\ job'[target'[c]] = "done"
  BY <1>2 DEF Reported, JobsGrow
<1>3. last_reload'.revision = g /\ last_reload'.outcome = progress[g].outcome
  BY DEF Report
<1>4. last_reload'.outcome \in OutcomeTypes /\ job'[g] # "none"
  BY <1>3, OutcomeOf DEF JobsGrow
<1>5. Behind(last_reload'.outcome, progress'[g].outcome)
  BY <1>3 DEF JobsGrow
<1>6. ReportGrows
  BY <1>3 DEF ReportGrows, Reported
<1> QED
  BY <1>1, <1>2, <1>3, <1>4, <1>5, <1>6 DEF Reported

\* Every step of a job goes on from its progress.
LEMMA JobGrows ==
  ASSUME Work, Typing, NEW g \in Revisions, JobStep(g) PROVE JobsGrow
<1> DEFINE o == progress[g].outcome
<1>0. o \in OutcomeTypes
  BY OutcomeOf
<1>1. ASSUME \A h \in Revisions \ {g} : progress'[h] = progress[h] /\ job'[h] = job[h],
             Behind(o, progress'[g].outcome), job'[g] # "none",
             job[g] # "done", job'[g] # "done"
      PROVE  JobsGrow
  BY <1>1, OutcomeOf, BehindItself DEF JobsGrow
<1>2. CASE ReportClosed(g)
  <2> DEFINE n == [o EXCEPT !.cleanup = IF job[g] = "closed" THEN "Complete" ELSE "Failed"]
  <2>1. n \in OutcomeTypes
    BY <1>0 DEF OutcomeTypes
  <2>2. /\ progress'[g].outcome = [n EXCEPT !.late = @ \/ g \in late]
        /\ \A h \in Revisions \ {g} : progress'[h] = progress[h]
    BY <1>2, <2>1, UpdateTypes DEF ReportClosed, Typing
  <2>3. /\ job[g] \in {"closed", "failed"} /\ job'[g] = "cancelling"
        /\ \A h \in Revisions \ {g} : job'[h] = job[h]
    BY <1>2 DEF ReportClosed, Typing
  <2>4. o.cleanup = "Pending"
    BY <2>3 DEF Work, Sound
  <2>5. Behind(o, progress'[g].outcome)
    BY <1>0, <2>1, <2>2, <2>4 DEF Behind, OutcomeTypes
  <2> QED
    BY <1>1, <2>2, <2>3, <2>5
<1>3. CASE CancelRetired(g)
  <2>1. /\ UNCHANGED progress /\ job[g] = "cancelling" /\ job'[g] = "joining"
        /\ \A h \in Revisions \ {g} : job'[h] = job[h]
    BY <1>3 DEF CancelRetired, Typing
  <2> QED
    BY <1>0, <1>1, <2>1, BehindItself
<1>4. CASE Finish(g) \/ FlagLate(g)
  <2>1. Update(g, o, TRUE) \/ Update(g, o, FALSE)
    BY <1>4 DEF Finish, FlagLate
  <2>2. /\ progress'[g].outcome = [o EXCEPT !.late = @ \/ g \in late]
        /\ \A h \in Revisions \ {g} : progress'[h] = progress[h]
    BY <1>0, <2>1, UpdateTypes DEF Typing
  <2>3. /\ job[g] \in {"closing", "joining"} /\ job'[g] \in {"finishing", job[g]}
        /\ \A h \in Revisions \ {g} : job'[h] = job[h]
    BY <1>4 DEF Finish, FlagLate, Typing
  <2>4. Behind(o, progress'[g].outcome)
    BY <1>0, <2>2 DEF Behind, OutcomeTypes
  <2> QED
    BY <1>1, <2>2, <2>3, <2>4
<1>5. ASSUME NEW a \in Attachments, JoinRetired(g, a) PROVE JobsGrow
  <2> DEFINE n == [o EXCEPT !.pending = @ - 1, !.failed = @ \/ a \in failed]
  <2>1. n \in OutcomeTypes
    <3>1. o.pending - 1 \in Int /\ (o.failed \/ a \in failed) \in BOOLEAN
      BY <1>0 DEF OutcomeTypes
    <3> QED
      BY <1>0, <3>1, JoinedTypes
  <2>2. /\ progress'[g].outcome = [n EXCEPT !.late = @ \/ g \in late]
        /\ \A h \in Revisions \ {g} : progress'[h] = progress[h]
    BY <1>5, <2>1, UpdateTypes DEF JoinRetired, Typing
  <2>3. job[g] = "joining" /\ UNCHANGED job
    BY <1>5 DEF JoinRetired
  <2>4. Behind(o, n)
    BY <1>0 DEF Behind, OutcomeTypes
  <2> HIDE DEF n
  <2>5. Behind(n, progress'[g].outcome)
    BY <2>1, <2>2 DEF Behind, OutcomeTypes
  <2>6. progress'[g].outcome \in OutcomeTypes
    BY <2>1, <2>2 DEF OutcomeTypes
  <2>7. Behind(o, progress'[g].outcome)
    BY <1>0, <2>1, <2>4, <2>5, <2>6, BehindFurther
  <2> QED
    BY <1>1, <2>2, <2>3, <2>7
<1> QED
  BY <1>2, <1>3, <1>4, <1>5 DEF JobStep

LEMMA ReportedStep ==
  Ownership /\ Work /\ Reported /\ [Next]_vars => Reported' /\ ReportGrows
<1> SUFFICES ASSUME Ownership, Work, Reported, [Next]_vars PROVE Reported' /\ ReportGrows
  OBVIOUS
<1>0. Typing /\ Typing' /\ GateHeld /\ JobEnds
  BY TypingStep DEF Ownership
<1> USE <1>0, RevisionTypes
<1>1. ASSUME UNCHANGED <<job, progress, last_reload, retirement, reading>>,
             \A c \in Callers : pc'[c] = "joining" => pc[c] = "joining" /\ target'[c] = target[c]
      PROVE  Reported' /\ ReportGrows
  BY <1>1, JobsQuiet, ReportedKept
<1>2. ASSUME UNCHANGED <<job, progress, last_reload, retirement, reading, pc, target>>
      PROVE  Reported' /\ ReportGrows
  BY <1>1, <1>2
<1>3. ASSUME NEW new \in {{}} \cup {{s} : s \in Sessions}, Create(new)
      PROVE Reported' /\ ReportGrows
  BY <1>2, <1>3 DEF Create, callVars, jobVars
<1>4. ASSUME NEW o \in Observers, NEW over \in SUBSET Sessions, CreateObservation(o, over)
      PROVE Reported' /\ ReportGrows
  BY <1>2, <1>4 DEF CreateObservation, callVars, jobVars
<1>5. ASSUME NEW s \in Sessions, Revoke(s) PROVE Reported' /\ ReportGrows
  BY <1>2, <1>5 DEF Revoke, callVars, jobVars
<1>6. ASSUME NEW o \in Observers, RevokeObservation(o) PROVE Reported' /\ ReportGrows
  BY <1>2, <1>6 DEF RevokeObservation, callVars, jobVars
<1>7. CASE StatusRead
  <2>1. UNCHANGED <<job, progress, last_reload, retirement, pc, target>>
    BY <1>7 DEF StatusRead, callVars, jobVars
  <2>2. ASSUME NEW p \in reading'
        PROVE  /\ retirement \in Revisions /\ p = progress[retirement]
               /\ p \in Progresses /\ p.outcome \in OutcomeTypes
    BY <1>7, <2>2 DEF StatusRead, Typing, Progresses, Revisions
  <2>3. ASSUME NEW p \in reading'
        PROVE  /\ retirement # 0 /\ p \in Progresses
               /\ Behind(p.outcome, progress[retirement].outcome)
               /\ ~p.complete => job[retirement] # "done"
               /\ last_reload.revision = retirement => Behind(last_reload.outcome, p.outcome)
    BY <2>2, BehindItself DEF JobEnds, Reported
  <2> QED
    BY <2>1, <2>3 DEF Reported, ReportGrows
<1>8. CASE StatusReply
  <2>1. UNCHANGED <<job, progress, retirement, pc, target>> /\ reading' = {}
    BY <1>8 DEF StatusReply, callVars, jobVars
  <2>2. PICK p \in reading : last_reload' = Report(retirement, Outcome(retirement, p))
    BY <1>8 DEF StatusReply
  <2> DEFINE o == p.outcome
             n == Outcome(retirement, p)
  <2>3. /\ retirement # 0 /\ p \in Progresses
        /\ Behind(o, progress[retirement].outcome)
        /\ ~p.complete => job[retirement] # "done"
        /\ last_reload.revision = retirement => Behind(last_reload.outcome, o)
    BY <2>2 DEF Reported
  <2>4. /\ retirement \in Revisions /\ o \in OutcomeTypes
        /\ progress[retirement].outcome \in OutcomeTypes
    BY <2>3 DEF Typing, Progresses, Revisions
  <2>5. /\ n \in OutcomeTypes /\ n.old = o.old /\ n.pending = o.pending
        /\ n.cleanup = o.cleanup /\ n.failed = o.failed
    <3>1. CASE p.complete
      BY <2>4, <3>1 DEF Outcome
    <3>2. CASE ~p.complete
      <4>1. n = [o EXCEPT !.late = @ \/ retirement \in late, !.cleanup = @]
        BY <2>3, <3>2 DEF Outcome
      <4> QED
        BY <2>4, <4>1 DEF OutcomeTypes
    <3> QED
      BY <3>1, <3>2
  <2> HIDE DEF n
  <2>6. last_reload'.revision = retirement /\ last_reload'.outcome = n
    BY <2>2 DEF Report, n
  <2>7. Behind(n, progress[retirement].outcome)
    BY <2>3, <2>5 DEF Behind
  <2>8. last_reload.revision = retirement => Behind(last_reload.outcome, n)
    BY <2>3, <2>5 DEF Behind
  <2>9. ReportGrows
    BY <2>6, <2>8 DEF ReportGrows
  <2>10. Reported'
    BY <2>1, <2>4, <2>5, <2>6, <2>7 DEF Reported
  <2> QED
    BY <2>9, <2>10
<1>9. ASSUME NEW c \in Callers, Begin(c) PROVE Reported' /\ ReportGrows
  <2>1. UNCHANGED <<job, progress, reading>> /\ reading' = {} /\ JobsGrow
    BY <1>9, JobsQuiet DEF Begin, Unlocked, jobVars
  <2>2. /\ pc' = [pc EXCEPT ![c] = IF retirement = 0 THEN "loading" ELSE "joining"]
        /\ target' = [target EXCEPT ![c] = retirement] /\ retirement' = 0
    BY <1>9 DEF Begin
  <2>3. \A d \in Callers \ {c} : pc'[d] = pc[d] /\ target'[d] = target[d]
    BY <2>2 DEF Typing
  <2>4. pc'[c] = (IF retirement = 0 THEN "loading" ELSE "joining") /\ target'[c] = retirement
    BY <2>2 DEF Typing
  <2>5. CASE retirement = 0
    <3>1. UNCHANGED <<last_reload, retirement>>
      BY <1>9, <2>5 DEF Begin
    <3> QED
      BY <2>1, <2>3, <2>4, <2>5, <3>1, ReportedKept
  <2>6. CASE retirement # 0
    <3>1. retirement \in Revisions /\ job[retirement] = "done" /\ progress[retirement].complete
      BY <1>9, <2>6 DEF Begin, IsActive, Typing, Revisions
    <3>2. last_reload' = Report(retirement, progress[retirement].outcome)
      BY <1>9, <2>6, <3>1 DEF Begin, Outcome
    <3> QED
      BY <2>1, <2>2, <2>3, <2>4, <3>1, <3>2, ReportedNow
  <2> QED
    BY <2>5, <2>6
<1>10. ASSUME NEW c \in Callers, JoinPrevious(c) PROVE Reported' /\ ReportGrows
  <2>1. UNCHANGED <<job, progress, retirement>> /\ reading' = {} /\ JobsGrow
    BY <1>10, JobsQuiet DEF JoinPrevious, Unlocked, jobVars
  <2>2. target[c] \in Revisions /\ job[target[c]] = "done" /\ progress[target[c]].complete
    BY <1>10 DEF JoinPrevious, Reported, JobEnds
  <2>3. last_reload' = Report(target[c], progress[target[c]].outcome)
    BY <1>10, <2>2 DEF JoinPrevious, Outcome
  <2>4. \A d \in Callers : pc'[d] = "joining" => pc[d] = "joining" /\ target'[d] = target[d]
    BY <1>10 DEF JoinPrevious, Typing
  <2> QED
    BY <2>1, <2>2, <2>3, <2>4, ReportedNow
<1>11. ASSUME NEW c \in Callers, Load(c) \/ Leave(c) \/ Start(c) PROVE Reported' /\ ReportGrows
  <2>1. \A d \in Callers : pc'[d] = "joining" => pc[d] = "joining" /\ target'[d] = target[d]
    BY <1>11 DEF Load, Leave, Start, Typing
  <2>2. CASE Load(c) \/ Leave(c)
    BY <1>1, <2>1, <2>2 DEF Load, Leave, hostVars, jobVars
  <2>3. CASE Start(c)
    <3>1. target[c] \in Revisions /\ job[target[c]] = "parked"
      BY <2>3 DEF Start, GateHeld
    <3>2. \A g \in Revisions : job'[g] = IF g = target[c] THEN "closing" ELSE job[g]
      BY <2>3 DEF Start, Typing
    <3>3. JobsGrow
      BY <2>3, <3>1, <3>2, OutcomeOf, BehindItself DEF Start, JobsGrow
    <3> QED
      BY <2>1, <2>3, <3>3, ReportedKept DEF Start, hostVars
  <2> QED
    BY <1>11, <2>2, <2>3
<1>12. ASSUME NEW c \in Callers, Commit(c) PROVE Reported' /\ ReportGrows
  <2>0. PICK g \in Revisions : g = target[c]
    BY <1>12 DEF Commit, GateHeld
  <2>1. /\ revision < g /\ revision \in Int /\ reading' = {} /\ retirement' = g
        /\ last_reload' = Report(g, Fresh(revision, Attached))
        /\ progress'[g].outcome = Fresh(revision, Attached) /\ job'[g] = "parked"
    BY <1>12, <2>0 DEF Commit, MayCommit, Unlocked, Typing
  <2>2. Fresh(revision, Attached) \in OutcomeTypes
    BY FreshTypes, AttachedFinite DEF Typing
  <2>3. last_reload.revision # g
    BY <2>1 DEF Reported, Work, Sound
  <2>4. last_reload'.revision = g /\ last_reload'.outcome = Fresh(revision, Attached)
    BY <2>1 DEF Report
  <2>5. \A d \in Callers : pc'[d] # "joining"
    <3>1. pc[c] = "prepared" /\ gate = c /\ pc' = [pc EXCEPT ![c] = "committed"]
      BY <1>12 DEF Commit, GateHeld
    <3>2. \A d \in Callers : pc[d] = "joining" => d = c
      BY <3>1 DEF GateHeld
    <3> QED
      BY <3>1, <3>2 DEF Typing
  <2>6. Behind(last_reload'.outcome, progress'[g].outcome)
    BY <2>1, <2>2, <2>4, BehindItself
  <2> QED
    BY <2>1, <2>2, <2>3, <2>4, <2>5, <2>6 DEF Reported, ReportGrows
<1>13. ASSUME NEW g \in Revisions, Mirror(g) PROVE Reported' /\ ReportGrows
  <2>1. UNCHANGED <<progress, retirement, pc, target>> /\ reading' = {}
    BY <1>13 DEF Mirror, Unlocked, callVars
  <2>2. \A h \in Revisions : /\ job[h] # "none" => job'[h] # "none"
                             /\ job[h] = "done" => job'[h] = "done"
    BY <1>13 DEF Mirror, Typing
  <2>3. retirement' # 0 => job'[retirement'] # "none"
    BY <2>1, <2>2 DEF Reported, Typing, Revisions
  <2>4. \A c \in Callers : pc'[c] = "joining" =>
           target'[c] \in Revisions /\ job'[target'[c]] = "done"
    BY <2>1, <2>2 DEF Reported
  <2>5. CASE last_reload.revision = g
    <3>1. last_reload'.revision = g /\ last_reload'.outcome = progress[g].outcome
      BY <1>13, <2>5 DEF Mirror, Report
    <3>2. ReportGrows
      BY <2>5, <3>1 DEF ReportGrows, Reported
    <3>3. job'[g] # "none"
      BY <2>2, <2>5 DEF Reported
    <3> QED
      BY <2>1, <2>3, <2>4, <3>1, <3>2, <3>3, OutcomeOf, BehindItself DEF Reported
  <2>6. CASE last_reload.revision # g
    <3>1. UNCHANGED last_reload
      BY <1>13, <2>6 DEF Mirror
    <3> QED
      BY <2>1, <2>2, <2>3, <2>4, <3>1 DEF Reported, ReportGrows
  <2> QED
    BY <2>5, <2>6
<1>14. ASSUME NEW g \in Revisions, CloseRetired(g) PROVE Reported' /\ ReportGrows
  <2>1. /\ job[g] = "closing" /\ job'[g] \in {"closed", "failed"}
        /\ \A h \in Revisions \ {g} : job'[h] = job[h]
    BY <1>14 DEF CloseRetired, Typing
  <2>2. UNCHANGED <<progress, last_reload, retirement, reading, pc, target>>
    BY <1>14 DEF CloseRetired, hostVars, callVars
  <2>3. JobsGrow
    BY <2>1, <2>2, OutcomeOf, BehindItself DEF JobsGrow
  <2> QED
    BY <2>2, <2>3, ReportedKept
<1>15. ASSUME NEW g \in Revisions, JobStep(g) PROVE Reported' /\ ReportGrows
  <2>1. UNCHANGED <<last_reload, retirement, reading, pc, target>>
    BY <1>15 DEF JobStep, ReportClosed, CancelRetired, Finish, FlagLate,
                 JoinRetired, hostVars, callVars
  <2> QED
    BY <1>15, <2>1, JobGrows, ReportedKept
<1>16. ASSUME NEW g \in Revisions, Deadline(g) PROVE Reported' /\ ReportGrows
  BY <1>2, <1>16 DEF Deadline, hostVars, callVars
<1>17. ASSUME NEW a \in Attachments, NEW bad \in BOOLEAN, Expire(a) \/ TaskEnd(a, bad)
       PROVE Reported' /\ ReportGrows
  BY <1>2, <1>17 DEF Expire, TaskEnd, hostVars, callVars, jobVars
<1>18. CASE Terminate \/ CloseActive \/ WaitRetirement
  BY <1>2, <1>18 DEF Terminate, CloseActive, WaitRetirement, hostVars, callVars, jobVars
<1>19. CASE UNCHANGED vars
  BY <1>2, <1>19 DEF vars, hostVars, callVars, jobVars
<1> QED
  BY <1>3, <1>4, <1>5, <1>6, <1>7, <1>8, <1>9, <1>10, <1>11,
     <1>12, <1>13, <1>14, <1>15, <1>16, <1>17, <1>18, <1>19
  DEF Next, Requests, Reloads, Retirements, Tasks, Reject, Disconnect, Answer

LEMMA ReportedMeans == Work /\ Typing /\ Reported => ReportHonest
<1> SUFFICES ASSUME Work, Typing, Reported, last_reload.revision # 0 PROVE ReportHonest
  BY DEF ReportHonest
<1> DEFINE g == last_reload.revision
           o == last_reload.outcome
           n == progress[g].outcome
           old == {a \in Attachments : owner[a] = o.old}
<1>1. /\ g \in Revisions /\ o \in OutcomeTypes /\ n \in OutcomeTypes
      /\ Behind(o, n) /\ Sound(g)
  BY OutcomeOf DEF Reported, Work
<1>2. n.old = o.old /\ n.pending <= o.pending /\ (o.cleanup = "Complete" => n.cleanup = "Complete")
  BY <1>1 DEF Behind
<1>3. (old \cap retired) \ ended \subseteq unjoined[g] /\ IsFiniteSet(unjoined[g])
      /\ n.pending = Cardinality(unjoined[g])
  BY <1>1, <1>2 DEF Sound
<1>4. /\ Cardinality((old \cap retired) \ ended) <= Cardinality(unjoined[g])
      /\ Cardinality((old \cap retired) \ ended) \in Nat
  BY <1>3, FS_Subset, FS_CardinalityType
<1>5. o.pending \in Int /\ n.pending \in Int
  BY <1>1 DEF OutcomeTypes
<1>6. Cardinality((old \cap retired) \ ended) <= o.pending
  BY <1>2, <1>3, <1>4, <1>5
<1>7. o.old \in closed /\ (o.cleanup = "Complete" => old \cap Sessions \subseteq revoked)
  BY <1>1, <1>2 DEF Sound
<1> QED
  BY <1>6, <1>7 DEF ReportHonest

-----------------------------------------------------------------------------
(* Theorems                                                                *)

LEMMA AuthorityAlways == Spec => []Authority
  BY AuthorityInit, AuthorityStep, PTL DEF Spec

\* Authority ends with its attachment, for any maps: a session or an
\* observer the host has forgotten is refused.
THEOREM AuthorityEndsWithAttachment == Spec => []DetachedPowerless
<1>1. Authority => DetachedPowerless
  BY DEF Authority
<1> QED
  BY <1>1, AuthorityAlways, PTL

\* The maps only hold attachments of the installed broker, and no observer
\* outlives a session it was granted.
THEOREM MapsAreCurrent == Spec => []AttachmentsCurrent
<1>1. Authority => AttachmentsCurrent
  BY DEF Authority
<1> QED
  BY <1>1, AuthorityAlways, PTL

LEMMA OwnershipAlways == Spec => []Ownership
  BY OwnershipInit, OwnershipStep, PTL DEF Spec

\* No prepared reload reopens a daemon that is shutting down.
THEOREM ShutdownStaysFinal == Spec => []ShutdownIsFinal
<1>1. Init => ShutdownIsFinal
  BY DEF Init, ShutdownIsFinal
<1> QED
  BY <1>1, FinalStep, TypingInit, TypingStep, PTL DEF Spec

\* At most one retired generation has live work, and the host owns it.
THEOREM OneLiveRetirement == Spec => []LiveWorkOwned
<1>1. Ownership => LiveWorkOwned
  BY DEF Ownership
<1> QED
  BY <1>1, OwnershipAlways, PTL

\* A shutdown that succeeds has drained every retired generation.
THEOREM ShutdownReportsHonestly == Spec => []ShutdownHonest
<1>1. Init => ShutdownHonest
  BY DEF Init, ShutdownHonest
<1> QED
  BY <1>1, HonestEnd, OwnershipAlways, PTL DEF Spec

LEMMA ReportedAlways == Spec => [](Work /\ Typing /\ Reported)
<1>1. Authority => Typing
  BY DEF Authority
<1>2. Authority /\ Ownership /\ Work /\ Reported /\ [Next]_vars => Work' /\ Reported'
  BY WorkStep, ReportedStep
<1> QED
  BY <1>1, <1>2, WorkInit, ReportedInit, AuthorityAlways, OwnershipAlways, PTL DEF Spec

\* Status never reports a retirement as further than it is: completed
\* cleanup has revoked every old session, every running task is counted.
THEOREM ReportsAreHonest == Spec => []ReportHonest
  BY ReportedAlways, ReportedMeans, PTL

\* No race of status requests and job updates takes a report back.
THEOREM ReportsOnlyAdvance == Spec => ReportMonotone
<1> DEFINE Advances ==
      last_reload'.revision = last_reload.revision =>
         LET o == last_reload.outcome
             n == last_reload'.outcome
         IN /\ n.pending <= o.pending
            /\ o.cleanup # "Pending" => n.cleanup = o.cleanup
            /\ o.failed => n.failed
<1>1. ASSUME Ownership, Work, Reported, [Next]_vars PROVE [Advances]_vars
  <2>1. ReportGrows
    BY <1>1, ReportedStep
  <2>2. CASE last_reload' = last_reload
    BY <1>1, <2>2 DEF Reported, OutcomeTypes
  <2> QED
    BY <2>1, <2>2 DEF ReportGrows, Behind
<1> QED
  BY <1>1, ReportedAlways, OwnershipAlways, PTL DEF Spec, ReportMonotone
=============================================================================
