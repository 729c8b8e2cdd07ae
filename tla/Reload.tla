------------------------------- MODULE Reload -------------------------------
(***************************************************************************)
(* Generation replacement in the daemon (aap-daemon runtime.rs,            *)
(* runtime/retirement.rs, runtime/observation.rs): the host state behind   *)
(* one mutex, operator requests, reload with its detached retirement job,  *)
(* and shutdown.                                                           *)
(*                                                                         *)
(* A configuration revision names the broker and the job it brings: both   *)
(* are replaced together and revisions only grow.  A section under the     *)
(* host mutex is one action.  The status handler is split in two because   *)
(* it reads the job's progress, which the job updates under another lock,  *)
(* and then the clock.                                                     *)
(***************************************************************************)
EXTENDS Integers, FiniteSets

CONSTANTS
    Sessions,     \* identities of session attachments
    Observers,    \* identities of observation attachments
    Callers,      \* operator connections that may ask for a reload
    MaxRevision   \* bound of the model: the last configuration revision

ASSUME ReloadAssumption ==
    /\ MaxRevision \in Nat \ {0}
    /\ IsFiniteSet(Sessions) /\ IsFiniteSet(Observers)
    /\ Sessions \cap Observers = {}
    /\ 0 \notin Callers

Attachments == Sessions \cup Observers
Revisions == 1..MaxRevision

VARIABLES
    revision,    \* Generation.loaded, .broker
    sessions, observers, \* Generation.sessions, .observers
    last_reload, \* Generation.last_reload: revision 0 before the first
    retirement,  \* Generation.retirement: the job held, 0 if none
    reading,     \* progress a status handler read; it holds the host mutex
    closed,      \* revisions whose broker has closed admission
    revoked,     \* sessions whose broker has revoked them
    open,        \* observers whose subscription accepts requests
    owner,       \* revision an attachment was created under, 0 before
    scope,       \* Scope.sessions of an observer
    expired, cancelled, ended, failed, \* attachments: clock, token, task
    gate,        \* caller holding reload_gate, 0 if none
    pc, target,  \* where a caller is, and the revision it works on
    job,         \* where the job of a revision is
    progress,    \* its watch channel
    publishing,  \* jobs between the two halves of Reporter::update
    unjoined,    \* attachments a job still owns
    late,        \* jobs whose deadline has passed
    serve, stopping, clean, \* shutdown: where, of which broker, close() ok
    retired      \* history: attachments handed to a job

hostVars == <<revision, sessions, observers, last_reload, retirement, reading>>
authVars == <<closed, revoked, open, owner, scope>>
taskVars == <<expired, cancelled, ended, failed>>
callVars == <<gate, pc, target>>
jobVars == <<job, progress, publishing, unjoined, late>>
stopVars == <<serve, stopping, clean>>
vars == <<hostVars, authVars, taskVars, callVars, jobVars, stopVars, retired>>

-----------------------------------------------------------------------------
\* The host mutex is free.
Unlocked == reading = {}

Fresh(old, n) ==
    [old |-> old, cleanup |-> "Pending", pending |-> n,
     failed |-> FALSE, late |-> FALSE]

Report(g, o) == [revision |-> g, outcome |-> o]
NoReport == Report(0, Fresh(0, 0))

IsActive_UntilDeadline(g) == ~progress[g].complete /\ ~progress[g].outcome.late

\* Job::is_active; the task has finished exactly at "done".
IsActive(g) ==
    \/ job[g] # "done"
    \/ ~progress[g].complete
    \/ progress[g].outcome.pending # 0

\* Job::outcome, for a progress read before the clock and the task are.
Outcome(g, p) ==
    IF p.complete THEN p.outcome
    ELSE [p.outcome EXCEPT !.late = @ \/ g \in late,
                           !.cleanup = IF job[g] = "done" THEN "Failed" ELSE @]

-----------------------------------------------------------------------------
(* The attachment maps.                                                    *)

\* Control::prune keeps these sessions and, over them, these observers.
LiveSessions(ss) == ss \ (expired \cup ended)

LiveObservers(os, ss) == {o \in os \ (expired \cup ended) : scope[o] \subseteq ss}

\* Broker::revoke refuses sessions of another broker.
Revocable(ss) == {s \in ss : owner[s] = revision}

\* Prune from the maps ss and os, drop what leaves, then add what is new.
\* Dropping an attachment cancels and aborts its task and closes an
\* observer's subscription.
Settle(ss, os, taken, newS, newO) ==
    LET keptS == LiveSessions(ss)
        keptO == LiveObservers(os, keptS)
        gone == (sessions \ keptS) \cup (observers \ keptO)
    IN /\ sessions' = keptS \cup newS
       /\ observers' = keptO \cup newO
       /\ revoked' = revoked \cup Revocable(taken \cup (ss \ keptS))
       /\ cancelled' = cancelled \cup gone
       /\ open' = (open \ gone) \cup newO

\* Control::create.  Without s: refused after pruning (a closed broker, a
\* limit, a socket that cannot be bound).
Create(new) ==
    /\ Unlocked
    /\ \A s \in new : owner[s] = 0 /\ revision \notin closed
    /\ Settle(sessions, observers, {}, new, {})
    /\ owner' = [a \in Attachments |-> IF a \in new THEN revision ELSE owner[a]]
    /\ UNCHANGED <<revision, last_reload, retirement, reading, closed, scope,
                   expired, ended, failed, callVars, jobVars, stopVars, retired>>

\* Control::create_observation over sessions that survive the pruning.
CreateObservation(o, over) ==
    /\ Unlocked
    /\ owner[o] = 0 /\ over # {} /\ over \subseteq LiveSessions(sessions)
    /\ Settle(sessions, observers, {}, {}, {o})
    /\ owner' = [owner EXCEPT ![o] = revision]
    /\ scope' = [scope EXCEPT ![o] = over]
    /\ UNCHANGED <<revision, last_reload, retirement, reading, closed,
                   expired, ended, failed, callVars, jobVars, stopVars, retired>>

\* Control::revoke: broker.revoke(..)? returns before the pruning.
Revoke(s) ==
    /\ Unlocked
    /\ s \in sessions
    /\ IF owner[s] = revision
       THEN Settle(sessions \ {s}, observers, {s}, {}, {})
       ELSE /\ sessions' = sessions \ {s}
            /\ cancelled' = cancelled \cup {s}
            /\ UNCHANGED <<observers, revoked, open>>
    /\ UNCHANGED <<revision, last_reload, retirement, reading, closed, owner,
                   scope, expired, ended, failed, callVars, jobVars, stopVars, retired>>

\* Control::revoke_observation
RevokeObservation(o) ==
    /\ Unlocked
    /\ o \in observers
    /\ observers' = observers \ {o}
    /\ cancelled' = cancelled \cup {o}
    /\ open' = open \ {o}
    /\ UNCHANGED <<revision, sessions, last_reload, retirement, reading,
                   closed, revoked, owner, scope, expired, ended, failed,
                   callVars, jobVars, stopVars, retired>>

\* The status request: prune, then Job::outcome up to its first read.
StatusRead ==
    /\ Unlocked
    /\ Settle(sessions, observers, {}, {}, {})
    /\ reading' = IF retirement = 0 THEN {} ELSE {progress[retirement]}
    /\ UNCHANGED <<revision, last_reload, retirement, closed, owner, scope,
                   expired, ended, failed, callVars, jobVars, stopVars, retired>>

\* The rest of Job::outcome; what is written is what the operator is told.
StatusReply ==
    /\ \E p \in reading :
          last_reload' = Report(retirement, Outcome(retirement, p))
    /\ reading' = {}
    /\ UNCHANGED <<revision, sessions, observers, retirement, authVars,
                   taskVars, callVars, jobVars, stopVars, retired>>

-----------------------------------------------------------------------------
(* Reload, as the operator's request runs it.                              *)

\* Take the gate, refuse while a job is active, forget the finished one.
Begin(c) ==
    /\ Unlocked
    /\ pc[c] = "idle" /\ gate = 0
    /\ revision \notin closed
    /\ retirement # 0 => ~IsActive(retirement)
    /\ gate' = c
    /\ pc' = [pc EXCEPT ![c] = IF retirement = 0 THEN "loading" ELSE "joining"]
    /\ target' = [target EXCEPT ![c] = retirement]
    /\ retirement' = 0
    /\ last_reload' =
         IF retirement = 0 THEN last_reload
         ELSE Report(retirement, Outcome(retirement, progress[retirement]))
    /\ UNCHANGED <<revision, sessions, observers, reading, authVars, taskVars,
                   jobVars, stopVars, retired>>

\* Job::join of the finished job has returned.
JoinPrevious(c) ==
    /\ Unlocked
    /\ pc[c] = "joining"
    /\ last_reload' = Report(target[c], Outcome(target[c], progress[target[c]]))
    /\ pc' = [pc EXCEPT ![c] = "loading"]
    /\ target' = [target EXCEPT ![c] = 0]
    /\ UNCHANGED <<revision, sessions, observers, retirement, reading,
                   authVars, taskVars, gate, jobVars, stopVars, retired>>

\* load, broker and the interception identities are prepared.
Load(c) ==
    /\ pc[c] = "loading"
    /\ \E r \in Revisions : target' = [target EXCEPT ![c] = r]
    /\ pc' = [pc EXCEPT ![c] = "prepared"]
    /\ UNCHANGED <<hostVars, authVars, taskVars, gate, jobVars, stopVars, retired>>

Leave(c) ==
    /\ pc' = [pc EXCEPT ![c] = "idle"]
    /\ gate' = IF gate = c THEN 0 ELSE gate
    /\ target' = [target EXCEPT ![c] = 0]
    /\ UNCHANGED <<hostVars, authVars, taskVars, jobVars, stopVars, retired>>

\* Preparation failed, or a check before the commitment did (a restart-only
\* setting may differ for any candidate).
Reject(c) == pc[c] \in {"loading", "prepared"} /\ Leave(c)

\* The operator's connection is gone: the future is dropped where it awaits.
Disconnect(c) == pc[c] \in {"joining", "loading", "waiting"} /\ Leave(c)

\* The tasks a retirement starts with.
Attached == Cardinality(sessions \cup observers)

MayCommit(r) == revision \notin closed /\ r > revision

CloseAdmission_BrokerOnly == closed' = closed \cup {revision} /\ UNCHANGED open

\* Broker::close_admission, and the same for every observer.
CloseAdmission == closed' = closed \cup {revision} /\ open' = open \ observers

\* Everything under the host mutex: close admission, publish, start the job.
Commit(c) ==
    LET g == target[c]
        old == Fresh(revision, Attached)
    IN /\ Unlocked
       /\ pc[c] = "prepared" /\ MayCommit(g)
       /\ CloseAdmission
       /\ revision' = g
       /\ unjoined' = [unjoined EXCEPT ![g] = sessions \cup observers]
       /\ sessions' = {} /\ observers' = {}
       /\ last_reload' = Report(g, old)
       /\ progress' = [progress EXCEPT ![g] = [outcome |-> old, complete |-> FALSE]]
       /\ job' = [job EXCEPT ![g] = "parked"]
       /\ retirement' = g
       /\ retired' = retired \cup sessions \cup observers
       /\ pc' = [pc EXCEPT ![c] = "committed"]
       /\ UNCHANGED <<reading, revoked, owner, scope, taskVars, gate, target,
                      publishing, late, stopVars>>

\* start.send and drop(_exclusive)
Start(c) ==
    /\ pc[c] = "committed"
    /\ job' = [job EXCEPT ![target[c]] = "closing"]
    /\ gate' = 0
    /\ pc' = [pc EXCEPT ![c] = "waiting"]
    /\ UNCHANGED <<hostVars, authVars, taskVars, target, progress, publishing,
                   unjoined, late, stopVars, retired>>

Waited_Drained(g, timeout) ==
    IF progress[g].complete THEN {progress[g].outcome} ELSE {}

\* What Waiter::wait may return: on completion or the flag the progress as
\* it is, at its deadline the progress with the flag set.
Waited(g, timeout) ==
    {o \in {progress[g].outcome} : progress[g].complete \/ o.late}
    \cup {[progress[g].outcome EXCEPT !.late = TRUE] : t \in {timeout} \cap {TRUE}}

\* The reload request returns what it waited for.
Answer(c) ==
    /\ pc[c] = "waiting"
    /\ Waited(target[c], target[c] \in late) # {}
    /\ Leave(c)

-----------------------------------------------------------------------------
(* The retirement job of revision g.                                       *)

\* The first half of Reporter::update: send_modify, which also looks at the
\* clock.  The second half is Mirror.
Update(g, outcome, complete) ==
    /\ progress' = [progress EXCEPT ![g] =
          [outcome |-> [outcome EXCEPT !.late = @ \/ g \in late],
           complete |-> complete]]
    /\ publishing' = publishing \cup {g}

\* The second half of Reporter::update, under the host mutex.
Mirror(g) ==
    /\ g \in publishing /\ Unlocked
    /\ publishing' = publishing \ {g}
    /\ last_reload' = IF last_reload.revision = g
                      THEN Report(g, progress[g].outcome) ELSE last_reload
    /\ job' = [job EXCEPT ![g] = IF @ = "finishing" THEN "done" ELSE @]
    /\ UNCHANGED <<revision, sessions, observers, retirement, reading,
                   authVars, taskVars, callVars, progress, unjoined, late,
                   stopVars, retired>>

\* Broker::close on the blocking pool.  Where it fails, or its thread
\* panics, it may have left sessions of its broker unvisited.
CloseRetired(g) ==
    /\ job[g] = "closing"
    /\ LET own == {s \in Sessions : owner[s] = progress[g].outcome.old}
       IN \/ /\ revoked' = revoked \cup own
             /\ job' = [job EXCEPT ![g] = "closed"]
          \/ /\ \E some \in SUBSET own : revoked' = revoked \cup some
             /\ job' = [job EXCEPT ![g] = "failed"]
    /\ UNCHANGED <<hostVars, closed, open, owner, scope, taskVars, callVars,
                   progress, publishing, unjoined, late, stopVars, retired>>

ReportClosed(g) ==
    /\ job[g] \in {"closed", "failed"} /\ g \notin publishing
    /\ Update(g, [progress[g].outcome EXCEPT
                   !.cleanup = IF job[g] = "closed" THEN "Complete" ELSE "Failed"],
              FALSE)
    /\ job' = [job EXCEPT ![g] = "cancelling"]
    /\ UNCHANGED <<hostVars, authVars, taskVars, callVars, unjoined, late,
                   stopVars, retired>>

CancelRetired(g) ==
    /\ job[g] = "cancelling" /\ g \notin publishing
    /\ cancelled' = cancelled \cup unjoined[g]
    /\ job' = [job EXCEPT ![g] = "joining"]
    /\ UNCHANGED <<hostVars, authVars, expired, ended, failed, callVars,
                   progress, publishing, unjoined, late, stopVars, retired>>

Joinable_Aborted(g, a) == a \in unjoined[g]

\* Sessions are joined before observers, in the order of a hash map.
Joinable(g, a) ==
    /\ a \in unjoined[g] /\ a \in ended
    /\ a \in Observers => unjoined[g] \cap Sessions = {}

JoinRetired(g, a) ==
    /\ job[g] = "joining" /\ g \notin publishing
    /\ Joinable(g, a)
    /\ unjoined' = [unjoined EXCEPT ![g] = @ \ {a}]
    /\ open' = open \ {a}
    /\ Update(g, [progress[g].outcome EXCEPT !.pending = @ - 1,
                                             !.failed = @ \/ a \in failed],
              FALSE)
    /\ UNCHANGED <<hostVars, closed, revoked, owner, scope, taskVars,
                   callVars, job, late, stopVars, retired>>

Finish(g) ==
    /\ job[g] = "joining" /\ g \notin publishing
    /\ unjoined[g] = {}
    /\ Update(g, progress[g].outcome, TRUE)
    /\ job' = [job EXCEPT ![g] = "finishing"]
    /\ UNCHANGED <<hostVars, authVars, taskVars, callVars, unjoined, late,
                   stopVars, retired>>

\* timeout_at fires while the cleanup awaits; the cleanup goes on.
FlagLate(g) ==
    /\ g \in late /\ g \notin publishing
    /\ \/ job[g] = "closing"
       \/ job[g] = "joining" /\ unjoined[g] # {}
    /\ ~progress[g].outcome.late
    /\ Update(g, progress[g].outcome, FALSE)
    /\ UNCHANGED <<hostVars, authVars, taskVars, callVars, job, unjoined, late,
                   stopVars, retired>>

-----------------------------------------------------------------------------
(* Clock and tasks.                                                        *)

\* The two seconds of a job pass.
Deadline(g) ==
    /\ job[g] \notin {"none", "done"} /\ g \notin late
    /\ late' = late \cup {g}
    /\ UNCHANGED <<hostVars, authVars, taskVars, callVars, job, progress,
                   publishing, unjoined, stopVars, retired>>

\* The attachments the maps or a job own; the tasks of the others, which are
\* aborted, are not followed.
Held == sessions \cup observers \cup UNION {unjoined[g] : g \in Revisions}

\* A lifetime passes; an observer's is cut to those of its sessions.
Expire(a) ==
    /\ a \in Held \ expired
    /\ expired' = expired \cup {a} \cup {o \in Observers : a \in scope[o]}
    /\ UNCHANGED <<hostVars, authVars, cancelled, ended, failed, callVars,
                   jobVars, stopVars, retired>>

\* A listener task ends: cancelled, timed out (observers) or by a failure.
\* An observer's closes its subscription.
TaskEnd(a, bad) ==
    /\ a \in Held \ ended
    /\ bad \/ a \in cancelled \/ a \in expired \cap Observers
    /\ ended' = ended \cup {a}
    /\ failed' = IF bad THEN failed \cup {a} ELSE failed
    /\ open' = open \ {a}
    /\ UNCHANGED <<hostVars, closed, revoked, owner, scope, expired,
                   cancelled, callVars, jobVars, stopVars, retired>>

-----------------------------------------------------------------------------
(* Shutdown: the end of serve, with Control::shutdown.                     *)

Terminate ==
    /\ serve = "up" /\ Unlocked
    /\ CloseAdmission
    /\ sessions' = {} /\ observers' = {}
    /\ stopping' = revision
    /\ serve' = "closing"
    /\ UNCHANGED <<revision, last_reload, retirement, reading, revoked, owner,
                   scope, taskVars, callVars, jobVars, clean, retired>>

\* Broker::close outside the mutex, then the attachments are dropped.
CloseActive ==
    /\ serve = "closing"
    /\ LET own == {s \in Sessions : owner[s] = stopping}
       IN \/ revoked' = revoked \cup own /\ clean' = TRUE
          \/ /\ \E some \in SUBSET own : revoked' = revoked \cup some
             /\ clean' = FALSE
    /\ cancelled' = cancelled \cup {a \in Attachments : owner[a] = stopping}
    /\ serve' = "draining"
    /\ UNCHANGED <<hostVars, closed, open, owner, scope, expired, ended,
                   failed, callVars, jobVars, stopping, retired>>

RetiredWell(o) == o.cleanup = "Complete" /\ o.pending = 0 /\ ~o.failed /\ ~o.late

\* Control::wait_retirement; its own deadline may pass at any time.
WaitRetirement ==
    /\ serve = "draining" /\ Unlocked
    /\ \/ /\ retirement = 0
          /\ serve' = IF clean THEN "ok" ELSE "failed"
       \/ /\ retirement # 0
          /\ \E o \in Waited(retirement, TRUE) :
                serve' = IF clean /\ RetiredWell(o) THEN "ok" ELSE "failed"
    /\ UNCHANGED <<hostVars, authVars, taskVars, callVars, jobVars, stopping,
                   clean, retired>>

-----------------------------------------------------------------------------
\* serve has built the first generation; no caller, no attachment.
Init ==
    /\ revision = 1 /\ sessions = {} /\ observers = {}
    /\ last_reload = NoReport /\ retirement = 0 /\ reading = {}
    /\ closed = {} /\ revoked = {} /\ open = {}
    /\ owner = [a \in Attachments |-> 0]
    /\ scope = [o \in Observers |-> {}]
    /\ expired = {} /\ cancelled = {} /\ ended = {} /\ failed = {}
    /\ gate = 0
    /\ pc = [c \in Callers |-> "idle"] /\ target = [c \in Callers |-> 0]
    /\ job = [g \in Revisions |-> "none"]
    /\ progress = [g \in Revisions |-> [outcome |-> Fresh(0, 0), complete |-> FALSE]]
    /\ publishing = {} /\ late = {}
    /\ unjoined = [g \in Revisions |-> {}]
    /\ serve = "up" /\ stopping = 0 /\ clean = FALSE
    /\ retired = {}

Requests ==
    \/ \E new \in {{}} \cup {{s} : s \in Sessions} : Create(new)
    \/ \E o \in Observers, over \in SUBSET Sessions : CreateObservation(o, over)
    \/ \E s \in Sessions : Revoke(s)
    \/ \E o \in Observers : RevokeObservation(o)
    \/ StatusRead
    \/ StatusReply

Reloads ==
    \E c \in Callers :
        \/ Begin(c) \/ JoinPrevious(c) \/ Load(c) \/ Reject(c) \/ Disconnect(c)
        \/ Commit(c) \/ Start(c) \/ Answer(c)

JobStep(g) ==
    \/ ReportClosed(g) \/ CancelRetired(g) \/ Finish(g) \/ FlagLate(g)
    \/ \E a \in Attachments : JoinRetired(g, a)

Retirements ==
    \E g \in Revisions : JobStep(g) \/ Mirror(g) \/ CloseRetired(g) \/ Deadline(g)

Tasks ==
    \E a \in Attachments : Expire(a) \/ \E bad \in BOOLEAN : TaskEnd(a, bad)

\* The process ends when serve returns.
Next ==
    /\ serve \in {"up", "closing", "draining"}
    /\ \/ Requests \/ Reloads \/ Retirements \/ Tasks
       \/ Terminate \/ CloseActive \/ WaitRetirement

Spec == Init /\ [][Next]_vars

\* A thread inside a call goes on, a task that can run is polled, timers
\* fire, and a thread that waits for the host mutex gets it although others
\* take it again and again.  Nothing is assumed of operators, of listener
\* tasks or of Broker::close on the blocking pool.
Fairness ==
    /\ WF_vars(StatusReply) /\ WF_vars(CloseActive)
    /\ SF_vars(WaitRetirement)
    /\ \A c \in Callers : WF_vars(Start(c)) /\ WF_vars(Answer(c))
    /\ \A g \in Revisions :
          WF_vars(Deadline(g)) /\ WF_vars(JobStep(g)) /\ SF_vars(Mirror(g))

FairSpec == Spec /\ Fairness

-----------------------------------------------------------------------------
\* A session handle can do work: Session::check.
Usable(s) == /\ owner[s] # 0 /\ owner[s] \notin closed
             /\ s \notin revoked /\ s \notin expired

\* Authority never outlives its attachment: whatever handles of a session
\* or clones of a subscription are still around, they are refused as soon
\* as the host has forgotten the attachment, by revocation, pruning, reload
\* or shutdown.  (docs: "every old clone becomes unusable")
DetachedPowerless ==
    /\ \A s \in Sessions : Usable(s) => s \in sessions
    /\ open \subseteq observers

\* The maps only hold attachments of the installed broker, which is the one
\* that revoke and prune call, and an observer outlives none of the
\* sessions it was granted.
AttachmentsCurrent ==
    /\ \A a \in sessions \cup observers : owner[a] = revision
    /\ \A o \in observers : scope[o] \subseteq sessions

\* Once shutdown has closed admission no reload, however far it has been
\* prepared, brings an open broker back.
ShutdownIsFinal ==
    serve # "up" => revision \in closed /\ sessions = {} /\ observers = {}

\* At most one retired generation has live work, and the host still owns
\* it: a deadline or a disconnected operator never makes room for another.
LiveWorkOwned ==
    \A g \in Revisions :
        job[g] \notin {"none", "done"} => retirement = g

\* What status reports is never better than the facts: a completed cleanup
\* has revoked every session of the retired broker, and every attachment
\* task that has not ended is still counted as pending.
ReportHonest ==
    LET o == last_reload.outcome
        old == {a \in Attachments : owner[a] = o.old}
    IN last_reload.revision # 0 =>
          /\ o.old \in closed
          /\ o.cleanup = "Complete" => old \cap Sessions \subseteq revoked
          /\ Cardinality((old \cap retired) \ ended) <= o.pending

\* A shutdown that reports success leaves no retired generation with live
\* work: every job has joined every task of its generation.
ShutdownHonest ==
    serve = "ok" => \A g \in Revisions : job[g] # "none" =>
                        /\ progress[g].complete
                        /\ unjoined[g] = {}

\* Racing updates never regress the report of one reload: pending tasks are
\* not uncounted, a verdict is not withdrawn, a failure is not forgotten.
ReportMonotone ==
    [][last_reload'.revision = last_reload.revision =>
         LET o == last_reload.outcome
             n == last_reload'.outcome
         IN /\ n.pending <= o.pending
            /\ o.cleanup # "Pending" => n.cleanup = o.cleanup
            /\ o.failed => n.failed]_vars

\* A reload that has committed is answered, whatever hangs: the close, a
\* listener task, the job.
ReloadAnswered ==
    \A c \in Callers : pc[c] = "committed" ~> pc[c] = "idle"

\* docs/daemon.md: "The deadline flag remains true even if cleanup finishes
\* later."
DeadlineFlagRemains ==
    [][/\ last_reload.outcome.late
       /\ last_reload'.revision = last_reload.revision
       /\ progress'[last_reload.revision].complete
       => last_reload'.outcome.late]_vars
=============================================================================
