--------------------------- MODULE PipelineProofs ---------------------------
(***************************************************************************)
(* Machine-checked theorems about Pipeline, for any sets of sessions,      *)
(* operations, calls and operator threads and any limits: what calls may   *)
(* do to operations, revocation and closing, approvals and permits, and    *)
(* that Pipeline implements Lifecycle.                                     *)
(***************************************************************************)
EXTENDS Pipeline, FiniteSetTheorems, TLAPS

-----------------------------------------------------------------------------
(* The inductive invariant *)

\* A call owns a guard from Open until the guard is dropped.
GuardPCs == CallPCs \ {"idle", "track", "done"}

\* Between begin_dispatch and the end of complete().
DispatchedPCs == {"send", "sending", "body", "commit"}

\* A call that owns the guard of its operation, or owned it and dispatched.
Owns(c) == pc[c] \in GuardPCs \/ dispatched[c]

\* An operation belongs to one call, tracked before the call gets its guard.
Ownership ==
    /\ \A c \in Calls : Owns(c) => st[Op(c)] # "None"
    /\ \A c, d \in Calls : Owns(c) /\ Owns(d) /\ Op(c) = Op(d) => c = d

\* The guard's flag and the shared state agree.
Agreement ==
    \A c \in Calls :
        /\ pc[c] \in DispatchedPCs => dispatched[c]
        /\ dispatched[c] => /\ st[Op(c)] \in Committed
                            /\ pc[c] \in DispatchedPCs
                                   \cup {"drop", "fail", "failed", "over", "done"}
        /\ pc[c] \in GuardPCs /\ ~dispatched[c] => st[Op(c)] \notin Committed

\* The transport is reached once, from a committed operation.
Handoff ==
    /\ AtMostOnce /\ TruthfulStatus
    /\ \A c \in Calls :
         /\ pc[c] = "send" => sent[Op(c)] = 0 /\ st[Op(c)] # "Completed"
         /\ pc[c] \in {"sending", "body", "commit"} => sent[Op(c)] = 1

\* What a thread, a task or a cancel call refers to exists.
Tracked ==
    /\ \A s \in creating : sess[s] = "none"
    /\ \A s \in Sessions : sess[s] = "none" => ~revoked[s] /\ ~token[s] /\ ~expired[s]
    /\ \A t \in Operators :
         /\ \A s \in tqueue[t] \cup tnotify[t] : sess[s] # "none"
         /\ tsess[t] \in Sessions => sess[tsess[t]] # "none"
         /\ \A o \in ttodo[t] : st[o] # "None"
    /\ \A o \in cancelling : st[o] # "None"
    /\ \A o \in Ops : st[o] # "None" => sess[Owner[o]] # "none"
    /\ \A c \in Calls : pc[c] # "idle" => sess[Ses(c)] # "none"

\* A revoking thread has retired the session before it notifies and walks,
\* and its walk leaves no operation Dispatching behind.
Walk ==
    \A t \in Operators :
        /\ tpc[t] \in {"flip", "notify", "lock", "walk"} => tsess[t] \in Sessions
        /\ tpc[t] \in {"notify", "lock", "walk"} => revoked[tsess[t]]
        /\ tpc[t] \in {"lock", "walk"} => token[tsess[t]]
        /\ tpc[t] = "walk" => \A o \in Ops :
              Owner[o] = tsess[t] /\ st[o] = "Dispatching" => o \in ttodo[t]

Settled ==
    /\ RevokeSettles
    /\ \A s \in Sessions : settled[s] => revoked[s] /\ token[s]

\* A closing thread has every referenced session before it, in hand or behind.
Closing ==
    /\ \A t \in Operators :
         /\ inClose[t] => tpc[t] # "idle" /\ closed
         /\ tpc[t] = "close" => inClose[t]
         /\ inClose[t] => \A s \in Sessions : sess[s] = "live" =>
               s \in tqueue[t] \/ (tsess[t] = s /\ tpc[t] # "close") \/ settled[s]
    /\ closeReturned => closed /\ \A s \in Sessions : sess[s] = "live" => settled[s]
-----------------------------------------------------------------------------
(* Types *)

\* Initially every variable has its type.
LEMMA TypeInit == Init => TypeOK
  <1> SUFFICES ASSUME Init PROVE TypeOK
    OBVIOUS
  <1> USE ConstantsAssumption DEF Init
  <1>1. AuthTypes BY DEF AuthTypes
  <1>2. LimitTypes BY DEF LimitTypes
  <1>3. OpTypes BY DEF OpTypes
  <1>4. CallTypes BY DEF CallTypes, CallPCs
  <1>5. ThreadTypes BY DEF ThreadTypes
  <1> QED BY <1>1, <1>2, <1>3, <1>4, <1>5 DEF TypeOK

\* Creation, expiry and release of a session keep the types.
LEMMA TypeSession ==
  ASSUME TypeOK, NEW s \in Sessions, SessionStep(s)
  PROVE  TypeOK'
  <1> USE ConstantsAssumption DEF TypeOK, AuthTypes, LimitTypes, OpTypes, CallTypes,
         ThreadTypes, Op, Ses, authVars, limitVars, opVars, callVars, guardVars, threadVars,
         workVars, envVars
  <1>1. CASE CreateCheck(s)
    BY <1>1 DEF CreateCheck
  <1>2. CASE CreatePublish(s)
    BY <1>2 DEF CreatePublish
  <1>3. CASE Expire(s)
    BY <1>3 DEF Expire
  <1>4. CASE SessionDrop(s)
    BY <1>4 DEF SessionDrop, ReturnedBytes
  <1> QED BY <1>1, <1>2, <1>3, <1>4 DEF SessionStep

\* So do the steps of an operator thread.
LEMMA TypeOperator ==
  ASSUME TypeOK, NEW t \in Operators, CloseStep(t) \/ RevokeStep(t)
  PROVE  TypeOK'
  <1> USE ConstantsAssumption DEF TypeOK, AuthTypes, LimitTypes, OpTypes, CallTypes,
         ThreadTypes, Op, Ses, authVars, limitVars, opVars, callVars, guardVars, threadVars,
         workVars, envVars
  <1>1. CASE CloseStart(t)
    BY <1>1 DEF CloseStart, LiveSessions
  <1>2. CASE CloseReturn(t)
    BY <1>2 DEF CloseReturn
  <1>3. CASE RevokeFlip(t)
    BY <1>3 DEF RevokeFlip
  <1>4. CASE RevokeNotify(t)
    BY <1>4 DEF RevokeNotify
  <1>5. CASE RevokeLock(t)
    BY <1>5 DEF RevokeLock
  <1>6. CASE RevokeReturn(t)
    BY <1>6 DEF RevokeReturn
  <1>7. ASSUME NEW s \in Sessions, CloseNotify(t, s) PROVE TypeOK'
    BY <1>7 DEF CloseNotify
  <1>8. ASSUME NEW s \in Sessions, CloseNext(t, s) PROVE TypeOK'
    BY <1>8 DEF CloseNext
  <1>9. ASSUME NEW s \in Sessions, RevokeCall(t, s) PROVE TypeOK'
    BY <1>9 DEF RevokeCall
  <1>10. ASSUME NEW o \in Ops, RevokeCancel(t, o) PROVE TypeOK'
    BY <1>10 DEF RevokeCancel, cancel, CancelledState, terminal, OperationState, Refused, Committed
  <1> QED BY <1>1, <1>2, <1>3, <1>4, <1>5, <1>6, <1>7, <1>8, <1>9, <1>10 DEF CloseStep, RevokeStep

\* And every step of a call's task.
LEMMA TypeCall ==
  ASSUME TypeOK, NEW c \in Calls, PrepareStep(c) \/ DispatchStep(c) \/ EndStep(c)
  PROVE  TypeOK'
  <1> USE ConstantsAssumption DEF TypeOK, AuthTypes, LimitTypes, OpTypes, CallTypes,
         ThreadTypes, Op, Ses, authVars, limitVars, opVars, callVars, guardVars, threadVars,
         workVars, envVars
  <1>1. CASE Execute(c)
    BY <1>1 DEF Execute, Goto, CallPCs, Awaits
  <1>2. CASE Track(c)
    <2>1. CASE Known(c) \/ sessOps[Ses(c)] >= MaxSessionOps \/ hostOps >= MaxHostOps
      BY <1>2, <2>1 DEF Track, Goto, CallPCs, Awaits, OperationState, Undispatched
    <2>2. CASE ~(Known(c) \/ sessOps[Ses(c)] >= MaxSessionOps \/ hostOps >= MaxHostOps)
      <3>1. AuthTypes' BY <1>2, <2>2 DEF Track, Goto, CallPCs, Awaits, OperationState, Undispatched
      <3>2. LimitTypes' BY <1>2, <2>2 DEF Track, Goto, CallPCs, Awaits, OperationState, Undispatched
      <3>3. OpTypes' BY <1>2, <2>2 DEF Track, Goto, CallPCs, Awaits, OperationState, Undispatched
      <3>4. CallTypes' BY <1>2, <2>2 DEF Track, Goto, CallPCs, Awaits, OperationState, Undispatched
      <3>5. ThreadTypes' BY <1>2, <2>2 DEF Track, Goto, CallPCs, Awaits, OperationState, Undispatched
      <3> QED BY <3>1, <3>2, <3>3, <3>4, <3>5
    <2> QED BY <2>1, <2>2
  <1>3. CASE Open(c)
    BY <1>3 DEF Open, Goto, CallPCs, Awaits
  <1>4. CASE Validate(c)
    BY <1>4 DEF Validate, Goto, CallPCs, Awaits, Advance, terminal, OperationState, Undispatched, Committed, Refused
  <1>5. CASE ResolveName(c)
    BY <1>5 DEF ResolveName, Goto, CallPCs, Awaits
  <1>6. CASE Metadata(c)
    BY <1>6 DEF Metadata, Goto, CallPCs, Awaits
  <1>7. CASE Gate(c)
    <2>1. CASE Op(c) \notin NeedsApproval \/ pending[Ses(c)] >= MaxPending
      BY <1>7, <2>1 DEF Gate, Goto, CallPCs, Awaits, Advance, terminal, OperationState, Undispatched, Committed, Refused
    <2>2. CASE ~(Op(c) \notin NeedsApproval \/ pending[Ses(c)] >= MaxPending)
      BY <1>7, <2>2 DEF Gate, Goto, CallPCs, Awaits, Advance, terminal, OperationState, Undispatched, Committed, Refused
    <2> QED BY <2>1, <2>2
  <1>8. CASE Approved(c)
    BY <1>8 DEF Approved, Goto, CallPCs, Awaits, LeaveApproval
  <1>9. CASE Deny(c)
    BY <1>9 DEF Deny, Goto, CallPCs, Awaits, LeaveApproval
  <1>10. CASE Acquire(c)
    <2>1. CASE Check(Ses(c)) /\ PermitFree(c)
      <3>1. AuthTypes' BY <1>10, <2>1 DEF Acquire, Goto, CallPCs, Awaits
      <3>2. LimitTypes' BY <1>10, <2>1 DEF Acquire, Goto, CallPCs, Awaits
      <3>3. OpTypes' BY <1>10, <2>1 DEF Acquire, Goto, CallPCs, Awaits
      <3>4. CallTypes' BY <1>10, <2>1 DEF Acquire, Goto, CallPCs, Awaits
      <3>5. ThreadTypes' BY <1>10, <2>1 DEF Acquire, Goto, CallPCs, Awaits
      <3> QED BY <3>1, <3>2, <3>3, <3>4, <3>5
    <2>2. CASE ~(Check(Ses(c)) /\ PermitFree(c))
      BY <1>10, <2>2 DEF Acquire, Goto, CallPCs, Awaits
    <2> QED BY <2>1, <2>2
  <1>11. CASE Revalidate(c)
    BY <1>11 DEF Revalidate, Goto, CallPCs, Awaits
  <1>12. CASE Resolve(c)
    BY <1>12 DEF Resolve, Goto, CallPCs, Awaits
  <1>13. CASE Recheck(c)
    BY <1>13 DEF Recheck, Goto, CallPCs, Awaits
  <1>14. CASE MakeReady(c)
    BY <1>14 DEF MakeReady, Goto, CallPCs, Awaits, Advance, terminal, OperationState, Undispatched, Committed, Refused
  <1>15. CASE BeginDispatch(c)
    <2>1. CASE ~CommitAuthority(Ses(c)) \/ st[Op(c)] # "Ready" \/ opTok[Op(c)]
      BY <1>15, <2>1 DEF BeginDispatch, Goto, CallPCs, Awaits, OperationState, Committed
    <2>2. CASE ~(~CommitAuthority(Ses(c)) \/ st[Op(c)] # "Ready" \/ opTok[Op(c)])
      BY <1>15, <2>2 DEF BeginDispatch, Goto, CallPCs, Awaits, OperationState, Committed
    <2> QED BY <2>1, <2>2
  <1>16. CASE Withdraw(c)
    BY <1>16 DEF Withdraw, Goto, CallPCs, Awaits, cancel, CancelledState, OperationState, Refused, Committed
  <1>17. CASE Send(c)
    BY <1>17 DEF Send, Goto, CallPCs, Awaits
  <1>18. CASE Respond(c)
    BY <1>18 DEF Respond, Goto, CallPCs, Awaits, Advance, terminal, OperationState, Undispatched, Committed, Refused
  <1>19. CASE CompleteCheck(c)
    BY <1>19 DEF CompleteCheck, Goto, CallPCs, Awaits
  <1>20. CASE CompleteCommit(c)
    <2>1. OpTypes' BY <1>20 DEF CompleteCommit, Goto, CallPCs, Awaits, OperationState, Committed
    <2>2. CallTypes' BY <1>20 DEF CompleteCommit, Goto, CallPCs, Awaits, OperationState, Committed
    <2> QED BY <1>20, <2>1, <2>2 DEF CompleteCommit
  <1>21. CASE SelectCancelled(c)
    BY <1>21 DEF SelectCancelled, Goto, CallPCs, Awaits, LeaveApproval
  <1>22. CASE GiveUp(c)
    BY <1>22 DEF GiveUp, Goto, CallPCs, Awaits, LeaveApproval
  <1>23. CASE Abandon(c)
    BY <1>23 DEF Abandon, Goto, CallPCs, Awaits, LeaveApproval
  <1>24. CASE GuardDrop(c)
    BY <1>24 DEF GuardDrop, Goto, CallPCs, Awaits, cancel, CancelledState, OperationState, Refused, Committed
  <1>25. CASE Fail(c)
    BY <1>25 DEF Fail, Goto, CallPCs, Awaits, FailState, OperationState, Refused, Committed
  <1>26. CASE FailCancel(c)
    BY <1>26 DEF FailCancel, Goto, CallPCs, Awaits
  <1>27. CASE Release(c)
    BY <1>27 DEF Release, Goto, CallPCs, Awaits
  <1> QED BY <1>1, <1>2, <1>3, <1>4, <1>5, <1>6, <1>7, <1>8, <1>9, <1>10, <1>11, <1>12, <1>13, <1>14, <1>15, <1>16, <1>17, <1>18, <1>19, <1>20, <1>21, <1>22, <1>23, <1>24, <1>25, <1>26, <1>27
         DEF PrepareStep, DispatchStep, EndStep

\* Type correctness: whatever the interleaving, every handler writes values
\* of the right kind.
THEOREM TypeCorrect == Spec => []TypeOK
  <1>1. TypeOK /\ [Next]_vars => TypeOK'
    <2> SUFFICES ASSUME TypeOK, [Next]_vars PROVE TypeOK'
      OBVIOUS
    <2> USE DEF TypeOK, AuthTypes, LimitTypes, OpTypes, CallTypes, ThreadTypes, authVars, limitVars, opVars, callVars, guardVars, threadVars,
                workVars, envVars
    <2>1. CASE UNCHANGED vars
      BY <2>1 DEF vars
    <2>2. CASE CloseAdmission
      BY <2>2 DEF CloseAdmission
    <2>3. ASSUME NEW o \in Ops, CancelLookup(o) PROVE TypeOK'
      BY <2>3 DEF CancelLookup
    <2>4. ASSUME NEW o \in Ops, CancelOperation(o) PROVE TypeOK'
      BY <2>4 DEF CancelOperation, cancel, CancelledState, OperationState, Refused, Committed
    <2>5. CASE StorePut
      BY <2>5 DEF StorePut
    <2>6. CASE StoreLock
      BY <2>6 DEF StoreLock
    <2>7. CASE StoreUnlock
      BY <2>7 DEF StoreUnlock
    <2> QED
      BY <2>1, <2>2, <2>3, <2>4, <2>5, <2>6, <2>7, TypeSession, TypeOperator, TypeCall DEF Next
  <1> QED BY <1>1, TypeInit, PTL DEF Spec

-----------------------------------------------------------------------------
(* Ownership, agreement and handoff *)

Guarded == Ownership /\ Agreement /\ Handoff

\* Every step of a call's task keeps the call's guard, the shared state and
\* the count of handoffs in agreement.
LEMMA GuardedCall ==
  ASSUME TypeOK, Guarded, NEW c \in Calls,
         PrepareStep(c) \/ DispatchStep(c) \/ EndStep(c)
  PROVE  Guarded'
  <1> USE ConstantsAssumption
      DEF TypeOK, OpTypes, CallTypes, Guarded, Ownership, Agreement, Handoff, Owns,
          AtMostOnce, TruthfulStatus, GuardPCs, DispatchedPCs, CallPCs, Awaits, Op, Goto,
          OperationState, Undispatched, Committed, Refused, terminal,
          opVars, guardVars
  <1>1. CASE Execute(c)
    BY <1>1 DEF Execute
  <1>2. CASE Track(c)
    BY <1>2 DEF Track, Known
  <1>3. CASE Open(c)
    BY <1>3 DEF Open
  <1>4. CASE Validate(c)
    BY <1>4 DEF Validate, Advance
  <1>5. CASE ResolveName(c)
    BY <1>5 DEF ResolveName
  <1>6. CASE Metadata(c)
    BY <1>6 DEF Metadata
  <1>7. CASE Gate(c)
    BY <1>7 DEF Gate, Advance
  <1>8. CASE Approved(c)
    BY <1>8 DEF Approved
  <1>9. CASE Deny(c)
    BY <1>9 DEF Deny
  <1>10. CASE Acquire(c)
    BY <1>10 DEF Acquire
  <1>11. CASE Revalidate(c)
    BY <1>11 DEF Revalidate
  <1>12. CASE Resolve(c)
    BY <1>12 DEF Resolve
  <1>13. CASE Recheck(c)
    BY <1>13 DEF Recheck
  <1>14. CASE MakeReady(c)
    BY <1>14 DEF MakeReady, Advance
  <1>15. CASE BeginDispatch(c)
    BY <1>15 DEF BeginDispatch
  <1>16. CASE Withdraw(c)
    BY <1>16 DEF Withdraw, cancel, CancelledState
  <1>17. CASE Send(c)
    BY <1>17 DEF Send
  <1>18. CASE Respond(c)
    BY <1>18 DEF Respond, Advance
  <1>19. CASE CompleteCheck(c)
    BY <1>19 DEF CompleteCheck
  <1>20. CASE CompleteCommit(c)
    BY <1>20 DEF CompleteCommit
  <1>21. CASE SelectCancelled(c)
    BY <1>21 DEF SelectCancelled
  <1>22. CASE GiveUp(c)
    BY <1>22 DEF GiveUp, Fallible
  <1>23. CASE Abandon(c)
    BY <1>23 DEF Abandon
  <1>24. CASE GuardDrop(c)
    BY <1>24 DEF GuardDrop, cancel, CancelledState
  <1>25. CASE Fail(c)
    BY <1>25 DEF Fail, FailState
  <1>26. CASE FailCancel(c)
    BY <1>26 DEF FailCancel
  <1>27. CASE Release(c)
    BY <1>27 DEF Release
  <1> QED BY <1>1, <1>2, <1>3, <1>4, <1>5, <1>6, <1>7, <1>8, <1>9, <1>10, <1>11, <1>12, <1>13, <1>14, <1>15, <1>16, <1>17, <1>18, <1>19, <1>20, <1>21, <1>22, <1>23, <1>24, <1>25, <1>26, <1>27
         DEF PrepareStep, DispatchStep, EndStep

\* So does a step that touches neither a task nor a state.
LEMMA GuardedFrame ==
  ASSUME Guarded, UNCHANGED <<pc, dispatched, st, sent>>
  PROVE  Guarded'
  BY DEF Guarded, Ownership, Agreement, Handoff, Owns, AtMostOnce, TruthfulStatus

\* And a cancellation by another thread, which may find the operation at any
\* point of its dispatch.
LEMMA GuardedCancel ==
  ASSUME TypeOK, Guarded, NEW o \in Ops, cancel(o), UNCHANGED <<pc, dispatched, sent>>
  PROVE  Guarded'
  BY ConstantsAssumption
  DEF TypeOK, OpTypes, CallTypes, Guarded, Ownership, Agreement, Handoff, Owns,
      AtMostOnce, TruthfulStatus, Op, OperationState, Undispatched, Committed, Refused,
      terminal, cancel, CancelledState

\* Guarded is an invariant of the pipeline.
LEMMA GuardedAlways == Spec => []Guarded
  <1>1. Init => Guarded
    BY ConstantsAssumption
    DEF Init, Guarded, Ownership, Agreement, Handoff, Owns, AtMostOnce, TruthfulStatus,
        GuardPCs, DispatchedPCs, Op
  <1>2. TypeOK /\ Guarded /\ [Next]_vars => Guarded'
    <2> SUFFICES ASSUME TypeOK, Guarded, [Next]_vars PROVE Guarded'
      OBVIOUS
    <2> USE GuardedFrame
        DEF workVars, envVars, opVars, callVars, guardVars
    <2>1. CASE UNCHANGED vars
      BY <2>1 DEF vars
    <2>2. ASSUME NEW s \in Sessions, SessionStep(s) PROVE Guarded'
      BY <2>2 DEF SessionStep, CreateCheck, CreatePublish, Expire, SessionDrop
    <2>3. ASSUME CloseAdmission \/ StorePut \/ StoreLock \/ StoreUnlock PROVE Guarded'
      BY <2>3 DEF CloseAdmission, StorePut, StoreLock, StoreUnlock
    <2>4. ASSUME NEW t \in Operators, CloseStep(t) PROVE Guarded'
      BY <2>4 DEF CloseStep, CloseStart, CloseReturn, CloseNotify, CloseNext
    <2>5. ASSUME NEW t \in Operators, RevokeStep(t) PROVE Guarded'
      <3>1. ASSUME NEW o \in Ops, RevokeCancel(t, o) PROVE Guarded'
        BY <3>1, GuardedCancel DEF RevokeCancel
      <3> QED
        BY <2>5, <3>1 DEF RevokeStep, RevokeCall, RevokeFlip, RevokeNotify, RevokeLock,
                          RevokeReturn
    <2>6. ASSUME NEW o \in Ops, CancelLookup(o) PROVE Guarded'
      BY <2>6 DEF CancelLookup
    <2>7. ASSUME NEW o \in Ops, CancelOperation(o) PROVE Guarded'
      BY <2>7, GuardedCancel DEF CancelOperation
    <2> QED
      BY <2>1, <2>2, <2>3, <2>4, <2>5, <2>6, <2>7, GuardedCall DEF Next
  <1> QED BY <1>1, <1>2, TypeCorrect, PTL DEF Spec

\* AtMostOnce for any number of calls that carry the same request_id.
THEOREM HandedOverOnce == Spec => []AtMostOnce
  <1>1. Guarded => AtMostOnce
    BY DEF Guarded, Handoff
  <1> QED BY <1>1, GuardedAlways, PTL

\* TruthfulStatus for any number of sessions, calls and cancelling threads.
THEOREM StatusTruthful == Spec => []TruthfulStatus
  <1>1. Guarded => TruthfulStatus
    BY DEF Guarded, Handoff
  <1> QED BY <1>1, GuardedAlways, PTL
-----------------------------------------------------------------------------
(* What one step may do to the state of an operation *)

\* Only forward, and to Dispatching or Completed only under authority.
LegalChange(o) ==
    \/ st'[o] = st[o]
    \/ st[o] = "None" /\ st'[o] = "Received"
    \/ st[o] \in Undispatched /\ st'[o] \in Undispatched \cup Refused
    \/ st[o] = "Ready" /\ st'[o] = "Dispatching" /\ Check(Owner[o])
    \/ st[o] = "Dispatching" /\ st'[o] = "OutcomeUnknown"
    \/ /\ st[o] = "Dispatching" /\ st'[o] = "Completed"
       /\ Check(Owner[o]) /\ sent[o] = 1

\* A call changes at most its own operation, and hands it over or changes its
\* state, never both.
CallEffect(c) ==
    /\ UNCHANGED <<authVars, threadVars, cancelling>>
    /\ \A d \in Calls : pc'[d] # "idle" => pc[d] # "idle" \/ sess[Ses(d)] = "live"
    /\ \A o \in Ops \ {Op(c)} : st'[o] = st[o] /\ sent'[o] = sent[o]
    /\ st'[Op(c)] # st[Op(c)] => pc[c] # "idle"
    /\ \/ LegalChange(Op(c)) /\ sent'[Op(c)] = sent[Op(c)]
       \/ /\ st[Op(c)] \in {"Dispatching", "OutcomeUnknown"}
          /\ st'[Op(c)] = st[Op(c)] /\ sent[Op(c)] = 0 /\ sent'[Op(c)] = 1

\* Every step of a call's task has an effect of that kind.
LEMMA CallEffects ==
  ASSUME TypeOK, Guarded, NEW c \in Calls,
         PrepareStep(c) \/ DispatchStep(c) \/ EndStep(c)
  PROVE  CallEffect(c)
  <1> USE ConstantsAssumption
      DEF TypeOK, OpTypes, CallTypes, Guarded, Ownership, Agreement, Handoff, Owns,
          GuardPCs, DispatchedPCs, CallPCs, Awaits, Op, Ses, Goto,
          OperationState, Undispatched, Committed, Refused, terminal,
          opVars, guardVars, envVars, CallEffect, LegalChange
  <1>1. CASE Execute(c)
    BY <1>1 DEF Execute
  <1>2. CASE Track(c)
    BY <1>2 DEF Track, Known
  <1>3. CASE Open(c)
    BY <1>3 DEF Open
  <1>4. CASE Validate(c)
    BY <1>4 DEF Validate, Advance
  <1>5. CASE ResolveName(c)
    BY <1>5 DEF ResolveName
  <1>6. CASE Metadata(c)
    BY <1>6 DEF Metadata
  <1>7. CASE Gate(c)
    BY <1>7 DEF Gate, Advance
  <1>8. CASE Approved(c)
    BY <1>8 DEF Approved
  <1>9. CASE Deny(c)
    BY <1>9 DEF Deny
  <1>10. CASE Acquire(c)
    BY <1>10 DEF Acquire
  <1>11. CASE Revalidate(c)
    BY <1>11 DEF Revalidate
  <1>12. CASE Resolve(c)
    BY <1>12 DEF Resolve
  <1>13. CASE Recheck(c)
    BY <1>13 DEF Recheck
  <1>14. CASE MakeReady(c)
    BY <1>14 DEF MakeReady, Advance
  <1>15. CASE BeginDispatch(c)
    BY <1>15 DEF BeginDispatch, CommitAuthority
  <1>16. CASE Withdraw(c)
    BY <1>16 DEF Withdraw, cancel, CancelledState
  <1>17. CASE Send(c)
    BY <1>17 DEF Send
  <1>18. CASE Respond(c)
    BY <1>18 DEF Respond, Advance
  <1>19. CASE CompleteCheck(c)
    BY <1>19 DEF CompleteCheck
  <1>20. CASE CompleteCommit(c)
    BY <1>20 DEF CompleteCommit, CommitAuthority
  <1>21. CASE SelectCancelled(c)
    BY <1>21 DEF SelectCancelled
  <1>22. CASE GiveUp(c)
    BY <1>22 DEF GiveUp, Fallible
  <1>23. CASE Abandon(c)
    BY <1>23 DEF Abandon
  <1>24. CASE GuardDrop(c)
    BY <1>24 DEF GuardDrop, cancel, CancelledState
  <1>25. CASE Fail(c)
    BY <1>25 DEF Fail, FailState
  <1>26. CASE FailCancel(c)
    BY <1>26 DEF FailCancel
  <1>27. CASE Release(c)
    BY <1>27 DEF Release
  <1> QED BY <1>1, <1>2, <1>3, <1>4, <1>5, <1>6, <1>7, <1>8, <1>9, <1>10, <1>11, <1>12, <1>13, <1>14, <1>15, <1>16, <1>17, <1>18, <1>19, <1>20, <1>21, <1>22, <1>23, <1>24, <1>25, <1>26, <1>27
         DEF PrepareStep, DispatchStep, EndStep

\* References stay valid: nothing is cancelled or revoked before it exists.
LEMMA TrackedAlways == Spec => []Tracked
  <1>1. Init => Tracked
    BY ConstantsAssumption DEF Init, Tracked
  <1>2. TypeOK /\ Guarded /\ Tracked /\ [Next]_vars => Tracked'
    <2> SUFFICES ASSUME TypeOK, Guarded, Tracked, [Next]_vars PROVE Tracked'
      OBVIOUS
    <2> USE ConstantsAssumption
        DEF TypeOK, AuthTypes, OpTypes, CallTypes, ThreadTypes, Tracked, Op, Ses,
            workVars, envVars, authVars, threadVars, limitVars, opVars, callVars, guardVars
    <2>1. CASE UNCHANGED vars
      BY <2>1 DEF vars
    <2>2. ASSUME NEW s \in Sessions, SessionStep(s) PROVE Tracked'
      <3>1. CASE CreateCheck(s) BY <3>1 DEF CreateCheck
      <3>2. CASE CreatePublish(s) BY <3>2 DEF CreatePublish
      <3>3. CASE Expire(s) BY <3>3 DEF Expire
      <3>4. CASE SessionDrop(s) BY <3>4 DEF SessionDrop
      <3> QED BY <2>2, <3>1, <3>2, <3>3, <3>4 DEF SessionStep
    <2>3. ASSUME CloseAdmission \/ StorePut \/ StoreLock \/ StoreUnlock PROVE Tracked'
      BY <2>3 DEF CloseAdmission, StorePut, StoreLock, StoreUnlock
    <2>4. ASSUME NEW t \in Operators, CloseStep(t) PROVE Tracked'
      <3>1. CASE CloseStart(t) BY <3>1 DEF CloseStart, LiveSessions
      <3>2. CASE CloseReturn(t) BY <3>2 DEF CloseReturn
      <3>3. ASSUME NEW s \in Sessions, CloseNotify(t, s) PROVE Tracked'
        BY <3>3 DEF CloseNotify
      <3>4. ASSUME NEW s \in Sessions, CloseNext(t, s) PROVE Tracked'
        BY <3>4 DEF CloseNext
      <3> QED BY <2>4, <3>1, <3>2, <3>3, <3>4 DEF CloseStep
    <2>5. ASSUME NEW t \in Operators, RevokeStep(t) PROVE Tracked'
      <3>1. ASSUME NEW s \in Sessions, RevokeCall(t, s) PROVE Tracked'
        BY <3>1 DEF RevokeCall
      <3>2. CASE RevokeFlip(t) BY <3>2 DEF RevokeFlip
      <3>3. CASE RevokeNotify(t) BY <3>3 DEF RevokeNotify
      <3>4. CASE RevokeLock(t) BY <3>4 DEF RevokeLock
      <3>5. ASSUME NEW o \in Ops, RevokeCancel(t, o) PROVE Tracked'
        BY <3>5 DEF RevokeCancel, cancel, CancelledState
      <3>6. CASE RevokeReturn(t) BY <3>6 DEF RevokeReturn
      <3> QED BY <2>5, <3>1, <3>2, <3>3, <3>4, <3>5, <3>6 DEF RevokeStep
    <2>6. ASSUME NEW o \in Ops, CancelLookup(o) PROVE Tracked'
      BY <2>6 DEF CancelLookup
    <2>7. ASSUME NEW o \in Ops, CancelOperation(o) PROVE Tracked'
      BY <2>7 DEF CancelOperation, cancel, CancelledState
    <2>8. ASSUME NEW c \in Calls, PrepareStep(c) \/ DispatchStep(c) \/ EndStep(c)
          PROVE  Tracked'
      <3>1. CallEffect(c) BY <2>8, CallEffects
      <3>2. TypeOK' BY <2>8, TypeCall
      <3> QED BY <3>1, <3>2 DEF CallEffect, LegalChange, Undispatched, Refused
    <2> QED
      BY <2>1, <2>2, <2>3, <2>4, <2>5, <2>6, <2>7, <2>8 DEF Next
  <1> QED BY <1>1, <1>2, TypeCorrect, GuardedAlways, PTL DEF Spec

\* Every step of the whole system changes the states of operations legally.
LEMMA StateSteps ==
  ASSUME TypeOK, Guarded, Tracked, [Next]_vars, NEW o \in Ops
  PROVE  LegalChange(o)
  <1> USE DEF LegalChange, workVars, envVars, opVars
  <1>1. CASE st' = st
    BY <1>1
  <1>2. ASSUME NEW p \in Ops, cancel(p), st[p] # "None" PROVE LegalChange(o)
    BY <1>2 DEF TypeOK, OpTypes, cancel, CancelledState, terminal, OperationState,
                Undispatched, Committed, Refused
  <1>3. ASSUME NEW c \in Calls, PrepareStep(c) \/ DispatchStep(c) \/ EndStep(c)
        PROVE  LegalChange(o)
    BY <1>3, CallEffects, ConstantsAssumption DEF CallEffect, Op
  <1>4. CASE UNCHANGED vars
    BY <1>4, <1>1 DEF vars
  <1>5. ASSUME NEW s \in Sessions, SessionStep(s) PROVE st' = st
    BY <1>5 DEF SessionStep, CreateCheck, CreatePublish, Expire, SessionDrop
  <1>6. ASSUME CloseAdmission \/ StorePut \/ StoreLock \/ StoreUnlock PROVE st' = st
    BY <1>6 DEF CloseAdmission, StorePut, StoreLock, StoreUnlock
  <1>7. ASSUME NEW t \in Operators, CloseStep(t) PROVE st' = st
    BY <1>7 DEF CloseStep, CloseStart, CloseReturn, CloseNotify, CloseNext
  <1>8. ASSUME NEW t \in Operators, RevokeStep(t) PROVE LegalChange(o)
    <2>1. ASSUME NEW p \in Ops, RevokeCancel(t, p) PROVE LegalChange(o)
      BY <2>1, <1>2 DEF RevokeCancel, Tracked
    <2> QED
      BY <1>8, <2>1, <1>1 DEF RevokeStep, RevokeCall, RevokeFlip, RevokeNotify,
                              RevokeLock, RevokeReturn
  <1>9. ASSUME NEW p \in Ops, CancelLookup(p) \/ CancelOperation(p) PROVE LegalChange(o)
    BY <1>9, <1>1, <1>2 DEF CancelLookup, CancelOperation, Tracked
  <1> QED
    BY <1>1, <1>3, <1>4, <1>5, <1>6, <1>7, <1>8, <1>9 DEF Next

\* TerminalStable: no thread, task or destructor ever leaves a terminal state.
THEOREM TerminalStaysTerminal == Spec => TerminalStable
  <1>1. ASSUME TypeOK, Guarded, Tracked, [Next]_vars
        PROVE  [\A o \in Ops : terminal(st[o]) => st'[o] = st[o]]_vars
    BY <1>1, StateSteps DEF LegalChange, terminal, Undispatched, Refused
  <1> QED BY <1>1, TypeCorrect, GuardedAlways, TrackedAlways, PTL DEF Spec, TerminalStable

\* EffectsUnderAuthority: no dispatch and no completion is committed once the
\* session has lost its authority, however stale the earlier checks were.
THEOREM EffectsAuthorised == Spec => EffectsUnderAuthority
  <1>1. ASSUME TypeOK, Guarded, Tracked, [Next]_vars
        PROVE  [\A o \in Ops :
                  st'[o] # st[o] /\ st'[o] \in {"Dispatching", "Completed"}
                     => Check(Owner[o])]_vars
    BY <1>1, StateSteps DEF LegalChange, Undispatched, Refused
  <1> QED BY <1>1, TypeCorrect, GuardedAlways, TrackedAlways, PTL
          DEF Spec, EffectsUnderAuthority
-----------------------------------------------------------------------------
(* Revocation and closing *)

Settling == Walk /\ Settled

\* A step that leaves sessions and operator threads alone cannot start a
\* dispatch behind a walk: the session is revoked before the walk begins.
LEMMA SettlingFrame ==
  ASSUME TypeOK, Settling, UNCHANGED <<authVars, threadVars>>,
         \A o \in Ops : LegalChange(o)
  PROVE  Settling'
  BY ConstantsAssumption
  DEF TypeOK, ThreadTypes, Settling, Walk, Settled, RevokeSettles, LegalChange, Check,
      Undispatched, Refused, authVars, threadVars

\* The walk of revoke and its order of retiring, notifying and cancelling.
LEMMA SettlingAlways == Spec => []Settling
  <1>1. Init => Settling
    BY ConstantsAssumption DEF Init, Settling, Walk, Settled, RevokeSettles
  <1>2. TypeOK /\ Guarded /\ Tracked /\ Settling /\ [Next]_vars => Settling'
    <2> SUFFICES ASSUME TypeOK, Guarded, Tracked, Settling, [Next]_vars PROVE Settling'
      OBVIOUS
    <2>0. \A o \in Ops : LegalChange(o) BY StateSteps
    <2> USE ConstantsAssumption
        DEF TypeOK, AuthTypes, OpTypes, ThreadTypes, Settling, Walk, Settled,
            RevokeSettles, workVars, envVars, authVars, threadVars, opVars
    <2>1. CASE UNCHANGED vars
      BY <2>1 DEF vars
    <2>2. ASSUME NEW s \in Sessions, SessionStep(s) PROVE Settling'
      BY <2>2 DEF SessionStep, CreateCheck, CreatePublish, Expire, SessionDrop
    <2>3. ASSUME CloseAdmission \/ StorePut \/ StoreLock \/ StoreUnlock PROVE Settling'
      BY <2>3 DEF CloseAdmission, StorePut, StoreLock, StoreUnlock
    <2>4. ASSUME NEW t \in Operators, CloseStep(t) PROVE Settling'
      <3>1. CASE CloseStart(t) BY <3>1 DEF CloseStart
      <3>2. CASE CloseReturn(t) BY <3>2 DEF CloseReturn
      <3>3. ASSUME NEW s \in Sessions, CloseNotify(t, s) PROVE Settling'
        BY <3>3 DEF CloseNotify
      <3>4. ASSUME NEW s \in Sessions, CloseNext(t, s) PROVE Settling'
        BY <3>4 DEF CloseNext
      <3> QED BY <2>4, <3>1, <3>2, <3>3, <3>4 DEF CloseStep
    <2>5. ASSUME NEW t \in Operators, RevokeStep(t) PROVE Settling'
      <3>1. ASSUME NEW s \in Sessions, RevokeCall(t, s) PROVE Settling'
        BY <3>1 DEF RevokeCall
      <3>2. CASE RevokeFlip(t) BY <3>2 DEF RevokeFlip
      <3>3. CASE RevokeNotify(t) BY <3>3 DEF RevokeNotify
      <3>4. CASE RevokeLock(t) BY <3>4 DEF RevokeLock
      <3>5. ASSUME NEW o \in Ops, RevokeCancel(t, o) PROVE Settling'
        BY <3>5, <2>0
        DEF RevokeCancel, cancel, CancelledState, terminal, Refused, LegalChange, Check,
            Undispatched
      <3>6. CASE RevokeReturn(t) BY <3>6 DEF RevokeReturn
      <3> QED BY <2>5, <3>1, <3>2, <3>3, <3>4, <3>5, <3>6 DEF RevokeStep
    <2>6. ASSUME NEW o \in Ops, CancelLookup(o) \/ CancelOperation(o) PROVE Settling'
      BY <2>6, <2>0, SettlingFrame DEF CancelLookup, CancelOperation
    <2>7. ASSUME NEW c \in Calls, PrepareStep(c) \/ DispatchStep(c) \/ EndStep(c)
          PROVE  Settling'
      BY <2>7, <2>0, SettlingFrame, CallEffects DEF CallEffect
    <2> QED
      BY <2>1, <2>2, <2>3, <2>4, <2>5, <2>6, <2>7 DEF Next
  <1> QED BY <1>1, <1>2, TypeCorrect, GuardedAlways, TrackedAlways, PTL DEF Spec

\* RevokeSettles, for any number of revoking threads and racing dispatches.
THEOREM RevocationSettles == Spec => []RevokeSettles
  <1>1. Settling => RevokeSettles
    BY DEF Settling, Settled
  <1> QED BY <1>1, SettlingAlways, PTL

\* A closing thread loses no session of its snapshot, and nobody publishes a
\* session behind it.
LEMMA ClosingAlways == Spec => []Closing
  <1>1. Init => Closing
    BY ConstantsAssumption DEF Init, Closing
  <1>2. TypeOK /\ Guarded /\ Settling /\ Closing /\ [Next]_vars => Closing'
    <2> SUFFICES ASSUME TypeOK, Guarded, Settling, Closing, [Next]_vars PROVE Closing'
      OBVIOUS
    <2> USE ConstantsAssumption
        DEF TypeOK, AuthTypes, ThreadTypes, Closing, Settling, Walk,
            workVars, envVars, authVars, threadVars, opVars
    <2>1. CASE UNCHANGED vars
      BY <2>1 DEF vars
    <2>2. ASSUME NEW s \in Sessions, SessionStep(s) PROVE Closing'
      BY <2>2 DEF SessionStep, CreateCheck, CreatePublish, MayPublish, Expire, SessionDrop
    <2>3. ASSUME CloseAdmission \/ StorePut \/ StoreLock \/ StoreUnlock PROVE Closing'
      BY <2>3 DEF CloseAdmission, StorePut, StoreLock, StoreUnlock
    <2>4. ASSUME NEW t \in Operators, CloseStep(t) PROVE Closing'
      <3>1. CASE CloseStart(t) BY <3>1 DEF CloseStart, LiveSessions
      <3>2. CASE CloseReturn(t) BY <3>2 DEF CloseReturn
      <3>3. ASSUME NEW s \in Sessions, CloseNotify(t, s) PROVE Closing'
        BY <3>3 DEF CloseNotify
      <3>4. ASSUME NEW s \in Sessions, CloseNext(t, s) PROVE Closing'
        BY <3>4 DEF CloseNext
      <3> QED BY <2>4, <3>1, <3>2, <3>3, <3>4 DEF CloseStep
    <2>5. ASSUME NEW t \in Operators, RevokeStep(t) PROVE Closing'
      <3>1. ASSUME NEW s \in Sessions, RevokeCall(t, s) PROVE Closing'
        BY <3>1 DEF RevokeCall
      <3>2. CASE RevokeFlip(t) BY <3>2 DEF RevokeFlip
      <3>3. CASE RevokeNotify(t) BY <3>3 DEF RevokeNotify
      <3>4. CASE RevokeLock(t) BY <3>4 DEF RevokeLock
      <3>5. ASSUME NEW o \in Ops, RevokeCancel(t, o) PROVE Closing'
        BY <3>5 DEF RevokeCancel
      <3>6. CASE RevokeReturn(t) BY <3>6 DEF RevokeReturn
      <3> QED BY <2>5, <3>1, <3>2, <3>3, <3>4, <3>5, <3>6 DEF RevokeStep
    <2>6. ASSUME NEW o \in Ops, CancelLookup(o) \/ CancelOperation(o) PROVE Closing'
      BY <2>6 DEF CancelLookup, CancelOperation
    <2>7. ASSUME NEW c \in Calls, PrepareStep(c) \/ DispatchStep(c) \/ EndStep(c)
          PROVE  Closing'
      BY <2>7, CallEffects DEF CallEffect
    <2> QED
      BY <2>1, <2>2, <2>3, <2>4, <2>5, <2>6, <2>7 DEF Next
  <1> QED BY <1>1, <1>2, TypeCorrect, GuardedAlways, SettlingAlways, PTL DEF Spec

\* CloseReachesAll, for any number of sessions and of concurrent creators.
THEOREM CloseIsComplete == Spec => []CloseReachesAll
  <1>1. Settling /\ Closing => CloseReachesAll
    BY DEF Settling, Settled, Closing, CloseReachesAll
  <1> QED BY <1>1, SettlingAlways, ClosingAlways, PTL
-----------------------------------------------------------------------------
(* Approval and credential *)

\* Between the approval and the check of the lease, and from the check on.
GrantedPCs == {"acquire", "revalidate"}
VerifiedPCs == {"resolve", "recheck", "ready", "begin"}

\* A lease is current at most once, so one that a human approved later than it
\* was read is either still the same or never current again.
Approval ==
    /\ store.lease > 0
    /\ \A c \in Calls :
         /\ lease[c] <= store.lease
         /\ ~store.open => lease[c] < store.lease
    /\ \A c \in Calls : Op(c) \in NeedsApproval =>
         /\ pc[c] \in GrantedPCs =>
               \/ granted[c] = 0 /\ lease[c] < store.lease
               \/ lease[c] <= granted[c] /\ granted[c] <= store.lease
         /\ pc[c] \in VerifiedPCs \/ dispatched[c] => granted[c] = lease[c]

\* Only three steps of a call touch what Approval speaks of: the others leave
\* leases alone and do not bring a call past the check.
LEMMA ApprovalCall ==
  ASSUME TypeOK, Guarded, Approval, NEW c \in Calls,
         PrepareStep(c) \/ DispatchStep(c) \/ EndStep(c)
  PROVE  Approval'
  <1> USE ConstantsAssumption
      DEF TypeOK, AuthTypes, OpTypes, CallTypes, Guarded, Agreement, Approval, GrantedPCs,
          VerifiedPCs, DispatchedPCs, CallPCs, Awaits, Op, Goto, envVars, opVars, guardVars
  <1>1. CASE Execute(c) \/ Track(c) \/ Open(c) \/ Validate(c) \/ ResolveName(c)
    BY <1>1 DEF Execute, Track, Open, Validate, ResolveName, Advance
  <1>2. CASE Metadata(c)
    BY <1>2 DEF Metadata
  <1>3. CASE Gate(c)
    BY <1>3 DEF Gate, Advance
  <1>4. CASE Approved(c)
    BY <1>4 DEF Approved
  <1>5. CASE Deny(c) \/ Acquire(c)
    BY <1>5 DEF Deny, Acquire
  <1>6. CASE Revalidate(c)
    BY <1>6 DEF Revalidate, LeaseCurrent
  <1>7. CASE Resolve(c) \/ Recheck(c) \/ MakeReady(c)
    BY <1>7 DEF Resolve, Recheck, MakeReady, Advance
  <1>8. CASE BeginDispatch(c)
    BY <1>8 DEF BeginDispatch
  <1>9. CASE Withdraw(c) \/ Send(c) \/ Respond(c) \/ CompleteCheck(c) \/ CompleteCommit(c)
    BY <1>9 DEF Withdraw, Send, Respond, CompleteCheck, CompleteCommit, Advance
  <1>10. CASE SelectCancelled(c) \/ GiveUp(c) \/ Abandon(c) \/ GuardDrop(c)
    BY <1>10 DEF SelectCancelled, GiveUp, Abandon, GuardDrop
  <1>11. CASE Fail(c) \/ FailCancel(c) \/ Release(c)
    BY <1>11 DEF Fail, FailCancel, Release
  <1> QED BY <1>1, <1>2, <1>3, <1>4, <1>5, <1>6, <1>7, <1>8, <1>9, <1>10, <1>11
          DEF PrepareStep, DispatchStep, EndStep

\* The rest of the system changes calls and leases only by making the current
\* lease a new one.
LEMMA ApprovalAlways == Spec => []Approval
  <1>1. Init => Approval
    BY ConstantsAssumption DEF Init, Approval, GrantedPCs, VerifiedPCs
  <1>2. TypeOK /\ Guarded /\ Approval /\ [Next]_vars => Approval'
    <2> SUFFICES ASSUME TypeOK, Guarded, Approval, [Next]_vars PROVE Approval'
      OBVIOUS
    <2>0. ASSUME UNCHANGED <<store, callVars>> PROVE Approval'
      BY <2>0 DEF Approval, callVars, guardVars
    <2>1. CASE UNCHANGED vars
      BY <2>1, <2>0 DEF vars
    <2>2. ASSUME NEW s \in Sessions, SessionStep(s) PROVE Approval'
      BY <2>2, <2>0 DEF SessionStep, CreateCheck, CreatePublish, Expire, SessionDrop, workVars
    <2>3. CASE CloseAdmission
      BY <2>3, <2>0 DEF CloseAdmission, workVars
    <2>4. ASSUME NEW t \in Operators, CloseStep(t) PROVE Approval'
      BY <2>4, <2>0 DEF CloseStep, CloseStart, CloseReturn, CloseNotify, CloseNext, workVars
    <2>5. ASSUME NEW t \in Operators, RevokeStep(t) PROVE Approval'
      BY <2>5, <2>0 DEF RevokeStep, RevokeCall, RevokeFlip, RevokeNotify, RevokeLock,
                        RevokeReturn, RevokeCancel, workVars
    <2>6. ASSUME NEW o \in Ops, CancelLookup(o) \/ CancelOperation(o) PROVE Approval'
      BY <2>6, <2>0 DEF CancelLookup, CancelOperation, envVars
    <2>7. CASE StorePut \/ StoreLock \/ StoreUnlock
      <3> USE <2>7 DEF StorePut, StoreLock, StoreUnlock, callVars, guardVars
      <3>1. /\ store'.lease = store.lease + 1 /\ store.lease \in Nat
            /\ UNCHANGED <<pc, dispatched, lease, granted>>
        BY DEF TypeOK, AuthTypes
      <3>2. lease \in [Calls -> Nat] /\ granted \in [Calls -> Nat]
        BY DEF TypeOK, CallTypes
      <3> QED BY <3>1, <3>2 DEF Approval
    <2> QED
      BY <2>1, <2>2, <2>3, <2>4, <2>5, <2>6, <2>7, ApprovalCall DEF Next
  <1> QED BY <1>1, <1>2, TypeCorrect, GuardedAlways, PTL DEF Spec

\* CredentialAsApproved: whatever happens to the credential store between the
\* metadata, the approval and the dispatch, what leaves is what was approved.
THEOREM ApprovedCredentialSent == Spec => []CredentialAsApproved
  <1>1. Approval => CredentialAsApproved
    BY DEF Approval, CredentialAsApproved
  <1> QED BY <1>1, ApprovalAlways, PTL
-----------------------------------------------------------------------------
(* Permits and tracked bytes *)

HeldBy(s)    == {c \in Calls : held[c] /\ Ses(c) = s}
AskedBy(s)   == {c \in Calls : pc[c] = "approving" /\ Ses(c) = s}
TrackedBy(s) == {o \in Ops : Owner[o] = s /\ st[o] # "None"}
Referenced   == {o \in Ops : st[o] # "None" /\ sess[Owner[o]] = "live"}

\* Where a guard may own an active permit.
PermitPCs == VerifiedPCs \cup DispatchedPCs
               \cup {"revalidate", "withdraw", "drop", "fail", "failed", "over"}

\* PermitsConserved, with names for what it counts.
Exact ==
    /\ \A s \in Sessions :
         /\ active[s] = Cardinality(HeldBy(s)) /\ active[s] <= MaxActive
         /\ pending[s] = Cardinality(AskedBy(s)) /\ pending[s] <= MaxPending
         /\ sessOps[s] <= MaxSessionOps
    /\ hostOps = Cardinality(Referenced) /\ hostOps <= MaxHostOps

\* By itself that is not inductive: a permit is taken by a call that has none,
\* a running call keeps its session referenced, and a session's own count is
\* that of its operations, which is what its destructor gives back.
Budget ==
    /\ Exact
    /\ \A c \in Calls : /\ held[c] => pc[c] \in PermitPCs
                        /\ pc[c] \notin {"idle", "done"} => sess[Ses(c)] = "live"
    /\ \A s \in Sessions : sessOps[s] = Cardinality(TrackedBy(s))

\* What one call's step may do to the permits: take or give back one of its
\* own, or track its operation.
TakesActive(c) ==
    /\ ~held[c] /\ active[Ses(c)] < MaxActive
    /\ held' = [held EXCEPT ![c] = TRUE]
    /\ active' = [active EXCEPT ![Ses(c)] = @ + 1]

ReturnsActive(c) ==
    /\ held[c]
    /\ held' = [held EXCEPT ![c] = FALSE]
    /\ active' = [active EXCEPT ![Ses(c)] = @ - 1]

EntersApproval(c) ==
    /\ pc[c] # "approving" /\ pc'[c] = "approving" /\ pending[Ses(c)] < MaxPending
    /\ pending' = [pending EXCEPT ![Ses(c)] = @ + 1]

LeavesApproval(c) ==
    /\ pc[c] = "approving" /\ pc'[c] # "approving"
    /\ pending' = [pending EXCEPT ![Ses(c)] = @ - 1]

Tracks(c) ==
    /\ st[Op(c)] = "None" /\ st'[Op(c)] # "None" /\ pc[c] = "track"
    /\ sessOps[Ses(c)] < MaxSessionOps /\ hostOps < MaxHostOps
    /\ sessOps' = [sessOps EXCEPT ![Ses(c)] = @ + 1]
    /\ hostOps' = hostOps + 1

PermitEffect(c) ==
    /\ UNCHANGED <<active, held>> \/ TakesActive(c) \/ ReturnsActive(c)
    /\ \/ pending' = pending /\ (pc'[c] = "approving" <=> pc[c] = "approving")
       \/ EntersApproval(c) \/ LeavesApproval(c)
    /\ \/ /\ UNCHANGED <<sessOps, hostOps>>
          /\ st'[Op(c)] = "None" <=> st[Op(c)] = "None"
       \/ Tracks(c)
    /\ \A d \in Calls \ {c} : pc'[d] = pc[d]
    /\ \A o \in Ops \ {Op(c)} : st'[o] = st[o]
    /\ held'[c] => pc'[c] \in PermitPCs
    /\ pc'[c] \notin {"idle", "done"} => sess[Ses(c)] = "live"
    /\ sess' = sess

\* Every step of a call's task does no more than that.
LEMMA PermitEffects ==
  ASSUME TypeOK, Guarded, Budget, NEW c \in Calls,
         PrepareStep(c) \/ DispatchStep(c) \/ EndStep(c)
  PROVE  PermitEffect(c)
  <1>0. /\ held[c] => pc[c] \in PermitPCs
        /\ pc[c] \notin {"idle", "done"} => sess[Ses(c)] = "live"
        /\ pc[c] \in GuardPCs => st[Op(c)] # "None"
        /\ Op(c) \in Ops /\ Ses(c) \in Sessions
    BY ConstantsAssumption DEF Budget, Guarded, Ownership, Owns, Op, Ses
  <1>00. /\ pc \in [Calls -> CallPCs] /\ held \in [Calls -> BOOLEAN]
         /\ st \in [Ops -> OperationState \cup {"None"}]
         /\ sessOps \in [Sessions -> Int] /\ hostOps \in Int
         /\ active \in [Sessions -> Int] /\ pending \in [Sessions -> Int]
         /\ MaxActive \in Nat /\ MaxPending \in Nat /\ MaxSessionOps \in Nat
         /\ MaxHostOps \in Nat
    BY ConstantsAssumption DEF TypeOK, LimitTypes, OpTypes, CallTypes
  <1> USE <1>0, <1>00
      DEF PermitEffect, TakesActive, ReturnsActive, EntersApproval, LeavesApproval, Tracks,
          PermitPCs, VerifiedPCs, GuardPCs, DispatchedPCs, CallPCs, Awaits, Goto,
          OperationState, Undispatched, Committed, Refused, terminal,
          limitVars, opVars, guardVars, envVars, authVars
  <1>1. CASE Execute(c)
    BY <1>1 DEF Execute
  <1>2. CASE Track(c)
    BY <1>2 DEF Track, Known
  <1>3. CASE Open(c) \/ ResolveName(c)
    BY <1>3 DEF Open, ResolveName
  <1>4. CASE Validate(c)
    BY <1>4 DEF Validate, Advance
  <1>5. CASE Metadata(c)
    BY <1>5 DEF Metadata
  <1>6. CASE Gate(c)
    BY <1>6 DEF Gate, Advance
  <1>7. CASE Approved(c)
    BY <1>7 DEF Approved, LeaveApproval
  <1>8. CASE Deny(c)
    BY <1>8 DEF Deny, LeaveApproval
  <1>9. CASE Acquire(c)
    BY <1>9 DEF Acquire, PermitFree
  <1>10. CASE Revalidate(c) \/ Resolve(c) \/ Recheck(c)
    BY <1>10 DEF Revalidate, Resolve, Recheck
  <1>11. CASE MakeReady(c)
    BY <1>11 DEF MakeReady, Advance
  <1>12. CASE BeginDispatch(c)
    BY <1>12 DEF BeginDispatch
  <1>13. CASE Withdraw(c)
    BY <1>13 DEF Withdraw, cancel, CancelledState
  <1>14. CASE Send(c) \/ CompleteCheck(c)
    BY <1>14 DEF Send, CompleteCheck
  <1>15. CASE Respond(c)
    BY <1>15 DEF Respond, Advance
  <1>16. CASE CompleteCommit(c)
    BY <1>16 DEF CompleteCommit
  <1>17. CASE SelectCancelled(c)
    BY <1>17 DEF SelectCancelled, LeaveApproval
  <1>18. CASE GiveUp(c)
    BY <1>18 DEF GiveUp, LeaveApproval, Fallible
  <1>19. CASE Abandon(c)
    BY <1>19 DEF Abandon, LeaveApproval
  <1>20. CASE GuardDrop(c)
    BY <1>20 DEF GuardDrop, cancel, CancelledState
  <1>21. CASE Fail(c)
    BY <1>21 DEF Fail, FailState
  <1>22. CASE FailCancel(c)
    BY <1>22 DEF FailCancel
  <1>23. CASE Release(c)
    <2>1. CASE held[c]
      BY <1>23, <2>1 DEF Release
    <2>2. CASE ~held[c]
      <3>1. UNCHANGED <<active, held>>
        BY <1>23, <2>2 DEF Release
      <3> QED BY <1>23, <2>2, <3>1 DEF Release
    <2> QED BY <2>1, <2>2
  <1> QED BY <1>1, <1>2, <1>3, <1>4, <1>5, <1>6, <1>7, <1>8, <1>9, <1>10, <1>11, <1>12,
             <1>13, <1>14, <1>15, <1>16, <1>17, <1>18, <1>19, <1>20, <1>21, <1>22, <1>23
          DEF PrepareStep, DispatchStep, EndStep

\* The counted sets are finite.
LEMMA FiniteCounts ==
  /\ IsFiniteSet(Referenced)
  /\ \A s \in Sessions : /\ IsFiniteSet(HeldBy(s)) /\ IsFiniteSet(AskedBy(s))
                         /\ IsFiniteSet(TrackedBy(s))
  <1>1. IsFiniteSet(Calls) /\ IsFiniteSet(Ops)
    BY ConstantsAssumption
  <1>2. Referenced \in SUBSET Ops
    BY DEF Referenced
  <1>3. ASSUME NEW s \in Sessions
        PROVE  /\ HeldBy(s) \in SUBSET Calls /\ AskedBy(s) \in SUBSET Calls
               /\ TrackedBy(s) \in SUBSET Ops
    BY DEF HeldBy, AskedBy, TrackedBy
  <1> QED BY <1>1, <1>2, <1>3, FS_Subset

\* Nothing counted changes.
LEMMA BudgetFrame ==
  ASSUME Budget, UNCHANGED <<limitVars, sess, pc, held>>,
         \A o \in Ops : st'[o] = "None" <=> st[o] = "None"
  PROVE  Budget'
  <1>1. \A s \in Sessions : TrackedBy(s)' = TrackedBy(s)
    BY DEF TrackedBy
  <1>2. Referenced' = Referenced
    BY DEF Referenced
  <1>3. \A s \in Sessions : HeldBy(s)' = HeldBy(s) /\ AskedBy(s)' = AskedBy(s)
    BY DEF HeldBy, AskedBy, Ses
  <1> USE DEF limitVars
  <1>4. Exact'
    BY <1>2, <1>3 DEF Budget, Exact
  <1> QED BY <1>1, <1>4 DEF Budget, Ses

\* A call's step keeps every count exact and every limit.
LEMMA BudgetCall ==
  ASSUME TypeOK, TypeOK', Budget, NEW c \in Calls, PermitEffect(c)
  PROVE  Budget'
  <1>0. /\ Op(c) \in Ops /\ Ses(c) \in Sessions /\ Owner[Op(c)] = Ses(c)
        /\ MaxActive \in Nat /\ MaxPending \in Nat /\ MaxSessionOps \in Nat
        /\ MaxHostOps \in Nat
    BY ConstantsAssumption DEF Op, Ses
  <1>1. /\ pc \in [Calls -> CallPCs] /\ held \in [Calls -> BOOLEAN]
        /\ sessOps \in [Sessions -> Int] /\ hostOps \in Int
        /\ active \in [Sessions -> Int] /\ pending \in [Sessions -> Int]
    BY DEF TypeOK, LimitTypes, OpTypes, CallTypes
  <1>2. ASSUME NEW s \in Sessions
        PROVE  active'[s] = Cardinality(HeldBy(s)') /\ active'[s] <= MaxActive
    <2>1. /\ active[s] = Cardinality(HeldBy(s)) /\ active[s] <= MaxActive
          /\ IsFiniteSet(HeldBy(s)) /\ active[s] \in Int
      BY <1>1, <1>2, FiniteCounts DEF Budget, Exact
    <2>2. CASE UNCHANGED <<active, held>>
      BY <2>1, <2>2 DEF HeldBy
    <2>3. CASE TakesActive(c) /\ Ses(c) = s
      <3>1. HeldBy(s)' = HeldBy(s) \cup {c} /\ c \notin HeldBy(s)
        BY <1>1, <2>3 DEF TakesActive, HeldBy
      <3>2. active'[s] = active[s] + 1 /\ active[s] < MaxActive
        BY <1>1, <2>3 DEF TakesActive
      <3>3. Cardinality(HeldBy(s) \cup {c}) = Cardinality(HeldBy(s)) + 1
        BY <2>1, <3>1, FS_AddElement
      <3> QED BY <1>0, <2>1, <3>1, <3>2, <3>3
    <2>4. CASE ReturnsActive(c) /\ Ses(c) = s
      <3>1. HeldBy(s)' = HeldBy(s) \ {c} /\ c \in HeldBy(s)
        BY <1>1, <2>4 DEF ReturnsActive, HeldBy
      <3>2. active'[s] = active[s] - 1
        BY <1>1, <2>4 DEF ReturnsActive
      <3>3. Cardinality(HeldBy(s) \ {c}) = Cardinality(HeldBy(s)) - 1
        BY <2>1, <3>1, FS_RemoveElement
      <3> QED BY <1>0, <2>1, <3>1, <3>2, <3>3
    <2>5. CASE (TakesActive(c) \/ ReturnsActive(c)) /\ Ses(c) # s
      <3>1. HeldBy(s)' = HeldBy(s)
        BY <1>1, <2>5 DEF TakesActive, ReturnsActive, HeldBy
      <3>2. active'[s] = active[s]
        BY <1>1, <2>5 DEF TakesActive, ReturnsActive
      <3> QED BY <2>1, <3>1, <3>2
    <2> QED BY <2>2, <2>3, <2>4, <2>5 DEF PermitEffect
  <1>3. ASSUME NEW s \in Sessions
        PROVE  pending'[s] = Cardinality(AskedBy(s)') /\ pending'[s] <= MaxPending
    <2>1. /\ pending[s] = Cardinality(AskedBy(s)) /\ pending[s] <= MaxPending
          /\ IsFiniteSet(AskedBy(s)) /\ pending[s] \in Int
      BY <1>1, <1>3, FiniteCounts DEF Budget, Exact
    <2>0. \A d \in Calls \ {c} : pc'[d] = pc[d]
      BY DEF PermitEffect
    <2>2. CASE pending' = pending /\ (pc'[c] = "approving" <=> pc[c] = "approving")
      <3>1. AskedBy(s)' = AskedBy(s)
        BY <2>0, <2>2 DEF AskedBy
      <3> QED BY <2>1, <2>2, <3>1
    <2>3. CASE EntersApproval(c) /\ Ses(c) = s
      <3>1. AskedBy(s)' = AskedBy(s) \cup {c} /\ c \notin AskedBy(s)
        BY <2>0, <2>3 DEF EntersApproval, AskedBy
      <3>2. pending'[s] = pending[s] + 1 /\ pending[s] < MaxPending
        BY <1>1, <2>3 DEF EntersApproval
      <3>3. Cardinality(AskedBy(s) \cup {c}) = Cardinality(AskedBy(s)) + 1
        BY <2>1, <3>1, FS_AddElement
      <3> QED BY <1>0, <2>1, <3>1, <3>2, <3>3
    <2>4. CASE LeavesApproval(c) /\ Ses(c) = s
      <3>1. AskedBy(s)' = AskedBy(s) \ {c} /\ c \in AskedBy(s)
        BY <2>0, <2>4 DEF LeavesApproval, AskedBy
      <3>2. pending'[s] = pending[s] - 1
        BY <1>1, <2>4 DEF LeavesApproval
      <3>3. Cardinality(AskedBy(s) \ {c}) = Cardinality(AskedBy(s)) - 1
        BY <2>1, <3>1, FS_RemoveElement
      <3> QED BY <1>0, <2>1, <3>1, <3>2, <3>3
    <2>5. CASE (EntersApproval(c) \/ LeavesApproval(c)) /\ Ses(c) # s
      <3>1. AskedBy(s)' = AskedBy(s)
        BY <2>0, <2>5 DEF AskedBy
      <3>2. pending'[s] = pending[s]
        BY <1>1, <2>5 DEF EntersApproval, LeavesApproval
      <3> QED BY <2>1, <3>1, <3>2
    <2> QED BY <2>2, <2>3, <2>4, <2>5 DEF PermitEffect
  <1>4. /\ \A s \in Sessions :
             sessOps'[s] = Cardinality(TrackedBy(s)') /\ sessOps'[s] <= MaxSessionOps
        /\ hostOps' = Cardinality(Referenced') /\ hostOps' <= MaxHostOps
    <2>1. /\ hostOps = Cardinality(Referenced) /\ hostOps <= MaxHostOps
          /\ IsFiniteSet(Referenced)
          /\ \A s \in Sessions : /\ sessOps[s] = Cardinality(TrackedBy(s))
                                 /\ sessOps[s] <= MaxSessionOps /\ sessOps[s] \in Int
                                 /\ IsFiniteSet(TrackedBy(s))
      BY <1>1, FiniteCounts DEF Budget, Exact
    <2>0. /\ \A o \in Ops \ {Op(c)} : st'[o] = st[o]
          /\ sess' = sess
      BY DEF PermitEffect
    <2>2. CASE UNCHANGED <<sessOps, hostOps>> /\ (st'[Op(c)] = "None" <=> st[Op(c)] = "None")
      <3>1. Referenced' = Referenced /\ \A s \in Sessions : TrackedBy(s)' = TrackedBy(s)
        BY <2>0, <2>2 DEF Referenced, TrackedBy
      <3> QED BY <2>1, <2>2, <3>1
    <2>3. CASE Tracks(c)
      <3>0. sess[Owner[Op(c)]] = "live"
        BY <1>0, <2>3 DEF Tracks, Budget
      <3>1. Referenced' = Referenced \cup {Op(c)} /\ Op(c) \notin Referenced
        BY <1>0, <2>0, <2>3, <3>0 DEF Tracks, Referenced
      <3>2. hostOps' = Cardinality(Referenced') /\ hostOps' <= MaxHostOps
        <4>1. Cardinality(Referenced \cup {Op(c)}) = Cardinality(Referenced) + 1
          BY <2>1, <3>1, FS_AddElement
        <4> QED BY <1>0, <1>1, <2>1, <2>3, <3>1, <4>1 DEF Tracks
      <3>3. ASSUME NEW s \in Sessions, s # Ses(c)
            PROVE  sessOps'[s] = Cardinality(TrackedBy(s)') /\ sessOps'[s] <= MaxSessionOps
        <4>1. TrackedBy(s)' = TrackedBy(s)
          BY <1>0, <2>0, <3>3 DEF TrackedBy
        <4>2. sessOps'[s] = sessOps[s]
          BY <1>1, <2>3, <3>3 DEF Tracks
        <4> QED BY <2>1, <4>1, <4>2
      <3>4. sessOps'[Ses(c)] = Cardinality(TrackedBy(Ses(c))') /\ sessOps'[Ses(c)] <= MaxSessionOps
        <4>1. TrackedBy(Ses(c))' = TrackedBy(Ses(c)) \cup {Op(c)} /\ Op(c) \notin TrackedBy(Ses(c))
          BY <1>0, <2>0, <2>3 DEF Tracks, TrackedBy, Op, Ses
        <4>2. sessOps'[Ses(c)] = sessOps[Ses(c)] + 1 /\ sessOps[Ses(c)] < MaxSessionOps
          BY <1>0, <1>1, <2>3 DEF Tracks
        <4>3. Cardinality(TrackedBy(Ses(c)) \cup {Op(c)}) = Cardinality(TrackedBy(Ses(c))) + 1
          BY <1>0, <2>1, <4>1, FS_AddElement
        <4> QED BY <1>0, <2>1, <4>1, <4>2, <4>3
      <3> QED BY <3>2, <3>3, <3>4
    <2> QED BY <2>2, <2>3 DEF PermitEffect
  <1>5. Exact'
    BY <1>2, <1>3, <1>4 DEF Exact
  <1>6. ASSUME NEW d \in Calls
        PROVE  /\ held'[d] => pc'[d] \in PermitPCs
               /\ pc'[d] \notin {"idle", "done"} => sess'[Ses(d)] = "live"
    <2>1. CASE d = c
      BY <2>1 DEF PermitEffect
    <2>2. CASE d # c
      <3>1. pc'[d] = pc[d] /\ sess' = sess
        BY <2>2 DEF PermitEffect
      <3>2. held'[d] = held[d]
        BY <1>1, <2>2 DEF PermitEffect, TakesActive, ReturnsActive
      <3> QED BY <3>1, <3>2 DEF Budget
    <2> QED BY <2>1, <2>2
  <1>7. \A s \in Sessions : sessOps'[s] = Cardinality(TrackedBy(s)')
    BY <1>4
  <1> QED BY <1>5, <1>6, <1>7 DEF Budget, Ses

\* A cancellation changes no tracked operation into an untracked one.
LEMMA CancelKeepsTracked ==
  ASSUME TypeOK, NEW o \in Ops, cancel(o), st[o] # "None"
  PROVE  \A p \in Ops : st'[p] = "None" <=> st[p] = "None"
  BY DEF TypeOK, OpTypes, cancel, CancelledState, terminal, OperationState, Undispatched,
         Committed, Refused

\* Sessions come with no operation, and take with them what they tracked.
LEMMA BudgetSession ==
  ASSUME TypeOK, Tracked, Budget, NEW s \in Sessions, SessionStep(s)
  PROVE  Budget'
  <1>0. /\ sess \in [Sessions -> {"none", "live", "dropped"}]
        /\ hostOps \in Int /\ sessOps \in [Sessions -> Int]
        /\ Owner \in [Ops -> Sessions] /\ Target \in [Calls -> Ops]
    BY ConstantsAssumption DEF TypeOK, AuthTypes, LimitTypes
  <1>1. CASE CreateCheck(s) \/ Expire(s)
    BY <1>1, BudgetFrame DEF CreateCheck, Expire, workVars, opVars, callVars, guardVars
  <1>2. CASE CreatePublish(s) \/ SessionDrop(s)
    <2> USE DEF workVars, opVars, callVars, guardVars, limitVars
    <2>1. /\ UNCHANGED <<st, pc, held, active, pending, sessOps>>
          /\ \A x \in Sessions \ {s} : sess'[x] = sess[x]
      BY <1>0, <1>2 DEF CreatePublish, SessionDrop
    <2>2. \A x \in Sessions : /\ HeldBy(x)' = HeldBy(x) /\ AskedBy(x)' = AskedBy(x)
                              /\ TrackedBy(x)' = TrackedBy(x)
      BY <2>1 DEF HeldBy, AskedBy, TrackedBy, Ses
    <2>3. ASSUME NEW c \in Calls, pc[c] \notin {"idle", "done"} PROVE sess'[Ses(c)] = "live"
      <3>1. sess[Ses(c)] = "live" /\ Ses(c) \in Sessions
        BY <1>0, <2>3 DEF Budget, Ses
      <3>2. CASE CreatePublish(s)
        BY <1>0, <3>1, <3>2 DEF CreatePublish
      <3>3. CASE SessionDrop(s)
        BY <2>1, <2>3, <3>1, <3>3 DEF SessionDrop
      <3> QED BY <1>2, <3>2, <3>3
    <2>4. /\ hostOps = Cardinality(Referenced) /\ hostOps <= MaxHostOps
          /\ IsFiniteSet(Referenced)
          /\ sessOps[s] = Cardinality(TrackedBy(s)) /\ IsFiniteSet(TrackedBy(s))
      BY FiniteCounts DEF Budget, Exact
    <2>5. hostOps' = Cardinality(Referenced') /\ hostOps' <= MaxHostOps
      <3>1. CASE CreatePublish(s)
        <4>1. \A o \in Ops : st[o] # "None" => Owner[o] # s
          BY <1>0, <3>1 DEF CreatePublish, Tracked
        <4>2. Referenced' = Referenced
          BY <1>0, <2>1, <4>1 DEF Referenced
        <4> QED BY <2>4, <3>1, <4>2 DEF CreatePublish
      <3>2. CASE SessionDrop(s)
        <4>1. Referenced' = Referenced \ TrackedBy(s) /\ Referenced \cap TrackedBy(s) = TrackedBy(s)
          BY <1>0, <2>1, <3>2 DEF SessionDrop, Referenced, TrackedBy
        <4>2. Cardinality(Referenced') = hostOps - sessOps[s]
          <5>1. Cardinality(Referenced \ TrackedBy(s))
                  = Cardinality(Referenced) - Cardinality(Referenced \cap TrackedBy(s))
            BY <2>4, FS_Difference
          <5> QED BY <2>4, <4>1, <5>1
        <4>3. sessOps[s] >= 0 /\ sessOps[s] \in Int /\ MaxHostOps \in Nat
          BY <1>0, <2>4, FS_CardinalityType, ConstantsAssumption
        <4> QED BY <1>0, <2>4, <3>2, <4>2, <4>3 DEF SessionDrop, ReturnedBytes
      <3> QED BY <1>2, <3>1, <3>2
    <2>6. Exact'
      BY <2>1, <2>2, <2>5 DEF Budget, Exact
    <2> QED BY <2>1, <2>2, <2>3, <2>6 DEF Budget, Ses
  <1> QED BY <1>1, <1>2 DEF SessionStep

\* Budget is an invariant of the pipeline.
LEMMA BudgetAlways == Spec => []Budget
  <1>1. Init => Budget
    <2> SUFFICES ASSUME Init PROVE Budget
      OBVIOUS
    <2>1. \A s \in Sessions : HeldBy(s) = {} /\ AskedBy(s) = {} /\ TrackedBy(s) = {}
      BY ConstantsAssumption DEF Init, HeldBy, AskedBy, TrackedBy
    <2>2. Referenced = {}
      BY DEF Init, Referenced
    <2>3. Exact
      <3>1. Cardinality({}) = 0
        BY FS_EmptySet
      <3>2. /\ MaxActive \in Nat /\ MaxPending \in Nat /\ MaxSessionOps \in Nat
            /\ MaxHostOps \in Nat
        BY ConstantsAssumption
      <3>3. /\ \A s \in Sessions : active[s] = 0 /\ pending[s] = 0 /\ sessOps[s] = 0
            /\ hostOps = 0
        BY DEF Init
      <3> HIDE DEF Init
      <3> QED BY <2>1, <2>2, <3>1, <3>2, <3>3 DEF Exact
    <2> QED BY <2>1, <2>3, FS_EmptySet DEF Init, Budget
  <1>2. TypeOK /\ TypeOK' /\ Guarded /\ Tracked /\ Budget /\ [Next]_vars => Budget'
    <2> SUFFICES ASSUME TypeOK, TypeOK', Guarded, Tracked, Budget, [Next]_vars
                 PROVE  Budget'
      OBVIOUS
    <2> USE BudgetFrame DEF workVars, envVars, authVars, opVars, callVars, guardVars
    <2>1. CASE UNCHANGED vars
      BY <2>1 DEF vars
    <2>2. CASE CloseAdmission \/ StorePut \/ StoreLock \/ StoreUnlock
      BY <2>2 DEF CloseAdmission, StorePut, StoreLock, StoreUnlock
    <2>3. ASSUME NEW t \in Operators, CloseStep(t) PROVE Budget'
      BY <2>3 DEF CloseStep, CloseStart, CloseReturn, CloseNotify, CloseNext
    <2>4. ASSUME NEW t \in Operators, RevokeStep(t) PROVE Budget'
      <3>1. ASSUME NEW o \in Ops, RevokeCancel(t, o) PROVE Budget'
        BY <3>1, CancelKeepsTracked DEF RevokeCancel, Tracked
      <3> QED BY <2>4, <3>1 DEF RevokeStep, RevokeCall, RevokeFlip, RevokeNotify,
                                RevokeLock, RevokeReturn
    <2>5. ASSUME NEW o \in Ops, CancelLookup(o) \/ CancelOperation(o) PROVE Budget'
      BY <2>5, CancelKeepsTracked DEF CancelLookup, CancelOperation, Tracked
    <2>6. ASSUME NEW c \in Calls, PrepareStep(c) \/ DispatchStep(c) \/ EndStep(c)
          PROVE  Budget'
      BY <2>6, PermitEffects, BudgetCall
    <2> QED BY <2>1, <2>2, <2>3, <2>4, <2>5, <2>6, BudgetSession DEF Next
  <1> QED BY <1>1, <1>2, TypeCorrect, GuardedAlways, TrackedAlways, PTL DEF Spec

\* PermitsConserved: whichever way a call ends, whoever ends it, its permits
\* and in the end its session's bytes are given back exactly once.
THEOREM PermitsExact == Spec => []PermitsConserved
  <1>1. Budget => PermitsConserved
    BY DEF Budget, Exact, PermitsConserved, HeldBy, AskedBy, Referenced
  <1> QED BY <1>1, BudgetAlways, PTL
-----------------------------------------------------------------------------
(* Refinement of Lifecycle: a step changes the abstract authority or one    *)
(* operation, never both.                                                   *)

\* A step on one operation that changes no authority is a step of Lifecycle
\* or one it cannot see.
LEMMA OperationRefines ==
  ASSUME TypeOK, TypeOK', NEW o \in Ops, LegalChange(o),
         UNCHANGED <<closed, sess, revoked, token, expired>>, sent' = sent,
         \A p \in Ops \ {o} : st'[p] = st[p],
         st'[o] # st[o] => sess[Owner[o]] # "none"
  PROVE  [Promise!Next]_(Promise!avars)
  <1>1. Authority' = Authority
    BY DEF Authority, Check
  <1>2. Phase' = [Phase EXCEPT ![o] = AbstractPhase(st'[o])]
    BY DEF Phase
  <1>3. ASSUME st'[o] # st[o]
        PROVE  Authority[Owner[o]] = IF Check(Owner[o]) THEN "granted" ELSE "ended"
    BY <1>3, ConstantsAssumption DEF Authority
  <1>4. Phase[o] = AbstractPhase(st[o])
    BY DEF Phase
  <1> USE <1>1, <1>2, <1>3, <1>4
      DEF Promise!Next, Promise!avars, AbstractPhase, Undispatched, Refused
  <1>5. CASE st'[o] = st[o]
    <2>1. Phase' = Phase BY <1>5 DEF Phase
    <2> QED BY <2>1 DEF Phase, Authority
  <1>6. CASE st[o] = "None" /\ st'[o] = "Received"
    <2>1. Promise!Admit(o) BY <1>6 DEF Promise!Admit, Phase, Authority
    <2> QED BY <2>1
  <1>7. CASE st[o] \in Undispatched /\ st'[o] \in Undispatched
    <2>1. Phase' = Phase BY <1>7 DEF Phase
    <2> QED BY <2>1 DEF Phase, Authority
  <1>8. CASE st[o] \in Undispatched /\ st'[o] \in Refused
    <2>1. Promise!Refuse(o) BY <1>8 DEF Promise!Refuse, Phase, Authority
    <2> QED BY <2>1
  <1>9. CASE st[o] = "Ready" /\ st'[o] = "Dispatching" /\ Check(Owner[o])
    <2>1. Promise!Commit(o) BY <1>9 DEF Promise!Commit, Phase, Authority
    <2> QED BY <2>1
  <1>10. CASE st[o] = "Dispatching" /\ st'[o] = "OutcomeUnknown"
    <2>1. Promise!Lose(o) BY <1>10 DEF Promise!Lose, Phase, Authority
    <2> QED BY <2>1
  <1>11. CASE /\ st[o] = "Dispatching" /\ st'[o] = "Completed"
              /\ Check(Owner[o]) /\ sent[o] = 1
    <2>1. Promise!Complete(o) BY <1>11 DEF Promise!Complete, Phase, Authority
    <2> QED BY <2>1
  <1> QED BY <1>5, <1>6, <1>7, <1>8, <1>9, <1>10, <1>11 DEF LegalChange

\* Handing a committed operation to the transport, even one that was
\* cancelled in between, is Hand.
LEMMA HandRefines ==
  ASSUME TypeOK, TypeOK', NEW o \in Ops, st' = st,
         UNCHANGED <<closed, sess, revoked, token, expired>>,
         st[o] \in {"Dispatching", "OutcomeUnknown"}, sent[o] = 0, sent'[o] = 1,
         \A p \in Ops \ {o} : sent'[p] = sent[p]
  PROVE  [Promise!Next]_(Promise!avars)
  <1>1. UNCHANGED <<Authority, Phase>>
    BY DEF Authority, Check, Phase
  <1>2. Phase[o] \in {"committed", "unknown"}
    BY DEF Phase, AbstractPhase, Undispatched, Refused
  <1>3. sent' = [sent EXCEPT ![o] = 1]
    BY DEF TypeOK, OpTypes
  <1> QED BY <1>1, <1>2, <1>3 DEF Promise!Next, Promise!Hand

\* A step that only takes authority away ends the sessions that had it.
LEMMA EndRefines ==
  ASSUME TypeOK, UNCHANGED <<st, sent>>,
         \A s \in Sessions : sess'[s] = "none" <=> sess[s] = "none",
         \A s \in Sessions : Check(s)' => Check(s)
  PROVE  [Promise!Next]_(Promise!avars)
  <1> DEFINE S == {s \in Sessions : Authority[s] = "granted" /\ Authority'[s] # "granted"}
  <1>1. Phase' = Phase
    BY DEF Phase
  <1>2. CASE S = {}
    <2>1. Authority' = Authority
      BY <1>2 DEF Authority
    <2> QED BY <1>1, <2>1 DEF Promise!avars
  <1>3. CASE S # {}
    <2>1. Authority' = [s \in Sessions |-> IF s \in S THEN "ended" ELSE Authority[s]]
      BY DEF Authority
    <2>2. Promise!End(S)
      BY <1>1, <1>3, <2>1 DEF Promise!End
    <2> QED BY <2>2 DEF Promise!Next
  <1> QED BY <1>2, <1>3

\* Publishing a session grants its authority: nobody could have revoked it.
LEMMA GrantRefines ==
  ASSUME TypeOK, Tracked, NEW s \in Sessions, CreatePublish(s)
  PROVE  [Promise!Next]_(Promise!avars)
  <1>1. UNCHANGED <<Phase, sent>>
    BY DEF CreatePublish, workVars, opVars, Phase
  <1>2. CASE MayPublish
    <2>1. Authority[s] = "none"
      BY DEF Authority, Tracked, CreatePublish
    <2>2. Authority' = [Authority EXCEPT ![s] = "granted"]
      BY <1>2 DEF TypeOK, AuthTypes, CreatePublish, MayPublish, Tracked, Authority, Check
    <2> QED BY <1>1, <2>1, <2>2 DEF Promise!Next, Promise!Grant
  <1>3. CASE ~MayPublish
    BY <1>1, <1>3 DEF CreatePublish, Promise!avars, Authority, Check
  <1> QED BY <1>2, <1>3

\* ImplementsLifecycle: sessions, tasks, guards, cancel calls and operator
\* threads together keep the promise of Lifecycle, for every value of the
\* constants.
THEOREM PipelineImplementsLifecycle == Spec => ImplementsLifecycle
  <1>1. Init => Promise!Init
    BY ConstantsAssumption
    DEF Init, Promise!Init, Authority, Phase, AbstractPhase, Undispatched, Refused
  <1>2. ASSUME TypeOK, TypeOK', Guarded, Tracked, [Next]_vars
        PROVE  [Promise!Next]_(Promise!avars)
    <2> USE <1>2 DEF workVars, envVars, authVars, threadVars, limitVars, opVars, callVars
    <2>1. CASE UNCHANGED vars
      BY <2>1 DEF vars, Promise!avars, Authority, Check, Phase
    <2>2. ASSUME NEW s \in Sessions, SessionStep(s) PROVE [Promise!Next]_(Promise!avars)
      <3>1. CASE CreateCheck(s)
        BY <3>1, EndRefines DEF CreateCheck, Check
      <3>2. CASE CreatePublish(s)
        BY <3>2, GrantRefines
      <3>3. CASE Expire(s)
        BY <3>3, EndRefines DEF Expire, Check, TypeOK, AuthTypes
      <3>4. CASE SessionDrop(s)
        BY <3>4, EndRefines DEF SessionDrop, Check, TypeOK, AuthTypes
      <3> QED BY <2>2, <3>1, <3>2, <3>3, <3>4 DEF SessionStep
    <2>3. ASSUME CloseAdmission \/ StorePut \/ StoreLock \/ StoreUnlock
          PROVE  [Promise!Next]_(Promise!avars)
      BY <2>3, EndRefines DEF CloseAdmission, StorePut, StoreLock, StoreUnlock, Check
    <2>4. ASSUME NEW t \in Operators, CloseStep(t) PROVE [Promise!Next]_(Promise!avars)
      <3>1. UNCHANGED <<st, sent, sess>> /\ \A s \in Sessions : Check(s)' => Check(s)
        BY <2>4 DEF CloseStep, CloseStart, CloseReturn, CloseNotify, CloseNext, Check,
                    TypeOK, AuthTypes
      <3> QED BY <3>1, EndRefines
    <2>5. ASSUME NEW t \in Operators, RevokeStep(t) PROVE [Promise!Next]_(Promise!avars)
      <3>1. ASSUME NEW o \in Ops, RevokeCancel(t, o) PROVE [Promise!Next]_(Promise!avars)
        <4>1. LegalChange(o) BY StateSteps
        <4>2. sess[Owner[o]] # "none"
          BY <3>1 DEF RevokeCancel, Tracked
        <4>3. \A p \in Ops \ {o} : st'[p] = st[p]
          BY <3>1 DEF RevokeCancel, cancel, TypeOK, OpTypes
        <4> QED BY <3>1, <4>1, <4>2, <4>3, OperationRefines DEF RevokeCancel
      <3>2. ASSUME ~\E o \in Ops : RevokeCancel(t, o) PROVE [Promise!Next]_(Promise!avars)
        <4>1. UNCHANGED <<st, sent, sess>> /\ \A s \in Sessions : Check(s)' => Check(s)
          BY <2>5, <3>2 DEF RevokeStep, RevokeCall, RevokeFlip, RevokeNotify, RevokeLock,
                            RevokeReturn, Check, TypeOK, AuthTypes
        <4> QED BY <4>1, EndRefines
      <3> QED BY <3>1, <3>2
    <2>6. ASSUME NEW o \in Ops, CancelLookup(o) PROVE [Promise!Next]_(Promise!avars)
      BY <2>6, EndRefines DEF CancelLookup, Check
    <2>7. ASSUME NEW o \in Ops, CancelOperation(o) PROVE [Promise!Next]_(Promise!avars)
      <3>1. LegalChange(o) BY StateSteps
      <3>2. sess[Owner[o]] # "none"
        BY <2>7 DEF CancelOperation, Tracked
      <3>3. \A p \in Ops \ {o} : st'[p] = st[p]
        BY <2>7 DEF CancelOperation, cancel, TypeOK, OpTypes
      <3> QED BY <2>7, <3>1, <3>2, <3>3, OperationRefines DEF CancelOperation
    <2>8. ASSUME NEW c \in Calls, PrepareStep(c) \/ DispatchStep(c) \/ EndStep(c)
          PROVE  [Promise!Next]_(Promise!avars)
      <3>1. CallEffect(c) BY <2>8, CallEffects
      <3>2. Op(c) \in Ops BY ConstantsAssumption DEF Op
      <3>3. pc[c] # "idle" => sess[Owner[Op(c)]] # "none"
        BY DEF Tracked, Ses, Op
      <3>4. CASE LegalChange(Op(c)) /\ sent'[Op(c)] = sent[Op(c)]
        <4>1. sent' = sent BY <3>1, <3>4 DEF CallEffect, TypeOK, OpTypes
        <4> QED BY <3>1, <3>2, <3>3, <3>4, <4>1, OperationRefines DEF CallEffect
      <3>5. CASE ~(LegalChange(Op(c)) /\ sent'[Op(c)] = sent[Op(c)])
        <4>1. st' = st BY <3>1, <3>5 DEF CallEffect, TypeOK, OpTypes
        <4> QED BY <3>1, <3>2, <3>5, <4>1, HandRefines DEF CallEffect
      <3> QED BY <3>4, <3>5
    <2> QED
      BY <2>1, <2>2, <2>3, <2>4, <2>5, <2>6, <2>7, <2>8 DEF Next
  <1> QED BY <1>1, <1>2, TypeCorrect, GuardedAlways, TrackedAlways, PTL
          DEF Spec, ImplementsLifecycle, Promise!Spec
=============================================================================
