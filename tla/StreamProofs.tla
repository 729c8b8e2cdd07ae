----------------------------- MODULE StreamProofs -----------------------------
(***************************************************************************)
(* Machine-checked theorems about Stream, for any sets of sessions and     *)
(* streams, any limits and any outside actors.                             *)
(*                                                                         *)
(* Whoever ends a stream changes that stream alone: every step has an      *)
(* Effect, which keeps the stream Sound, leaves the others as they were    *)
(* and moves the pools by what this stream took or gave back.  What joins  *)
(* the streams of a session is the walk of a revocation (Walk).            *)
(***************************************************************************)
EXTENDS Stream, FiniteSetTheorems, TLAPS

-----------------------------------------------------------------------------
(* The inductive invariant *)

Preparing  == {"pending", "reserve", "approving", "resolve", "ready", "record", "commit"}
Connecting == {"dial", "dialing", "install", "connected", "relay", "polling"}
Resting    == {"idle", "admit", "done"}

\* Where the preparing task owns the connection's permits.
Equipped == {"ready", "record", "commit", "dial", "dialing", "install"}

\* An operation that is not tracked has nothing.
Fresh(o) ==
    st[o] = "None" =>
        /\ pc[o] \in Resting /\ fin[o] = {} /\ o \notin cancelling /\ watch[o] # "on"
        /\ ~attached[o] /\ dialled[o] = 0

\* The owner's place and the shared state agree: everyone who ends a stream
\* before its dial is committed leaves a refusal, afterwards an outcome.
Placed(o) ==
    /\ pc[o] \in Preparing => st[o] \in Before \cup Refused
    /\ pc[o] \in Connecting => st[o] \in Committed
    /\ pc[o] \in Resting => st[o] = "None" \/ terminal(st[o])
    /\ pc[o] \in Preparing \cup {"dial"} => dialled[o] = 0
    /\ dialled[o] <= 1 /\ (dialled[o] = 1 => st[o] \in Committed)

\* Who owns the socket and the permits.
Kept(o) ==
    /\ socket[o] = "task" => pc[o] = "install"
    /\ socket[o] \in {"state", "relay"} => st[o] = "Dispatching" /\ pc[o] \notin Equipped
    /\ capacity[o] = "task" <=> pc[o] \in Equipped
    /\ capacity[o] = "state" => st[o] = "Dispatching"
    /\ pc[o] \in Preparing \cup Resting => socket[o] = "none" /\ capacity[o] # "state"
    /\ attached[o] => ~terminal(st[o])

\* The story of the end, and that before it only a relay counts bytes.
Story(o) ==
    /\ cause[o] # "None" <=> terminal(st[o])
    /\ cause[o] = "OrderlyEnd" <=> st[o] = "Completed"
    /\ terminal(st[o]) => reported[o] = forwarded[o]
    /\ flow[o] \in (IF terminal(st[o]) THEN {"none", "closed"} ELSE {"none", "open"})
    /\ ~terminal(st[o]) => reported[o] = 0 /\ (socket[o] # "relay" => forwarded[o] = 0)

\* A finish call of the owner is its only one and keeps it waiting; one of the
\* relay comes after the commitment; none claims an orderly end.
Ending(o) ==
    /\ \A f \in fin[o] :
         /\ f.why # "OrderlyEnd"
         /\ f.by \in {"owner", "relay"} => pc[o] = "finishing"
         /\ f.by = "relay" => st[o] \in Committed
    /\ \A f, g \in fin[o] : f.by \in {"owner", "relay"} /\ g.by \in {"owner", "relay"} => f = g

Sound(o) == Fresh(o) /\ Placed(o) /\ Kept(o) /\ Story(o) /\ Ending(o)

Live(o) == st[o] # "None" /\ ~terminal(st[o])

\* The walk of revoke: authority ends before it, so nothing is admitted behind
\* it, and what it has passed has ended or is ending by its own call.
Walk ==
    \A s \in Sessions :
        /\ rpc[s] # "idle" => retired[s]
        /\ \A o \in todo[s] : st[o] # "None"
        /\ rpc[s] = "walk" => \A o \in Streams : Ses(o) = s /\ Live(o) =>
              o \in todo[s] \/ \E f \in fin[o] : f.by = "revoke"
        /\ settled[s] => retired[s] /\ \A o \in Streams : Ses(o) = s => ~Live(o)

AttachedTo(s)  == {o \in Streams : attached[o] /\ Ses(o) = s}
ActiveIn(s)    == {o \in Streams : capacity[o] # "none" /\ Ses(o) = s}
ApprovingIn(s) == {o \in Streams : pc[o] = "approving" /\ Ses(o) = s}
AllAttached    == {o \in Streams : attached[o]}
AllActive      == {o \in Streams : capacity[o] # "none"}

\* SlotsExact, with names for what it counts.
Exact ==
    /\ \A s \in Sessions :
         /\ attachSlots[s] = Cardinality(AttachedTo(s)) /\ attachSlots[s] <= MaxAttach
         /\ activeSlots[s] = Cardinality(ActiveIn(s)) /\ activeSlots[s] <= MaxActive
         /\ approvals[s] = Cardinality(ApprovingIn(s)) /\ approvals[s] <= MaxApprovals
    /\ hostAttach = Cardinality(AllAttached) /\ hostAttach <= MaxHostAttach
    /\ hostActive = Cardinality(AllActive) /\ hostActive <= MaxHostActive

Inv == TypeOK /\ (\A o \in Streams : Sound(o)) /\ Walk /\ Exact
-----------------------------------------------------------------------------
(* What a step of one stream may do *)

\* Nothing happens to stream p.
Same(p) ==
    /\ st'[p] = st[p] /\ cause'[p] = cause[p] /\ flow'[p] = flow[p]
    /\ socket'[p] = socket[p] /\ capacity'[p] = capacity[p]
    /\ attached'[p] = attached[p] /\ reported'[p] = reported[p]
    /\ fin'[p] = fin[p] /\ (p \in cancelling' <=> p \in cancelling)
    /\ watch'[p] = watch[p] /\ pc'[p] = pc[p]
    /\ dialled'[p] = dialled[p] /\ forwarded'[p] = forwarded[p]

\* Permits move only with what stream o owns.
AttachEffect(o) ==
    \/ UNCHANGED <<attachSlots, hostAttach>> /\ attached'[o] = attached[o]
    \/ /\ ~attached[o] /\ attached'[o]
       /\ attachSlots[Ses(o)] < MaxAttach /\ hostAttach < MaxHostAttach
       /\ attachSlots' = [attachSlots EXCEPT ![Ses(o)] = @ + 1]
       /\ hostAttach' = hostAttach + 1
    \/ /\ attached[o] /\ ~attached'[o]
       /\ attachSlots' = [attachSlots EXCEPT ![Ses(o)] = @ - 1]
       /\ hostAttach' = hostAttach - 1

ActiveEffect(o) ==
    \/ /\ UNCHANGED <<activeSlots, hostActive>>
       /\ capacity'[o] = "none" <=> capacity[o] = "none"
    \/ /\ capacity[o] = "none" /\ capacity'[o] # "none"
       /\ activeSlots[Ses(o)] < MaxActive /\ hostActive < MaxHostActive
       /\ activeSlots' = [activeSlots EXCEPT ![Ses(o)] = @ + 1]
       /\ hostActive' = hostActive + 1
    \/ /\ capacity[o] # "none" /\ capacity'[o] = "none"
       /\ activeSlots' = [activeSlots EXCEPT ![Ses(o)] = @ - 1]
       /\ hostActive' = hostActive - 1

ApprovalEffect(o) ==
    \/ /\ UNCHANGED approvals
       /\ pc'[o] = "approving" <=> pc[o] = "approving"
    \/ /\ pc[o] # "approving" /\ pc'[o] = "approving"
       /\ approvals[Ses(o)] < MaxApprovals
       /\ approvals' = [approvals EXCEPT ![Ses(o)] = @ + 1]
    \/ /\ pc[o] = "approving" /\ pc'[o] # "approving"
       /\ approvals' = [approvals EXCEPT ![Ses(o)] = @ - 1]

SlotEffect(o) == AttachEffect(o) /\ ActiveEffect(o) /\ ApprovalEffect(o)

\* A stream comes to life under authority only, and a call of finish that is
\* gone has ended it.
WalkEffect(o) ==
    /\ st[o] # "None" => st'[o] # "None"
    /\ Live(o)' => \/ Live(o) /\ fin[o] \subseteq fin'[o]
                   \/ ~retired[Ses(o)]

Effect(o) ==
    /\ TypeOK' /\ Sound(o)'
    /\ \A p \in Streams \ {o} : Same(p)
    /\ SlotEffect(o) /\ WalkEffect(o)

\* Taking from a pool leaves an integer.
LEMMA PoolType ==
  ASSUME NEW f \in [Sessions -> Int], NEW n \in Int, NEW s \in Sessions
  PROVE  [f EXCEPT ![s] = @ - n] \in [Sessions -> Int]
  OBVIOUS

\* A stream to which nothing happens stays as it is.
LEMMA SameSound ==
  ASSUME NEW p \in Streams, Sound(p), Same(p)
  PROVE  Sound(p)'
  BY DEF Sound, Same, Fresh, Placed, Kept, Story, Ending

\* Initially every variable has its type.
LEMMA TypeInit == Init => TypeOK
  BY StreamAssumption
  DEF Init, TypeOK, SessionTypes, StateTypes, SlotTypes, TaskTypes, CallTypes, PCs

-----------------------------------------------------------------------------
(* The ways to end *)

\* The error path of the owner, wherever it starts: the permits and the socket
\* of its frame go, the shared state waits for finish.
LEMMA OwnerFinished ==
  ASSUME TypeOK, NEW o \in Streams, Sound(o),
         NEW by \in {"owner", "relay"}, NEW why \in Causes \ {"OrderlyEnd"},
         IF by = "relay" THEN pc[o] \in {"connected", "relay"}
                         ELSE pc[o] \in Preparing \cup {"dialing", "install"},
         OwnerFinish(o, by, why), UNCHANGED <<sessionVars, cancelling>>
  PROVE  Effect(o)
  <1>0. Ses(o) \in Sessions
    BY StreamAssumption DEF Ses
  <1>00. /\ StateTypes /\ SlotTypes /\ TaskTypes /\ CallTypes /\ SessionTypes
    BY DEF TypeOK
  <1> DEFINE freed == IF capacity[o] = "task" THEN 1 ELSE 0
             left == IF pc[o] = "approving" THEN 1 ELSE 0
             call == [by |-> by, why |-> why]
  <1>1. /\ tok' = [tok EXCEPT ![o] = TRUE]
        /\ fin' = [fin EXCEPT ![o] = @ \cup {call}]
        /\ pc' = [pc EXCEPT ![o] = "finishing"]
        /\ capacity' = [capacity EXCEPT ![o] = IF @ = "task" THEN "none" ELSE @]
        /\ activeSlots' = [activeSlots EXCEPT ![Ses(o)] = @ - freed]
        /\ hostActive' = hostActive - freed
        /\ socket' = [socket EXCEPT ![o] = IF @ = "task" THEN "none" ELSE @]
        /\ approvals' = [approvals EXCEPT ![Ses(o)] = @ - left]
        /\ UNCHANGED <<st, cause, flow, attached, reported, attachSlots,
                       hostAttach, watch, late, dialled, forwarded>>
    BY DEF OwnerFinish, StartFinish, Goto
  <1>2. freed \in {0, 1} /\ left \in {0, 1} /\ call \in Finishers
        /\ call.by = by /\ call.why = why
    BY DEF Finishers
  <1> HIDE DEF call
  <1>3. TypeOK'
    <2>1. SessionTypes'
      BY <1>00 DEF SessionTypes, sessionVars
    <2>2. StateTypes'
      BY <1>00, <1>1 DEF StateTypes
    <2>3. SlotTypes'
      <3> HIDE DEF freed, left
      <3>0. freed \in Int /\ left \in Int
        BY <1>2
      <3>1. activeSlots' \in [Sessions -> Int] /\ approvals' \in [Sessions -> Int]
        BY <1>00, <1>0, <1>1, <3>0, PoolType DEF SlotTypes
      <3>2. hostActive' \in Int
        BY <1>00, <1>1, <3>0 DEF SlotTypes
      <3> QED BY <1>00, <1>1, <3>1, <3>2 DEF SlotTypes
    <2>4. TaskTypes'
      BY <1>00, <1>1 DEF TaskTypes, PCs
    <2>5. tok' \in [Streams -> BOOLEAN]
      BY <1>00, <1>1 DEF CallTypes
    <2>6. fin' \in [Streams -> SUBSET Finishers]
      BY <1>00, <1>1, <1>2 DEF CallTypes
    <2> QED BY <1>00, <2>1, <2>2, <2>3, <2>4, <2>5, <2>6 DEF TypeOK, CallTypes
  <1>4. /\ pc'[o] = "finishing" /\ fin'[o] = fin[o] \cup {call}
        /\ capacity'[o] = (IF capacity[o] = "task" THEN "none" ELSE capacity[o])
        /\ socket'[o] = (IF socket[o] = "task" THEN "none" ELSE socket[o])
    BY <1>00, <1>1 DEF StateTypes, TaskTypes, CallTypes
  <1>5. Fresh(o)' /\ Placed(o)'
    BY <1>1, <1>4 DEF Sound, Fresh, Placed, Preparing, Connecting, Resting
  <1>6. Kept(o)'
    BY <1>00, <1>1, <1>4
    DEF Sound, Placed, Kept, Preparing, Connecting, Resting, Equipped, StateTypes
  <1>7. Story(o)'
    BY <1>1, <1>4 DEF Sound, Story
  <1>8. Ending(o)'
    <2>1. \A f \in fin[o] : f.by \notin {"owner", "relay"}
      BY DEF Sound, Ending, Preparing
    <2>2. by = "relay" => st[o] \in Committed
      BY DEF Sound, Placed, Connecting
    <2> QED BY <1>1, <1>2, <1>4, <2>1, <2>2 DEF Sound, Ending
  <1>9. \A p \in Streams \ {o} : Same(p)
    BY <1>00, <1>1 DEF Same, StateTypes, TaskTypes, CallTypes
  <1>10. AttachEffect(o)
    BY <1>1 DEF AttachEffect
  <1>11. ActiveEffect(o)
    <2>1. CASE capacity[o] = "task"
      BY <1>1, <1>4, <2>1 DEF ActiveEffect
    <2>2. CASE capacity[o] # "task"
      <3>1. UNCHANGED <<activeSlots, hostActive>>
        BY <1>00, <1>0, <1>1, <2>2 DEF SlotTypes
      <3> QED BY <1>4, <2>2, <3>1 DEF ActiveEffect
    <2> QED BY <2>1, <2>2
  <1>12. ApprovalEffect(o)
    <2>1. CASE pc[o] = "approving"
      BY <1>1, <1>4, <2>1 DEF ApprovalEffect
    <2>2. CASE pc[o] # "approving"
      <3>1. UNCHANGED approvals
        BY <1>00, <1>0, <1>1, <2>2 DEF SlotTypes
      <3> QED BY <1>4, <2>2, <3>1 DEF ApprovalEffect
    <2> QED BY <2>1, <2>2
  <1>13. WalkEffect(o)
    BY <1>1, <1>4 DEF WalkEffect, Live
  <1> QED BY <1>3, <1>5, <1>6, <1>7, <1>8, <1>9, <1>10, <1>11, <1>12, <1>13
          DEF Effect, Sound, SlotEffect

\* What finish_locked leaves of stream o, whoever called it.
EndFacts(o) ==
    /\ terminal(st'[o])
    /\ st[o] \in Committed => st'[o] \in Committed
    /\ st[o] \in Before \cup Refused => st'[o] \in Refused
    /\ cause'[o] # "None" /\ (cause'[o] = "OrderlyEnd" <=> st'[o] = "Completed")
    /\ reported'[o] = forwarded[o] /\ flow'[o] \in {"none", "closed"}
    /\ socket'[o] \in {"none", "task"} /\ (socket'[o] = "task" <=> socket[o] = "task")
    /\ capacity'[o] \in {"none", "task"} /\ (capacity'[o] = "task" <=> capacity[o] = "task")
    /\ ~attached'[o]
    /\ \A p \in Streams \ {o} :
         /\ st'[p] = st[p] /\ cause'[p] = cause[p] /\ flow'[p] = flow[p]
         /\ socket'[p] = socket[p] /\ capacity'[p] = capacity[p]
         /\ attached'[p] = attached[p] /\ reported'[p] = reported[p]
    /\ AttachEffect(o) /\ ActiveEffect(o)

\* The first end wins and frees what the shared state owns; a later one finds
\* everything done.
LEMMA EndedFacts ==
  ASSUME TypeOK, NEW o \in Streams, Sound(o), st[o] # "None",
         NEW why \in Causes, why = "OrderlyEnd" => socket[o] = "relay", Ended(o, why)
  PROVE  /\ StateTypes' /\ EndFacts(o)
         /\ attachSlots' \in [Sessions -> Int] /\ activeSlots' \in [Sessions -> Int]
         /\ hostAttach' \in Int /\ hostActive' \in Int
  <1>0. Ses(o) \in Sessions
    BY StreamAssumption DEF Ses
  <1>00. StateTypes /\ SlotTypes /\ TaskTypes
    BY DEF TypeOK
  <1>1. CASE AlreadyEnded(o)
    <2>1. UNCHANGED <<stateVars, attachSlots, hostAttach, activeSlots, hostActive>>
      BY <1>1 DEF Ended
    <2>2. terminal(st[o])
      BY <1>1 DEF AlreadyEnded
    <2>3. socket[o] \in {"none", "task"} /\ capacity[o] \in {"none", "task"} /\ ~attached[o]
      BY <1>00, <2>2 DEF Sound, Kept, StateTypes, terminal, Refused
    <2>4. EndFacts(o)
      <3>1. AttachEffect(o) /\ ActiveEffect(o)
        BY <2>1 DEF AttachEffect, ActiveEffect, stateVars
      <3>2. st[o] \in Before \cup Refused => st[o] \in Refused
        BY <2>2 DEF terminal, Before, Refused
      <3> QED BY <2>1, <2>2, <2>3, <3>1, <3>2 DEF EndFacts, stateVars, Sound, Story
    <2> QED BY <1>00, <2>1, <2>4 DEF stateVars, StateTypes, SlotTypes
  <1>2. CASE ~AlreadyEnded(o)
    <2> DEFINE freed == IF capacity[o] = "state" THEN 1 ELSE 0
               given == ReleasedByEnd(o)
    <2>1. PICK final \in FinalCauses(o, why) :
            /\ st' = [st EXCEPT ![o] = EndState(@, final)]
            /\ cause' = [cause EXCEPT ![o] = final]
            /\ flow' = [flow EXCEPT ![o] = IF @ = "open" THEN "closed" ELSE @]
            /\ reported' = [reported EXCEPT ![o] = ReportedByEnd(o)]
            /\ socket' = [socket EXCEPT ![o] = IF @ = "task" THEN @ ELSE "none"]
            /\ capacity' = [capacity EXCEPT ![o] = IF @ = "task" THEN @ ELSE "none"]
            /\ activeSlots' = [activeSlots EXCEPT ![Ses(o)] = @ - freed]
            /\ hostActive' = hostActive - freed
            /\ attached' = [attached EXCEPT ![o] = FALSE]
            /\ attachSlots' = [attachSlots EXCEPT ![Ses(o)] = @ - given]
            /\ hostAttach' = hostAttach - given
      BY <1>2 DEF Ended
    <2>2. final \in Causes /\ (final = "OrderlyEnd" => socket[o] = "relay")
      BY DEF FinalCauses, Causes
    <2>3. ~terminal(st[o])
      BY <1>2 DEF AlreadyEnded
    <2>4. freed \in {0, 1} /\ given \in {0, 1}
      BY DEF ReleasedByEnd
    <2>5. /\ st'[o] = EndState(st[o], final) /\ cause'[o] = final
          /\ flow'[o] = (IF flow[o] = "open" THEN "closed" ELSE flow[o])
          /\ reported'[o] = ReportedByEnd(o)
          /\ socket'[o] = (IF socket[o] = "task" THEN "task" ELSE "none")
          /\ capacity'[o] = (IF capacity[o] = "task" THEN "task" ELSE "none")
          /\ attached'[o] = FALSE
      BY <1>00, <2>1 DEF StateTypes
    <2>6. /\ st'[o] \in {"Completed", "OutcomeUnknown"} \cup Refused
          /\ st[o] \in Committed => st'[o] \in {"Completed", "OutcomeUnknown"}
          /\ st[o] \in Before \cup Refused => st'[o] \in Refused
          /\ final = "OrderlyEnd" <=> st'[o] = "Completed"
      <3>1. socket[o] = "relay" => st[o] = "Dispatching"
        BY DEF Sound, Kept
      <3>2. st[o] \in Committed => st[o] = "Dispatching"
        BY <2>3 DEF Committed, terminal
      <3> QED BY <2>2, <2>5, <3>1, <3>2 DEF EndState, Before, Refused
    <2>7. reported'[o] = forwarded[o] /\ forwarded[o] \in Nat
      BY <1>00, <2>3, <2>5 DEF ReportedByEnd, Sound, Story, TaskTypes
    <2>8. StateTypes'
      <3>1. st' \in [Streams -> {"None", "Dispatching", "Completed", "OutcomeUnknown"}
                                  \cup Before \cup Refused]
        BY <1>00, <2>1, <2>5, <2>6 DEF StateTypes
      <3>2. cause' \in [Streams -> Causes \cup {"None"}]
        BY <1>00, <2>1, <2>2 DEF StateTypes
      <3>3. flow' \in [Streams -> {"none", "open", "closed", "late"}]
        BY <1>00, <2>1 DEF StateTypes
      <3>4. /\ socket' \in [Streams -> {"none", "task", "state", "relay"}]
            /\ capacity' \in [Streams -> {"none", "task", "state"}]
        BY <1>00, <2>1 DEF StateTypes
      <3>5. attached' \in [Streams -> BOOLEAN]
        BY <1>00, <2>1 DEF StateTypes
      <3>6. reported' \in [Streams -> Nat]
        BY <1>00, <2>1, <2>5, <2>7 DEF StateTypes
      <3> QED BY <3>1, <3>2, <3>3, <3>4, <3>5, <3>6 DEF StateTypes
    <2>9. \A p \in Streams \ {o} :
            /\ st'[p] = st[p] /\ cause'[p] = cause[p] /\ flow'[p] = flow[p]
            /\ socket'[p] = socket[p] /\ capacity'[p] = capacity[p]
            /\ attached'[p] = attached[p] /\ reported'[p] = reported[p]
      BY <1>00, <2>1 DEF StateTypes
    <2>10. AttachEffect(o)
      <3>1. CASE attached[o]
        BY <1>00, <2>1, <2>5, <3>1 DEF AttachEffect, ReleasedByEnd
      <3>2. CASE ~attached[o]
        <4>1. UNCHANGED <<attachSlots, hostAttach>>
          BY <1>0, <1>00, <2>1, <3>2 DEF SlotTypes, ReleasedByEnd
        <4>2. attached'[o] = attached[o]
          BY <1>00, <2>5, <3>2 DEF StateTypes
        <4> QED BY <4>1, <4>2 DEF AttachEffect
      <3> QED BY <3>1, <3>2
    <2>11. ActiveEffect(o)
      <3>1. CASE capacity[o] = "state"
        BY <2>1, <2>5, <3>1 DEF ActiveEffect
      <3>2. CASE capacity[o] # "state"
        <4>1. UNCHANGED <<activeSlots, hostActive>>
          BY <1>0, <1>00, <2>1, <3>2 DEF SlotTypes
        <4> QED BY <1>00, <2>5, <3>2, <4>1 DEF ActiveEffect, StateTypes
      <3> QED BY <3>1, <3>2
    <2>12. /\ attachSlots' \in [Sessions -> Int] /\ hostAttach' \in Int
           /\ activeSlots' \in [Sessions -> Int] /\ hostActive' \in Int
      <3> HIDE DEF freed, given
      <3>0. freed \in Int /\ given \in Int
        BY <2>4
      <3>1. attachSlots' \in [Sessions -> Int] /\ activeSlots' \in [Sessions -> Int]
        BY <1>00, <1>0, <2>1, <3>0, PoolType DEF SlotTypes
      <3>2. hostAttach' \in Int /\ hostActive' \in Int
        BY <1>00, <2>1, <3>0 DEF SlotTypes
      <3> QED BY <3>1, <3>2
    <2>13. flow'[o] \in {"none", "closed"}
      BY <2>3, <2>5 DEF Sound, Story
    <2>14. cause'[o] # "None"
      BY <2>2, <2>5 DEF Causes
    <2>15. terminal(st'[o]) /\ (st[o] \in Committed => st'[o] \in Committed)
      BY <2>6 DEF terminal, Committed
    <2>16. EndFacts(o)
      BY <2>5, <2>6, <2>7, <2>9, <2>10, <2>11, <2>13, <2>14, <2>15 DEF EndFacts
    <2> QED BY <2>8, <2>12, <2>16
  <1> QED BY <1>1, <1>2

\* Sound from EndFacts, once it is known where the owner goes and which calls
\* of finish remain.
LEMMA EndedSound ==
  ASSUME TypeOK, TypeOK', NEW o \in Streams, Sound(o), st[o] # "None", EndFacts(o),
         \/ pc'[o] = pc[o]
         \/ pc'[o] = "done" /\ pc[o] \in {"finishing", "polling"}
         \/ pc'[o] = "polling" /\ pc[o] = "finishing" /\ st[o] \in Committed,
         fin'[o] \subseteq fin[o],
         \A f \in fin'[o] : f.by \in {"owner", "relay"} => pc'[o] = pc[o],
         dialled'[o] = dialled[o], forwarded'[o] = forwarded[o]
  PROVE  Sound(o)'
  <1>1. st'[o] # "None"
    BY DEF EndFacts, terminal, Refused
  <1>2. Fresh(o)'
    BY <1>1 DEF Fresh
  <1>3. Placed(o)'
    <2>1. st[o] \in Committed \cup Before \cup Refused
      BY DEF TypeOK, StateTypes, Committed
    <2> QED BY <2>1 DEF Sound, Placed, EndFacts, Preparing, Connecting, Resting
  <1>4. Kept(o)'
    BY DEF Sound, Kept, EndFacts, Preparing, Connecting, Resting, Equipped
  <1>5. Story(o)'
    BY DEF Sound, Story, EndFacts
  <1>6. Ending(o)'
    BY DEF Sound, Ending, EndFacts
  <1> QED BY <1>2, <1>3, <1>4, <1>5, <1>6 DEF Sound

\* The second half of finish.
LEMMA FinishCallEffect ==
  ASSUME TypeOK, NEW o \in Streams, Sound(o), NEW f \in fin[o], FinishCall(o, f)
  PROVE  Effect(o)
  <1>00. /\ StateTypes /\ SlotTypes /\ TaskTypes /\ CallTypes /\ SessionTypes
    BY DEF TypeOK
  <1>1. /\ f \in Finishers /\ f.why \in Causes /\ f.why # "OrderlyEnd" /\ st[o] # "None"
    BY <1>00 DEF Sound, Ending, Fresh, CallTypes, Finishers
  <1>2. /\ StateTypes' /\ EndFacts(o)
        /\ attachSlots' \in [Sessions -> Int] /\ activeSlots' \in [Sessions -> Int]
        /\ hostAttach' \in Int /\ hostActive' \in Int
    BY <1>1, EndedFacts DEF FinishCall
  <1>3. /\ fin' = [fin EXCEPT ![o] = @ \ {f}] /\ tok' = [tok EXCEPT ![o] = TRUE]
        /\ pc' = [pc EXCEPT ![o] = IF f.by = "owner" THEN "done"
                                   ELSE IF f.by = "relay" THEN "polling" ELSE @]
        /\ UNCHANGED <<sessionVars, approvals, watch, late, dialled, forwarded, cancelling>>
    BY DEF FinishCall
  <1>4. TypeOK'
    <2>1. SessionTypes'
      BY <1>00, <1>3 DEF SessionTypes, sessionVars
    <2>2. SlotTypes'
      BY <1>00, <1>2, <1>3 DEF SlotTypes
    <2>3. TaskTypes'
      BY <1>00, <1>3 DEF TaskTypes, PCs
    <2>4. CallTypes'
      BY <1>00, <1>3 DEF CallTypes
    <2> QED BY <1>2, <2>1, <2>2, <2>3, <2>4 DEF TypeOK
  <1>5. /\ fin'[o] = fin[o] \ {f}
        /\ pc'[o] = (IF f.by = "owner" THEN "done"
                     ELSE IF f.by = "relay" THEN "polling" ELSE pc[o])
    BY <1>00, <1>3 DEF TaskTypes, CallTypes
  <1>6. /\ f.by \in {"owner", "relay"} => pc[o] = "finishing"
        /\ f.by = "relay" => st[o] \in Committed
        /\ \A g \in fin'[o] : g.by \in {"owner", "relay"} => f.by \notin {"owner", "relay"}
    BY <1>5 DEF Sound, Ending
  <1>7. Sound(o)'
    <2>1. \/ pc'[o] = pc[o]
          \/ pc'[o] = "done" /\ pc[o] \in {"finishing", "polling"}
          \/ pc'[o] = "polling" /\ pc[o] = "finishing" /\ st[o] \in Committed
      BY <1>5, <1>6
    <2>2. \A g \in fin'[o] : g.by \in {"owner", "relay"} => pc'[o] = pc[o]
      BY <1>5, <1>6
    <2> QED BY <1>1, <1>2, <1>3, <1>4, <1>5, <2>1, <2>2, EndedSound
  <1>8. \A p \in Streams \ {o} : Same(p)
    BY <1>00, <1>2, <1>3 DEF Same, EndFacts, TaskTypes, CallTypes
  <1>9. ApprovalEffect(o)
    BY <1>3, <1>5, <1>6 DEF ApprovalEffect
  <1>10. WalkEffect(o)
    BY <1>2 DEF WalkEffect, Live, EndFacts, terminal, Refused
  <1> QED BY <1>2, <1>4, <1>7, <1>8, <1>9, <1>10 DEF Effect, SlotEffect, EndFacts

\* The relay's own end and the watchdog's, with the state lock held.
LEMMA EndInPlace ==
  ASSUME TypeOK, NEW o \in Streams, Sound(o), PollEnd(o) \/ WatchTimeout(o)
  PROVE  Effect(o)
  <1>00. /\ StateTypes /\ SlotTypes /\ TaskTypes /\ CallTypes /\ SessionTypes
    BY DEF TypeOK
  <1>1. PICK why \in Causes :
          Ended(o, why) /\ (why = "OrderlyEnd" => socket[o] = "relay")
    BY DEF PollEnd, WatchTimeout, RelayCause, Causes
  <1>2. st[o] # "None"
    BY DEF PollEnd, WatchTimeout, Sound, Fresh, Resting
  <1>3. /\ StateTypes' /\ EndFacts(o)
        /\ attachSlots' \in [Sessions -> Int] /\ activeSlots' \in [Sessions -> Int]
        /\ hostAttach' \in Int /\ hostActive' \in Int
    BY <1>1, <1>2, EndedFacts
  <1>4. /\ tok' = [tok EXCEPT ![o] = TRUE]
        /\ UNCHANGED <<sessionVars, approvals, late, dialled, forwarded, fin, cancelling>>
        /\ \/ pc[o] = "polling" /\ pc' = [pc EXCEPT ![o] = "done"] /\ watch' = watch
           \/ pc' = pc /\ watch' = [watch EXCEPT ![o] = "done"]
    BY DEF PollEnd, WatchTimeout, Goto
  <1>5. TypeOK'
    <2>1. SessionTypes'
      BY <1>00, <1>4 DEF SessionTypes, sessionVars
    <2>2. SlotTypes'
      BY <1>00, <1>3, <1>4 DEF SlotTypes
    <2>3. TaskTypes'
      BY <1>00, <1>4 DEF TaskTypes, PCs
    <2>4. CallTypes'
      BY <1>00, <1>4 DEF CallTypes
    <2> QED BY <1>3, <2>1, <2>2, <2>3, <2>4 DEF TypeOK
  <1>6. pc'[o] = pc[o] \/ (pc'[o] = "done" /\ pc[o] = "polling")
    BY <1>00, <1>4 DEF TaskTypes
  <1>7. Sound(o)'
    <2>1. \A f \in fin'[o] : f.by \in {"owner", "relay"} => pc'[o] = pc[o]
      BY <1>4, <1>6 DEF Sound, Ending
    <2> QED BY <1>2, <1>3, <1>4, <1>5, <1>6, <2>1, EndedSound
  <1>8. \A p \in Streams \ {o} : Same(p)
    BY <1>00, <1>3, <1>4 DEF Same, EndFacts, TaskTypes
  <1>9. ApprovalEffect(o)
    BY <1>4, <1>6 DEF ApprovalEffect
  <1>10. WalkEffect(o)
    BY <1>3 DEF WalkEffect, Live, EndFacts, terminal, Refused
  <1> QED BY <1>3, <1>5, <1>7, <1>8, <1>9, <1>10 DEF Effect, SlotEffect, EndFacts

\* Calls of finish from outside, and the watchdog's for its session: only the
\* token and the pending call change.
LEMMA OutsideFinish ==
  ASSUME TypeOK, NEW o \in Streams, Sound(o), st[o] # "None",
         NEW by \in {"revoke", "cancel", "abort", "watch"},
         NEW why \in Causes \ {"OrderlyEnd"}, StartFinish(o, by, why),
         UNCHANGED <<stateVars, slotVars, late, pc, dialled, forwarded>>,
         watch' = watch \/ watch' = [watch EXCEPT ![o] = "done"],
         cancelling' \subseteq cancelling,
         \A p \in Streams \ {o} : p \in cancelling' <=> p \in cancelling,
         SessionTypes'
  PROVE  Effect(o)
  <1>00. /\ StateTypes /\ SlotTypes /\ TaskTypes /\ CallTypes
    BY DEF TypeOK
  <1> DEFINE call == [by |-> by, why |-> why]
  <1>1. tok' = [tok EXCEPT ![o] = TRUE] /\ fin' = [fin EXCEPT ![o] = @ \cup {call}]
    BY DEF StartFinish
  <1>2. call \in Finishers /\ call.by = by /\ call.why = why
    BY DEF Finishers
  <1> HIDE DEF call
  <1>3. TypeOK'
    <2>1. StateTypes' /\ SlotTypes'
      BY <1>00 DEF StateTypes, SlotTypes, stateVars, slotVars
    <2>2. TaskTypes'
      BY <1>00 DEF TaskTypes
    <2>3. tok' \in [Streams -> BOOLEAN]
      BY <1>00, <1>1 DEF CallTypes
    <2>4. fin' \in [Streams -> SUBSET Finishers]
      BY <1>00, <1>1, <1>2 DEF CallTypes
    <2>5. CallTypes'
      BY <1>00, <2>3, <2>4 DEF CallTypes
    <2> QED BY <2>1, <2>2, <2>5 DEF TypeOK
  <1>4. fin'[o] = fin[o] \cup {call}
    BY <1>00, <1>1 DEF CallTypes
  <1>5. Fresh(o)' /\ Placed(o)' /\ Kept(o)' /\ Story(o)'
    BY DEF Sound, Fresh, Placed, Kept, Story, stateVars
  <1>6. Ending(o)'
    BY <1>2, <1>4 DEF Sound, Ending, stateVars
  <1>7. \A p \in Streams \ {o} : Same(p)
    BY <1>00, <1>1 DEF Same, stateVars, TaskTypes, CallTypes
  <1>8. SlotEffect(o)
    BY DEF SlotEffect, AttachEffect, ActiveEffect, ApprovalEffect, stateVars, slotVars
  <1>9. WalkEffect(o)
    BY <1>4 DEF WalkEffect, Live, stateVars
  <1> QED BY <1>3, <1>5, <1>6, <1>7, <1>8, <1>9 DEF Effect, Sound
-----------------------------------------------------------------------------
(* The owner's steps *)

\* A submission, or a retry of one that has ended.
LEMMA StartEffect ==
  ASSUME TypeOK, NEW o \in Streams, Sound(o), Start(o)
  PROVE  Effect(o)
  <1>0. Ses(o) \in Sessions
    BY StreamAssumption DEF Ses
  <1>00. /\ StateTypes /\ SlotTypes /\ TaskTypes /\ CallTypes /\ SessionTypes
    BY DEF TypeOK
  <1>000. Start(o)
    OBVIOUS
  <1>1. SessionTypes' /\ CallTypes'
    BY <1>00, <1>000 DEF SessionTypes, CallTypes, sessionVars, callVars, Start, Goto
  <1>2. StateTypes'
    BY <1>00, <1>000 DEF StateTypes, Before, stateVars, Start, Goto
  <1>3. SlotTypes'
    BY <1>0, <1>00, <1>000 DEF SlotTypes, slotVars, Start, Goto
  <1>4. TaskTypes'
    BY <1>00, <1>000 DEF TaskTypes, PCs, Start, Goto
  <1>5. Fresh(o)' /\ Placed(o)'
    BY <1>00, <1>000
    DEF Sound, Fresh, Placed, Preparing, Connecting, Resting, Before, Refused, Committed,
        terminal, StateTypes, TaskTypes, CallTypes, stateVars, callVars, Start, Goto
  <1>6. Kept(o)'
    BY <1>00, <1>000
    DEF Sound, Fresh, Placed, Kept, Preparing, Connecting, Resting, Equipped, Before,
        Refused, Committed, terminal, StateTypes, TaskTypes, stateVars, Start, Goto
  <1>7. Story(o)'
    BY <1>00, <1>000
    DEF Sound, Fresh, Placed, Kept, Story, Equipped, Preparing, Connecting, Resting,
        Before, Refused, Committed, terminal, StateTypes, TaskTypes, stateVars, Start,
        Goto
  <1>8. Ending(o)'
    BY <1>00, <1>000
    DEF Sound, Fresh, Placed, Ending, Preparing, Connecting, Resting, Committed,
        StateTypes, TaskTypes, CallTypes, stateVars, callVars, Start, Goto
  <1>9. \A p \in Streams \ {o} : Same(p)
    BY <1>00, <1>000
    DEF Same, StateTypes, TaskTypes, CallTypes, stateVars, callVars, Start, Goto
  <1>10. SlotEffect(o)
    BY <1>0, <1>00, <1>000
    DEF SlotEffect, AttachEffect, ActiveEffect, ApprovalEffect, Sound, Fresh, Kept,
        Equipped, Preparing, StateTypes, SlotTypes, TaskTypes, stateVars, slotVars, Start,
        Goto
  <1>11. WalkEffect(o)
    BY <1>0, <1>00, <1>000
    DEF WalkEffect, Live, Check, Sound, Placed, Preparing, Before, Refused, Committed,
        terminal, StateTypes, CallTypes, stateVars, callVars, Start, Goto
  <1> QED BY <1>1, <1>2, <1>3, <1>4, <1>5, <1>6, <1>7, <1>8, <1>9, <1>10, <1>11
      DEF Effect, TypeOK, Sound

\* Admission tracks an operation nobody tracked, under authority.
LEMMA AdmitEffect ==
  ASSUME TypeOK, NEW o \in Streams, Sound(o), Admit(o)
  PROVE  Effect(o)
  <1>0. Ses(o) \in Sessions
    BY StreamAssumption DEF Ses
  <1>00. /\ StateTypes /\ SlotTypes /\ TaskTypes /\ CallTypes /\ SessionTypes
    BY DEF TypeOK
  <1>000. Admit(o)
    OBVIOUS
  <1>1. SessionTypes' /\ CallTypes'
    BY <1>00, <1>000
    DEF SessionTypes, CallTypes, sessionVars, callVars, Admit, Known, AdmitAuthority, Goto
  <1>2. StateTypes'
    BY <1>00, <1>000 DEF StateTypes, Before, stateVars, Admit, Known, AdmitAuthority, Goto
  <1>3. SlotTypes'
    BY <1>0, <1>00, <1>000 DEF SlotTypes, slotVars, Admit, Known, AdmitAuthority, Goto
  <1>4. TaskTypes'
    BY <1>00, <1>000 DEF TaskTypes, PCs, Admit, Known, AdmitAuthority, Goto
  <1>5. Fresh(o)' /\ Placed(o)'
    BY <1>00, <1>000
    DEF Sound, Fresh, Placed, Preparing, Connecting, Resting, Before, Refused, Committed,
        terminal, StateTypes, TaskTypes, CallTypes, stateVars, callVars, Admit, Known,
        AdmitAuthority, Goto
  <1>6. Kept(o)'
    BY <1>00, <1>000
    DEF Sound, Fresh, Placed, Kept, Preparing, Connecting, Resting, Equipped, Before,
        Refused, Committed, terminal, StateTypes, TaskTypes, stateVars, Admit, Known,
        AdmitAuthority, Goto
  <1>7. Story(o)'
    BY <1>00, <1>000
    DEF Sound, Fresh, Placed, Kept, Story, Equipped, Preparing, Connecting, Resting,
        Before, Refused, Committed, terminal, StateTypes, TaskTypes, stateVars, Admit,
        Known, AdmitAuthority, Goto
  <1>8. Ending(o)'
    BY <1>00, <1>000
    DEF Sound, Fresh, Placed, Ending, Preparing, Connecting, Resting, Committed,
        StateTypes, TaskTypes, CallTypes, stateVars, callVars, Admit, Known,
        AdmitAuthority, Goto
  <1>9. \A p \in Streams \ {o} : Same(p)
    BY <1>00, <1>000
    DEF Same, StateTypes, TaskTypes, CallTypes, stateVars, callVars, Admit, Known,
        AdmitAuthority, Goto
  <1>10. SlotEffect(o)
    <2>1. CASE st[o] = "None" /\ st'[o] = "Validated"
      BY <1>0, <1>00, <1>000, <2>1
      DEF SlotEffect, AttachEffect, ActiveEffect, ApprovalEffect, Sound, Fresh, Kept,
          Equipped, Preparing, StateTypes, SlotTypes, TaskTypes, stateVars, slotVars, Admit,
          Known, AdmitAuthority, Goto
    <2>2. CASE ~(st[o] = "None" /\ st'[o] = "Validated")
      BY <1>0, <1>00, <1>000, <2>2
      DEF SlotEffect, AttachEffect, ActiveEffect, ApprovalEffect, Sound, Fresh, Kept,
          Equipped, Preparing, StateTypes, SlotTypes, TaskTypes, stateVars, slotVars, Admit,
          Known, AdmitAuthority, Goto
    <2> QED BY <2>1, <2>2
  <1>11. WalkEffect(o)
    BY <1>0, <1>00, <1>000
    DEF WalkEffect, Live, Check, Sound, Placed, Preparing, Before, Refused, Committed,
        terminal, StateTypes, CallTypes, stateVars, callVars, Admit, Known,
        AdmitAuthority, Goto
  <1> QED BY <1>1, <1>2, <1>3, <1>4, <1>5, <1>6, <1>7, <1>8, <1>9, <1>10, <1>11
      DEF Effect, TypeOK, Sound

\* The flow is opened, or the preparation ends.
LEMMA BeginEffect ==
  ASSUME TypeOK, NEW o \in Streams, Sound(o), Begin(o)
  PROVE  Effect(o)
  <1>0. Ses(o) \in Sessions
    BY StreamAssumption DEF Ses
  <1>00. /\ StateTypes /\ SlotTypes /\ TaskTypes /\ CallTypes /\ SessionTypes
    BY DEF TypeOK
  <1>1. ASSUME NEW why \in Causes \ {"OrderlyEnd"}, OwnerFinish(o, "owner", why)
        PROVE  Effect(o)
    BY <1>1, OwnerFinished DEF Begin, Preparing
  <1> DEFINE Good ==
         /\ pc[o] = "pending" /\ Recordable(o) /\ Recorded(o)
         /\ pc' = [pc EXCEPT ![o] = IF o \in NeedsApproval THEN "reserve" ELSE "resolve"]
         /\ UNCHANGED <<sessionVars, cancelling, st, cause, socket, capacity, attached,
                        reported, slotVars, watch, late, dialled, forwarded, tok, fin>>
  <1>2. CASE Good
    <2>1. SessionTypes' /\ CallTypes'
      BY <1>00, <1>2
      DEF SessionTypes, CallTypes, sessionVars, callVars, Recordable, Recorded
    <2>2. StateTypes'
      BY <1>00, <1>2 DEF StateTypes, Before, stateVars, Recordable, Recorded
    <2>3. SlotTypes'
      BY <1>0, <1>00, <1>2 DEF SlotTypes, slotVars, Recordable, Recorded
    <2>4. TaskTypes'
      BY <1>00, <1>2 DEF TaskTypes, PCs, Recordable, Recorded
    <2>5. Fresh(o)' /\ Placed(o)'
      BY <1>00, <1>2
      DEF Sound, Fresh, Placed, Preparing, Connecting, Resting, Before, Refused,
          Committed, terminal, StateTypes, TaskTypes, CallTypes, stateVars, callVars,
          Recordable, Recorded
    <2>6. Kept(o)'
      BY <1>00, <1>2
      DEF Sound, Fresh, Placed, Kept, Preparing, Connecting, Resting, Equipped, Before,
          Refused, Committed, terminal, StateTypes, TaskTypes, stateVars, Recordable,
          Recorded
    <2>7. Story(o)'
      BY <1>00, <1>2
      DEF Sound, Fresh, Placed, Kept, Story, Equipped, Preparing, Connecting, Resting,
          Before, Refused, Committed, terminal, StateTypes, TaskTypes, stateVars,
          Recordable, Recorded
    <2>8. Ending(o)'
      BY <1>00, <1>2
      DEF Sound, Fresh, Placed, Ending, Preparing, Connecting, Resting, Committed,
          StateTypes, TaskTypes, CallTypes, stateVars, callVars, Recordable, Recorded
    <2>9. \A p \in Streams \ {o} : Same(p)
      BY <1>00, <1>2
      DEF Same, StateTypes, TaskTypes, CallTypes, stateVars, callVars, Recordable,
          Recorded
    <2>10. SlotEffect(o)
      BY <1>0, <1>00, <1>2
      DEF SlotEffect, AttachEffect, ActiveEffect, ApprovalEffect, Sound, Fresh, Kept,
          Equipped, Preparing, StateTypes, SlotTypes, TaskTypes, stateVars, slotVars,
          Recordable, Recorded
    <2>11. WalkEffect(o)
      BY <1>0, <1>00, <1>2
      DEF WalkEffect, Live, Check, Sound, Placed, Preparing, Before, Refused, Committed,
          terminal, StateTypes, CallTypes, stateVars, callVars, Recordable, Recorded
    <2> QED BY <2>1, <2>2, <2>3, <2>4, <2>5, <2>6, <2>7, <2>8, <2>9, <2>10, <2>11
        DEF Effect, TypeOK, Sound
  <1>3. Good \/ \E why \in Causes \ {"OrderlyEnd"} : OwnerFinish(o, "owner", why)
    BY DEF Begin, BlockedCause, Causes, Goto
  <1> QED BY <1>1, <1>2, <1>3

\* An approval is reserved, or the preparation ends.
LEMMA ReserveEffect ==
  ASSUME TypeOK, NEW o \in Streams, Sound(o), Reserve(o)
  PROVE  Effect(o)
  <1>0. Ses(o) \in Sessions
    BY StreamAssumption DEF Ses
  <1>00. /\ StateTypes /\ SlotTypes /\ TaskTypes /\ CallTypes /\ SessionTypes
    BY DEF TypeOK
  <1>1. ASSUME NEW why \in Causes \ {"OrderlyEnd"}, OwnerFinish(o, "owner", why)
        PROVE  Effect(o)
    BY <1>1, OwnerFinished DEF Reserve, Preparing
  <1> DEFINE Good ==
         /\ pc[o] = "reserve" /\ Recordable(o) /\ Recorded(o)
         /\ approvals[Ses(o)] < MaxApprovals
         /\ approvals' = [approvals EXCEPT ![Ses(o)] = @ + 1]
         /\ st' = [st EXCEPT ![o] = "PendingApproval"]
         /\ pc' = [pc EXCEPT ![o] = "approving"]
         /\ UNCHANGED <<sessionVars, cancelling, cause, socket, capacity, attached, reported,
                        attachSlots, hostAttach, activeSlots, hostActive, watch, late,
                        dialled, forwarded, tok, fin>>
  <1>2. CASE Good
    <2>1. SessionTypes' /\ CallTypes'
      BY <1>00, <1>2
      DEF SessionTypes, CallTypes, sessionVars, callVars, Recordable, Recorded
    <2>2. StateTypes'
      BY <1>00, <1>2 DEF StateTypes, Before, stateVars, Recordable, Recorded
    <2>3. SlotTypes'
      BY <1>0, <1>00, <1>2 DEF SlotTypes, slotVars, Recordable, Recorded
    <2>4. TaskTypes'
      BY <1>00, <1>2 DEF TaskTypes, PCs, Recordable, Recorded
    <2>5. Fresh(o)' /\ Placed(o)'
      BY <1>00, <1>2
      DEF Sound, Fresh, Placed, Preparing, Connecting, Resting, Before, Refused,
          Committed, terminal, StateTypes, TaskTypes, CallTypes, stateVars, callVars,
          Recordable, Recorded
    <2>6. Kept(o)'
      BY <1>00, <1>2
      DEF Sound, Fresh, Placed, Kept, Preparing, Connecting, Resting, Equipped, Before,
          Refused, Committed, terminal, StateTypes, TaskTypes, stateVars, Recordable,
          Recorded
    <2>7. Story(o)'
      BY <1>00, <1>2
      DEF Sound, Fresh, Placed, Kept, Story, Equipped, Preparing, Connecting, Resting,
          Before, Refused, Committed, terminal, StateTypes, TaskTypes, stateVars,
          Recordable, Recorded
    <2>8. Ending(o)'
      BY <1>00, <1>2
      DEF Sound, Fresh, Placed, Ending, Preparing, Connecting, Resting, Committed,
          StateTypes, TaskTypes, CallTypes, stateVars, callVars, Recordable, Recorded
    <2>9. \A p \in Streams \ {o} : Same(p)
      BY <1>00, <1>2
      DEF Same, StateTypes, TaskTypes, CallTypes, stateVars, callVars, Recordable,
          Recorded
    <2>10. SlotEffect(o)
      BY <1>0, <1>00, <1>2
      DEF SlotEffect, AttachEffect, ActiveEffect, ApprovalEffect, Sound, Fresh, Kept,
          Equipped, Preparing, StateTypes, SlotTypes, TaskTypes, stateVars, slotVars,
          Recordable, Recorded
    <2>11. WalkEffect(o)
      BY <1>0, <1>00, <1>2
      DEF WalkEffect, Live, Check, Sound, Placed, Preparing, Before, Refused, Committed,
          terminal, StateTypes, CallTypes, stateVars, callVars, Recordable, Recorded
    <2> QED BY <2>1, <2>2, <2>3, <2>4, <2>5, <2>6, <2>7, <2>8, <2>9, <2>10, <2>11
        DEF Effect, TypeOK, Sound
  <1>3. Good \/ \E why \in Causes \ {"OrderlyEnd"} : OwnerFinish(o, "owner", why)
    BY DEF Reserve, Causes, Goto
  <1> QED BY <1>1, <1>2, <1>3

\* A human approves.
LEMMA ApprovedEffect ==
  ASSUME TypeOK, NEW o \in Streams, Sound(o), Approved(o)
  PROVE  Effect(o)
  <1>0. Ses(o) \in Sessions
    BY StreamAssumption DEF Ses
  <1>00. /\ StateTypes /\ SlotTypes /\ TaskTypes /\ CallTypes /\ SessionTypes
    BY DEF TypeOK
  <1>000. Approved(o)
    OBVIOUS
  <1>1. SessionTypes' /\ CallTypes'
    BY <1>00, <1>000 DEF SessionTypes, CallTypes, sessionVars, callVars, Approved, Goto
  <1>2. StateTypes'
    BY <1>00, <1>000 DEF StateTypes, Before, stateVars, Approved, Goto
  <1>3. SlotTypes'
    BY <1>0, <1>00, <1>000 DEF SlotTypes, slotVars, Approved, Goto
  <1>4. TaskTypes'
    BY <1>00, <1>000 DEF TaskTypes, PCs, Approved, Goto
  <1>5. Fresh(o)' /\ Placed(o)'
    BY <1>00, <1>000
    DEF Sound, Fresh, Placed, Preparing, Connecting, Resting, Before, Refused, Committed,
        terminal, StateTypes, TaskTypes, CallTypes, stateVars, callVars, Approved, Goto
  <1>6. Kept(o)'
    BY <1>00, <1>000
    DEF Sound, Fresh, Placed, Kept, Preparing, Connecting, Resting, Equipped, Before,
        Refused, Committed, terminal, StateTypes, TaskTypes, stateVars, Approved, Goto
  <1>7. Story(o)'
    BY <1>00, <1>000
    DEF Sound, Fresh, Placed, Kept, Story, Equipped, Preparing, Connecting, Resting,
        Before, Refused, Committed, terminal, StateTypes, TaskTypes, stateVars, Approved,
        Goto
  <1>8. Ending(o)'
    BY <1>00, <1>000
    DEF Sound, Fresh, Placed, Ending, Preparing, Connecting, Resting, Committed,
        StateTypes, TaskTypes, CallTypes, stateVars, callVars, Approved, Goto
  <1>9. \A p \in Streams \ {o} : Same(p)
    BY <1>00, <1>000
    DEF Same, StateTypes, TaskTypes, CallTypes, stateVars, callVars, Approved, Goto
  <1>10. SlotEffect(o)
    BY <1>0, <1>00, <1>000
    DEF SlotEffect, AttachEffect, ActiveEffect, ApprovalEffect, Sound, Fresh, Kept,
        Equipped, Preparing, StateTypes, SlotTypes, TaskTypes, stateVars, slotVars,
        Approved, Goto
  <1>11. WalkEffect(o)
    BY <1>0, <1>00, <1>000
    DEF WalkEffect, Live, Check, Sound, Placed, Preparing, Before, Refused, Committed,
        terminal, StateTypes, CallTypes, stateVars, callVars, Approved, Goto
  <1> QED BY <1>1, <1>2, <1>3, <1>4, <1>5, <1>6, <1>7, <1>8, <1>9, <1>10, <1>11
      DEF Effect, TypeOK, Sound

\* The connection's permits are taken, or the preparation ends.
LEMMA AcquireEffect ==
  ASSUME TypeOK, NEW o \in Streams, Sound(o), Acquire(o)
  PROVE  Effect(o)
  <1>0. Ses(o) \in Sessions
    BY StreamAssumption DEF Ses
  <1>00. /\ StateTypes /\ SlotTypes /\ TaskTypes /\ CallTypes /\ SessionTypes
    BY DEF TypeOK
  <1>1. ASSUME NEW why \in Causes \ {"OrderlyEnd"}, OwnerFinish(o, "owner", why)
        PROVE  Effect(o)
    BY <1>1, OwnerFinished DEF Acquire, Preparing
  <1> DEFINE Good ==
         /\ pc[o] = "resolve" /\ HasCapacity(o)
         /\ capacity' = [capacity EXCEPT ![o] = "task"]
         /\ activeSlots' = [activeSlots EXCEPT ![Ses(o)] = @ + 1]
         /\ hostActive' = hostActive + 1
         /\ pc' = [pc EXCEPT ![o] = "ready"]
         /\ UNCHANGED <<sessionVars, cancelling, st, cause, flow, socket, attached, reported,
                        attachSlots, hostAttach, approvals, watch, late, dialled,
                        forwarded, tok, fin>>
  <1>2. CASE Good
    <2>1. SessionTypes' /\ CallTypes'
      BY <1>00, <1>2 DEF SessionTypes, CallTypes, sessionVars, callVars, HasCapacity
    <2>2. StateTypes'
      BY <1>00, <1>2 DEF StateTypes, Before, stateVars, HasCapacity
    <2>3. SlotTypes'
      BY <1>0, <1>00, <1>2 DEF SlotTypes, slotVars, HasCapacity
    <2>4. TaskTypes'
      BY <1>00, <1>2 DEF TaskTypes, PCs, HasCapacity
    <2>5. Fresh(o)' /\ Placed(o)'
      BY <1>00, <1>2
      DEF Sound, Fresh, Placed, Preparing, Connecting, Resting, Before, Refused,
          Committed, terminal, StateTypes, TaskTypes, CallTypes, stateVars, callVars,
          HasCapacity
    <2>6. Kept(o)'
      BY <1>00, <1>2
      DEF Sound, Fresh, Placed, Kept, Preparing, Connecting, Resting, Equipped, Before,
          Refused, Committed, terminal, StateTypes, TaskTypes, stateVars, HasCapacity
    <2>7. Story(o)'
      BY <1>00, <1>2
      DEF Sound, Fresh, Placed, Kept, Story, Equipped, Preparing, Connecting, Resting,
          Before, Refused, Committed, terminal, StateTypes, TaskTypes, stateVars,
          HasCapacity
    <2>8. Ending(o)'
      BY <1>00, <1>2
      DEF Sound, Fresh, Placed, Ending, Preparing, Connecting, Resting, Committed,
          StateTypes, TaskTypes, CallTypes, stateVars, callVars, HasCapacity
    <2>9. \A p \in Streams \ {o} : Same(p)
      BY <1>00, <1>2
      DEF Same, StateTypes, TaskTypes, CallTypes, stateVars, callVars, HasCapacity
    <2>10. SlotEffect(o)
      BY <1>0, <1>00, <1>2
      DEF SlotEffect, AttachEffect, ActiveEffect, ApprovalEffect, Sound, Fresh, Kept,
          Equipped, Preparing, StateTypes, SlotTypes, TaskTypes, stateVars, slotVars,
          HasCapacity
    <2>11. WalkEffect(o)
      BY <1>0, <1>00, <1>2
      DEF WalkEffect, Live, Check, Sound, Placed, Preparing, Before, Refused, Committed,
          terminal, StateTypes, CallTypes, stateVars, callVars, HasCapacity
    <2> QED BY <2>1, <2>2, <2>3, <2>4, <2>5, <2>6, <2>7, <2>8, <2>9, <2>10, <2>11
        DEF Effect, TypeOK, Sound
  <1>3. Good \/ \E why \in Causes \ {"OrderlyEnd"} : OwnerFinish(o, "owner", why)
    BY DEF Acquire, BlockedCause, Causes, Goto
  <1> QED BY <1>1, <1>2, <1>3

\* The operation is Ready, or the preparation ends.
LEMMA MakeReadyEffect ==
  ASSUME TypeOK, NEW o \in Streams, Sound(o), MakeReady(o)
  PROVE  Effect(o)
  <1>0. Ses(o) \in Sessions
    BY StreamAssumption DEF Ses
  <1>00. /\ StateTypes /\ SlotTypes /\ TaskTypes /\ CallTypes /\ SessionTypes
    BY DEF TypeOK
  <1>1. ASSUME NEW why \in Causes \ {"OrderlyEnd"}, OwnerFinish(o, "owner", why)
        PROVE  Effect(o)
    BY <1>1, OwnerFinished DEF MakeReady, Preparing
  <1> DEFINE Good ==
         /\ pc[o] = "ready" /\ Recordable(o)
         /\ st' = [st EXCEPT ![o] = "Ready"]
         /\ pc' = [pc EXCEPT ![o] = "record"]
         /\ UNCHANGED <<sessionVars, cancelling, cause, flow, socket, capacity, attached,
                        reported, slotVars, watch, late, dialled, forwarded, tok, fin>>
  <1>2. CASE Good
    <2>1. SessionTypes' /\ CallTypes'
      BY <1>00, <1>2 DEF SessionTypes, CallTypes, sessionVars, callVars, Recordable
    <2>2. StateTypes'
      BY <1>00, <1>2 DEF StateTypes, Before, stateVars, Recordable
    <2>3. SlotTypes'
      BY <1>0, <1>00, <1>2 DEF SlotTypes, slotVars, Recordable
    <2>4. TaskTypes'
      BY <1>00, <1>2 DEF TaskTypes, PCs, Recordable
    <2>5. Fresh(o)' /\ Placed(o)'
      BY <1>00, <1>2
      DEF Sound, Fresh, Placed, Preparing, Connecting, Resting, Before, Refused,
          Committed, terminal, StateTypes, TaskTypes, CallTypes, stateVars, callVars,
          Recordable
    <2>6. Kept(o)'
      BY <1>00, <1>2
      DEF Sound, Fresh, Placed, Kept, Preparing, Connecting, Resting, Equipped, Before,
          Refused, Committed, terminal, StateTypes, TaskTypes, stateVars, Recordable
    <2>7. Story(o)'
      BY <1>00, <1>2
      DEF Sound, Fresh, Placed, Kept, Story, Equipped, Preparing, Connecting, Resting,
          Before, Refused, Committed, terminal, StateTypes, TaskTypes, stateVars,
          Recordable
    <2>8. Ending(o)'
      BY <1>00, <1>2
      DEF Sound, Fresh, Placed, Ending, Preparing, Connecting, Resting, Committed,
          StateTypes, TaskTypes, CallTypes, stateVars, callVars, Recordable
    <2>9. \A p \in Streams \ {o} : Same(p)
      BY <1>00, <1>2
      DEF Same, StateTypes, TaskTypes, CallTypes, stateVars, callVars, Recordable
    <2>10. SlotEffect(o)
      BY <1>0, <1>00, <1>2
      DEF SlotEffect, AttachEffect, ActiveEffect, ApprovalEffect, Sound, Fresh, Kept,
          Equipped, Preparing, StateTypes, SlotTypes, TaskTypes, stateVars, slotVars,
          Recordable
    <2>11. WalkEffect(o)
      BY <1>0, <1>00, <1>2
      DEF WalkEffect, Live, Check, Sound, Placed, Preparing, Before, Refused, Committed,
          terminal, StateTypes, CallTypes, stateVars, callVars, Recordable
    <2> QED BY <2>1, <2>2, <2>3, <2>4, <2>5, <2>6, <2>7, <2>8, <2>9, <2>10, <2>11
        DEF Effect, TypeOK, Sound
  <1>3. Good \/ \E why \in Causes \ {"OrderlyEnd"} : OwnerFinish(o, "owner", why)
    BY DEF MakeReady, BlockedCause, Causes, Goto
  <1> QED BY <1>1, <1>2, <1>3

\* The decision is recorded, or the preparation ends.
LEMMA RecordAllowEffect ==
  ASSUME TypeOK, NEW o \in Streams, Sound(o), RecordAllow(o)
  PROVE  Effect(o)
  <1>0. Ses(o) \in Sessions
    BY StreamAssumption DEF Ses
  <1>00. /\ StateTypes /\ SlotTypes /\ TaskTypes /\ CallTypes /\ SessionTypes
    BY DEF TypeOK
  <1>1. ASSUME NEW why \in Causes \ {"OrderlyEnd"}, OwnerFinish(o, "owner", why)
        PROVE  Effect(o)
    BY <1>1, OwnerFinished DEF RecordAllow, Preparing
  <1> DEFINE Good ==
         /\ pc[o] = "record" /\ Recordable(o) /\ Recorded(o)
         /\ pc' = [pc EXCEPT ![o] = "commit"]
         /\ UNCHANGED <<sessionVars, cancelling, st, cause, socket, capacity, attached,
                        reported, slotVars, watch, late, dialled, forwarded, tok, fin>>
  <1>2. CASE Good
    <2>1. SessionTypes' /\ CallTypes'
      BY <1>00, <1>2
      DEF SessionTypes, CallTypes, sessionVars, callVars, Recordable, Recorded
    <2>2. StateTypes'
      BY <1>00, <1>2 DEF StateTypes, Before, stateVars, Recordable, Recorded
    <2>3. SlotTypes'
      BY <1>0, <1>00, <1>2 DEF SlotTypes, slotVars, Recordable, Recorded
    <2>4. TaskTypes'
      BY <1>00, <1>2 DEF TaskTypes, PCs, Recordable, Recorded
    <2>5. Fresh(o)' /\ Placed(o)'
      BY <1>00, <1>2
      DEF Sound, Fresh, Placed, Preparing, Connecting, Resting, Before, Refused,
          Committed, terminal, StateTypes, TaskTypes, CallTypes, stateVars, callVars,
          Recordable, Recorded
    <2>6. Kept(o)'
      BY <1>00, <1>2
      DEF Sound, Fresh, Placed, Kept, Preparing, Connecting, Resting, Equipped, Before,
          Refused, Committed, terminal, StateTypes, TaskTypes, stateVars, Recordable,
          Recorded
    <2>7. Story(o)'
      BY <1>00, <1>2
      DEF Sound, Fresh, Placed, Kept, Story, Equipped, Preparing, Connecting, Resting,
          Before, Refused, Committed, terminal, StateTypes, TaskTypes, stateVars,
          Recordable, Recorded
    <2>8. Ending(o)'
      BY <1>00, <1>2
      DEF Sound, Fresh, Placed, Ending, Preparing, Connecting, Resting, Committed,
          StateTypes, TaskTypes, CallTypes, stateVars, callVars, Recordable, Recorded
    <2>9. \A p \in Streams \ {o} : Same(p)
      BY <1>00, <1>2
      DEF Same, StateTypes, TaskTypes, CallTypes, stateVars, callVars, Recordable,
          Recorded
    <2>10. SlotEffect(o)
      BY <1>0, <1>00, <1>2
      DEF SlotEffect, AttachEffect, ActiveEffect, ApprovalEffect, Sound, Fresh, Kept,
          Equipped, Preparing, StateTypes, SlotTypes, TaskTypes, stateVars, slotVars,
          Recordable, Recorded
    <2>11. WalkEffect(o)
      BY <1>0, <1>00, <1>2
      DEF WalkEffect, Live, Check, Sound, Placed, Preparing, Before, Refused, Committed,
          terminal, StateTypes, CallTypes, stateVars, callVars, Recordable, Recorded
    <2> QED BY <2>1, <2>2, <2>3, <2>4, <2>5, <2>6, <2>7, <2>8, <2>9, <2>10, <2>11
        DEF Effect, TypeOK, Sound
  <1>3. Good \/ \E why \in Causes \ {"OrderlyEnd"} : OwnerFinish(o, "owner", why)
    BY DEF RecordAllow, Causes, Goto
  <1> QED BY <1>1, <1>2, <1>3

\* The dial is committed, or the preparation ends.
LEMMA CommitDispatchEffect ==
  ASSUME TypeOK, NEW o \in Streams, Sound(o), CommitDispatch(o)
  PROVE  Effect(o)
  <1>0. Ses(o) \in Sessions
    BY StreamAssumption DEF Ses
  <1>00. /\ StateTypes /\ SlotTypes /\ TaskTypes /\ CallTypes /\ SessionTypes
    BY DEF TypeOK
  <1>1. ASSUME NEW why \in Causes \ {"OrderlyEnd"}, OwnerFinish(o, "owner", why)
        PROVE  Effect(o)
    BY <1>1, OwnerFinished DEF CommitDispatch, Preparing
  <1> DEFINE Good ==
         /\ pc[o] = "commit" /\ st[o] = "Ready"
         /\ st' = [st EXCEPT ![o] = "Dispatching"]
         /\ pc' = [pc EXCEPT ![o] = "dial"]
         /\ UNCHANGED <<sessionVars, cancelling, cause, flow, socket, capacity, attached,
                        reported, slotVars, watch, late, dialled, forwarded, tok, fin>>
  <1>2. CASE Good
    <2>1. SessionTypes' /\ CallTypes'
      BY <1>00, <1>2 DEF SessionTypes, CallTypes, sessionVars, callVars
    <2>2. StateTypes'
      BY <1>00, <1>2 DEF StateTypes, Before, stateVars
    <2>3. SlotTypes'
      BY <1>0, <1>00, <1>2 DEF SlotTypes, slotVars
    <2>4. TaskTypes'
      BY <1>00, <1>2 DEF TaskTypes, PCs
    <2>5. Fresh(o)' /\ Placed(o)'
      BY <1>00, <1>2
      DEF Sound, Fresh, Placed, Preparing, Connecting, Resting, Before, Refused,
          Committed, terminal, StateTypes, TaskTypes, CallTypes, stateVars, callVars
    <2>6. Kept(o)'
      BY <1>00, <1>2
      DEF Sound, Fresh, Placed, Kept, Preparing, Connecting, Resting, Equipped, Before,
          Refused, Committed, terminal, StateTypes, TaskTypes, stateVars
    <2>7. Story(o)'
      BY <1>00, <1>2
      DEF Sound, Fresh, Placed, Kept, Story, Equipped, Preparing, Connecting, Resting,
          Before, Refused, Committed, terminal, StateTypes, TaskTypes, stateVars
    <2>8. Ending(o)'
      BY <1>00, <1>2
      DEF Sound, Fresh, Placed, Ending, Preparing, Connecting, Resting, Committed,
          StateTypes, TaskTypes, CallTypes, stateVars, callVars
    <2>9. \A p \in Streams \ {o} : Same(p)
      BY <1>00, <1>2 DEF Same, StateTypes, TaskTypes, CallTypes, stateVars, callVars
    <2>10. SlotEffect(o)
      BY <1>0, <1>00, <1>2
      DEF SlotEffect, AttachEffect, ActiveEffect, ApprovalEffect, Sound, Fresh, Kept,
          Equipped, Preparing, StateTypes, SlotTypes, TaskTypes, stateVars, slotVars
    <2>11. WalkEffect(o)
      BY <1>0, <1>00, <1>2
      DEF WalkEffect, Live, Check, Sound, Placed, Preparing, Before, Refused, Committed,
          terminal, StateTypes, CallTypes, stateVars, callVars
    <2> QED BY <2>1, <2>2, <2>3, <2>4, <2>5, <2>6, <2>7, <2>8, <2>9, <2>10, <2>11
        DEF Effect, TypeOK, Sound
  <1>3. Good \/ \E why \in Causes \ {"OrderlyEnd"} : OwnerFinish(o, "owner", why)
    BY DEF CommitDispatch, MayDial, BlockedCause, Causes, Goto
  <1> QED BY <1>1, <1>2, <1>3

\* The connector is called.
LEMMA DialEffect ==
  ASSUME TypeOK, NEW o \in Streams, Sound(o), Dial(o)
  PROVE  Effect(o)
  <1>0. Ses(o) \in Sessions
    BY StreamAssumption DEF Ses
  <1>00. /\ StateTypes /\ SlotTypes /\ TaskTypes /\ CallTypes /\ SessionTypes
    BY DEF TypeOK
  <1>000. Dial(o)
    OBVIOUS
  <1>1. SessionTypes' /\ CallTypes'
    BY <1>00, <1>000 DEF SessionTypes, CallTypes, sessionVars, callVars, Dial, Goto
  <1>2. StateTypes'
    BY <1>00, <1>000 DEF StateTypes, Before, stateVars, Dial, Goto
  <1>3. SlotTypes'
    BY <1>0, <1>00, <1>000 DEF SlotTypes, slotVars, Dial, Goto
  <1>4. TaskTypes'
    BY <1>00, <1>000 DEF TaskTypes, PCs, Dial, Goto
  <1>5. Fresh(o)' /\ Placed(o)'
    BY <1>00, <1>000
    DEF Sound, Fresh, Placed, Preparing, Connecting, Resting, Before, Refused, Committed,
        terminal, StateTypes, TaskTypes, CallTypes, stateVars, callVars, Dial, Goto
  <1>6. Kept(o)'
    BY <1>00, <1>000
    DEF Sound, Fresh, Placed, Kept, Preparing, Connecting, Resting, Equipped, Before,
        Refused, Committed, terminal, StateTypes, TaskTypes, stateVars, Dial, Goto
  <1>7. Story(o)'
    BY <1>00, <1>000
    DEF Sound, Fresh, Placed, Kept, Story, Equipped, Preparing, Connecting, Resting,
        Before, Refused, Committed, terminal, StateTypes, TaskTypes, stateVars, Dial, Goto
  <1>8. Ending(o)'
    BY <1>00, <1>000
    DEF Sound, Fresh, Placed, Ending, Preparing, Connecting, Resting, Committed,
        StateTypes, TaskTypes, CallTypes, stateVars, callVars, Dial, Goto
  <1>9. \A p \in Streams \ {o} : Same(p)
    BY <1>00, <1>000
    DEF Same, StateTypes, TaskTypes, CallTypes, stateVars, callVars, Dial, Goto
  <1>10. SlotEffect(o)
    BY <1>0, <1>00, <1>000
    DEF SlotEffect, AttachEffect, ActiveEffect, ApprovalEffect, Sound, Fresh, Kept,
        Equipped, Preparing, StateTypes, SlotTypes, TaskTypes, stateVars, slotVars, Dial,
        Goto
  <1>11. WalkEffect(o)
    BY <1>0, <1>00, <1>000
    DEF WalkEffect, Live, Check, Sound, Placed, Preparing, Before, Refused, Committed,
        terminal, StateTypes, CallTypes, stateVars, callVars, Dial, Goto
  <1> QED BY <1>1, <1>2, <1>3, <1>4, <1>5, <1>6, <1>7, <1>8, <1>9, <1>10, <1>11
      DEF Effect, TypeOK, Sound

\* The connector answers in time, or the preparation ends.
LEMMA DialledEffect ==
  ASSUME TypeOK, NEW o \in Streams, Sound(o), Dialled(o)
  PROVE  Effect(o)
  <1>0. Ses(o) \in Sessions
    BY StreamAssumption DEF Ses
  <1>00. /\ StateTypes /\ SlotTypes /\ TaskTypes /\ CallTypes /\ SessionTypes
    BY DEF TypeOK
  <1>1. ASSUME NEW why \in Causes \ {"OrderlyEnd"}, OwnerFinish(o, "owner", why)
        PROVE  Effect(o)
    BY <1>1, OwnerFinished DEF Dialled, Preparing
  <1> DEFINE Good ==
         /\ pc[o] = "dialing" /\ ~terminal(st[o])
         /\ socket' = [socket EXCEPT ![o] = "task"]
         /\ pc' = [pc EXCEPT ![o] = "install"]
         /\ UNCHANGED <<sessionVars, cancelling, st, cause, flow, capacity, attached,
                        reported, slotVars, watch, late, dialled, forwarded, tok, fin>>
  <1>2. CASE Good
    <2>1. SessionTypes' /\ CallTypes'
      BY <1>00, <1>2 DEF SessionTypes, CallTypes, sessionVars, callVars
    <2>2. StateTypes'
      BY <1>00, <1>2 DEF StateTypes, Before, stateVars
    <2>3. SlotTypes'
      BY <1>0, <1>00, <1>2 DEF SlotTypes, slotVars
    <2>4. TaskTypes'
      BY <1>00, <1>2 DEF TaskTypes, PCs
    <2>5. Fresh(o)' /\ Placed(o)'
      BY <1>00, <1>2
      DEF Sound, Fresh, Placed, Preparing, Connecting, Resting, Before, Refused,
          Committed, terminal, StateTypes, TaskTypes, CallTypes, stateVars, callVars
    <2>6. Kept(o)'
      BY <1>00, <1>2
      DEF Sound, Fresh, Placed, Kept, Preparing, Connecting, Resting, Equipped, Before,
          Refused, Committed, terminal, StateTypes, TaskTypes, stateVars
    <2>7. Story(o)'
      BY <1>00, <1>2
      DEF Sound, Fresh, Placed, Kept, Story, Equipped, Preparing, Connecting, Resting,
          Before, Refused, Committed, terminal, StateTypes, TaskTypes, stateVars
    <2>8. Ending(o)'
      BY <1>00, <1>2
      DEF Sound, Fresh, Placed, Ending, Preparing, Connecting, Resting, Committed,
          StateTypes, TaskTypes, CallTypes, stateVars, callVars
    <2>9. \A p \in Streams \ {o} : Same(p)
      BY <1>00, <1>2 DEF Same, StateTypes, TaskTypes, CallTypes, stateVars, callVars
    <2>10. SlotEffect(o)
      BY <1>0, <1>00, <1>2
      DEF SlotEffect, AttachEffect, ActiveEffect, ApprovalEffect, Sound, Fresh, Kept,
          Equipped, Preparing, StateTypes, SlotTypes, TaskTypes, stateVars, slotVars
    <2>11. WalkEffect(o)
      BY <1>0, <1>00, <1>2
      DEF WalkEffect, Live, Check, Sound, Placed, Preparing, Before, Refused, Committed,
          terminal, StateTypes, CallTypes, stateVars, callVars
    <2> QED BY <2>1, <2>2, <2>3, <2>4, <2>5, <2>6, <2>7, <2>8, <2>9, <2>10, <2>11
        DEF Effect, TypeOK, Sound
  <1>3. Good \/ \E why \in Causes \ {"OrderlyEnd"} : OwnerFinish(o, "owner", why)
    BY DEF Dialled, Blocked, BlockedCause, Causes, Goto
  <1> QED BY <1>1, <1>2, <1>3

\* Socket and permits move into the shared state, or everything is dropped.
LEMMA InstallEffect ==
  ASSUME TypeOK, NEW o \in Streams, Sound(o), Install(o)
  PROVE  Effect(o)
  <1>0. Ses(o) \in Sessions
    BY StreamAssumption DEF Ses
  <1>00. /\ StateTypes /\ SlotTypes /\ TaskTypes /\ CallTypes /\ SessionTypes
    BY DEF TypeOK
  <1>1. ASSUME NEW why \in Causes \ {"OrderlyEnd"}, OwnerFinish(o, "owner", why)
        PROVE  Effect(o)
    BY <1>1, OwnerFinished DEF Install, Preparing
  <1> DEFINE Good ==
         /\ pc[o] = "install" /\ ~terminal(st[o])
         /\ socket' = [socket EXCEPT ![o] = "state"]
         /\ capacity' = [capacity EXCEPT ![o] = "state"]
         /\ attached' = [attached EXCEPT ![o] = FALSE]
         /\ attachSlots' = [attachSlots EXCEPT ![Ses(o)] = @ - ReleasedByEnd(o)]
         /\ hostAttach' = hostAttach - ReleasedByEnd(o)
         /\ watch' = [watch EXCEPT ![o] = "on"]
         /\ pc' = [pc EXCEPT ![o] = "connected"]
         /\ UNCHANGED <<sessionVars, cancelling, st, cause, flow, reported, activeSlots,
                        hostActive, approvals, late, dialled, forwarded, tok, fin>>
  <1>2. CASE Good
    <2>1. SessionTypes' /\ CallTypes'
      BY <1>00, <1>2 DEF SessionTypes, CallTypes, sessionVars, callVars, ReleasedByEnd
    <2>2. StateTypes'
      BY <1>00, <1>2 DEF StateTypes, Before, stateVars, ReleasedByEnd
    <2>3. SlotTypes'
      BY <1>0, <1>00, <1>2 DEF SlotTypes, slotVars, ReleasedByEnd
    <2>4. TaskTypes'
      BY <1>00, <1>2 DEF TaskTypes, PCs, ReleasedByEnd
    <2>5. Fresh(o)' /\ Placed(o)'
      BY <1>00, <1>2
      DEF Sound, Fresh, Placed, Preparing, Connecting, Resting, Before, Refused,
          Committed, terminal, StateTypes, TaskTypes, CallTypes, stateVars, callVars,
          ReleasedByEnd
    <2>6. Kept(o)'
      BY <1>00, <1>2
      DEF Sound, Fresh, Placed, Kept, Preparing, Connecting, Resting, Equipped, Before,
          Refused, Committed, terminal, StateTypes, TaskTypes, stateVars, ReleasedByEnd
    <2>7. Story(o)'
      BY <1>00, <1>2
      DEF Sound, Fresh, Placed, Kept, Story, Equipped, Preparing, Connecting, Resting,
          Before, Refused, Committed, terminal, StateTypes, TaskTypes, stateVars,
          ReleasedByEnd
    <2>8. Ending(o)'
      BY <1>00, <1>2
      DEF Sound, Fresh, Placed, Ending, Preparing, Connecting, Resting, Committed,
          StateTypes, TaskTypes, CallTypes, stateVars, callVars, ReleasedByEnd
    <2>9. \A p \in Streams \ {o} : Same(p)
      BY <1>00, <1>2
      DEF Same, StateTypes, TaskTypes, CallTypes, stateVars, callVars, ReleasedByEnd
    <2>10. SlotEffect(o)
      <3>1. CASE attached[o]
        BY <1>0, <1>00, <1>2, <3>1
        DEF SlotEffect, AttachEffect, ActiveEffect, ApprovalEffect, Sound, Fresh, Kept,
            Equipped, Preparing, StateTypes, SlotTypes, TaskTypes, stateVars, slotVars,
            ReleasedByEnd
      <3>2. CASE ~attached[o]
        <4>1. UNCHANGED <<attachSlots, hostAttach>>
          BY <1>0, <1>00, <1>2, <3>2 DEF SlotTypes, ReleasedByEnd
        <4>2. attached'[o] = attached[o]
          BY <1>00, <1>2, <3>2 DEF StateTypes
        <4>3. ActiveEffect(o) /\ ApprovalEffect(o)
          BY <1>00, <1>2
          DEF ActiveEffect, ApprovalEffect, Sound, Kept, Equipped, StateTypes, TaskTypes
        <4> QED BY <4>1, <4>2, <4>3 DEF SlotEffect, AttachEffect
      <3> QED BY <3>1, <3>2
    <2>11. WalkEffect(o)
      BY <1>0, <1>00, <1>2
      DEF WalkEffect, Live, Check, Sound, Placed, Preparing, Before, Refused, Committed,
          terminal, StateTypes, CallTypes, stateVars, callVars, ReleasedByEnd
    <2> QED BY <2>1, <2>2, <2>3, <2>4, <2>5, <2>6, <2>7, <2>8, <2>9, <2>10, <2>11
        DEF Effect, TypeOK, Sound
  <1>3. Good \/ \E why \in Causes \ {"OrderlyEnd"} : OwnerFinish(o, "owner", why)
    BY DEF Install, MayInstall, Blocked, BlockedCause, Causes, Goto
  <1> QED BY <1>1, <1>2, <1>3

\* The relay starts on a stream that is still open, or ends it.
LEMMA StartRelayEffect ==
  ASSUME TypeOK, NEW o \in Streams, Sound(o), StartRelay(o)
  PROVE  Effect(o)
  <1>0. Ses(o) \in Sessions
    BY StreamAssumption DEF Ses
  <1>00. /\ StateTypes /\ SlotTypes /\ TaskTypes /\ CallTypes /\ SessionTypes
    BY DEF TypeOK
  <1>1. ASSUME NEW why \in Causes \ {"OrderlyEnd"}, OwnerFinish(o, "relay", why)
        PROVE  Effect(o)
    BY <1>1, OwnerFinished DEF StartRelay, Preparing
  <1> DEFINE Good ==
         /\ pc[o] = "connected"
         /\ pc' = [pc EXCEPT ![o] = "relay"]
         /\ socket' = [socket EXCEPT ![o] =
                           IF Recordable(o) /\ @ = "state" THEN "relay" ELSE @]
         /\ UNCHANGED <<sessionVars, cancelling, st, cause, flow, capacity, attached,
                        reported, slotVars, watch, late, dialled, forwarded, tok, fin>>
  <1>2. CASE Good
    <2>1. SessionTypes' /\ CallTypes'
      BY <1>00, <1>2 DEF SessionTypes, CallTypes, sessionVars, callVars, Recordable
    <2>2. StateTypes'
      BY <1>00, <1>2 DEF StateTypes, Before, stateVars, Recordable
    <2>3. SlotTypes'
      BY <1>0, <1>00, <1>2 DEF SlotTypes, slotVars, Recordable
    <2>4. TaskTypes'
      BY <1>00, <1>2 DEF TaskTypes, PCs, Recordable
    <2>5. Fresh(o)' /\ Placed(o)'
      BY <1>00, <1>2
      DEF Sound, Fresh, Placed, Preparing, Connecting, Resting, Before, Refused,
          Committed, terminal, StateTypes, TaskTypes, CallTypes, stateVars, callVars,
          Recordable
    <2>6. Kept(o)'
      BY <1>00, <1>2
      DEF Sound, Fresh, Placed, Kept, Preparing, Connecting, Resting, Equipped, Before,
          Refused, Committed, terminal, StateTypes, TaskTypes, stateVars, Recordable
    <2>7. Story(o)'
      BY <1>00, <1>2
      DEF Sound, Fresh, Placed, Kept, Story, Equipped, Preparing, Connecting, Resting,
          Before, Refused, Committed, terminal, StateTypes, TaskTypes, stateVars,
          Recordable
    <2>8. Ending(o)'
      BY <1>00, <1>2
      DEF Sound, Fresh, Placed, Ending, Preparing, Connecting, Resting, Committed,
          StateTypes, TaskTypes, CallTypes, stateVars, callVars, Recordable
    <2>9. \A p \in Streams \ {o} : Same(p)
      BY <1>00, <1>2
      DEF Same, StateTypes, TaskTypes, CallTypes, stateVars, callVars, Recordable
    <2>10. SlotEffect(o)
      BY <1>0, <1>00, <1>2
      DEF SlotEffect, AttachEffect, ActiveEffect, ApprovalEffect, Sound, Fresh, Kept,
          Equipped, Preparing, StateTypes, SlotTypes, TaskTypes, stateVars, slotVars,
          Recordable
    <2>11. WalkEffect(o)
      BY <1>0, <1>00, <1>2
      DEF WalkEffect, Live, Check, Sound, Placed, Preparing, Before, Refused, Committed,
          terminal, StateTypes, CallTypes, stateVars, callVars, Recordable
    <2> QED BY <2>1, <2>2, <2>3, <2>4, <2>5, <2>6, <2>7, <2>8, <2>9, <2>10, <2>11
        DEF Effect, TypeOK, Sound
  <1>3. Good \/ \E why \in Causes \ {"OrderlyEnd"} : OwnerFinish(o, "relay", why)
    BY DEF StartRelay, Causes, Goto
  <1> QED BY <1>1, <1>2, <1>3

\* A poll looks at the session first.
LEMMA PollCheckEffect ==
  ASSUME TypeOK, NEW o \in Streams, Sound(o), PollCheck(o)
  PROVE  Effect(o)
  <1>0. Ses(o) \in Sessions
    BY StreamAssumption DEF Ses
  <1>00. /\ StateTypes /\ SlotTypes /\ TaskTypes /\ CallTypes /\ SessionTypes
    BY DEF TypeOK
  <1>1. ASSUME NEW why \in Causes \ {"OrderlyEnd"}, OwnerFinish(o, "relay", why)
        PROVE  Effect(o)
    BY <1>1, OwnerFinished DEF PollCheck, Preparing
  <1> DEFINE Good ==
         /\ pc[o] = "relay"
         /\ pc' = [pc EXCEPT ![o] = "polling"]
         /\ UNCHANGED <<sessionVars, cancelling, stateVars, slotVars, watch, late, dialled,
                        forwarded, tok, fin>>
  <1>2. CASE Good
    <2>1. SessionTypes' /\ CallTypes'
      BY <1>00, <1>2 DEF SessionTypes, CallTypes, sessionVars, callVars
    <2>2. StateTypes'
      BY <1>00, <1>2 DEF StateTypes, Before, stateVars
    <2>3. SlotTypes'
      BY <1>0, <1>00, <1>2 DEF SlotTypes, slotVars
    <2>4. TaskTypes'
      BY <1>00, <1>2 DEF TaskTypes, PCs
    <2>5. Fresh(o)' /\ Placed(o)'
      BY <1>00, <1>2
      DEF Sound, Fresh, Placed, Preparing, Connecting, Resting, Before, Refused,
          Committed, terminal, StateTypes, TaskTypes, CallTypes, stateVars, callVars
    <2>6. Kept(o)'
      BY <1>00, <1>2
      DEF Sound, Fresh, Placed, Kept, Preparing, Connecting, Resting, Equipped, Before,
          Refused, Committed, terminal, StateTypes, TaskTypes, stateVars
    <2>7. Story(o)'
      BY <1>00, <1>2
      DEF Sound, Fresh, Placed, Kept, Story, Equipped, Preparing, Connecting, Resting,
          Before, Refused, Committed, terminal, StateTypes, TaskTypes, stateVars
    <2>8. Ending(o)'
      BY <1>00, <1>2
      DEF Sound, Fresh, Placed, Ending, Preparing, Connecting, Resting, Committed,
          StateTypes, TaskTypes, CallTypes, stateVars, callVars
    <2>9. \A p \in Streams \ {o} : Same(p)
      BY <1>00, <1>2 DEF Same, StateTypes, TaskTypes, CallTypes, stateVars, callVars
    <2>10. SlotEffect(o)
      BY <1>0, <1>00, <1>2
      DEF SlotEffect, AttachEffect, ActiveEffect, ApprovalEffect, Sound, Fresh, Kept,
          Equipped, Preparing, StateTypes, SlotTypes, TaskTypes, stateVars, slotVars
    <2>11. WalkEffect(o)
      BY <1>0, <1>00, <1>2
      DEF WalkEffect, Live, Check, Sound, Placed, Preparing, Before, Refused, Committed,
          terminal, StateTypes, CallTypes, stateVars, callVars
    <2> QED BY <2>1, <2>2, <2>3, <2>4, <2>5, <2>6, <2>7, <2>8, <2>9, <2>10, <2>11
        DEF Effect, TypeOK, Sound
  <1>3. Good \/ \E why \in Causes \ {"OrderlyEnd"} : OwnerFinish(o, "relay", why)
    BY DEF PollCheck, Causes, Goto
  <1> QED BY <1>1, <1>2, <1>3

\* A poll finds the stream ended.
LEMMA PollTerminalEffect ==
  ASSUME TypeOK, NEW o \in Streams, Sound(o), PollTerminal(o)
  PROVE  Effect(o)
  <1>0. Ses(o) \in Sessions
    BY StreamAssumption DEF Ses
  <1>00. /\ StateTypes /\ SlotTypes /\ TaskTypes /\ CallTypes /\ SessionTypes
    BY DEF TypeOK
  <1>000. PollTerminal(o)
    OBVIOUS
  <1>1. SessionTypes' /\ CallTypes'
    BY <1>00, <1>000 DEF SessionTypes, CallTypes, sessionVars, callVars, PollTerminal, Goto
  <1>2. StateTypes'
    BY <1>00, <1>000 DEF StateTypes, Before, stateVars, PollTerminal, Goto
  <1>3. SlotTypes'
    BY <1>0, <1>00, <1>000 DEF SlotTypes, slotVars, PollTerminal, Goto
  <1>4. TaskTypes'
    BY <1>00, <1>000 DEF TaskTypes, PCs, PollTerminal, Goto
  <1>5. Fresh(o)' /\ Placed(o)'
    BY <1>00, <1>000
    DEF Sound, Fresh, Placed, Preparing, Connecting, Resting, Before, Refused, Committed,
        terminal, StateTypes, TaskTypes, CallTypes, stateVars, callVars, PollTerminal,
        Goto
  <1>6. Kept(o)'
    BY <1>00, <1>000
    DEF Sound, Fresh, Placed, Kept, Preparing, Connecting, Resting, Equipped, Before,
        Refused, Committed, terminal, StateTypes, TaskTypes, stateVars, PollTerminal, Goto
  <1>7. Story(o)'
    BY <1>00, <1>000
    DEF Sound, Fresh, Placed, Kept, Story, Equipped, Preparing, Connecting, Resting,
        Before, Refused, Committed, terminal, StateTypes, TaskTypes, stateVars,
        PollTerminal, Goto
  <1>8. Ending(o)'
    BY <1>00, <1>000
    DEF Sound, Fresh, Placed, Ending, Preparing, Connecting, Resting, Committed,
        StateTypes, TaskTypes, CallTypes, stateVars, callVars, PollTerminal, Goto
  <1>9. \A p \in Streams \ {o} : Same(p)
    BY <1>00, <1>000
    DEF Same, StateTypes, TaskTypes, CallTypes, stateVars, callVars, PollTerminal, Goto
  <1>10. SlotEffect(o)
    BY <1>0, <1>00, <1>000
    DEF SlotEffect, AttachEffect, ActiveEffect, ApprovalEffect, Sound, Fresh, Kept,
        Equipped, Preparing, StateTypes, SlotTypes, TaskTypes, stateVars, slotVars,
        PollTerminal, Goto
  <1>11. WalkEffect(o)
    BY <1>0, <1>00, <1>000
    DEF WalkEffect, Live, Check, Sound, Placed, Preparing, Before, Refused, Committed,
        terminal, StateTypes, CallTypes, stateVars, callVars, PollTerminal, Goto
  <1> QED BY <1>1, <1>2, <1>3, <1>4, <1>5, <1>6, <1>7, <1>8, <1>9, <1>10, <1>11
      DEF Effect, TypeOK, Sound

\* A poll forwards a unit it has recorded.
LEMMA PollProgressEffect ==
  ASSUME TypeOK, NEW o \in Streams, Sound(o), PollProgress(o)
  PROVE  Effect(o)
  <1>0. Ses(o) \in Sessions
    BY StreamAssumption DEF Ses
  <1>00. /\ StateTypes /\ SlotTypes /\ TaskTypes /\ CallTypes /\ SessionTypes
    BY DEF TypeOK
  <1>000. PollProgress(o)
    OBVIOUS
  <1>1. SessionTypes' /\ CallTypes'
    BY <1>00, <1>000
    DEF SessionTypes, CallTypes, sessionVars, callVars, PollProgress, Goto, Recorded
  <1>2. StateTypes'
    BY <1>00, <1>000 DEF StateTypes, Before, stateVars, PollProgress, Goto, Recorded
  <1>3. SlotTypes'
    BY <1>0, <1>00, <1>000 DEF SlotTypes, slotVars, PollProgress, Goto, Recorded
  <1>4. TaskTypes'
    BY <1>00, <1>000 DEF TaskTypes, PCs, PollProgress, Goto, Recorded
  <1>5. Fresh(o)' /\ Placed(o)'
    BY <1>00, <1>000
    DEF Sound, Fresh, Placed, Preparing, Connecting, Resting, Before, Refused, Committed,
        terminal, StateTypes, TaskTypes, CallTypes, stateVars, callVars, PollProgress,
        Goto, Recorded
  <1>6. Kept(o)'
    BY <1>00, <1>000
    DEF Sound, Fresh, Placed, Kept, Preparing, Connecting, Resting, Equipped, Before,
        Refused, Committed, terminal, StateTypes, TaskTypes, stateVars, PollProgress,
        Goto, Recorded
  <1>7. Story(o)'
    BY <1>00, <1>000
    DEF Sound, Fresh, Placed, Kept, Story, Equipped, Preparing, Connecting, Resting,
        Before, Refused, Committed, terminal, StateTypes, TaskTypes, stateVars,
        PollProgress, Goto, Recorded
  <1>8. Ending(o)'
    BY <1>00, <1>000
    DEF Sound, Fresh, Placed, Ending, Preparing, Connecting, Resting, Committed,
        StateTypes, TaskTypes, CallTypes, stateVars, callVars, PollProgress, Goto,
        Recorded
  <1>9. \A p \in Streams \ {o} : Same(p)
    BY <1>00, <1>000
    DEF Same, StateTypes, TaskTypes, CallTypes, stateVars, callVars, PollProgress, Goto,
        Recorded
  <1>10. SlotEffect(o)
    BY <1>0, <1>00, <1>000
    DEF SlotEffect, AttachEffect, ActiveEffect, ApprovalEffect, Sound, Fresh, Kept,
        Equipped, Preparing, StateTypes, SlotTypes, TaskTypes, stateVars, slotVars,
        PollProgress, Goto, Recorded
  <1>11. WalkEffect(o)
    BY <1>0, <1>00, <1>000
    DEF WalkEffect, Live, Check, Sound, Placed, Preparing, Before, Refused, Committed,
        terminal, StateTypes, CallTypes, stateVars, callVars, PollProgress, Goto, Recorded
  <1> QED BY <1>1, <1>2, <1>3, <1>4, <1>5, <1>6, <1>7, <1>8, <1>9, <1>10, <1>11
      DEF Effect, TypeOK, Sound

\* A poll has nothing to do.
LEMMA PollPendingEffect ==
  ASSUME TypeOK, NEW o \in Streams, Sound(o), PollPending(o)
  PROVE  Effect(o)
  <1>0. Ses(o) \in Sessions
    BY StreamAssumption DEF Ses
  <1>00. /\ StateTypes /\ SlotTypes /\ TaskTypes /\ CallTypes /\ SessionTypes
    BY DEF TypeOK
  <1>000. PollPending(o)
    OBVIOUS
  <1>1. SessionTypes' /\ CallTypes'
    BY <1>00, <1>000 DEF SessionTypes, CallTypes, sessionVars, callVars, PollPending, Goto
  <1>2. StateTypes'
    BY <1>00, <1>000 DEF StateTypes, Before, stateVars, PollPending, Goto
  <1>3. SlotTypes'
    BY <1>0, <1>00, <1>000 DEF SlotTypes, slotVars, PollPending, Goto
  <1>4. TaskTypes'
    BY <1>00, <1>000 DEF TaskTypes, PCs, PollPending, Goto
  <1>5. Fresh(o)' /\ Placed(o)'
    BY <1>00, <1>000
    DEF Sound, Fresh, Placed, Preparing, Connecting, Resting, Before, Refused, Committed,
        terminal, StateTypes, TaskTypes, CallTypes, stateVars, callVars, PollPending, Goto
  <1>6. Kept(o)'
    BY <1>00, <1>000
    DEF Sound, Fresh, Placed, Kept, Preparing, Connecting, Resting, Equipped, Before,
        Refused, Committed, terminal, StateTypes, TaskTypes, stateVars, PollPending, Goto
  <1>7. Story(o)'
    BY <1>00, <1>000
    DEF Sound, Fresh, Placed, Kept, Story, Equipped, Preparing, Connecting, Resting,
        Before, Refused, Committed, terminal, StateTypes, TaskTypes, stateVars,
        PollPending, Goto
  <1>8. Ending(o)'
    BY <1>00, <1>000
    DEF Sound, Fresh, Placed, Ending, Preparing, Connecting, Resting, Committed,
        StateTypes, TaskTypes, CallTypes, stateVars, callVars, PollPending, Goto
  <1>9. \A p \in Streams \ {o} : Same(p)
    BY <1>00, <1>000
    DEF Same, StateTypes, TaskTypes, CallTypes, stateVars, callVars, PollPending, Goto
  <1>10. SlotEffect(o)
    BY <1>0, <1>00, <1>000
    DEF SlotEffect, AttachEffect, ActiveEffect, ApprovalEffect, Sound, Fresh, Kept,
        Equipped, Preparing, StateTypes, SlotTypes, TaskTypes, stateVars, slotVars,
        PollPending, Goto
  <1>11. WalkEffect(o)
    BY <1>0, <1>00, <1>000
    DEF WalkEffect, Live, Check, Sound, Placed, Preparing, Before, Refused, Committed,
        terminal, StateTypes, CallTypes, stateVars, callVars, PollPending, Goto
  <1> QED BY <1>1, <1>2, <1>3, <1>4, <1>5, <1>6, <1>7, <1>8, <1>9, <1>10, <1>11
      DEF Effect, TypeOK, Sound

\* The select at an await, a refusal or error of what is awaited, and a
\* dropped future all take the owner's error path.
LEMMA PreparationEnds ==
  ASSUME TypeOK, NEW o \in Streams, Sound(o),
         SelectWake(o) \/ PrepareFails(o) \/ DropPending(o)
  PROVE  Effect(o)
  <1>1. PICK why \in Causes \ {"OrderlyEnd"} : OwnerFinish(o, "owner", why)
    BY DEF SelectWake, PrepareFails, DropPending, Causes
  <1>2. /\ pc[o] \in Preparing \cup {"dialing", "install"}
        /\ UNCHANGED <<sessionVars, cancelling>>
    BY DEF SelectWake, PrepareFails, DropPending, Awaits, Preparing
  <1> QED BY <1>1, <1>2, OwnerFinished

\* The owner of a connected stream is dropped.
LEMMA DropConnectedEffect ==
  ASSUME TypeOK, NEW o \in Streams, Sound(o), DropConnected(o)
  PROVE  Effect(o)
  <1>00. /\ StateTypes /\ SlotTypes /\ TaskTypes /\ CallTypes /\ SessionTypes
    BY DEF TypeOK
  <1> DEFINE call == [by |-> "owner", why |-> "AttachmentLost"]
  <1>1. /\ tok' = [tok EXCEPT ![o] = TRUE]
        /\ fin' = [fin EXCEPT ![o] = @ \cup {call}]
        /\ pc[o] \in {"connected", "relay"} /\ pc' = [pc EXCEPT ![o] = "finishing"]
        /\ watch' = [watch EXCEPT ![o] = "done"]
        /\ UNCHANGED <<sessionVars, stateVars, slotVars, late, dialled, forwarded, cancelling>>
    BY DEF DropConnected, StartFinish, Goto
  <1>2. call \in Finishers /\ call.by = "owner" /\ call.why = "AttachmentLost"
    BY DEF Finishers, Causes
  <1> HIDE DEF call
  <1>3. TypeOK'
    <2>1. SessionTypes' /\ StateTypes' /\ SlotTypes'
      BY <1>00, <1>1 DEF SessionTypes, StateTypes, SlotTypes, sessionVars, stateVars, slotVars
    <2>2. TaskTypes'
      BY <1>00, <1>1 DEF TaskTypes, PCs
    <2>3. tok' \in [Streams -> BOOLEAN]
      BY <1>00, <1>1 DEF CallTypes
    <2>4. fin' \in [Streams -> SUBSET Finishers]
      BY <1>00, <1>1, <1>2 DEF CallTypes
    <2> QED BY <1>00, <1>1, <2>1, <2>2, <2>3, <2>4 DEF TypeOK, CallTypes
  <1>4. pc'[o] = "finishing" /\ fin'[o] = fin[o] \cup {call} /\ watch'[o] = "done"
    BY <1>00, <1>1 DEF TaskTypes, CallTypes
  <1>5. Fresh(o)' /\ Placed(o)' /\ Story(o)'
    BY <1>1, <1>4
    DEF Sound, Fresh, Placed, Story, Preparing, Connecting, Resting, stateVars
  <1>6. Kept(o)'
    BY <1>1, <1>4 DEF Sound, Kept, Preparing, Resting, Equipped, stateVars
  <1>7. Ending(o)'
    BY <1>1, <1>2, <1>4 DEF Sound, Ending, stateVars
  <1>8. \A p \in Streams \ {o} : Same(p)
    BY <1>00, <1>1 DEF Same, stateVars, TaskTypes, CallTypes
  <1>9. SlotEffect(o)
    BY <1>1, <1>4
    DEF SlotEffect, AttachEffect, ActiveEffect, ApprovalEffect, stateVars, slotVars
  <1>10. WalkEffect(o)
    BY <1>1, <1>4 DEF WalkEffect, Live, stateVars
  <1> QED BY <1>3, <1>5, <1>6, <1>7, <1>8, <1>9, <1>10 DEF Effect, Sound

\* A deadline that passes, a watchdog that leaves and a cancel call that has
\* found its operation change nothing yet.
LEMMA QuietEffect ==
  ASSUME TypeOK, NEW o \in Streams, Sound(o),
         Deadline(o) \/ WatchReturn(o) \/ CancelLookup(o)
  PROVE  Effect(o)
  <1>00. /\ StateTypes /\ SlotTypes /\ TaskTypes /\ CallTypes /\ SessionTypes
    BY DEF TypeOK
  <1>1. /\ UNCHANGED <<sessionVars, stateVars, slotVars, pc, dialled, forwarded, tok, fin>>
        /\ late' = late \/ late' = [late EXCEPT ![o] = TRUE]
        /\ watch' = watch \/ watch' = [watch EXCEPT ![o] = "done"]
        /\ cancelling' = cancelling \/ (cancelling' = cancelling \cup {o} /\ st[o] # "None")
    BY DEF Deadline, WatchReturn, CancelLookup, taskVars, callVars
  <1>2. TypeOK'
    <2>1. SessionTypes' /\ StateTypes' /\ SlotTypes'
      BY <1>00, <1>1 DEF SessionTypes, StateTypes, SlotTypes, sessionVars, stateVars, slotVars
    <2>2. TaskTypes'
      BY <1>00, <1>1 DEF TaskTypes
    <2>3. CallTypes'
      BY <1>00, <1>1 DEF CallTypes
    <2> QED BY <2>1, <2>2, <2>3 DEF TypeOK
  <1>3. Sound(o)'
    BY <1>00, <1>1 DEF Sound, Fresh, Placed, Kept, Story, Ending, stateVars, TaskTypes
  <1>4. \A p \in Streams \ {o} : Same(p)
    BY <1>00, <1>1 DEF Same, stateVars, TaskTypes
  <1>5. SlotEffect(o)
    BY <1>1 DEF SlotEffect, AttachEffect, ActiveEffect, ApprovalEffect, stateVars, slotVars
  <1>6. WalkEffect(o)
    BY <1>1 DEF WalkEffect, Live, stateVars
  <1> QED BY <1>2, <1>3, <1>4, <1>5, <1>6 DEF Effect

\* The cancel call, the abort handle and the watchdog call finish.
LEMMA OutsideEffect ==
  ASSUME TypeOK, NEW o \in Streams, Sound(o), CancelFinish(o) \/ Abort(o) \/ WatchSession(o)
  PROVE  Effect(o)
  <1>0. /\ SessionTypes'
        /\ {"Cancelled", "InvalidFrame", "SessionEnded"} \subseteq Causes \ {"OrderlyEnd"}
    BY DEF TypeOK, SessionTypes, CancelFinish, Abort, WatchSession, sessionVars, Causes
  <1>1. st[o] # "None"
    BY DEF CancelFinish, Abort, WatchSession, Sound, Fresh, Resting
  <1>2. CASE CancelFinish(o)
    BY <1>0, <1>1, <1>2, OutsideFinish DEF CancelFinish, taskVars
  <1>3. CASE Abort(o)
    BY <1>0, <1>1, <1>3, OutsideFinish DEF Abort, taskVars
  <1>4. CASE WatchSession(o)
    BY <1>0, <1>1, <1>4, OutsideFinish DEF WatchSession
  <1> QED BY <1>2, <1>3, <1>4

StreamStep(o) ==
    \/ CancelLookup(o) \/ CancelFinish(o) \/ Abort(o) \/ Deadline(o)
    \/ FinishStep(o) \/ WatchStep(o) \/ OpenStep(o) \/ RelayStep(o)

\* Every step of a stream has such an effect and leaves the sessions alone.
LEMMA StreamEffect ==
  ASSUME TypeOK, NEW o \in Streams, Sound(o), StreamStep(o)
  PROVE  Effect(o) /\ UNCHANGED sessionVars
  <1>1. ASSUME OpenStep(o) PROVE Effect(o) /\ UNCHANGED sessionVars
    <2>1. UNCHANGED sessionVars
      BY <1>1 DEF OpenStep, Start, Admit, Begin, Reserve, Approved, Acquire, MakeReady,
                  RecordAllow, CommitDispatch, Dial, Dialled, Install, SelectWake,
                  PrepareFails, DropPending
    <2> QED
      BY <1>1, <2>1, StartEffect, AdmitEffect, BeginEffect, ReserveEffect, ApprovedEffect,
         AcquireEffect, MakeReadyEffect, RecordAllowEffect, CommitDispatchEffect, DialEffect,
         DialledEffect, InstallEffect, PreparationEnds
      DEF OpenStep
  <1>2. ASSUME RelayStep(o) PROVE Effect(o) /\ UNCHANGED sessionVars
    <2>1. UNCHANGED sessionVars
      BY <1>2 DEF RelayStep, StartRelay, PollCheck, PollTerminal, PollProgress, PollPending,
                  PollEnd, DropConnected
    <2> QED
      BY <1>2, <2>1, StartRelayEffect, PollCheckEffect, PollTerminalEffect,
         PollProgressEffect, PollPendingEffect, EndInPlace, DropConnectedEffect
      DEF RelayStep
  <1>3. ASSUME WatchStep(o) \/ FinishStep(o) PROVE Effect(o) /\ UNCHANGED sessionVars
    <2>1. UNCHANGED sessionVars
      BY <1>3 DEF WatchStep, WatchTimeout, WatchSession, WatchReturn, FinishStep, FinishCall
    <2> QED BY <1>3, <2>1, EndInPlace, OutsideEffect, QuietEffect, FinishCallEffect
            DEF WatchStep, FinishStep
  <1>4. ASSUME CancelLookup(o) \/ CancelFinish(o) \/ Abort(o) \/ Deadline(o)
        PROVE  Effect(o) /\ UNCHANGED sessionVars
    <2>1. UNCHANGED sessionVars
      BY <1>4 DEF CancelLookup, CancelFinish, Abort, Deadline
    <2> QED BY <1>4, <2>1, QuietEffect, OutsideEffect
  <1> QED BY <1>1, <1>2, <1>3, <1>4 DEF StreamStep
-----------------------------------------------------------------------------
(* The walk of revoke *)

\* A step of a stream brings nothing to life behind the walk.
LEMMA WalkStream ==
  ASSUME TypeOK, Walk, NEW o \in Streams, Effect(o), UNCHANGED sessionVars
  PROVE  Walk'
  <1>0. Ses(o) \in Sessions
    BY StreamAssumption DEF Ses
  <1>1. \A p \in Streams \ {o} : st'[p] = st[p] /\ fin'[p] = fin[p] /\ Live(p)' = Live(p)
    BY DEF Effect, Same, Live
  <1>2. /\ st[o] # "None" => st'[o] # "None"
        /\ Live(o)' => \/ Live(o) /\ fin[o] \subseteq fin'[o]
                       \/ ~retired[Ses(o)]
    BY DEF Effect, WalkEffect
  <1> SUFFICES ASSUME NEW s \in Sessions
               PROVE  /\ rpc[s] # "idle" => retired[s]
                      /\ \A p \in todo[s] : st'[p] # "None"
                      /\ rpc[s] = "walk" => \A p \in Streams : Ses(p) = s /\ Live(p)' =>
                            p \in todo[s] \/ \E f \in fin'[p] : f.by = "revoke"
                      /\ settled[s] => /\ retired[s]
                                       /\ \A p \in Streams : Ses(p) = s => ~Live(p)'
    BY DEF Walk, sessionVars, Ses
  <1>3. todo[s] \subseteq Streams
    BY DEF TypeOK, SessionTypes
  <1>4. rpc[s] # "idle" => retired[s]
    BY DEF Walk
  <1>5. \A p \in todo[s] : st'[p] # "None"
    BY <1>1, <1>2, <1>3 DEF Walk
  <1>6. ASSUME rpc[s] = "walk", NEW p \in Streams, Ses(p) = s, Live(p)'
        PROVE  p \in todo[s] \/ \E f \in fin'[p] : f.by = "revoke"
    BY <1>1, <1>2, <1>6 DEF Walk
  <1>7. ASSUME settled[s], NEW p \in Streams, Ses(p) = s
        PROVE  retired[s] /\ ~Live(p)'
    BY <1>1, <1>2, <1>7 DEF Walk
  <1>8. settled[s] => retired[s]
    BY DEF Walk
  <1> QED BY <1>4, <1>5, <1>6, <1>7, <1>8
-----------------------------------------------------------------------------
(* Permits *)

\* One member more or less changes a count by one.
LEMMA OneMore ==
  ASSUME NEW S \in SUBSET Streams, NEW T, NEW o \in Streams, o \notin S, T = S \cup {o}
  PROVE  Cardinality(T) = Cardinality(S) + 1
  <1>1. IsFiniteSet(S)
    BY StreamAssumption, FS_Subset
  <1> QED BY <1>1, FS_AddElement

\* And one less.
LEMMA OneLess ==
  ASSUME NEW S \in SUBSET Streams, NEW T, NEW o \in S, T = S \ {o}
  PROVE  Cardinality(T) = Cardinality(S) - 1
  <1>1. IsFiniteSet(S)
    BY StreamAssumption, FS_Subset
  <1> QED BY <1>1, FS_RemoveElement

\* Attachment permits stay exact and within their limits.
LEMMA AttachExact ==
  ASSUME TypeOK, Exact, NEW o \in Streams, Effect(o)
  PROVE  /\ \A s \in Sessions : /\ attachSlots'[s] = Cardinality(AttachedTo(s)')
                                /\ attachSlots'[s] <= MaxAttach
         /\ hostAttach' = Cardinality(AllAttached') /\ hostAttach' <= MaxHostAttach
  <1>0. /\ Ses(o) \in Sessions /\ MaxAttach \in Nat /\ MaxHostAttach \in Nat
        /\ attachSlots \in [Sessions -> Int] /\ hostAttach \in Int
        /\ attached \in [Streams -> BOOLEAN] /\ attached' \in [Streams -> BOOLEAN]
    BY StreamAssumption DEF Ses, Effect, TypeOK, SlotTypes, StateTypes
  <1>1. \A p \in Streams \ {o} : attached'[p] = attached[p]
    BY DEF Effect, Same
  <1>2. \A s \in Sessions : /\ attachSlots[s] = Cardinality(AttachedTo(s))
                            /\ attachSlots[s] <= MaxAttach
                            /\ AttachedTo(s) \in SUBSET Streams
    BY DEF Exact, AttachedTo
  <1>3. /\ hostAttach = Cardinality(AllAttached) /\ hostAttach <= MaxHostAttach
        /\ AllAttached \in SUBSET Streams
    BY DEF Exact, AllAttached
  <1>4. CASE UNCHANGED <<attachSlots, hostAttach>> /\ attached'[o] = attached[o]
    <2>1. AllAttached' = AllAttached /\ \A s \in Sessions : AttachedTo(s)' = AttachedTo(s)
      BY <1>1, <1>4 DEF AllAttached, AttachedTo, Ses
    <2> QED BY <1>2, <1>3, <1>4, <2>1
  <1>5. CASE /\ ~attached[o] /\ attached'[o]
             /\ attachSlots[Ses(o)] < MaxAttach /\ hostAttach < MaxHostAttach
             /\ attachSlots' = [attachSlots EXCEPT ![Ses(o)] = @ + 1]
             /\ hostAttach' = hostAttach + 1
    <2>1. AllAttached' = AllAttached \cup {o} /\ o \notin AllAttached
      BY <1>1, <1>5 DEF AllAttached
    <2>2. Cardinality(AllAttached') = Cardinality(AllAttached) + 1
      BY <1>3, <2>1, OneMore
    <2>3. ASSUME NEW s \in Sessions
          PROVE  attachSlots'[s] = Cardinality(AttachedTo(s)') /\ attachSlots'[s] <= MaxAttach
      <3>1. CASE s = Ses(o)
        <4>1. AttachedTo(s)' = AttachedTo(s) \cup {o} /\ o \notin AttachedTo(s)
          BY <1>1, <1>5, <3>1 DEF AttachedTo, Ses
        <4>2. Cardinality(AttachedTo(s)') = Cardinality(AttachedTo(s)) + 1
          BY <1>2, <4>1, OneMore
        <4> QED BY <1>0, <1>2, <1>5, <3>1, <4>2
      <3>2. CASE s # Ses(o)
        <4>1. AttachedTo(s)' = AttachedTo(s)
          BY <1>1, <3>2 DEF AttachedTo, Ses
        <4> QED BY <1>0, <1>2, <1>5, <3>2, <4>1
      <3> QED BY <3>1, <3>2
    <2> QED BY <1>0, <1>3, <1>5, <2>2, <2>3
  <1>6. CASE /\ attached[o] /\ ~attached'[o]
             /\ attachSlots' = [attachSlots EXCEPT ![Ses(o)] = @ - 1]
             /\ hostAttach' = hostAttach - 1
    <2>1. AllAttached' = AllAttached \ {o} /\ o \in AllAttached
      BY <1>1, <1>6 DEF AllAttached
    <2>2. Cardinality(AllAttached') = Cardinality(AllAttached) - 1
      BY <1>3, <2>1, OneLess
    <2>3. ASSUME NEW s \in Sessions
          PROVE  attachSlots'[s] = Cardinality(AttachedTo(s)') /\ attachSlots'[s] <= MaxAttach
      <3>1. CASE s = Ses(o)
        <4>1. AttachedTo(s)' = AttachedTo(s) \ {o} /\ o \in AttachedTo(s)
          BY <1>1, <1>6, <3>1 DEF AttachedTo, Ses
        <4>2. Cardinality(AttachedTo(s)') = Cardinality(AttachedTo(s)) - 1
          BY <1>2, <4>1, OneLess
        <4> QED BY <1>0, <1>2, <1>6, <3>1, <4>2
      <3>2. CASE s # Ses(o)
        <4>1. AttachedTo(s)' = AttachedTo(s)
          BY <1>1, <3>2 DEF AttachedTo, Ses
        <4> QED BY <1>0, <1>2, <1>6, <3>2, <4>1
      <3> QED BY <3>1, <3>2
    <2> QED BY <1>0, <1>3, <1>6, <2>2, <2>3
  <1> QED BY <1>4, <1>5, <1>6 DEF Effect, SlotEffect, AttachEffect

\* Connection permits stay exact and within their limits.
LEMMA ActiveExact ==
  ASSUME TypeOK, Exact, NEW o \in Streams, Effect(o)
  PROVE  /\ \A s \in Sessions : /\ activeSlots'[s] = Cardinality(ActiveIn(s)')
                                /\ activeSlots'[s] <= MaxActive
         /\ hostActive' = Cardinality(AllActive') /\ hostActive' <= MaxHostActive
  <1>0. /\ Ses(o) \in Sessions /\ MaxActive \in Nat /\ MaxHostActive \in Nat
        /\ activeSlots \in [Sessions -> Int] /\ hostActive \in Int
    BY StreamAssumption DEF Ses, Effect, TypeOK, SlotTypes, StateTypes
  <1>1. \A p \in Streams \ {o} : capacity'[p] = capacity[p]
    BY DEF Effect, Same
  <1>2. \A s \in Sessions : /\ activeSlots[s] = Cardinality(ActiveIn(s))
                            /\ activeSlots[s] <= MaxActive
                            /\ ActiveIn(s) \in SUBSET Streams
    BY DEF Exact, ActiveIn
  <1>3. /\ hostActive = Cardinality(AllActive) /\ hostActive <= MaxHostActive
        /\ AllActive \in SUBSET Streams
    BY DEF Exact, AllActive
  <1>4. CASE /\ UNCHANGED <<activeSlots, hostActive>>
             /\ capacity'[o] = "none" <=> capacity[o] = "none"
    <2>1. AllActive' = AllActive /\ \A s \in Sessions : ActiveIn(s)' = ActiveIn(s)
      BY <1>1, <1>4 DEF AllActive, ActiveIn, Ses
    <2> QED BY <1>2, <1>3, <1>4, <2>1
  <1>5. CASE /\ capacity[o] = "none" /\ capacity'[o] # "none"
             /\ activeSlots[Ses(o)] < MaxActive /\ hostActive < MaxHostActive
             /\ activeSlots' = [activeSlots EXCEPT ![Ses(o)] = @ + 1]
             /\ hostActive' = hostActive + 1
    <2>1. AllActive' = AllActive \cup {o} /\ o \notin AllActive
      BY <1>1, <1>5 DEF AllActive
    <2>2. Cardinality(AllActive') = Cardinality(AllActive) + 1
      BY <1>3, <2>1, OneMore
    <2>3. ASSUME NEW s \in Sessions
          PROVE  activeSlots'[s] = Cardinality(ActiveIn(s)') /\ activeSlots'[s] <= MaxActive
      <3>1. CASE s = Ses(o)
        <4>1. ActiveIn(s)' = ActiveIn(s) \cup {o} /\ o \notin ActiveIn(s)
          BY <1>1, <1>5, <3>1 DEF ActiveIn, Ses
        <4>2. Cardinality(ActiveIn(s)') = Cardinality(ActiveIn(s)) + 1
          BY <1>2, <4>1, OneMore
        <4> QED BY <1>0, <1>2, <1>5, <3>1, <4>2
      <3>2. CASE s # Ses(o)
        <4>1. ActiveIn(s)' = ActiveIn(s)
          BY <1>1, <3>2 DEF ActiveIn, Ses
        <4> QED BY <1>0, <1>2, <1>5, <3>2, <4>1
      <3> QED BY <3>1, <3>2
    <2> QED BY <1>0, <1>3, <1>5, <2>2, <2>3
  <1>6. CASE /\ capacity[o] # "none" /\ capacity'[o] = "none"
             /\ activeSlots' = [activeSlots EXCEPT ![Ses(o)] = @ - 1]
             /\ hostActive' = hostActive - 1
    <2>1. AllActive' = AllActive \ {o} /\ o \in AllActive
      BY <1>1, <1>6 DEF AllActive
    <2>2. Cardinality(AllActive') = Cardinality(AllActive) - 1
      BY <1>3, <2>1, OneLess
    <2>3. ASSUME NEW s \in Sessions
          PROVE  activeSlots'[s] = Cardinality(ActiveIn(s)') /\ activeSlots'[s] <= MaxActive
      <3>1. CASE s = Ses(o)
        <4>1. ActiveIn(s)' = ActiveIn(s) \ {o} /\ o \in ActiveIn(s)
          BY <1>1, <1>6, <3>1 DEF ActiveIn, Ses
        <4>2. Cardinality(ActiveIn(s)') = Cardinality(ActiveIn(s)) - 1
          BY <1>2, <4>1, OneLess
        <4> QED BY <1>0, <1>2, <1>6, <3>1, <4>2
      <3>2. CASE s # Ses(o)
        <4>1. ActiveIn(s)' = ActiveIn(s)
          BY <1>1, <3>2 DEF ActiveIn, Ses
        <4> QED BY <1>0, <1>2, <1>6, <3>2, <4>1
      <3> QED BY <3>1, <3>2
    <2> QED BY <1>0, <1>3, <1>6, <2>2, <2>3
  <1> QED BY <1>4, <1>5, <1>6 DEF Effect, SlotEffect, ActiveEffect

\* So do the approvals a session waits for.
LEMMA ApprovalsExact ==
  ASSUME TypeOK, Exact, NEW o \in Streams, Effect(o)
  PROVE  \A s \in Sessions : /\ approvals'[s] = Cardinality(ApprovingIn(s)')
                             /\ approvals'[s] <= MaxApprovals
  <1>0. Ses(o) \in Sessions /\ MaxApprovals \in Nat /\ approvals \in [Sessions -> Int]
    BY StreamAssumption DEF Ses, TypeOK, SlotTypes
  <1>1. \A p \in Streams \ {o} : pc'[p] = pc[p]
    BY DEF Effect, Same
  <1> SUFFICES ASSUME NEW s \in Sessions
               PROVE  /\ approvals'[s] = Cardinality(ApprovingIn(s)')
                      /\ approvals'[s] <= MaxApprovals
    OBVIOUS
  <1>2. /\ approvals[s] = Cardinality(ApprovingIn(s)) /\ approvals[s] <= MaxApprovals
        /\ ApprovingIn(s) \in SUBSET Streams
    BY DEF Exact, ApprovingIn
  <1>3. CASE UNCHANGED approvals /\ (pc'[o] = "approving" <=> pc[o] = "approving")
    <2>1. ApprovingIn(s)' = ApprovingIn(s)
      BY <1>1, <1>3 DEF ApprovingIn, Ses
    <2> QED BY <1>2, <1>3, <2>1
  <1>4. CASE s # Ses(o)
    <2>1. ApprovingIn(s)' = ApprovingIn(s)
      BY <1>1, <1>4 DEF ApprovingIn, Ses
    <2>2. approvals'[s] = approvals[s]
      BY <1>0, <1>4 DEF Effect, SlotEffect, ApprovalEffect
    <2> QED BY <1>2, <2>1, <2>2
  <1>5. CASE /\ s = Ses(o) /\ pc[o] # "approving" /\ pc'[o] = "approving"
             /\ approvals[Ses(o)] < MaxApprovals
             /\ approvals' = [approvals EXCEPT ![Ses(o)] = @ + 1]
    <2>1. ApprovingIn(s)' = ApprovingIn(s) \cup {o} /\ o \notin ApprovingIn(s)
      BY <1>1, <1>5 DEF ApprovingIn, Ses
    <2>2. Cardinality(ApprovingIn(s)') = Cardinality(ApprovingIn(s)) + 1
      BY <1>2, <2>1, OneMore
    <2> QED BY <1>0, <1>2, <1>5, <2>2
  <1>6. CASE /\ s = Ses(o) /\ pc[o] = "approving" /\ pc'[o] # "approving"
             /\ approvals' = [approvals EXCEPT ![Ses(o)] = @ - 1]
    <2>1. ApprovingIn(s)' = ApprovingIn(s) \ {o} /\ o \in ApprovingIn(s)
      BY <1>1, <1>6 DEF ApprovingIn, Ses
    <2>2. Cardinality(ApprovingIn(s)') = Cardinality(ApprovingIn(s)) - 1
      BY <1>2, <2>1, OneLess
    <2> QED BY <1>0, <1>2, <1>6, <2>2
  <1> QED BY <1>3, <1>4, <1>5, <1>6 DEF Effect, SlotEffect, ApprovalEffect
-----------------------------------------------------------------------------
(* The whole system *)

\* A thread that revokes, retires or expires a session; only its finish calls
\* reach a stream.
LEMMA SessionKeeps ==
  ASSUME Inv, NEW s \in Sessions,
         Retire(s) \/ Expire(s) \/ RevokeFlip(s) \/ RevokeStep(s)
  PROVE  Inv'
  <1>00. /\ StateTypes /\ SlotTypes /\ TaskTypes /\ CallTypes /\ SessionTypes
    BY DEF Inv, TypeOK
  <1>1. SessionTypes'
    BY <1>00
    DEF SessionTypes, Retire, Expire, RevokeFlip, RevokeStep, RevokeNotify, RevokeLock,
        RevokeReturn, RevokeFinish, Tracked
  <1>2. ASSUME UNCHANGED Frame, Walk' PROVE Inv'
    <2>1. TypeOK'
      BY <1>00, <1>1, <1>2 DEF TypeOK, StateTypes, SlotTypes, TaskTypes, CallTypes, Frame,
                               stateVars, slotVars, taskVars, callVars
    <2>2. \A p \in Streams : Sound(p)'
      BY <1>2, SameSound DEF Inv, Same, Frame, stateVars, taskVars, callVars
    <2>3. Exact'
      BY <1>2 DEF Inv, Exact, AttachedTo, ActiveIn, ApprovingIn, AllAttached, AllActive, Ses,
                  Frame, stateVars, slotVars, taskVars
    <2> QED BY <1>2, <2>1, <2>2, <2>3 DEF Inv
  <1>3. Walk
    BY DEF Inv
  <1>4. CASE Retire(s) \/ Expire(s)
    <2>1. UNCHANGED Frame
      BY <1>4 DEF Retire, Expire
    <2>2. Walk'
      BY <1>00, <1>3, <1>4
      DEF Walk, Live, Retire, Expire, Frame, stateVars, callVars, SessionTypes
    <2> QED BY <1>2, <2>1, <2>2
  <1>5. CASE RevokeFlip(s) \/ RevokeNotify(s)
    <2>1. UNCHANGED Frame
      BY <1>5 DEF RevokeFlip, RevokeNotify
    <2>2. Walk'
      BY <1>00, <1>3, <1>5
      DEF Walk, Live, RevokeFlip, RevokeNotify, Frame, stateVars, callVars, SessionTypes
    <2> QED BY <1>2, <2>1, <2>2
  <1>6. CASE RevokeLock(s)
    <2>1. UNCHANGED Frame
      BY <1>6 DEF RevokeLock
    <2>2. Walk'
      BY <1>00, <1>3, <1>6
      DEF Walk, Live, RevokeLock, Tracked, Frame, stateVars, callVars, SessionTypes
    <2> QED BY <1>2, <2>1, <2>2
  <1>7. CASE RevokeReturn(s)
    <2>1. UNCHANGED Frame
      BY <1>7 DEF RevokeReturn
    <2>2. \A o \in Streams : Ses(o) = s => ~Live(o)
      BY <1>3, <1>7 DEF Walk, RevokeReturn, RevokeWaits
    <2>3. Walk'
      BY <1>00, <1>3, <1>7, <2>2
      DEF Walk, Live, RevokeReturn, Frame, stateVars, callVars, SessionTypes
    <2> QED BY <1>2, <2>1, <2>3
  <1>8. ASSUME NEW o \in Streams, RevokeFinish(s, o) PROVE Inv'
    <2>1. st[o] # "None" /\ Sound(o) /\ TypeOK
      BY <1>8 DEF Inv, Walk, RevokeFinish
    <2>2. "SessionEnded" \in Causes \ {"OrderlyEnd"}
      BY DEF Causes
    <2>3. Effect(o)
      BY <1>1, <1>8, <2>1, <2>2, OutsideFinish DEF RevokeFinish, taskVars
    <2>4. \A p \in Streams : Sound(p)'
      BY <2>3, SameSound DEF Effect, Inv
    <2>5. Exact'
      BY <2>3, AttachExact, ActiveExact, ApprovalsExact DEF Inv, Exact
    <2>6. Walk'
      <3>1. /\ UNCHANGED <<st, retired, rpc, settled>>
            /\ \A x \in Sessions : todo'[x] = IF x = s THEN todo[x] \ {o} ELSE todo[x]
        BY <1>00, <1>8 DEF RevokeFinish, stateVars, SessionTypes
      <3>2. /\ \A p \in Streams : fin[p] \subseteq fin'[p]
            /\ \E f \in fin'[o] : f.by = "revoke"
        <4>1. fin' = [fin EXCEPT ![o] = @ \cup {[by |-> "revoke", why |-> "SessionEnded"]}]
          BY <1>8 DEF RevokeFinish, StartFinish
        <4>2. /\ \A p \in Streams : fin[p] \subseteq fin'[p]
              /\ [by |-> "revoke", why |-> "SessionEnded"] \in fin'[o]
          BY <1>00, <4>1 DEF CallTypes
        <4> QED BY <4>2
      <3>3. \A p \in Streams : Live(p)' = Live(p)
        BY <3>1 DEF Live
      <3> QED BY <1>3, <3>1, <3>2, <3>3 DEF Walk, Ses
    <2> QED BY <2>3, <2>4, <2>5, <2>6 DEF Effect, Inv
  <1> QED BY <1>4, <1>5, <1>6, <1>7, <1>8 DEF RevokeStep

\* The invariant holds of every interleaving of owners, watchdogs, cancel calls,
\* abort handles and revoking threads.
THEOREM InvHolds == Spec => []Inv
  <1>1. Init => Inv
    <2> SUFFICES ASSUME Init PROVE Inv
      OBVIOUS
    <2>1. TypeOK
      BY TypeInit
    <2>2. \A o \in Streams : Sound(o)
      BY DEF Init, Sound, Fresh, Placed, Kept, Story, Ending, Preparing, Connecting, Resting,
             Equipped, terminal, Refused
    <2>3. Walk
      BY DEF Init, Walk, Live
    <2>4. Exact
      <3>1. /\ AllAttached = {} /\ AllActive = {}
            /\ \A s \in Sessions : AttachedTo(s) = {} /\ ActiveIn(s) = {} /\ ApprovingIn(s) = {}
        BY DEF Init, AllAttached, AllActive, AttachedTo, ActiveIn, ApprovingIn
      <3>2. Cardinality({}) = 0
        BY FS_EmptySet
      <3>3. /\ MaxAttach \in Nat /\ MaxHostAttach \in Nat /\ MaxActive \in Nat
            /\ MaxHostActive \in Nat /\ MaxApprovals \in Nat
        BY StreamAssumption
      <3>4. /\ \A s \in Sessions : attachSlots[s] = 0 /\ activeSlots[s] = 0 /\ approvals[s] = 0
            /\ hostAttach = 0 /\ hostActive = 0
        BY DEF Init
      <3> HIDE DEF Init
      <3> QED BY <3>1, <3>2, <3>3, <3>4 DEF Exact
    <2> QED BY <2>1, <2>2, <2>3, <2>4 DEF Inv
  <1>2. Inv /\ [Next]_vars => Inv'
    <2> SUFFICES ASSUME Inv, [Next]_vars PROVE Inv'
      OBVIOUS
    <2>1. ASSUME NEW o \in Streams, StreamStep(o) PROVE Inv'
      <3>1. Effect(o) /\ UNCHANGED sessionVars
        BY <2>1, StreamEffect DEF Inv
      <3>2. \A p \in Streams : Sound(p)'
        BY <3>1, SameSound DEF Effect, Inv
      <3>3. Exact'
        BY <3>1, AttachExact, ActiveExact, ApprovalsExact DEF Inv, Exact
      <3>4. Walk'
        BY <3>1, WalkStream DEF Inv
      <3> QED BY <3>1, <3>2, <3>3, <3>4 DEF Effect, Inv
    <2>2. CASE UNCHANGED vars
      <3> USE <2>2 DEF vars, sessionVars, stateVars, slotVars, taskVars, callVars
      <3>1. TypeOK'
        BY DEF Inv, TypeOK, SessionTypes, StateTypes, SlotTypes, TaskTypes, CallTypes
      <3>2. \A p \in Streams : Sound(p)'
        BY SameSound DEF Inv, Same
      <3>3. Exact'
        BY DEF Inv, Exact, AttachedTo, ActiveIn, ApprovingIn, AllAttached, AllActive, Ses
      <3>4. Walk'
        BY DEF Inv, Walk, Live, Ses
      <3> QED BY <3>1, <3>2, <3>3, <3>4 DEF Inv
    <2> QED BY <2>1, <2>2, SessionKeeps DEF Next, StreamStep
  <1> QED BY <1>1, <1>2, PTL DEF Spec

\* Every variable has its type.
THEOREM TypeCorrect == Spec => []TypeOK
  <1>1. Inv => TypeOK
    BY DEF Inv
  <1> QED BY <1>1, InvHolds, PTL

\* DialReported: no retry dials twice, and whoever ends a stream, a dial that
\* was made is never reported as one that was not.
THEOREM DialsReported == Spec => []DialReported
  <1>1. Inv => DialReported
    BY DEF Inv, Sound, Placed, DialReported
  <1> QED BY <1>1, InvHolds, PTL

\* RevokeEndsStreams: when revoke returns, no stream of the session is alive or
\* holds anything in its shared state, and none comes later.
THEOREM RevocationEndsStreams == Spec => []RevokeEndsStreams
  <1>1. Inv => RevokeEndsStreams
    <2> SUFFICES ASSUME Inv, NEW s \in Sessions, settled[s],
                        NEW o \in Streams, Ses(o) = s
                 PROVE  /\ st[o] = "None" \/ terminal(st[o])
                        /\ socket[o] \in {"none", "task"} /\ capacity[o] \in {"none", "task"}
                        /\ ~attached[o]
      BY DEF RevokeEndsStreams
    <2>1. Sound(o) /\ StateTypes
      BY DEF Inv, TypeOK
    <2>2. st[o] = "None" \/ terminal(st[o])
      BY DEF Inv, Walk, Live
    <2> QED BY <2>1, <2>2 DEF Sound, Fresh, Kept, StateTypes, terminal, Refused
  <1> QED BY <1>1, InvHolds, PTL

\* OutcomeCoherent: state, cause, byte count and closing record tell one story,
\* whoever ended the stream first.
THEOREM OutcomesCohere == Spec => []OutcomeCoherent
  <1>1. Inv => OutcomeCoherent
    BY DEF Inv, Sound, Story, OutcomeCoherent
  <1> QED BY <1>1, InvHolds, PTL

\* SlotsExact: every permit in use has an owner, every owner its permit, and no
\* pool is overdrawn, for any number of streams.
THEOREM SlotsStayExact == Spec => []SlotsExact
  <1>1. Inv => SlotsExact
    BY DEF Inv, Exact, SlotsExact, AttachedTo, ActiveIn, ApprovingIn, AllAttached, AllActive
  <1> QED BY <1>1, InvHolds, PTL
=============================================================================
