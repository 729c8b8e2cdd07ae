------------------------------- MODULE Relay --------------------------------
(***************************************************************************)
(* The duplex copy loop of a connected stream (aap-transport tcp/relay.rs) *)
(* with the observation gate the engine puts in front of it.               *)
(*                                                                         *)
(* Bytes are counted, not carried.  A poll runs under the engine's state   *)
(* lock, so terminate() never interrupts it; time passes and the token is  *)
(* set at any moment, also inside an I/O call.  A step of one direction is *)
(* therefore its check and I/O call (StepCheck, the Io actions), and what  *)
(* is decided after the call has returned (the After actions).             *)
(***************************************************************************)
EXTENDS Integers

CONSTANTS
    ByteLimit,   \* send_limit and receive_limit
    MaxChunk,    \* Limits.max_chunk
    MaxRounds,   \* rounds of one poll, 8 in the code
    Idle,        \* Limits.idle_timeout
    Lifetime,    \* Limits.lifetime
    MaxTime,     \* bound of the model: the last instant
    GateCauses   \* what a gate may refuse with

Directions == {"out", "in"}
Other(d) == IF d = "out" THEN "in" ELSE "out"

Causes == {"None", "OrderlyEnd", "Cancelled", "Timeout", "SessionEnded",
           "AttachmentLost", "InvalidFrame", "LimitExceeded", "InternalError",
           "UpstreamUnavailable", "ObservationUnavailable"}

ASSUME RelayAssumption ==
    /\ ByteLimit \in [Directions -> Nat \ {0}]
    /\ MaxChunk \in Nat \ {0} /\ MaxRounds \in Nat \ {0}
    /\ Idle \in Nat \ {0} /\ Lifetime \in Nat \ {0}
    /\ MaxTime \in Nat
    /\ GateCauses \subseteq Causes \ {"None"}

VARIABLES
    now,        \* the clock
    token,      \* the operation's Cancellation
    filled, written, admitted, forwarded, read_end, write_end,
    stalled,    \* CopyState.stalled: {} or a single instant
    idleEnd,    \* limits.idle_deadline
    timer, awake, \* what will poll the relay again
    outcome,    \* cause "None" before the end
    first, turn, round, progress, got, pc,
    seen, ended, \* bytes and ends the gate has accepted
    since,      \* history: when a direction last moved
    moved       \* history: when any direction last wrote

copyVars == <<filled, written, admitted, forwarded, read_end, write_end, stalled>>
loopVars == <<first, turn, round, progress, got, pc>>
gateVars == <<seen, ended>>
historyVars == <<since, moved>>
relayVars == <<now, token, copyVars, idleEnd, timer, awake, outcome, loopVars,
               gateVars, historyVars>>

-----------------------------------------------------------------------------
Running == outcome.cause = "None"

Deadlines_IdleOnly == {Lifetime, idleEnd}

\* Duplex::deadline is the least of these instants.
Deadlines == {Lifetime, idleEnd} \cup stalled["out"] \cup stalled["in"]

\* The least of a set of instants has come.
Due(instants) == \E t \in instants : now >= t

Ok == ~token /\ ~Due(Deadlines)

\* Duplex::check
CheckCause == IF token THEN "Cancelled" ELSE "Timeout"

\* Why an endpoint fails: the local one, "out" reads it, may classify its
\* framing errors; a writer that claims too much is an internal error.
IoCauses(d) == IF d = "out" THEN 
                  {"AttachmentLost", "InvalidFrame", "LimitExceeded", "InternalError"}
               ELSE {"UpstreamUnavailable"}

GateCause_Trusting(why) == why

\* A failed gate, or an owner that terminates, cannot make an orderly end.
GateCause(why) == IF why = "OrderlyEnd" THEN "InternalError" ELSE why

\* Duplex::close: the counts are what the writers accepted; buffered bytes
\* are dropped.
Close(why) ==
    /\ outcome' = [cause |-> why, sent |-> forwarded["out"],
                   received |-> forwarded["in"]]
    /\ filled' = [d \in Directions |-> 0]
    /\ written' = [d \in Directions |-> 0]
    /\ stalled' = [d \in Directions |-> {}]
    /\ pc' = "idle" /\ awake' = FALSE
    /\ UNCHANGED <<admitted, forwarded, read_end, write_end, first, turn,
                   round, progress, got>>

Rest == <<idleEnd, timer, gateVars, historyVars>>

\* One direction of a round is done.
NextTurn(moves) ==
    /\ progress' = (progress \/ moves)
    /\ IF turn = first THEN turn' = Other(turn) /\ pc' = "step"
                       ELSE turn' = turn /\ pc' = "round"

-----------------------------------------------------------------------------
(* The world outside *)

Tick ==
    /\ now < MaxTime
    /\ now' = now + 1
    /\ UNCHANGED <<token, copyVars, awake, outcome, loopVars, Rest>>

Cancel ==
    /\ ~token /\ Running
    /\ token' = TRUE
    /\ UNCHANGED <<now, copyVars, awake, outcome, loopVars, Rest>>

\* A socket's waker.
IoReady ==
    /\ Running /\ pc = "idle" /\ ~awake
    /\ awake' = TRUE
    /\ UNCHANGED <<now, token, copyVars, outcome, loopVars, Rest>>

\* The engine ends the stream between two polls; a prior outcome stays.
Terminate ==
    /\ Running /\ pc = "idle"
    /\ \E why \in {"Timeout", "SessionEnded", "OrderlyEnd"} : Close(GateCause(why))
    /\ UNCHANGED <<now, token, Rest>>
-----------------------------------------------------------------------------
(* One poll *)

PollStart ==
    /\ Running /\ pc = "idle"
    /\ awake \/ token \/ Due(timer)
    /\ IF Ok
       THEN /\ first' = Other(first) /\ turn' = Other(first)
            /\ round' = 1 /\ progress' = FALSE /\ pc' = "step"
            /\ awake' = FALSE
            /\ UNCHANGED <<copyVars, outcome, got>>
       ELSE Close(CheckCause)
    /\ UNCHANGED <<now, token, Rest>>

StepStop ==
    /\ pc = "step" /\ ~Ok
    /\ Close(CheckCause)
    /\ UNCHANGED <<now, token, Rest>>

StepSkip ==
    /\ pc = "step" /\ Ok /\ write_end[turn]
    /\ NextTurn(FALSE)
    /\ UNCHANGED <<now, token, copyVars, awake, outcome, first, round, got, Rest>>

Buffered(d) == written[d] < filled[d]

\* The I/O of a direction is not ready.
IoPending ==
    /\ pc = "step" /\ Ok /\ ~write_end[turn]
    /\ NextTurn(FALSE)
    /\ UNCHANGED <<now, token, copyVars, awake, outcome, first, round, got, Rest>>

\* A write or shutdown fails on the far socket, a read on the near one.
IoFails ==
    /\ pc = "step" /\ Ok /\ ~write_end[turn]
    /\ \E why \in IF Buffered(turn) THEN IoCauses(Other(turn)) \cup {"InternalError"}
                 ELSE IF read_end[turn] THEN IoCauses(Other(turn)) ELSE IoCauses(turn) :
          Close(why)
    /\ UNCHANGED <<now, token, Rest>>

\* Accepted bytes count whatever the next check says.
IoWrite ==
    /\ pc = "step" /\ Ok /\ ~write_end[turn] /\ Buffered(turn)
    /\ \E n \in 1..(filled[turn] - written[turn]) :
          /\ written' = [written EXCEPT ![turn] = @ + n]
          /\ forwarded' = [forwarded EXCEPT ![turn] = @ + n]
    /\ pc' = "wrote"
    /\ UNCHANGED <<now, token, filled, admitted, read_end, write_end, stalled,
                   awake, outcome, first, turn, round, progress, got, Rest>>

IoShutdown ==
    /\ pc = "step" /\ Ok /\ ~write_end[turn] /\ ~Buffered(turn) /\ read_end[turn]
    /\ pc' = "shut"
    /\ UNCHANGED <<now, token, copyVars, awake, outcome, first, turn, round,
                   progress, got, Rest>>

Remaining(d) == ByteLimit[d] - admitted[d]

\* At the limit one byte is still asked for, to tell an end from excess.
ReadRoom(d) ==
    LET most == IF Remaining(d) > 1 THEN Remaining(d) ELSE 1
    IN  IF most < MaxChunk THEN most ELSE MaxChunk

\* Zero bytes are an orderly end.
IoRead ==
    /\ pc = "step" /\ Ok /\ ~write_end[turn] /\ ~Buffered(turn) /\ ~read_end[turn]
    /\ got' \in 0..ReadRoom(turn)
    /\ pc' = "read"
    /\ UNCHANGED <<now, token, copyVars, awake, outcome, first, turn, round,
                   progress, Rest>>

AfterWrite ==
    /\ pc = "wrote"
    /\ IF Ok
       THEN LET drained == written[turn] = filled[turn]
            IN /\ idleEnd' = now + Idle
               /\ filled' = [filled EXCEPT ![turn] = IF drained THEN 0 ELSE @]
               /\ written' = [written EXCEPT ![turn] = IF drained THEN 0 ELSE @]
               /\ stalled' = [stalled EXCEPT ![turn] =
                                 IF drained THEN {} ELSE {now + Idle}]
               /\ since' = [since EXCEPT ![turn] = now] /\ moved' = now
               /\ NextTurn(TRUE)
               /\ UNCHANGED <<admitted, forwarded, read_end, write_end, awake,
                              outcome, first, round, got>>
       ELSE Close(CheckCause) /\ UNCHANGED <<idleEnd, since, moved>>
    /\ UNCHANGED <<now, token, timer, gateVars>>

AfterShutdown ==
    /\ pc = "shut"
    /\ IF Ok
       THEN /\ write_end' = [write_end EXCEPT ![turn] = TRUE]
            /\ stalled' = [stalled EXCEPT ![turn] = {}]
            /\ NextTurn(TRUE)
            /\ UNCHANGED <<filled, written, admitted, forwarded, read_end,
                           awake, outcome, first, round, got>>
       ELSE Close(CheckCause)
    /\ UNCHANGED <<now, token, Rest>>

\* More than the limit leaves room for.
Excess(d) == got > Remaining(d)

\* The check after a read, and the refusals that need no gate.
ReadStops ==
    /\ pc = "read"
    /\ \/ ~Ok /\ Close(CheckCause)
       \/ Ok /\ got > 0 /\ Excess(turn) /\ Close("LimitExceeded")
    /\ UNCHANGED <<now, token, Rest>>

\* A chunk is admitted, then shown to the gate; before_forward records it.
ReadChunk ==
    /\ pc = "read" /\ Ok /\ got > 0 /\ ~Excess(turn)
    /\ filled' = [filled EXCEPT ![turn] = got]
    /\ admitted' = [admitted EXCEPT ![turn] = @ + got]
    /\ stalled' = [stalled EXCEPT ![turn] = {now + Idle}]
    /\ since' = [since EXCEPT ![turn] = now]
    /\ pc' = "gate"
    /\ UNCHANGED <<now, token, written, forwarded, read_end, write_end, awake,
                   outcome, first, turn, round, progress, got, idleEnd, timer,
                   gateVars, moved>>

ReadEnd ==
    /\ pc = "read" /\ Ok /\ got = 0
    /\ pc' = "gate"
    /\ UNCHANGED <<now, token, copyVars, awake, outcome, first, turn, round,
                   progress, got, Rest>>

\* Observation::before_forward and before_end: required records are accepted.
GateAccepts ==
    /\ pc = "gate"
    /\ seen' = [seen EXCEPT ![turn] = @ + got]
    /\ ended' = [ended EXCEPT ![turn] = @ \/ got = 0]
    /\ pc' = "gated"
    /\ UNCHANGED <<now, token, copyVars, awake, outcome, first, turn, round,
                   progress, got, idleEnd, timer, historyVars>>

GateRefuses_BestEffort ==
    /\ pc = "gate" /\ pc' = "gated"
    /\ UNCHANGED <<now, token, copyVars, awake, outcome, first, turn, round,
                   progress, got, Rest>>

\* A refusal, for a cause of the gate's own, ends the relay.
GateRefuses ==
    /\ pc = "gate"
    /\ \E why \in GateCauses : Close(GateCause(why))
    /\ UNCHANGED <<now, token, Rest>>

AfterGate ==
    /\ pc = "gated"
    /\ IF ~Ok THEN Close(CheckCause) /\ UNCHANGED since
       ELSE /\ NextTurn(TRUE)
            /\ IF got > 0
               THEN UNCHANGED <<read_end, stalled, since>>
               ELSE /\ read_end' = [read_end EXCEPT ![turn] = TRUE]
                    /\ stalled' = [stalled EXCEPT ![turn] = {now + Idle}]
                    /\ since' = [since EXCEPT ![turn] = now]
            /\ UNCHANGED <<filled, written, admitted, forwarded, write_end,
                           awake, outcome, first, round, got>>
    /\ UNCHANGED <<now, token, idleEnd, timer, gateVars, moved>>

\* Both directions have propagated their end.
Drained == \A d \in Directions : write_end[d]

Rearm_Lifetime == {Lifetime}

\* What the timer is set to before a poll returns.
Rearm == Deadlines

\* A permanently ready peer does not keep a poll running.
Exhausted == round = MaxRounds

EndRound ==
    /\ pc = "round"
    /\ \/ Drained /\ Close("OrderlyEnd") /\ UNCHANGED timer
       \/ /\ ~Drained /\ ~progress
          /\ timer' = Rearm
          /\ IF Due(Rearm) THEN Close("Timeout")
             ELSE /\ pc' = "idle"
                  /\ UNCHANGED <<copyVars, awake, outcome, first, turn, round,
                                 progress, got>>
       \/ /\ ~Drained /\ progress
          /\ IF Exhausted
             THEN pc' = "idle" /\ awake' = TRUE /\ UNCHANGED <<turn, round, progress>>
             ELSE /\ round' = round + 1 /\ turn' = first /\ progress' = FALSE
                  /\ pc' = "step" /\ UNCHANGED awake
          /\ UNCHANGED <<copyVars, outcome, first, got, timer>>
    /\ UNCHANGED <<now, token, idleEnd, gateVars, historyVars>>
-----------------------------------------------------------------------------
RelayInit ==
    /\ now = 0 /\ token = FALSE
    /\ filled = [d \in Directions |-> 0] /\ written = [d \in Directions |-> 0]
    /\ admitted = [d \in Directions |-> 0] /\ forwarded = [d \in Directions |-> 0]
    /\ read_end = [d \in Directions |-> FALSE]
    /\ write_end = [d \in Directions |-> FALSE]
    /\ stalled = [d \in Directions |-> {}]
    /\ idleEnd = Idle /\ timer = {Idle, Lifetime} /\ awake = TRUE
    /\ outcome = [cause |-> "None", sent |-> 0, received |-> 0]
    /\ first = "out" /\ turn = "out" /\ round = 1 /\ progress = FALSE
    /\ got = 0 /\ pc = "idle"
    /\ seen = [d \in Directions |-> 0] /\ ended = [d \in Directions |-> FALSE]
    /\ since = [d \in Directions |-> 0] /\ moved = 0

Poll ==
    \/ PollStart \/ StepStop \/ StepSkip \/ IoPending \/ IoFails \/ IoWrite
    \/ IoShutdown \/ IoRead \/ AfterWrite \/ AfterShutdown \/ ReadStops
    \/ ReadChunk \/ ReadEnd \/ GateAccepts \/ GateRefuses \/ AfterGate \/ EndRound

RelayNext == Tick \/ Cancel \/ IoReady \/ Terminate \/ Poll

RelaySpec == RelayInit /\ [][RelayNext]_relayVars

\* The owner of the relay polls it when it is woken and a poll runs to its end.
FairRelaySpec == RelaySpec /\ WF_relayVars(Poll)
-----------------------------------------------------------------------------
RelayTypeOK ==
    /\ now \in Nat /\ token \in BOOLEAN
    /\ filled \in [Directions -> Nat] /\ written \in [Directions -> Nat]
    /\ admitted \in [Directions -> Nat] /\ forwarded \in [Directions -> Nat]
    /\ read_end \in [Directions -> BOOLEAN] /\ write_end \in [Directions -> BOOLEAN]
    /\ stalled \in [Directions -> SUBSET Nat]
    /\ idleEnd \in Nat /\ timer \in SUBSET Nat /\ awake \in BOOLEAN
    /\ outcome \in [cause : Causes, sent : Nat, received : Nat]
    /\ first \in Directions /\ turn \in Directions
    /\ round \in 1..MaxRounds /\ progress \in BOOLEAN /\ got \in 0..MaxChunk
    /\ pc \in {"idle", "step", "wrote", "shut", "read", "gate", "gated", "round"}
    /\ seen \in [Directions -> Nat] /\ ended \in [Directions -> BOOLEAN]
    /\ since \in [Directions -> Nat] /\ moved \in Nat

\* A direction never admits or forwards more than its limit, holds at most a
\* chunk that is not forwarded, and forwards nothing it has not admitted.
BytesBounded ==
    \A d \in Directions : /\ forwarded[d] <= admitted[d] /\ admitted[d] <= ByteLimit[d]
                          /\ admitted[d] - forwarded[d] <= MaxChunk

\* Every forwarded byte, and every propagated end, was accepted by the
\* observation gate before (step: before_forward, before_end).
ObservedFirst ==
    \A d \in Directions : forwarded[d] <= seen[d] /\ (write_end[d] => ended[d])

\* An orderly end says that both directions ended, that all admitted bytes
\* were forwarded and observed, and reports exactly those.
OrderlyMeansDrained ==
    outcome.cause = "OrderlyEnd" =>
        /\ \A d \in Directions : /\ ended[d] /\ write_end[d]
                                 /\ forwarded[d] = admitted[d] /\ seen[d] = admitted[d]
        /\ outcome.sent = admitted["out"] /\ outcome.received = admitted["in"]

Stuck(d) == Buffered(d) \/ (read_end[d] /\ ~write_end[d])

\* A call into a socket starts only while the stream may still run: no token,
\* within the lifetime, recent progress in some direction, and no direction
\* that has been stuck for the idle time, whatever the opposite one does.
IoOnlyInTime ==
    [][pc = "step" /\ pc' \in {"wrote", "shut", "read"} =>
          /\ ~token /\ now < Lifetime /\ now < moved + Idle
          /\ \A d \in Directions : Stuck(d) => now < since[d] + Idle]_relayVars

\* The outcome is final and the counts in it stay true: nothing is forwarded
\* after the end.
OutcomeFinal ==
    [][~Running => outcome' = outcome /\ forwarded' = forwarded]_relayVars

\* A relay whose deadline has passed ends without waiting for a peer, for the
\* watchdog or for more time: its own timer wakes it.
EndsAtDeadline == Due(Deadlines) ~> ~Running
=============================================================================
