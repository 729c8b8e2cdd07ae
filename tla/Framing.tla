------------------------------ MODULE Framing -------------------------------
(***************************************************************************)
(* One framed stream over the local socket, from the agent's application   *)
(* to the engine's relay: the HTTP opening and its upgrade, the frame      *)
(* codec and the Sequence both sides keep (aap-types/stream), the agent's  *)
(* attachment (aap-client/stream) and the daemon's (aap-http/stream).      *)
(*                                                                         *)
(* The wire carries pieces: a part of a header, the piece that completes a *)
(* header with its kind and length, and pieces of payload.  A write passes *)
(* one piece on and a read takes one, so that every partial header and     *)
(* payload occurs.  The engine is what module Relay says of it: it hands   *)
(* bytes to an upstream, which echoes some of them with a bounded backlog  *)
(* and then ends, and it ends itself with a terminal result.               *)
(***************************************************************************)
EXTENDS Integers, Sequences

CONSTANTS
    AppSizes,     \* how many bytes the application may have to send
    SendLimit,    \* Opened.send_limit
    ReceiveLimit, \* Opened.receive_limit
    MaxData,      \* Opened.max_data_bytes
    MaxFrames,    \* MAX_DATA_FRAMES of a direction
    Cap,          \* pieces a direction of the socket holds
    Backlog,      \* bytes the upstream holds before it echoes
    Faults        \* "stop" of the agent, "abort" of the engine, "refuse"

ASSUME FramingAssumption ==
    /\ AppSizes \subseteq Nat /\ AppSizes # {}
    /\ {SendLimit, ReceiveLimit, MaxData, MaxFrames, Cap, Backlog} \subseteq Nat \ {0}
    /\ Faults \subseteq {"stop", "abort", "refuse"}

VARIABLES
    up, dn,   \* pieces in the socket, to the daemon and to the agent
    cl,       \* the agent's attachment: stream.rs and stream/relay.rs
    sv,       \* the daemon's attachment: stream.rs and stream/framed.rs
    eng       \* the engine's side of the daemon's attachment

vars == <<up, dn, cl, sv, eng>>

-----------------------------------------------------------------------------
(* Pieces and frames.                                                      *)

Least(m, n) == IF m < n THEN m ELSE n

Part == [t |-> "part"]
Header(kind, len) == [t |-> "head", kind |-> kind, len |-> len]
Load(v) == [t |-> "load", v |-> v]

\* Frame::encode: data shares the bytes, a control frame carries one value.
encode(kind, body) ==
    <<Part, Header(kind, Len(body))>> \o [i \in 1..Len(body) |-> Load(body[i])]

NoHead   == [kind |-> "none", len |-> 0]
NoFrame  == [kind |-> "none", body |-> << >>]
BadFrame == [kind |-> "bad", body |-> << >>]

-----------------------------------------------------------------------------
(* Sequence.                                                               *)

NewSequence == [opened |-> FALSE, term |-> FALSE,
                ended |-> [agent |-> FALSE, daemon |-> FALSE],
                bytes |-> [agent |-> 0, daemon |-> 0],
                frames |-> [agent |-> 0, daemon |-> 0]]

Limit(who) == IF who = "agent" THEN SendLimit ELSE ReceiveLimit

check_header(s, who, h) ==
    /\ ~s.term
    /\ who = "agent" => h.kind \in {"data", "end"}
    /\ h.kind = "opened" => ~s.opened
    /\ h.kind \in {"data", "end"} => s.opened /\ ~s.ended[who]
    /\ h.kind = "data" => /\ h.len <= MaxData /\ s.frames[who] < MaxFrames
                          /\ h.len <= Limit(who) - s.bytes[who]

check_terminal(s, v) ==
    /\ v.sent <= s.bytes["agent"] /\ v.received <= s.bytes["daemon"]
    /\ v.state = "completed" =>
          /\ s.opened /\ s.ended["agent"] /\ s.ended["daemon"]
          /\ v.sent = s.bytes["agent"] /\ v.received = s.bytes["daemon"]
    /\ s.opened /\ v.state # "completed" => v.state = "unknown"

Acceptable(s, who, f) ==
    /\ check_header(s, who, [kind |-> f.kind, len |-> Len(f.body)])
    /\ f.kind = "terminal" => check_terminal(s, f.body[1])

accept(s, who, f) ==
    CASE f.kind = "opened"   -> [s EXCEPT !.opened = TRUE]
      [] f.kind = "data"     -> [s EXCEPT !.bytes[who] = @ + Len(f.body),
                                               !.frames[who] = @ + 1]
      [] f.kind = "end"      -> [s EXCEPT !.ended[who] = TRUE]
      [] f.kind = "terminal" -> [s EXCEPT !.term = TRUE]

-----------------------------------------------------------------------------
(* Decoder: one piece at a time; a whole frame advances the Sequence.      *)

NewDecoder == [part |-> FALSE, head |-> NoHead, body |-> << >>]

Admits(d, s, who, p) ==
    /\ ~s.term /\ (who = "agent" => s.opened)
    /\ CASE p.t = "part" -> ~d.part
         [] p.t = "head" -> d.part /\ d.head = NoHead /\ check_header(s, who, p)
         [] p.t = "load" -> d.head # NoHead /\ check_header(s, who, d.head)

\* The header, and the frame as far as it has come with the piece p.
HeadWith(d, p) == IF p.t = "head" THEN [kind |-> p.kind, len |-> p.len] ELSE d.head
BodyWith(d, p) == IF p.t = "load" THEN Append(d.body, p.v) ELSE d.body

\* The frame that p completes, none, or a bad one.
decode(d, s, who, p) ==
    IF ~Admits(d, s, who, p) THEN BadFrame
    ELSE IF p.t = "part" \/ Len(BodyWith(d, p)) < HeadWith(d, p).len THEN NoFrame
    ELSE LET f == [kind |-> HeadWith(d, p).kind, body |-> BodyWith(d, p)]
         IN IF Acceptable(s, who, f) THEN f ELSE BadFrame

Decoded(d, s, who, p) ==
    IF decode(d, s, who, p) = NoFrame
      THEN [part |-> TRUE, head |-> HeadWith(d, p), body |-> BodyWith(d, p)]
      ELSE NewDecoder

-----------------------------------------------------------------------------
(* The socket.                                                             *)

Fits(wire)   == Len(wire) < Cap
Gone(side)   == ~side.io

NoTerminal == [state |-> "none", sent |-> 0, received |-> 0]

NewClient == [pc |-> "idle", size |-> 0, io |-> FALSE, seq |-> NewSequence, dec |-> NewDecoder,
              out |-> << >>, sent |-> 0, read |-> 0, inn |-> << >>, got |-> << >>,
              sentEnd |-> FALSE, recvEnd |-> FALSE, result |-> NoTerminal]
NewServer == [pc |-> "prelude", io |-> FALSE, seq |-> NewSequence, dec |-> NewDecoder,
              pend |-> << >>, out |-> << >>, started |-> FALSE, failed |-> "no",
              retired |-> FALSE]
NewEngine == [took |-> << >>, gave |-> 0, cut |-> 0, endIn |-> FALSE, endOut |-> FALSE,
              aborted |-> FALSE, term |-> NoTerminal]

\* Dropping an owner closes its end; what it wrote can still be read.
ClientEnds(r) == [NewClient EXCEPT !.pc = "done", !.result = r, !.got = cl.got,
                                   !.size = cl.size]
ServerEnds == [NewServer EXCEPT !.pc = "done", !.failed = sv.failed]
Error(state) == [NoTerminal EXCEPT !.state = state]

-----------------------------------------------------------------------------
(* The opening: one request, checked on both sides, and one response.      *)

\* open_once: connect and write the request.
\* The application has n bytes; the upstream will echo k of them and then end.
C_Ask(n, k) ==
    /\ cl.pc = "idle" /\ k <= n
    /\ cl' = [cl EXCEPT !.pc = "asked", !.io = TRUE, !.size = n]
    /\ sv' = [sv EXCEPT !.io = TRUE]
    /\ eng' = [eng EXCEPT !.cut = k]
    /\ up' = <<[t |-> "request"]>>
    /\ UNCHANGED dn

\* prepare and serve: the whole request and nothing after it, then the
\* admission.  A request that is known or refused is answered and closed; one
\* whose operation ends before the upgrade is written is closed unanswered.
S_Admit ==
    /\ sv.pc = "prelude" /\ up # << >>
    /\ up' = << >>
    /\ \/ /\ dn' = <<[t |-> "upgrade"]>>
          /\ sv' = [sv EXCEPT !.pc = "connecting"]
       \/ /\ "refuse" \in Faults
          /\ dn' = <<[t |-> "json"]>>
          /\ sv' = ServerEnds
       \/ /\ "abort" \in Faults
          /\ sv' = ServerEnds
          /\ UNCHANGED dn
    /\ UNCHANGED <<cl, eng>>

\* validate on the agent's side: an upgrade, or a status that ends the call.
C_Answered ==
    /\ cl.pc = "asked" /\ dn # << >>
    /\ cl' = IF dn[1].t = "upgrade" THEN [cl EXCEPT !.pc = "pending"]
                                    ELSE ClientEnds(Error("answered"))
    /\ dn' = Tail(dn)
    /\ UNCHANGED <<up, sv, eng>>

-----------------------------------------------------------------------------
(* serve_upgraded until OPENED is written.                                 *)

\* PendingStream::connect: approval, addresses and dialing are the engine's.
S_Connect ==
    /\ sv.pc = "connecting"
    /\ \/ /\ sv' = [sv EXCEPT !.pc = "opening", !.out = encode("opened", <<0>>)]
          /\ UNCHANGED eng
       \/ /\ "refuse" \in Faults \/ eng.aborted
          /\ eng' = [eng EXCEPT !.term = Error("failed")]
          /\ sv' = [sv EXCEPT !.pc = "final", !.out = encode("terminal", <<eng'.term>>)]
    /\ UNCHANGED <<up, dn, cl>>

\* forbidden: input, or the end of it, before OPENED was written.
S_Forbidden ==
    /\ sv.pc \in {"connecting", "opening"} /\ ~eng.aborted
    /\ up # << >> \/ Gone(cl)
    /\ eng' = [eng EXCEPT !.aborted = TRUE]
    /\ sv' = IF sv.pc = "opening" THEN ServerEnds ELSE sv
    /\ UNCHANGED <<up, dn, cl>>

\* abort.terminated(): the engine has ended the operation meanwhile.
S_Terminated ==
    /\ sv.pc = "opening" /\ (eng.aborted \/ "abort" \in Faults)
    /\ sv' = ServerEnds
    /\ UNCHANGED <<up, dn, cl, eng>>

\* The 310 s of connecting, the lifetime of the relay, the 2 s of the end.
S_Deadline ==
    /\ sv.pc \in {"connecting", "relay", "final"} /\ "abort" \in Faults
    /\ sv' = ServerEnds
    /\ UNCHANGED <<up, dn, cl, eng>>

S_Writes == sv.out # << >> /\ Fits(dn) /\ ~Gone(cl) /\ dn' = Append(dn, sv.out[1])

\* write_opened, and then framed::channel.
S_WriteOpened ==
    /\ sv.pc = "opening" /\ ~eng.aborted /\ up = << >> /\ S_Writes
    /\ sv' = IF Len(sv.out) = 1
               THEN [sv EXCEPT !.out = << >>, !.pc = "relay", !.seq.opened = TRUE]
               ELSE [sv EXCEPT !.out = Tail(@)]
    /\ UNCHANGED <<up, cl, eng>>

-----------------------------------------------------------------------------
(* framed.rs: what the engine's relay does through ApplicationIo.          *)

Attached == sv.pc = "relay" /\ ~sv.retired /\ sv.failed = "no"

\* capture: bad input of the agent, own output over a limit, or a lost socket.
Fail(x, error) == [x EXCEPT !.failed = error]

\* What the upstream holds and will still give.
Echo == Least(Len(eng.took), eng.cut) - eng.gave

\* watch_end: once the agent has ended, any input or the loss of it is fatal.
\* (Control::fault looks before and after each poll of the relay.)
S_WatchEnd ==
    /\ Attached /\ sv.seq.ended["agent"] /\ (up # << >> \/ Gone(cl))
    /\ sv' = Fail(sv, IF up # << >> THEN "input" ELSE "lost")
    /\ UNCHANGED <<up, dn, cl, eng>>

\* read: bytes that are pending, else the end, else the next piece.
S_Give ==
    /\ Attached /\ sv.pend # << >> /\ Echo < Backlog
    /\ eng' = [eng EXCEPT !.took = Append(@, sv.pend[1])]
    /\ sv' = [sv EXCEPT !.pend = Tail(@)]
    /\ UNCHANGED <<up, dn, cl>>

S_GiveEnd ==
    /\ Attached /\ sv.pend = << >> /\ sv.seq.ended["agent"] /\ ~eng.endIn
    /\ up = << >> /\ ~Gone(cl)
    /\ eng' = [eng EXCEPT !.endIn = TRUE]
    /\ UNCHANGED <<up, dn, cl, sv>>

NextPiece_Ahead == ~sv.seq.ended["agent"]
NextPiece == sv.pend = << >> /\ ~sv.seq.ended["agent"]

S_Read ==
    /\ Attached /\ NextPiece
    /\ IF up # << >>
         THEN LET f == decode(sv.dec, sv.seq, "agent", up[1])
              IN /\ up' = Tail(up)
                 /\ sv' = CASE f = BadFrame -> Fail(sv, "input")
                            [] f = NoFrame -> [sv EXCEPT !.dec = Decoded(sv.dec, sv.seq, "agent", up[1])]
                            [] OTHER -> [sv EXCEPT !.dec = Decoded(sv.dec, sv.seq, "agent", up[1]), !.pend = f.body,
                                                   !.seq = accept(@, "agent", f)]
         ELSE Gone(cl) /\ sv' = Fail(sv, "lost") /\ UNCHANGED up
    /\ UNCHANGED <<dn, cl, eng>>

\* write: a frame is begun for what the engine offers, and accepted then.
S_Begin(n) ==
    /\ Attached /\ sv.out = << >> /\ n \in 1..MaxData /\ n <= Echo
    /\ LET f == [kind |-> "data", body |-> SubSeq(eng.took, eng.gave + 1, eng.gave + n)]
       IN sv' = IF Acceptable(sv.seq, "daemon", f)
                  THEN [sv EXCEPT !.out = encode("data", f.body), !.started = FALSE,
                                  !.seq = accept(@, "daemon", f)]
                  ELSE Fail(sv, "limit")
    /\ UNCHANGED <<up, dn, cl, eng>>

\* end: the upstream has ended; its other direction may still go on.
S_BeginEnd ==
    /\ Attached /\ sv.out = << >> /\ eng.gave = eng.cut /\ ~sv.seq.ended["daemon"]
    /\ sv' = [sv EXCEPT !.out = encode("end", << >>), !.started = FALSE,
                        !.seq = accept(@, "daemon", [kind |-> "end", body |-> << >>])]
    /\ UNCHANGED <<up, dn, cl, eng>>

\* header and payload; only payload counts as accepted from the engine.
S_Write ==
    /\ Attached /\ S_Writes
    /\ eng' = [eng EXCEPT !.gave = IF sv.out[1].t = "load" THEN @ + 1 ELSE @,
                          !.endOut = @ \/ (Len(sv.out) = 1 /\ sv.out[1].t = "head")]
    /\ sv' = [sv EXCEPT !.out = Tail(@), !.started = TRUE]
    /\ UNCHANGED <<up, cl>>

S_WriteFails ==
    /\ Attached /\ sv.out # << >> /\ Gone(cl)
    /\ sv' = Fail(sv, "lost")
    /\ UNCHANGED <<up, dn, cl, eng>>

-----------------------------------------------------------------------------
(* The engine's result, and Control::finish.                               *)

Ended(v) ==
    /\ eng' = [eng EXCEPT !.term = v]
    /\ sv' = [sv EXCEPT !.retired = TRUE, !.pend = << >>, !.dec = NewDecoder]

\* Both directions have ended and all bytes are through.
E_Complete ==
    /\ Attached /\ eng.endIn /\ eng.endOut
    /\ Ended([state |-> "completed", sent |-> Len(eng.took), received |-> eng.gave])
    /\ UNCHANGED <<up, dn, cl>>

\* The attachment failed, or the engine's own reasons; of what it took it may
\* have written less to the upstream.
E_Abort(s) ==
    /\ sv.pc = "relay" /\ ~sv.retired /\ (sv.failed # "no" \/ "abort" \in Faults)
    /\ Ended([state |-> "unknown", sent |-> s, received |-> eng.gave])
    /\ UNCHANGED <<up, dn, cl>>

MayFinish_Discards == TRUE

\* A frame that has begun on the wire is never cut short by the terminal.
MayFinish == sv.out # << >> => ~sv.started /\ eng.term.state # "completed"

S_Finish ==
    /\ sv.pc = "relay" /\ sv.retired
    /\ LET f == [kind |-> "terminal", body |-> <<eng.term>>]
       IN sv' = IF MayFinish /\ Acceptable(sv.seq, "daemon", f)
                  THEN [sv EXCEPT !.pc = "final", !.out = encode("terminal", f.body),
                                  !.seq = accept(@, "daemon", f)]
                  ELSE ServerEnds
    /\ UNCHANGED <<up, dn, cl, eng>>

S_WriteFinal ==
    /\ sv.pc = "final"
    /\ \/ /\ S_Writes
          /\ sv' = IF Len(sv.out) = 1 THEN ServerEnds
                                      ELSE [sv EXCEPT !.out = Tail(@)]
       \/ /\ Gone(cl)
          /\ sv' = ServerEnds
          /\ UNCHANGED dn
    /\ UNCHANGED <<up, cl, eng>>

-----------------------------------------------------------------------------
(* The agent's attachment: connect, then the relay's two turns.            *)

\* A result is believed when nothing follows it, and a Completed one only
\* when this side has ended both ways.
Believes(c, v) ==
    Len(dn) = 1 /\ v.sent <= c.sent /\ (v.state = "completed" => c.sentEnd /\ c.recvEnd /\ c.out = << >>)

\* What a frame does to the attachment.
Received(c, f) ==
    CASE f.kind = "opened" -> [c EXCEPT !.pc = "opened"]
      [] f.kind = "data"   -> [c EXCEPT !.inn = f.body]
      [] f.kind = "end"    -> c
      [] f.kind = "terminal" ->
            IF Believes(c, f.body[1]) THEN ClientEnds(f.body[1])
                                      ELSE ClientEnds(Error("rejected"))

Reads_Turns == cl.pc = "pending" \/ (cl.pc = "relay" /\ cl.inn = << >> /\ cl.out = << >> /\
                                     (cl.seq.ended["daemon"] => cl.recvEnd))

Reads == cl.pc = "pending" \/ (cl.pc = "relay" /\ cl.inn = << >> /\
                               (cl.seq.ended["daemon"] => cl.recvEnd))

\* Reader::next, on the turn of input.
C_Read ==
    /\ Reads /\ dn # << >>
    /\ LET f == decode(cl.dec, cl.seq, "daemon", dn[1])
       IN cl' = CASE f = BadFrame -> ClientEnds(Error("rejected"))
                  [] f = NoFrame -> [cl EXCEPT !.dec = Decoded(cl.dec, cl.seq, "daemon", dn[1])]
                  [] OTHER -> Received([cl EXCEPT !.dec = Decoded(cl.dec, cl.seq, "daemon", dn[1]),
                                                  !.seq = accept(@, "daemon", f)], f)
    /\ dn' = Tail(dn)
    /\ UNCHANGED <<up, sv, eng>>

C_Eof ==
    /\ cl.pc = "asked" \/ Reads
    /\ dn = << >> /\ Gone(sv) /\ sv.pc = "done"
    /\ cl' = ClientEnds(Error("lost"))
    /\ UNCHANGED <<up, dn, sv, eng>>

\* ConnectedStream::relay attaches the application.
C_Attach ==
    /\ cl.pc = "opened"
    /\ cl' = [cl EXCEPT !.pc = "relay"]
    /\ UNCHANGED <<up, dn, sv, eng>>

\* The application takes bytes, then the end.
C_Deliver ==
    /\ cl.pc = "relay" /\ cl.inn # << >>
    /\ cl' = [cl EXCEPT !.got = Append(@, cl.inn[1]), !.inn = Tail(@)]
    /\ UNCHANGED <<up, dn, sv, eng>>

C_DeliverEnd ==
    /\ cl.pc = "relay" /\ cl.inn = << >> /\ cl.seq.ended["daemon"] /\ ~cl.recvEnd
    /\ cl' = [cl EXCEPT !.recvEnd = TRUE]
    /\ UNCHANGED <<up, dn, sv, eng>>

\* What the application may be asked for: at least one byte, so that one past
\* the budget is told from the end.
Room_Exact == Least(MaxData, SendLimit - cl.read)
Room == Least(MaxData, IF cl.read < SendLimit THEN SendLimit - cl.read ELSE 1)

\* The turn of output without a frame under way: what the application gives
\* is accepted by the Sequence before a byte of it is written.
C_Take(n) ==
    /\ cl.pc = "relay" /\ ~cl.sentEnd /\ cl.out = << >>
    /\ LET have == Least(Room, cl.size - cl.read)
           f == [kind |-> IF n = 0 THEN "end" ELSE "data", body |-> [i \in 1..n |-> cl.read + i]]
       IN /\ n <= have /\ (n = 0 => have = 0)
          /\ cl' = IF n > SendLimit - cl.read \/ ~Acceptable(cl.seq, "agent", f)
                     THEN ClientEnds(Error("limit"))
                     ELSE [cl EXCEPT !.read = @ + n, !.seq = accept(@, "agent", f),
                                     !.out = encode(f.kind, f.body)]
    /\ UNCHANGED <<up, dn, sv, eng>>

\* The turn of output with a frame under way.  The last piece of an END
\* header commits the end of this direction in the same step.
Written_EndLater(c) ==
    [c EXCEPT !.out = Tail(@), !.sent = IF c.out[1].t = "load" THEN @ + 1 ELSE @]

Written(c) ==
    [c EXCEPT !.out = Tail(@),
              !.sent = IF c.out[1].t = "load" THEN @ + 1 ELSE @,
              !.sentEnd = Len(c.out) = 1 /\ c.out[1].t = "head"]

C_Write ==
    /\ cl.pc = "relay" /\ cl.out # << >> /\ Fits(up) /\ ~Gone(sv)
    /\ up' = Append(up, cl.out[1])
    /\ cl' = Written(cl)
    /\ UNCHANGED <<dn, sv, eng>>

C_WriteFails ==
    /\ cl.pc = "relay" /\ cl.out # << >> /\ Gone(sv)
    /\ cl' = ClientEnds(Error("lost"))
    /\ UNCHANGED <<up, dn, sv, eng>>

\* Shared::stop: a deadline, an abort or the owner's drop takes the state
\* from under whichever task is polling it.
C_Stop ==
    /\ "stop" \in Faults /\ cl.pc \in {"asked", "pending", "opened", "relay"}
    /\ cl' = ClientEnds(Error("stopped"))
    /\ UNCHANGED <<up, dn, sv, eng>>

-----------------------------------------------------------------------------
(* The specification.                                                      *)

Init == up = << >> /\ dn = << >> /\ cl = NewClient /\ sv = NewServer /\ eng = NewEngine

ClientInput  == C_Attach \/ C_Read \/ C_Eof \/ C_Deliver \/ C_DeliverEnd
ClientOutput == C_Write \/ C_WriteFails \/ \E n \in 0..MaxData : C_Take(n)
Opening      == \/ \E n \in AppSizes : \E k \in 0..n : C_Ask(n, k)
                \/ S_Admit \/ C_Answered \/ S_Connect \/ S_Forbidden \/ S_Terminated
                \/ S_WriteOpened
ServerInput  == S_Give \/ S_GiveEnd \/ S_Read \/ S_WatchEnd
ServerOutput == S_BeginEnd \/ S_Write \/ S_WriteFails \/ \E n \in 1..MaxData : S_Begin(n)
Finishing    == E_Complete \/ S_Finish \/ S_WriteFinal

EngineAborts == \E s \in 0..Len(eng.took) : E_Abort(s)

Next ==
    \/ ClientInput \/ ClientOutput \/ Opening \/ ServerInput \/ ServerOutput \/ Finishing
    \/ EngineAborts \/ S_Deadline \/ C_Stop

Spec == Init /\ [][Next]_vars

\* Both sides poll both of their directions in turn; no deadline is needed.
FairSpec ==
    /\ Spec
    /\ WF_vars(ClientInput) /\ WF_vars(ClientOutput) /\ WF_vars(Opening)
    /\ WF_vars(ServerInput) /\ WF_vars(ServerOutput) /\ WF_vars(Finishing)
    /\ WF_vars(sv.failed # "no" /\ EngineAborts)

-----------------------------------------------------------------------------
(* Properties.                                                             *)

\* Neither side ever takes the other for one that breaks the protocol: no
\* frame is refused, no terminal splices into a frame, and a Completed
\* result is never disbelieved because it came quicker than the bookkeeping
\* of the END that caused it.
NoFalseAlarm ==
    /\ cl.result.state # "rejected"
    /\ sv.failed # "input"

Prefix(s, t) == Len(s) <= Len(t) /\ s = SubSeq(t, 1, Len(s))

\* The upstream gets the application's bytes in order and once, and the
\* application the upstream's, however the frames were cut.
BytesInOrder ==
    /\ \A i \in DOMAIN eng.took : eng.took[i] = i
    /\ Prefix(cl.got, eng.took)

\* A Completed result means that all the application sent has reached the
\* upstream, and all the upstream sent has reached the application.
CompletedMeansAll ==
    cl.result.state = "completed" =>
       /\ Len(eng.took) = cl.size /\ cl.result.sent = cl.size
       /\ Len(cl.got) = eng.cut /\ cl.result.received = eng.cut

\* Every stream ends on both sides, although each blocks on a full socket
\* and the upstream takes nothing before its echo has been read.
StreamEnds == <>(cl.pc = "done" /\ sv.pc = "done")
=============================================================================
